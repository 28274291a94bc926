----------------------------- MODULE SeatInput -----------------------------
(***************************************************************************)
(* Seat input in the bridge core: the devices it takes (one of each kind,  *)
(* from the first seat that has it), the focus it keeps for each, the      *)
(* decoding of wl_keyboard, wl_pointer and wl_touch events into            *)
(* InputEvents, and the queue the shim polls.                              *)
(*                                                                         *)
(* The handle field of a *_leave, *_input or touch_cancel message is not   *)
(* on the wire: it is the app the compositor meant, which the handlers     *)
(* never read; it is kept with the decoded event as its target.            *)
(***************************************************************************)
EXTENDS Wire

Kind == {"Key", "PointerFocus", "Pointer", "Touch"}

\* One decoded event: handle and kind as the shim sees them (Key stands for Key
\* and Modifiers, Pointer for motion, button and axis); target and stamp are the
\* app the compositor meant and the position of the event in what it sent.
InputEvent == [handle: Handle, kind: Kind, target: 0..MaxApps, stamp: 0..MaxSerial]

VARIABLES
    live,          \* the keys of apps, and the values of the three object maps
    devices,       \* the devices with a Some: keyboard, pointer, touch
    focus,         \* device -> focused handle, or None
    input_queue,   \* decoded events awaiting a poll
    polled         \* the stamp of the last event the shim was given

seatVars == <<devices, focus, input_queue, polled>>

SeatTypeOK ==
    /\ live \subseteq Handle
    /\ devices \subseteq Device
    /\ focus \in [Device -> 0..MaxApps]
    /\ input_queue \in Seq(InputEvent)
    /\ polled \in 0..MaxSerial

SeatInit ==
    /\ devices = {}
    /\ focus = [d \in Device |-> None]
    /\ input_queue = <<>>
    /\ polled = 0

-----------------------------------------------------------------------------
\* surface_to_handle: the app of a surface, unless it has been closed.
SurfaceHandle(h) == IF h \in live THEN h ELSE None

\* push_event, for an event that has a handle to go to.
PushEvent(h, kind, m) ==
    input_queue' =
        IF h = None THEN input_queue
        ELSE Append(input_queue,
                    [handle |-> h, kind |-> kind, target |-> m.handle, stamp |-> m.serial])

\* Faulty variant: a focus change to an app that is gone keeps the former focus.
SetFocusIfKnown(d, h) == focus' = IF h = None THEN focus ELSE [focus EXCEPT ![d] = h]

\* The focus of a device.
SetFocus(d, h) == focus' = [focus EXCEPT ![d] = h]

\* Faulty variant: a device is taken each time a seat that has it is announced.
GetDeviceAgain(s, d, type) ==
    IF d \in Capabilities(s) THEN <<Msg(type, None, None, 0, s)>> ELSE <<>>

\* A device is taken from a seat that has it, unless one of its kind is held already.
GetDevice(s, d, type) ==
    IF d \in Capabilities(s) \ devices THEN <<Msg(type, None, None, 0, s)>> ELSE <<>>

\* A seat tells what it has: each device of a kind not held yet is taken from it.
OnCapabilities ==
    LET s == NextEvent.serial IN
    /\ NextEvent.type = "capabilities"
    /\ DropEvent
    /\ Emit(GetDevice(s, "keyboard", "get_keyboard")
            \o GetDevice(s, "pointer", "get_pointer")
            \o GetDevice(s, "touch", "get_touch"))
    /\ devices' = devices \union Capabilities(s)
    /\ UNCHANGED <<flushed, conn, focus, input_queue, polled>>

\* Faulty variant: seats are bound at startup only.
OnGlobalIgnored ==
    /\ NextEvent.type = "global"
    /\ DropEvent
    /\ UNCHANGED <<reqs, flushed, conn, seatVars>>

\* A registry event announces another seat: bind it too.
OnGlobal ==
    /\ NextEvent.type = "global"
    /\ DropEvent
    /\ Emit(<<Msg("bind_seat", None, None, 0, NextEvent.serial)>>)
    /\ UNCHANGED <<flushed, conn, seatVars>>

-----------------------------------------------------------------------------
(* Keyboard.                                                                *)

OnKeyboardEnter ==
    /\ NextEvent.type = "keyboard_enter"
    /\ DropEvent
    /\ SetFocus("keyboard", SurfaceHandle(NextEvent.handle))
    /\ UNCHANGED <<reqs, flushed, conn, devices, input_queue, polled>>

OnKeyboardLeave ==
    /\ NextEvent.type = "keyboard_leave"
    /\ DropEvent
    /\ SetFocus("keyboard", None)
    /\ UNCHANGED <<reqs, flushed, conn, devices, input_queue, polled>>

OnKeyboardInput ==
    /\ NextEvent.type = "keyboard_input"
    /\ DropEvent
    /\ PushEvent(focus["keyboard"], "Key", NextEvent)
    /\ UNCHANGED <<reqs, flushed, conn, devices, focus, polled>>

(* Pointer: focus changes are events of their own.                          *)

OnPointerEnter ==
    /\ NextEvent.type = "pointer_enter"
    /\ DropEvent
    /\ SetFocus("pointer", SurfaceHandle(NextEvent.handle))
    /\ PushEvent(SurfaceHandle(NextEvent.handle), "PointerFocus", NextEvent)
    /\ UNCHANGED <<reqs, flushed, conn, devices, polled>>

OnPointerLeave ==
    /\ NextEvent.type = "pointer_leave"
    /\ DropEvent
    /\ SetFocus("pointer", None)
    /\ PushEvent(focus["pointer"], "PointerFocus", NextEvent)
    /\ UNCHANGED <<reqs, flushed, conn, devices, polled>>

OnPointerInput ==
    /\ NextEvent.type = "pointer_input"
    /\ DropEvent
    /\ PushEvent(focus["pointer"], "Pointer", NextEvent)
    /\ UNCHANGED <<reqs, flushed, conn, devices, focus, polled>>

(* Touch: every down sets the focus; up leaves it; cancel clears it.        *)

OnTouchDown ==
    /\ NextEvent.type = "touch_down"
    /\ DropEvent
    /\ SetFocus("touch", SurfaceHandle(NextEvent.handle))
    /\ PushEvent(SurfaceHandle(NextEvent.handle), "Touch", NextEvent)
    /\ UNCHANGED <<reqs, flushed, conn, devices, polled>>

OnTouchInput ==
    /\ NextEvent.type = "touch_input"
    /\ DropEvent
    /\ PushEvent(focus["touch"], "Touch", NextEvent)
    /\ UNCHANGED <<reqs, flushed, conn, devices, focus, polled>>

OnTouchCancel ==
    /\ NextEvent.type = "touch_cancel"
    /\ DropEvent
    /\ SetFocus("touch", None)
    /\ UNCHANGED <<reqs, flushed, conn, devices, input_queue, polled>>

OnSeatEvent ==
    \/ OnCapabilities \/ OnGlobal
    \/ OnKeyboardEnter \/ OnKeyboardLeave \/ OnKeyboardInput
    \/ OnPointerEnter \/ OnPointerLeave \/ OnPointerInput
    \/ OnTouchDown \/ OnTouchInput \/ OnTouchCancel

-----------------------------------------------------------------------------
\* Faulty variant: what does not fit into the shim's buffer is drained as well.
DrainAll(cap) ==
    LET n == IF Len(input_queue) < cap THEN Len(input_queue) ELSE cap
    IN  /\ input_queue' = <<>>
        /\ polled' = IF n = 0 THEN polled ELSE input_queue[n].stamp
        /\ UNCHANGED <<devices, focus>>

\* poll_input with room for cap events: the oldest are handed over in order.
Drain(cap) ==
    LET n == IF Len(input_queue) < cap THEN Len(input_queue) ELSE cap
    IN  /\ input_queue' = SubSeq(input_queue, n + 1, Len(input_queue))
        /\ polled' = IF n = 0 THEN polled ELSE input_queue[n].stamp
        /\ UNCHANGED <<devices, focus>>
=============================================================================
