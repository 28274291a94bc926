---------------------------- MODULE NestedWeston ----------------------------
(***************************************************************************)
(* The nested Weston compositor, the peer of the bridge: external to this  *)
(* repository, modelled as the Wayland and xdg-shell protocols and the     *)
(* bridge's use of them let it behave.  It takes requests from the socket  *)
(* in order, and may at any time send the events the protocol allows.      *)
(***************************************************************************)
EXTENDS Wire, FiniteSets

CONSTANTS
    MaxConfigures,   \* configures sent to one toplevel
    MaxPings,        \* pings sent
    MaxSeatEvents,   \* focus changes and inputs sent
    MaxTouch,        \* fingers down at a time
    Closable,        \* apps whose window the user may close
    MayCrash         \* whether the compositor may die

ASSUME WestonAssumption ==
    /\ MaxConfigures \in 0..MaxSerial /\ MaxPings \in 0..MaxSerial
    /\ MaxSeatEvents \in 0..MaxSerial /\ MaxTouch \in Nat
    /\ Closable \subseteq Handle /\ MayCrash \in BOOLEAN

Token == [handle: Handle, pool: Pool, slot: Slot]
Tok(m) == [handle |-> m.handle, pool |-> m.pool, slot |-> m.slot]

VARIABLES
    alive,         \* the compositor process runs
    violated,      \* the client has made a protocol error
    role,          \* handle -> how far its surface is built: "none", "surface",
                   \* "xdg_surface" or "toplevel"
    sent, acked,   \* handle -> last configure serial sent, and acknowledged
    pools,         \* the pools that exist here, as <<handle, pool>>
    held,          \* buffers the compositor may still read
    current,       \* handle -> the buffer last committed, as a set of at most one
    closing,       \* apps asked to close
    pings, pongs,  \* pings sent and answered
    seats,         \* seats the compositor has, numbered as they appear
    described,     \* the seats the client has bound
    bound,         \* seat -> device -> how many objects the client has for it
    seat_focus,    \* seat -> device -> the app it is on, or None
    fingers,       \* seat -> fingers that are down
    stamp          \* seat events sent so far

clientVars == <<violated, role, sent, acked, pools, held, current, closing,
                pings, pongs, bound, seat_focus, fingers, described>>
westonVars == <<alive, seats, stamp, clientVars>>

WestonTypeOK ==
    /\ alive \in BOOLEAN /\ violated \in BOOLEAN
    /\ role \in [Handle -> {"none", "surface", "xdg_surface", "toplevel"}]
    /\ sent \in [Handle -> 0..MaxSerial] /\ acked \in [Handle -> 0..MaxSerial]
    /\ pools \subseteq Handle \X Pool
    /\ held \subseteq Token
    /\ current \in [Handle -> SUBSET Token]
    /\ closing \subseteq Handle
    /\ pings \in 0..MaxSerial /\ pongs \in Nat
    /\ seats \in 0..MaxSeats
    /\ described \subseteq Seat
    /\ bound \in [Seat -> [Device -> Nat]]
    /\ seat_focus \in [Seat -> [Device -> 0..MaxApps]]
    /\ fingers \in [Seat -> 0..MaxTouch]
    /\ stamp \in 0..MaxSerial

NoClient ==
    /\ violated = FALSE
    /\ role = [h \in Handle |-> "none"]
    /\ sent = [h \in Handle |-> 0] /\ acked = [h \in Handle |-> 0]
    /\ pools = {} /\ held = {} /\ current = [h \in Handle |-> {}]
    /\ closing = {}
    /\ pings = 0 /\ pongs = 0
    /\ described = {}
    /\ bound = [s \in Seat |-> [d \in Device |-> 0]]
    /\ seat_focus = [s \in Seat |-> [d \in Device |-> None]]
    /\ fingers = [s \in Seat |-> 0]

WestonInit == NoClient /\ alive = TRUE /\ seats = 0 /\ stamp = 0

-----------------------------------------------------------------------------
(* Requests.  Every Accept action takes the oldest request in the socket.   *)

Oldest == Head(reqs)

\* A request the protocol forbids: the compositor drops the client.
ProtocolError(ok) ==
    /\ ~ok
    /\ violated' = TRUE
    /\ PeerGone
    /\ UNCHANGED <<evs, read, alive, seats, stamp, role, sent, acked, pools, held,
                   current, closing, pings, pongs, bound, seat_focus, fingers, described>>

\* create_surface, get_xdg_surface, get_toplevel and the first, empty, commit.
AcceptCreate ==
    /\ Oldest.type = "create"
    /\ role' = [role EXCEPT ![Oldest.handle] = "toplevel"]
    /\ UNCHANGED <<evs, read, conn, alive, seats, stamp, violated, sent, acked, pools,
                   held, current, closing, pings, pongs, bound, seat_focus, fingers, described>>

AcceptCreatePool ==
    /\ Oldest.type = "create_pool"
    /\ pools' = pools \union {<<Oldest.handle, Oldest.pool>>}
    /\ UNCHANGED <<evs, read, conn, alive, seats, stamp, violated, role, sent, acked,
                   held, current, closing, pings, pongs, bound, seat_focus, fingers, described>>

\* attach, damage_buffer and commit: the buffer must exist and the first configure
\* must have been acknowledged.
FrameAllowed(m) ==
    /\ role[m.handle] = "toplevel" /\ acked[m.handle] > 0
    /\ <<m.handle, m.pool>> \in pools

AcceptFrame ==
    /\ Oldest.type = "frame"
    /\ \/ ProtocolError(FrameAllowed(Oldest))
       \/ /\ FrameAllowed(Oldest)
          /\ held' = held \union {Tok(Oldest)}
          /\ current' = [current EXCEPT ![Oldest.handle] = {Tok(Oldest)}]
          /\ UNCHANGED <<evs, read, conn, alive, seats, stamp, violated, role, sent, acked,
                         pools, closing, pings, pongs, bound, seat_focus, fingers, described>>

\* The buffers of the pool are gone; they will not be released any more.
AcceptDestroyPool ==
    LET gone == {b \in Token : b.handle = Oldest.handle /\ b.pool = Oldest.pool} IN
    /\ Oldest.type = "destroy_pool"
    /\ pools' = pools \ {<<Oldest.handle, Oldest.pool>>}
    /\ held' = held \ gone
    /\ current' = [current EXCEPT ![Oldest.handle] = @ \ gone]
    /\ UNCHANGED <<evs, read, conn, alive, seats, stamp, violated, role, sent, acked,
                   closing, pings, pongs, bound, seat_focus, fingers, described>>

\* The objects of a window go in the order toplevel, xdg_surface, surface.
AcceptDestroy(type, before, after) ==
    /\ Oldest.type = type
    /\ \/ ProtocolError(role[Oldest.handle] = before)
       \/ /\ role[Oldest.handle] = before
          /\ role' = [role EXCEPT ![Oldest.handle] = after]
          /\ seat_focus' = [s \in Seat |-> [d \in Device |->
                 IF after = "none" /\ seat_focus[s][d] = Oldest.handle
                 THEN None ELSE seat_focus[s][d]]]
          /\ UNCHANGED <<evs, read, conn, alive, seats, stamp, violated, sent, acked, pools,
                         held, current, closing, pings, pongs, bound, fingers, described>>

AcceptDestroyWindow ==
    \/ AcceptDestroy("destroy_toplevel", "toplevel", "xdg_surface")
    \/ AcceptDestroy("destroy_xdg_surface", "xdg_surface", "surface")
    \/ AcceptDestroy("destroy_surface", "surface", "none")

\* Only a serial that has been sent and not yet acknowledged may be acknowledged.
AcceptAck ==
    LET h == Oldest.handle
        ok == Oldest.serial \in acked[h] + 1..sent[h]
    IN  /\ Oldest.type = "ack_configure"
        /\ \/ ProtocolError(ok)
           \/ /\ ok
              /\ acked' = [acked EXCEPT ![h] = Oldest.serial]
              /\ UNCHANGED <<evs, read, conn, alive, seats, stamp, violated, role, sent, pools,
                             held, current, closing, pings, pongs, bound, seat_focus,
                             fingers, described>>

AcceptPong ==
    /\ Oldest.type = "pong"
    /\ pongs' = pongs + 1
    /\ UNCHANGED <<evs, read, conn, alive, seats, stamp, violated, role, sent, acked, pools,
                   held, current, closing, pings, bound, seat_focus, fingers, described>>

\* A bound seat tells its capabilities.
AcceptBindSeat ==
    /\ Oldest.type = "bind_seat"
    /\ SendEvents(<<Msg("capabilities", None, None, 0, Oldest.serial)>>)
    /\ described' = described \union {Oldest.serial}
    /\ UNCHANGED <<read, conn, alive, seats, stamp, violated, role, sent, acked, pools,
                   held, current, closing, pings, pongs, bound, seat_focus, fingers>>

DeviceOf(type) == CASE type = "get_keyboard" -> "keyboard"
                    [] type = "get_pointer"  -> "pointer"
                    [] type = "get_touch"    -> "touch"

AcceptGetDevice ==
    /\ Oldest.type \in {"get_keyboard", "get_pointer", "get_touch"}
    /\ bound' = [bound EXCEPT ![Oldest.serial][DeviceOf(Oldest.type)] = @ + 1]
    /\ UNCHANGED <<evs, read, conn, alive, seats, stamp, violated, role, sent, acked, pools,
                   held, current, closing, pings, pongs, seat_focus, fingers, described>>

Accept ==
    /\ conn = "up" /\ TakeRequest
    /\ \/ AcceptCreate \/ AcceptCreatePool \/ AcceptFrame \/ AcceptDestroyPool
       \/ AcceptDestroyWindow \/ AcceptAck \/ AcceptPong
       \/ AcceptBindSeat \/ AcceptGetDevice

-----------------------------------------------------------------------------
(* Events about windows and buffers.                                        *)

\* The first configure answers the first commit; more may follow at any time.
SendConfigure(h) ==
    /\ conn = "up" /\ role[h] = "toplevel" /\ sent[h] < MaxConfigures
    /\ sent' = [sent EXCEPT ![h] = @ + 1]
    /\ SendEvents(<<Msg("configure", h, None, 0, sent[h] + 1)>>)
    /\ UNCHANGED <<reqs, flushed, read, conn, alive, seats, stamp, violated, role, acked, pools,
                   held, current, closing, pings, pongs, bound, seat_focus, fingers, described>>

SendClose(h) ==
    /\ conn = "up" /\ role[h] = "toplevel" /\ h \in Closable \ closing
    /\ closing' = closing \union {h}
    /\ SendEvents(<<Msg("close", h, None, 0, 0)>>)
    /\ UNCHANGED <<reqs, flushed, read, conn, alive, seats, stamp, violated, role, sent, acked,
                   pools, held, current, pings, pongs, bound, seat_focus, fingers, described>>

\* Weston may let go of a buffer at any time after its commit.
Release(b) ==
    /\ conn = "up" /\ b \in held
    /\ held' = held \ {b}
    /\ SendEvents(<<Msg("release", b.handle, b.pool, b.slot, 0)>>)
    /\ UNCHANGED <<reqs, flushed, read, conn, alive, seats, stamp, violated, role, sent, acked,
                   pools, current, closing, pings, pongs, bound, seat_focus, fingers,
                   described>>

\* It must let go of one that another commit has replaced.
Superseded(b) == b \in held /\ b \notin current[b.handle]

SendPing ==
    /\ conn = "up" /\ pings < MaxPings
    /\ pings' = pings + 1
    /\ SendEvents(<<Msg("ping", None, None, 0, pings + 1)>>)
    /\ UNCHANGED <<reqs, flushed, read, conn, alive, seats, stamp, violated, role, sent, acked,
                   pools, held, current, closing, pongs, bound, seat_focus, fingers, described>>

-----------------------------------------------------------------------------
(* Seats.  What happens on a device of a seat is sent once to every object  *)
(* the client has for it; each event of a seat has a stamp of its own.      *)

\* A seat may appear at any time; a client that is connected is told of it.
SeatAppears ==
    /\ alive /\ seats < MaxSeats
    /\ seats' = seats + 1
    /\ SendEvents(<<Msg("global", None, None, 0, seats + 1)>>)
    /\ UNCHANGED <<reqs, flushed, read, conn, alive, stamp, clientVars>>

\* A seat tells its capabilities again, as it does when one of its devices changes.
SeatAnnounces(s) ==
    /\ conn = "up" /\ s \in described
    /\ stamp < MaxSeatEvents /\ stamp' = stamp + 1
    /\ SendEvents(<<Msg("capabilities", None, None, 0, s)>>)
    /\ UNCHANGED <<reqs, flushed, read, conn, alive, seats, clientVars>>

ToEach(s, d, m) == [i \in 1..bound[s][d] |-> m]

\* Something happens on a device: n stamps are used.
SeatStep(s, d, n, ms, next_focus) ==
    /\ conn = "up" /\ stamp + n <= MaxSeatEvents
    /\ stamp' = stamp + n
    /\ s <= seats /\ d \in Capabilities(s)
    /\ seat_focus' = [seat_focus EXCEPT ![s][d] = next_focus]
    /\ SendEvents(ms)
    /\ UNCHANGED <<reqs, flushed, read, conn, alive, seats, violated, role, sent, acked,
                   pools, held, current, closing, pings, pongs, bound, described>>

LeaveType(d) == IF d = "keyboard" THEN "keyboard_leave" ELSE "pointer_leave"
EnterType(d) == IF d = "keyboard" THEN "keyboard_enter" ELSE "pointer_enter"
InputType(d) == IF d = "keyboard" THEN "keyboard_input" ELSE "pointer_input"

\* The focus leaves the app it is on, if any, and enters another one or none.
LeaveFocus(s, d) ==
    IF seat_focus[s][d] = None THEN <<>>
    ELSE ToEach(s, d, Msg(LeaveType(d), seat_focus[s][d], None, 0, stamp + 1))

EnterFocus(s, d, h) ==
    IF h = None THEN <<>> ELSE ToEach(s, d, Msg(EnterType(d), h, None, 0, stamp + 2))

MoveFocus(s, d, h) ==
    /\ d \in {"keyboard", "pointer"} /\ h # seat_focus[s][d]
    /\ h # None => role[h] = "toplevel"
    /\ SeatStep(s, d, 2, LeaveFocus(s, d) \o EnterFocus(s, d, h), h)
    /\ UNCHANGED fingers

\* A key, a motion, a button or an axis on the focused app.
DeviceInput(s, d) ==
    /\ d \in {"keyboard", "pointer"} /\ seat_focus[s][d] # None
    /\ SeatStep(s, d, 1, ToEach(s, d, Msg(InputType(d), seat_focus[s][d], None, 0, stamp + 1)),
                seat_focus[s][d])
    /\ UNCHANGED fingers

\* Touch events of a session all go to the app under its first finger.
TouchEvent(s, type, h) ==
    IF h = None THEN <<>> ELSE ToEach(s, "touch", Msg(type, h, None, 0, stamp + 1))

TouchDown(s, h) ==
    LET target == IF fingers[s] = 0 THEN h ELSE seat_focus[s]["touch"] IN
    /\ fingers[s] < MaxTouch /\ role[h] = "toplevel"
    /\ SeatStep(s, "touch", 1, TouchEvent(s, "touch_down", target), target)
    /\ fingers' = [fingers EXCEPT ![s] = @ + 1]

TouchUp(s) ==
    LET target == seat_focus[s]["touch"] IN
    /\ fingers[s] > 0
    /\ SeatStep(s, "touch", 1, TouchEvent(s, "touch_input", target),
                IF fingers[s] = 1 THEN None ELSE target)
    /\ fingers' = [fingers EXCEPT ![s] = @ - 1]

\* A grab takes the session away from the client.
TouchCancel(s) ==
    LET target == seat_focus[s]["touch"] IN
    /\ target # None
    /\ SeatStep(s, "touch", 1, TouchEvent(s, "touch_cancel", target), None)
    /\ UNCHANGED fingers

SeatActs(s) ==
    \/ SeatAnnounces(s)
    \/ \E d \in Device :
        \/ \E h \in 0..MaxApps : MoveFocus(s, d, h)
        \/ DeviceInput(s, d)
    \/ (\E h \in Handle : TouchDown(s, h)) \/ TouchUp(s) \/ TouchCancel(s)

-----------------------------------------------------------------------------
\* The compositor dies.
Crash ==
    /\ MayCrash /\ alive
    /\ alive' = FALSE
    /\ PeerGone
    /\ UNCHANGED <<reqs, flushed, evs, read, seats, stamp, clientVars>>

\* A client connects and binds every seat there is.
ClientConnects ==
    /\ described' = 1..seats
    /\ UNCHANGED <<alive, seats, stamp, violated, role, sent, acked, pools, held, current,
                   closing, pings, pongs, bound, seat_focus, fingers>>

\* The client has disconnected: the compositor forgets all it had of it.
ClientGone ==
    /\ violated' = FALSE
    /\ role' = [h \in Handle |-> "none"]
    /\ sent' = [h \in Handle |-> 0] /\ acked' = [h \in Handle |-> 0]
    /\ pools' = {} /\ held' = {} /\ current' = [h \in Handle |-> {}]
    /\ closing' = {}
    /\ pings' = 0 /\ pongs' = 0
    /\ described' = {}
    /\ bound' = [s \in Seat |-> [d \in Device |-> 0]]
    /\ seat_focus' = [s \in Seat |-> [d \in Device |-> None]]
    /\ fingers' = [s \in Seat |-> 0]
    /\ UNCHANGED <<alive, seats, stamp>>

WestonStep ==
    \/ Accept
    \/ \E h \in Handle : SendConfigure(h) \/ SendClose(h)
    \/ \E b \in held : Release(b)
    \/ SendPing \/ SeatAppears \/ Crash
    \/ \E s \in Seat : SeatActs(s)
=============================================================================
