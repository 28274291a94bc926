------------------------------- MODULE Wire -------------------------------
(***************************************************************************)
(* The connection between the bridge and the nested compositor, as the     *)
(* bridge uses it through wayland-client (not part of this repository):    *)
(* requests are buffered until flushed into a socket of bounded capacity;  *)
(* events are first read into the event queue, then dispatched from it one *)
(* by one; each direction is first-in first-out.                           *)
(***************************************************************************)
EXTENDS Naturals, Sequences

CONSTANTS
    MaxApps,    \* handles that may be allocated (a bound of the model)
    MaxPools,   \* shm pools that may be created (a bound of the model)
    MaxSerial,  \* configures, pings or seat events sent (a bound of the model)
    MaxSeats,   \* seats the compositor may have (a bound of the model)
    SLOTS,      \* buffers per pool
    SocketCap,  \* messages the socket buffers before a flush would block
    Keyboards,      \* the seats that have a keyboard,
    Pointers,       \* those that have a pointer,
    Touchscreens    \* and those that have a touchscreen

ASSUME WireAssumption ==
    /\ MaxApps \in Nat /\ MaxPools \in Nat /\ MaxSerial \in Nat
    /\ SLOTS \in Nat \ {0}
    /\ SocketCap \in Nat \ {0}
    /\ MaxSeats \in 0..MaxSerial

None   == 0
Handle == 1..MaxApps
Pool   == 1..MaxPools
Seat   == 1..MaxSeats

Device == {"keyboard", "pointer", "touch"}

SeatsWith(d) == CASE d = "keyboard" -> Keyboards
                  [] d = "pointer"  -> Pointers
                  [] d = "touch"    -> Touchscreens

\* The devices a seat has, as its capabilities event names them.
Capabilities(s) == {d \in Device : s \in SeatsWith(d)}

\* Faulty variant: an app has a single buffer.
SlotSingle == 0..0

Slot == 0..SLOTS - 1

(***************************************************************************)
(* One message stands for a group of requests or events that are always    *)
(* sent together; a field that a type does not use is 0.  The serial field *)
(* of a message about a seat is the number of the seat.                    *)
(***************************************************************************)
Msg(type, h, p, s, n) ==
    [type |-> type, handle |-> h, pool |-> p, slot |-> s, serial |-> n]

RequestType == {"create", "create_pool", "frame", "destroy_pool",
                "destroy_toplevel", "destroy_xdg_surface", "destroy_surface",
                "ack_configure", "pong", "bind_seat",
                "get_keyboard", "get_pointer", "get_touch"}

EventType == {"configure", "close", "release", "ping", "global", "capabilities",
              "keyboard_enter", "keyboard_leave", "keyboard_input",
              "pointer_enter", "pointer_leave", "pointer_input",
              "touch_down", "touch_input", "touch_cancel", "discarded"}

\* The messages that name a pool or a buffer of it.
BufferType == {"create_pool", "frame", "destroy_pool", "release"}

\* The messages that name a seat.
SeatType == {"global", "bind_seat", "capabilities",
             "get_keyboard", "get_pointer", "get_touch"}

MsgOf(types) ==
    {m \in [type: types, handle: 0..MaxApps, pool: 0..MaxPools,
            slot: Slot, serial: 0..MaxSerial] :
        /\ m.type \in BufferType => m.handle \in Handle /\ m.pool \in Pool
        /\ m.type \in SeatType => m.serial \in Seat}
Request == MsgOf(RequestType)
Event   == MsgOf(EventType)

Discarded == Msg("discarded", None, None, 0, 0)

VARIABLES
    reqs,      \* requests not yet handled by the compositor, oldest first
    flushed,   \* how many of them are in the socket; the rest is unflushed
    evs,       \* events not yet dispatched by the bridge, oldest first
    read,      \* how many of them are in the event queue; the rest is in the socket
    conn       \* "none", "up", "hup" (the peer is gone) or "lost" (error recorded)

wireVars == <<reqs, flushed, evs, read, conn>>

WireTypeOK ==
    /\ reqs \in Seq(Request)
    /\ flushed \in 0..Len(reqs)
    /\ evs \in Seq(Event)
    /\ read \in 0..Len(evs)
    /\ conn \in {"none", "up", "hup", "lost"}

WireInit ==
    /\ reqs = <<>> /\ flushed = 0
    /\ evs = <<>> /\ read = 0
    /\ conn = "none"

-----------------------------------------------------------------------------
(* Requests.                                                                *)

\* Requests are buffered; on a connection that has failed they are dropped.
Emit(ms) == reqs' = IF conn = "lost" THEN reqs ELSE reqs \o ms

\* A connection is lost: what was buffered or in the socket is gone.
Lose ==
    /\ conn' = "lost"
    /\ reqs' = <<>> /\ flushed' = 0
    /\ evs' = <<>> /\ read' = 0

\* Everything buffered fits into the socket.
FlushOk ==
    /\ \/ conn = "up" /\ Len(reqs) <= SocketCap
       \/ conn = "hup" /\ flushed = Len(reqs)
    /\ flushed' = Len(reqs)
    /\ UNCHANGED <<reqs, evs, read, conn>>

\* The socket takes what it can and the rest would block (WouldBlock), or the
\* write fails for good.
FlushErr ==
    \/ /\ conn = "up" /\ Len(reqs) > SocketCap
       /\ flushed' = IF flushed < SocketCap THEN SocketCap ELSE flushed
       /\ UNCHANGED <<reqs, evs, read, conn>>
    \/ conn = "hup" /\ flushed < Len(reqs) /\ Lose
    \/ conn = "lost" /\ UNCHANGED wireVars

\* The compositor takes the oldest request out of the socket.
TakeRequest ==
    /\ flushed > 0
    /\ reqs' = Tail(reqs)
    /\ flushed' = flushed - 1

-----------------------------------------------------------------------------
(* Events.                                                                  *)

\* The compositor's events for objects it has: ms is appended to the socket.
SendEvents(ms) == evs' = IF conn = "up" THEN evs \o ms ELSE evs

\* All that is in the socket is moved to the event queue.  An event of an object
\* the client has already destroyed (its index is not in kept) is dropped at this
\* point and not later: what is in the event queue is dispatched whatever happens
\* to its object.  At the end of the stream the connection is marked as failed.
ReadEvents(kept) ==
    \/ conn = "hup" /\ evs = <<>> /\ Lose
    \/ /\ ~(conn = "hup" /\ evs = <<>>)
       /\ evs' = [i \in DOMAIN evs |->
                       IF i <= read \/ i \in kept THEN evs[i] ELSE Discarded]
       /\ read' = Len(evs)
       /\ UNCHANGED <<reqs, flushed, conn>>

\* The oldest event of the event queue, and its removal.
NextEvent == Head(evs)
DropEvent ==
    /\ read > 0
    /\ evs' = Tail(evs)
    /\ read' = read - 1

\* The peer goes away: its requests in flight will never be handled.
PeerGone == conn' = IF conn = "up" THEN "hup" ELSE conn
=============================================================================
