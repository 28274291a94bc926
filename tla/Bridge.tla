------------------------------- MODULE Bridge -------------------------------
(***************************************************************************)
(* The bridge core (core/src/bridge.rs): the apps of one running bridge,   *)
(* their shm pools of SLOTS buffers, the pump, the event handlers and the  *)
(* bodies of the operations.                                               *)
(*                                                                         *)
(* A call of the C ABI is a script, the sequence todo of the steps it has  *)
(* left; the compositor may act between any two of them.  The steps:       *)
(*   "pump"   flush, read, dispatch, its error ignored by the caller;      *)
(*   "pump?"  the same, but an error ends the call at once;                *)
(*   "read"   the part of a pump after a successful flush;                 *)
(*   "deliver" the dispatch of what was read, one event at a time;         *)
(*   "return" the handle of bridge_app becomes known to the shim;          *)
(*   the name of an operation: its body.                                   *)
(***************************************************************************)
EXTENDS SeatInput, FiniteSets

CONSTANTS
    MaxSize,   \* frame sizes (width, height and format together) are 1..MaxSize
    PollCap    \* the room in the buffer the shim polls into

ASSUME BridgeAssumption == MaxSize \in Nat /\ PollCap \in Nat \ {0}

Size == 1..MaxSize

Step == {"pump", "pump?", "read", "deliver", "return", "bridge_app", "push_frame",
         "poll_input", "close_requested", "close_app"}

VARIABLES
    next_handle,      \* NEXT_HANDLE, one per process
    configured,       \* live apps whose toplevel has been configured
    close_requested,  \* live apps the compositor asked to close
    pool,             \* handle -> its shm pool, or None
    dims,             \* handle -> the size of its pool, or None
    busy,             \* handle -> the slots marked as held by the compositor
    pools_made,       \* pools created so far: pools are numbered in that order
    todo,             \* the steps the current call has left; <<>> between calls
    call,             \* the arguments of the current call, until its body used them
    known,            \* handles bridge_app has returned to the shim
    told              \* known apps whose close request the shim has been told of

appVars  == <<live, configured, close_requested, pool, dims, busy, pools_made>>
shimVars == <<known, told>>
coreVars == <<appVars, seatVars, next_handle, todo, call, shimVars>>

NoCall == [handle |-> None, size |-> None]

CoreTypeOK ==
    /\ next_handle \in 1..MaxApps + 1
    /\ configured \subseteq live /\ close_requested \subseteq live
    /\ pool \in [Handle -> 0..MaxPools]
    /\ dims \in [Handle -> 0..MaxSize]
    /\ busy \in [Handle -> SUBSET Slot]
    /\ pools_made \in 0..MaxPools
    /\ todo \in Seq(Step)
    /\ call \in [handle: 0..MaxApps, size: 0..MaxSize]
    /\ known \subseteq Handle /\ told \subseteq Handle

NoApps ==
    /\ live = {} /\ configured = {} /\ close_requested = {}
    /\ pool = [h \in Handle |-> None]
    /\ dims = [h \in Handle |-> None]
    /\ busy = [h \in Handle |-> {}]

CoreInit ==
    /\ NoApps /\ pools_made = 0 /\ next_handle = 1
    /\ todo = <<>> /\ call = NoCall
    /\ known = {} /\ told = {}

At(step) == todo # <<>> /\ Head(todo) = step

-----------------------------------------------------------------------------
(* dispatch_pending.                                                        *)

\* The flush succeeds, and what is in the socket is read next.
PumpFlush ==
    /\ At("pump") \/ At("pump?")
    /\ FlushOk
    /\ todo' = <<"read">> \o Tail(todo)
    /\ UNCHANGED <<appVars, seatVars, next_handle, call, shimVars>>

\* The flush fails: nothing is read or dispatched by this pump.
PumpFails ==
    /\ At("pump") \/ At("pump?")
    /\ FlushErr
    /\ todo' = IF At("pump?") THEN <<>> ELSE Tail(todo)
    /\ UNCHANGED <<appVars, seatVars, next_handle, call, shimVars>>

\* The object an event is for still exists on the client's side.
ObjectLives(m) ==
    /\ m.type \in {"configure", "close", "release"} => m.handle \in live
    /\ m.type = "release" => pool[m.handle] = m.pool

\* Faulty variant: a bridge without apps reads nothing.
PumpReadIfBusy ==
    /\ At("read")
    /\ IF live = {} THEN UNCHANGED wireVars
       ELSE ReadEvents({i \in DOMAIN evs : ObjectLives(evs[i])})
    /\ todo' = <<"deliver">> \o Tail(todo)
    /\ UNCHANGED <<appVars, seatVars, next_handle, call, shimVars>>

PumpRead ==
    /\ At("read")
    /\ ReadEvents({i \in DOMAIN evs : ObjectLives(evs[i])})
    /\ todo' = <<"deliver">> \o Tail(todo)
    /\ UNCHANGED <<appVars, seatVars, next_handle, call, shimVars>>

\* Faulty variant: a pump dispatches some of the events and leaves the rest queued.
PumpDoneEarly ==
    /\ At("deliver")
    /\ todo' = Tail(todo)
    /\ UNCHANGED <<wireVars, appVars, seatVars, next_handle, call, shimVars>>

\* The event queue is empty: the pump is over.
PumpDone ==
    /\ At("deliver") /\ read = 0
    /\ todo' = Tail(todo)
    /\ UNCHANGED <<wireVars, appVars, seatVars, next_handle, call, shimVars>>

-----------------------------------------------------------------------------
(* Handlers of the events that are not a device's.                          *)

\* Faulty variant: the app can be found only once bridge_app has returned.
OnConfigureLate ==
    /\ NextEvent.type = "configure"
    /\ DropEvent
    /\ Emit(<<Msg("ack_configure", NextEvent.handle, None, 0, NextEvent.serial)>>)
    /\ configured' = configured \union ({NextEvent.handle} \intersect known)
    /\ UNCHANGED <<flushed, conn, live, close_requested, pool, dims, busy, pools_made>>

\* xdg_surface.configure (with the xdg_toplevel.configure that precedes it).
OnConfigure ==
    /\ NextEvent.type = "configure"
    /\ DropEvent
    /\ Emit(<<Msg("ack_configure", NextEvent.handle, None, 0, NextEvent.serial)>>)
    /\ configured' = configured \union ({NextEvent.handle} \intersect live)
    /\ UNCHANGED <<flushed, conn, live, close_requested, pool, dims, busy, pools_made>>

\* Faulty variant: a close is recorded only for an app that has shown a frame.
OnCloseIfShown ==
    /\ NextEvent.type = "close"
    /\ DropEvent
    /\ close_requested' =
           close_requested \union ({NextEvent.handle} \intersect {h \in live : pool[h] # None})
    /\ UNCHANGED <<reqs, flushed, conn, live, configured, pool, dims, busy, pools_made>>

\* xdg_toplevel.close.
OnClose ==
    /\ NextEvent.type = "close"
    /\ DropEvent
    /\ close_requested' = close_requested \union ({NextEvent.handle} \intersect live)
    /\ UNCHANGED <<reqs, flushed, conn, live, configured, pool, dims, busy, pools_made>>

\* Faulty variant: BufferData names the slot and not the app.
FreeInEveryApp(h, s) ==
    [g \in Handle |-> IF g \in live /\ pool[g] # None THEN busy[g] \ {s} ELSE busy[g]]

\* Faulty variant: the bound on the slot is off by one.
FreeLowSlot(h, s) ==
    IF h \in live /\ pool[h] # None /\ s + 1 < SLOTS
    THEN [busy EXCEPT ![h] = @ \ {s}] ELSE busy

\* wl_buffer.release frees the slot of the app that the buffer was created with,
\* whichever pool the app has by now.
FreeSlot(h, s) ==
    IF h \in live /\ pool[h] # None THEN [busy EXCEPT ![h] = @ \ {s}] ELSE busy

OnRelease ==
    /\ NextEvent.type = "release"
    /\ DropEvent
    /\ busy' = FreeSlot(NextEvent.handle, NextEvent.slot)
    /\ UNCHANGED <<reqs, flushed, conn, live, configured, close_requested,
                   pool, dims, pools_made>>

\* Faulty variant: pings are answered only while an app is bridged.
OnPingIfBusy ==
    /\ NextEvent.type = "ping"
    /\ DropEvent
    /\ Emit(IF live = {} THEN <<>>
            ELSE <<Msg("pong", None, None, 0, NextEvent.serial)>>)
    /\ UNCHANGED <<flushed, conn, appVars>>

\* xdg_wm_base.ping.
OnPing ==
    /\ NextEvent.type = "ping"
    /\ DropEvent
    /\ Emit(<<Msg("pong", None, None, 0, NextEvent.serial)>>)
    /\ UNCHANGED <<flushed, conn, appVars>>

\* An event that was dropped when it was read: nothing is dispatched for it.
OnDiscarded ==
    /\ NextEvent.type = "discarded"
    /\ DropEvent
    /\ UNCHANGED <<reqs, flushed, conn, appVars>>

OnAppEvent == OnConfigure \/ OnClose \/ OnRelease \/ OnPing \/ OnDiscarded

\* One event of the event queue is dispatched.
Deliver ==
    /\ At("deliver") /\ read > 0
    /\ \/ OnAppEvent /\ UNCHANGED seatVars
       \/ OnSeatEvent /\ UNCHANGED appVars
    /\ UNCHANGED <<next_handle, todo, call, shimVars>>

-----------------------------------------------------------------------------
(* bridge_app.                                                              *)

\* Faulty variant: handles are numbered among the live apps.
CountedHandle == Cardinality(live) + 1

\* next_handle, a counter of the process.
FreshHandle == next_handle

BridgeAppBody ==
    /\ At("bridge_app")
    /\ next_handle' = next_handle + 1
    /\ live' = live \union {FreshHandle}
    /\ Emit(<<Msg("create", FreshHandle, None, 0, 0)>>)
    /\ todo' = <<"pump?">> \o Tail(todo)
    /\ UNCHANGED <<flushed, evs, read, conn, configured, close_requested, pool, dims,
                   busy, pools_made, seatVars, call, shimVars>>

\* The C ABI hands the new handle to the shim.
BridgeAppReturn ==
    /\ At("return")
    /\ known' = known \union {next_handle - 1}
    /\ todo' = Tail(todo)
    /\ UNCHANGED <<wireVars, appVars, seatVars, next_handle, call, told>>

-----------------------------------------------------------------------------
(* push_frame.                                                              *)

\* ensure_slots has to create a pool: there is none, or not of this size.
NeedsNew(h, size) == pool[h] = None \/ dims[h] # size

\* ShmSlots::destroy, if the app has a pool.
DestroySlots(h) ==
    IF pool[h] = None THEN <<>> ELSE <<Msg("destroy_pool", h, pool[h], 0, 0)>>

\* Faulty variant: slots are counted from one.
FrameFromOne(h, p, s) == Msg("frame", h, p, s + 1, 0)

\* attach, damage_buffer and commit of one buffer.
Frame(h, p, s) == Msg("frame", h, p, s, 0)

\* A short frame, an unknown app, or one not configured yet: nothing is presented.
PushRejected ==
    /\ At("push_frame")
    /\ todo' = Tail(todo)
    /\ call' = NoCall
    /\ call.size = None \/ call.handle \notin configured
    /\ UNCHANGED <<wireVars, appVars, seatVars, next_handle, shimVars>>

\* Faulty variant: a frame is presented although the app is not configured yet.
PushAcceptedEarly == At("push_frame") /\ call.size # None /\ call.handle \in live

\* The frame goes on to ensure_slots.
PushAccepted == At("push_frame") /\ call.size # None /\ call.handle \in configured

\* ensure_slots destroys the old pool, then cannot create or map the file.
PushNoPool ==
    LET h == call.handle IN
    /\ PushAccepted
    /\ NeedsNew(h, call.size)
    /\ Emit(DestroySlots(h))
    /\ pool' = [pool EXCEPT ![h] = None]
    /\ dims' = [dims EXCEPT ![h] = None]
    /\ busy' = [busy EXCEPT ![h] = {}]
    /\ todo' = Tail(todo)
    /\ call' = NoCall
    /\ UNCHANGED <<flushed, evs, read, conn, live, configured, close_requested,
                   pools_made, seatVars, next_handle, shimVars>>

\* A new pool has every slot free: the frame goes into its first one.
PushIntoNewPool ==
    LET h == call.handle
        p == pools_made + 1
    IN  /\ PushAccepted
        /\ NeedsNew(h, call.size)
        /\ Emit(DestroySlots(h) \o <<Msg("create_pool", h, p, 0, 0), Frame(h, p, 0)>>)
        /\ pool' = [pool EXCEPT ![h] = p]
        /\ dims' = [dims EXCEPT ![h] = call.size]
        /\ busy' = [busy EXCEPT ![h] = {0}]
        /\ pools_made' = p
        /\ todo' = <<"pump">> \o Tail(todo)
        /\ call' = NoCall
        /\ UNCHANGED <<flushed, evs, read, conn, live, configured, close_requested,
                       seatVars, next_handle, shimVars>>

\* Faulty variant: the slots are taken in turn, busy or not.
NextSlot(h, s) == s \in Slot /\ s = Cardinality(busy[h]) % SLOTS

\* The first slot that is not busy.
FirstFree(h, s) == s \in Slot \ busy[h] /\ \A t \in Slot : t < s => t \in busy[h]

PushIntoPool ==
    LET h == call.handle IN
    /\ PushAccepted
    /\ ~NeedsNew(h, call.size)
    /\ \E s \in Slot :
        /\ FirstFree(h, s)
        /\ busy' = [busy EXCEPT ![h] = @ \union {s}]
        /\ Emit(<<Frame(h, pool[h], s)>>)
    /\ todo' = <<"pump">> \o Tail(todo)
    /\ call' = NoCall
    /\ UNCHANGED <<flushed, evs, read, conn, live, configured, close_requested,
                   pool, dims, pools_made, seatVars, next_handle, shimVars>>

\* Every slot is held by the compositor: the frame is skipped.
PushSkipped ==
    /\ PushAccepted
    /\ ~NeedsNew(call.handle, call.size)
    /\ busy[call.handle] = Slot
    /\ todo' = Tail(todo)
    /\ call' = NoCall
    /\ UNCHANGED <<wireVars, appVars, seatVars, next_handle, shimVars>>

-----------------------------------------------------------------------------
(* poll_input, close_requested, close_app.                                  *)

PollInputBody ==
    /\ At("poll_input")
    /\ Drain(PollCap)
    /\ todo' = Tail(todo)
    /\ UNCHANGED <<wireVars, appVars, next_handle, call, shimVars>>

CloseRequestedBody ==
    /\ At("close_requested")
    /\ told' = told \union ({call.handle} \intersect close_requested)
    /\ todo' = Tail(todo)
    /\ call' = NoCall
    /\ UNCHANGED <<wireVars, appVars, seatVars, next_handle, known>>

\* AppEntry::destroy: the pool, then the objects from the outermost role inwards.
DestroyEntry(h) ==
    DestroySlots(h) \o <<Msg("destroy_toplevel", h, None, 0, 0),
                         Msg("destroy_xdg_surface", h, None, 0, 0),
                         Msg("destroy_surface", h, None, 0, 0)>>

\* The focus of the devices and the queued input of the app are left as they are.
CloseAppBody ==
    LET h == call.handle IN
    /\ At("close_app")
    /\ h \in live
    /\ live' = live \ {h}
    /\ configured' = configured \ {h}
    /\ close_requested' = close_requested \ {h}
    /\ Emit(DestroyEntry(h))
    /\ pool' = [pool EXCEPT ![h] = None]
    /\ dims' = [dims EXCEPT ![h] = None]
    /\ busy' = [busy EXCEPT ![h] = {}]
    /\ todo' = <<"pump">> \o Tail(todo)
    /\ call' = NoCall
    /\ UNCHANGED <<flushed, evs, read, conn, pools_made, seatVars, next_handle, shimVars>>

CloseUnknownBody ==
    /\ At("close_app")
    /\ call.handle \notin live
    /\ todo' = Tail(todo)
    /\ call' = NoCall
    /\ UNCHANGED <<wireVars, appVars, seatVars, next_handle, shimVars>>

CoreStep ==
    \/ PumpFlush \/ PumpFails \/ PumpRead \/ PumpDone \/ Deliver
    \/ BridgeAppBody \/ BridgeAppReturn
    \/ PushRejected \/ PushNoPool \/ PushIntoNewPool \/ PushIntoPool \/ PushSkipped
    \/ PollInputBody \/ CloseRequestedBody \/ CloseAppBody \/ CloseUnknownBody
=============================================================================
