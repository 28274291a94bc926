---------------------------- MODULE BridgeSystem ----------------------------
(***************************************************************************)
(* The bridge, driven through its C ABI by one shim thread, connected to   *)
(* the nested compositor.                                                  *)
(***************************************************************************)
EXTENDS CAbi, NestedWeston

CONSTANT MaxStarts   \* times the shim starts a bridge

ASSUME StartAssumption == MaxStarts \in Nat

VARIABLE starts      \* times it has

vars == <<wireVars, abiVars, westonVars, starts>>

TypeOK == /\ WireTypeOK /\ SeatTypeOK /\ CoreTypeOK /\ AbiTypeOK /\ WestonTypeOK
          /\ starts \in 0..MaxStarts

Init == /\ WireInit /\ SeatInit /\ CoreInit /\ AbiInit /\ WestonInit
        /\ starts = 0

\* A successful start binds the seats the compositor has.
Start ==
    /\ alive /\ starts < MaxStarts
    /\ AnowawStart(seats) /\ ClientConnects
    /\ starts' = starts + 1

Stop == AnowawStop /\ ClientGone /\ UNCHANGED starts

BridgeStep == AbiStep /\ UNCHANGED <<westonVars, starts>>

CompositorStep == WestonStep /\ UNCHANGED <<abiVars, starts>>

\* The shim is done: the bridge is stopped and will not be started again.
Finished ==
    /\ bridge = "null" /\ (starts = MaxStarts \/ ~alive)
    /\ UNCHANGED vars

Next == Start \/ Stop \/ BridgeStep \/ CompositorStep \/ Finished

Spec == Init /\ [][Next]_vars

-----------------------------------------------------------------------------
(* Safety.                                                                  *)

\* The buffers named by the frames and the releases that are on their way.
FrameTokens == {Tok(reqs[i]) : i \in {j \in DOMAIN reqs : reqs[j].type = "frame"}}
ReleaseTokens == {Tok(evs[i]) : i \in {j \in DOMAIN evs : evs[j].type = "release"}}

InUse == FrameTokens \union held \union ReleaseTokens

Buffer(h, s) == [handle |-> h, pool |-> pool[h], slot |-> s]

\* A slot the bridge may write into (push_frame picks one that is not busy) is not
\* in a frame on its way, not with the compositor, and not about to be released.
SlotSafety == \A h \in live : \A s \in Slot \ busy[h] : Buffer(h, s) \notin InUse

\* A buffer is used once at a time: no two frames on their way show the same buffer,
\* and none shows a buffer the compositor still holds or is giving back.
ExclusiveUse ==
    /\ \A i, j \in DOMAIN reqs :
           /\ reqs[i].type = "frame" /\ reqs[j].type = "frame"
           /\ Tok(reqs[i]) = Tok(reqs[j])
           => i = j
    /\ \A i, j \in DOMAIN evs :
           /\ evs[i].type = "release" /\ evs[j].type = "release"
           /\ Tok(evs[i]) = Tok(evs[j])
           => i = j
    /\ FrameTokens \intersect held = {}
    /\ ReleaseTokens \intersect (held \union FrameTokens) = {}

\* A busy slot is not lost: as long as the connection is up, a frame or a release is
\* on its way for it, or the compositor holds it.
NoSlotLeak == conn = "up" => \A h \in live : \A s \in busy[h] : Buffer(h, s) \in InUse

\* The bridge never breaks the protocol: no frame before the first acknowledged
\* configure, no unknown buffer, no serial acknowledged twice, no object destroyed
\* before the one built on it.
NoProtocolError == ~violated

\* A release the bridge is about to dispatch is for a buffer of the pool the app has
\* now, and for a busy slot: BufferData names no pool, so one for an older pool would
\* free a slot of the new pool that the compositor is reading.
NoStaleRelease ==
    \A i \in 1..read : evs[i].type = "release" =>
        /\ evs[i].handle \in live
        /\ pool[evs[i].handle] = evs[i].pool
        /\ evs[i].slot \in busy[evs[i].handle]

\* How many uses of a buffer are on their way or with the compositor.
Uses(b) ==
    Cardinality({i \in DOMAIN reqs : reqs[i].type = "frame" /\ Tok(reqs[i]) = b})
    + Cardinality(held \intersect {b})
    + Cardinality({i \in DOMAIN evs : evs[i].type = "release" /\ Tok(evs[i]) = b})

Writable(b) ==
    b.handle \in live /\ pool[b.handle] = b.pool /\ b.slot \notin busy[b.handle]

BufferStatus(b) ==
    IF b.pool > pools_made THEN "unborn"
    ELSE CASE Writable(b) /\ Uses(b) = 0  -> "mine"
           [] ~Writable(b) /\ Uses(b) = 1 -> "lent"
           [] ~Writable(b) /\ Uses(b) = 0 -> "dead"
           [] OTHER                       -> "shared"

Lending == INSTANCE BufferLending
               WITH Buffers <- Token, status <- [b \in Token |-> BufferStatus(b)]

\* The bridge implements the lending of buffers, each to the compositor and back,
\* across pool replacements, failures and the loss of the connection.
LendsBuffers == Lending!Spec

\* Input reaches the app the compositor meant, or nobody: a focus that is stale by the
\* time an event is decoded (its app was closed, or a focus change named a closed app)
\* never sends the event to another app.
RoutedToTarget ==
    \A i \in DOMAIN input_queue : input_queue[i].handle = input_queue[i].target

\* The shim is given each input once, and in the order the compositor sent it,
\* however often a seat announces its capabilities.
InputInOrder ==
    /\ \A i \in DOMAIN input_queue : polled < input_queue[i].stamp
    /\ \A i, j \in DOMAIN input_queue :
           i < j => input_queue[i].stamp < input_queue[j].stamp

\* A handle the shim has been given never comes to name another app, not even one of
\* a bridge started later (surface.rs: never reused within a process lifetime).
HandlesNeverReused == [][(live' \ live) \intersect known = {}]_vars

\* What ffi.rs:56-57 and anowaw.h:64-65 promise of anowaw_bridge_app: a nonzero handle,
\* or 0 on failure.  Between calls no app is registered that the shim has no handle for.
NoOrphan == todo = <<>> /\ conn = "up" => live \subseteq known

-----------------------------------------------------------------------------
(* Nothing that is owed is forgotten.  Each of these is the safety part of  *)
(* a liveness property below: while the connection is up, what that         *)
(* property promises has happened, is on its way, or is for the compositor  *)
(* to begin, whatever the calls, restarts and closed apps before.           *)

Says(seq, h, type) == \E i \in DOMAIN seq : seq[i].type = type /\ seq[i].handle = h
Counts(seq, n, type) == \E i \in DOMAIN seq : seq[i].type = type /\ seq[i].serial = n

\* An app that cannot present (push_frame rejects every frame of one that is not
\* configured) still has its window to be created, its first configure to be sent,
\* or a configure on its way: none was dispatched without setting the flag.
ConfigureComes == conn = "up" => \A h \in live \ configured :
    \/ Says(reqs, h, "create")
    \/ role[h] = "toplevel" /\ sent[h] = 0
    \/ Says(evs, h, "configure")

\* An app whose frames are all skipped, with every slot busy, gets one back whatever
\* the user does: one of its buffers is in a frame on its way, or replaced on the
\* screen, or being released.  One buffer per app would not do.
NeverStarved == conn = "up" => \A h \in live : busy[h] = Slot =>
    \E s \in Slot : \/ Buffer(h, s) \in FrameTokens \union ReleaseTokens
                   \/ Superseded(Buffer(h, s))

\* A window of a live app that the user has closed is recorded for the shim, or the
\* close is on its way.
CloseNotLost == conn = "up" => \A h \in closing \intersect live :
    h \in close_requested \/ Says(evs, h, "close")

\* The pings without an answer are those on their way, as a ping or as its pong; none
\* is answered twice, and no pong comes unasked.
PingNotLost == conn = "up" =>
    /\ pongs <= pings
    /\ \A n \in 1..pings : n > pongs <=> Counts(evs, n, "ping") \/ Counts(reqs, n, "pong")
    /\ \A n \in 1..pings : ~(Counts(evs, n, "ping") /\ Counts(reqs, n, "pong"))

\* The request that takes a device.
GetType(d) ==
    CASE d = "keyboard" -> "get_keyboard"
      [] d = "pointer"  -> "get_pointer"
      [] d = "touch"    -> "get_touch"

\* A device of the kind is taken, from whichever seat, or the request for it is on its
\* way to a seat that has one.
Asked(d) == \E s \in Seat :
    d \in Capabilities(s) /\ (bound[s][d] > 0 \/ Counts(reqs, s, GetType(d)))

\* A seat is being announced, bound or described, or a device of each kind it has is
\* taken or asked for, be it from this seat or from another (bridge.rs:588 takes one of
\* each kind): no kind is marked as held without a device, and no seat is forgotten.
DevicesAsked == conn = "up" => \A s \in 1..seats :
    \/ Counts(evs, s, "global") \/ Counts(reqs, s, "bind_seat")
    \/ Counts(evs, s, "capabilities")
    \/ \A d \in Capabilities(s) : Asked(d)

-----------------------------------------------------------------------------
(* Liveness.                                                                *)

Bridge_(A) == A /\ UNCHANGED <<westonVars, starts>>
Weston_(A) == A /\ UNCHANGED <<abiVars, starts>>

\* A call in progress goes on; a shim's loop polls for input and for close requests
\* again and again, among its other calls; Weston takes requests, answers the first
\* commit and gives back a buffer that another one has replaced.
Fairness ==
    /\ WF_vars(Bridge_(CoreStep /\ UNCHANGED bridge))
    /\ SF_vars(Bridge_(CallPollInput))
    /\ \A h \in Handle : SF_vars(Bridge_(h \in known /\ CallCloseRequested(h)))
    /\ WF_vars(Weston_(Accept))
    /\ \A h \in Handle : WF_vars(Weston_(sent[h] = 0 /\ SendConfigure(h)))
    /\ \A b \in Token : WF_vars(Weston_(Superseded(b) /\ Release(b)))

FairSpec == Spec /\ Fairness

\* An app that has been bridged gets ready for frames, unless it is closed or the
\* connection goes first: its creation gets through a full socket, and the compositor's
\* configure is dispatched and acknowledged by some later call.
GetsConfigured ==
    \A h \in Handle : h \in live ~> (h \in configured \/ h \notin live \/ conn # "up")

\* Frames never stall: with every slot of an app busy, one becomes free again.
SlotComesBack ==
    \A h \in Handle :
        (h \in live /\ busy[h] = Slot) ~> (h \notin live \/ busy[h] # Slot \/ conn # "up")

\* A ping is answered while the connection is up, so that the compositor does not
\* take the bridge for unresponsive.
PingAnswered == \A n \in 1..MaxPings : pings >= n ~> (pongs >= n \/ conn # "up")

\* A window the user closes is reported to the shim that knows the app.
CloseReported ==
    \A h \in Handle :
        (h \in closing /\ h \in known) ~> (h \in told \/ h \notin live \/ conn # "up")

\* What has been decoded is handed to the shim, however little fits into each poll.
InputPolled ==
    \A n \in 1..MaxSeatEvents :
        (\E i \in DOMAIN input_queue : input_queue[i].stamp = n)
            ~> (polled >= n \/ bridge = "null")

\* Whenever a seat appears, before the start or while the bridge runs (bridge.rs:472,
\* "hotplug"), a device of each kind it has is taken in the end: one of its own, or one of
\* the same kind of another seat.  A second device of a kind never is (bridge.rs:588).
DevicesTaken ==
    \A s \in Seat : seats >= s ~>
        \/ \A d \in Capabilities(s) : \E u \in Seat : bound[u][d] > 0
        \/ conn # "up"

\* The death of the compositor is noticed: unless the bridge is stopped first, some later
\* call finds the connection lost.  With requests left to write it is the flush that fails,
\* and what the compositor had sent before is dropped unread.
LossNoticed == conn = "hup" ~> conn = "lost" \/ bridge = "null"
=============================================================================
