-------------------------------- MODULE CAbi --------------------------------
(***************************************************************************)
(* The C ABI (core/src/ffi.rs): each entry point is the script of pumps    *)
(* and bodies it runs on the one thread that owns the bridge.  The shim    *)
(* calls only with handles bridge_app returned to it, and calls nothing    *)
(* while a call is in progress (ffi.rs: all functions are thread-affine).  *)
(***************************************************************************)
EXTENDS Bridge

VARIABLE bridge   \* "null", or "running" once anowaw_start has returned a pointer

abiVars == <<bridge, coreVars>>

AbiTypeOK == bridge \in {"null", "running"}

AbiInit == bridge = "null"

\* A call with the given script and arguments starts.
Call(script, h, size) ==
    /\ bridge = "running" /\ todo = <<>>
    /\ todo' = script
    /\ call' = [handle |-> h, size |-> size]
    /\ UNCHANGED <<wireVars, bridge, appVars, seatVars, next_handle, shimVars>>

CallBridgeApp ==
    /\ next_handle <= MaxApps
    /\ Call(<<"pump", "bridge_app", "pump", "return">>, None, None)

\* Size None stands for a buffer that is too short for the frame.
CallPushFrame ==
    \E h \in known, size \in 0..MaxSize :
        /\ pools_made < MaxPools \/ size = None \/ ~NeedsNew(h, size)
        /\ Call(<<"pump", "push_frame">>, h, size)

CallPollInput == Call(<<"pump?", "poll_input">>, None, None)

CallCloseRequested(h) == Call(<<"pump", "close_requested">>, h, None)

CallCloseApp ==
    \E h \in known : Call(<<"close_app", "pump">>, h, None)

CallDispatch == Call(<<"pump?">>, None, None)

\* Bridge::connect succeeds: it has bound each of the n seats the compositor has, and
\* the roundtrip that ends it has read what they said of themselves, and dispatches it.
AnowawStart(n) ==
    /\ bridge = "null"
    /\ bridge' = "running"
    /\ conn' = "up"
    /\ reqs' = <<>> /\ flushed' = 0
    /\ evs' = [i \in 1..n |-> Msg("capabilities", None, None, 0, i)]
    /\ read' = n
    /\ todo' = <<"deliver">>
    /\ UNCHANGED <<appVars, seatVars, next_handle, call, shimVars>>

\* The bridge is dropped: the connection is closed and its state is gone; the
\* handle counter belongs to the process and stays.
AnowawStop ==
    /\ bridge = "running" /\ todo = <<>>
    /\ bridge' = "null"
    /\ conn' = "none"
    /\ reqs' = <<>> /\ flushed' = 0 /\ evs' = <<>> /\ read' = 0
    /\ live' = {} /\ configured' = {} /\ close_requested' = {}
    /\ pool' = [h \in Handle |-> None]
    /\ dims' = [h \in Handle |-> None]
    /\ busy' = [h \in Handle |-> {}]
    /\ devices' = {} /\ focus' = [d \in Device |-> None]
    /\ input_queue' = <<>> /\ polled' = 0
    /\ UNCHANGED <<pools_made, next_handle, todo, call, shimVars>>

AbiStep ==
    \/ CallBridgeApp \/ CallPushFrame \/ CallPollInput
    \/ (\E h \in known : CallCloseRequested(h)) \/ CallCloseApp \/ CallDispatch
    \/ CoreStep /\ UNCHANGED bridge
=============================================================================
