------------------------------ MODULE MacBridge ------------------------------
(***************************************************************************)
(* The macOS shim (AnowawMacBridge.m) as far as it can get: construction,  *)
(* the bridge thread, the chain of system callbacks that looks for the     *)
(* window of an app, and stop.  A block sent to the bridge thread with     *)
(* performSelector:onThread: is run by that thread's run loop, and         *)
(* bridgeThreadMain runs none.  So no toplevel is ever created, the table  *)
(* of windows stays empty, and the code behind performOnBridgeThreadSync   *)
(* (captures, frames, injection, closing) is never reached.                *)
(***************************************************************************)
EXTENDS Naturals

CONSTANT Requests   \* calls of bridgeAppWithBundleId:completion:

VARIABLES
    object,      \* "none", "self" or "nil": what initWithSocketName: has returned;
                 \* "gone" once the process has aborted
    running,     \* the property of that name
    thread,      \* where bridgeThreadMain is: "none", "starting", "loop", "pumping",
                 \* "leaving" or "done"
    core,        \* "none", "up" or "freed": the Rust bridge
    request,     \* how far each request has come: "idle", "launching", "settling",
                 \* "locating", "hopping" or "over"
    completed,   \* how often its completion block has been called
    stopped      \* whether stop has been called and has returned

threadVars == <<thread, core>>
requestVars == <<request, completed>>
vars == <<object, running, threadVars, requestVars, stopped>>

Init ==
    /\ object = "none" /\ running = FALSE /\ thread = "none" /\ core = "none"
    /\ request = [r \in Requests |-> "idle"]
    /\ completed = [r \in Requests |-> 0]
    /\ stopped = FALSE

\* initWithSocketName:, which refuses another ABI and else only starts the thread.
InitWithSocketName ==
    /\ object = "none"
    /\ \/ /\ object' = "nil"
          /\ UNCHANGED <<running, thread>>
       \/ /\ object' = "self"
          /\ running' = TRUE
          /\ thread' = "starting"
    /\ UNCHANGED <<core, requestVars, stopped>>

-----------------------------------------------------------------------------
(* bridgeThreadMain.                                                        *)

\* Faulty variant: the thread raises running itself, once it has connected.
ThreadStartsLate ==
    /\ thread = "starting"
    /\ \/ /\ core' = "up" /\ thread' = "loop"
          /\ running' = TRUE
       \/ /\ thread' = "done" /\ running' = FALSE
          /\ UNCHANGED core
    /\ UNCHANGED <<object, requestVars, stopped>>

ThreadStarts ==
    /\ thread = "starting"
    /\ \/ /\ core' = "up" /\ thread' = "loop"
          /\ UNCHANGED running
       \/ /\ thread' = "done" /\ running' = FALSE
          /\ UNCHANGED core
    /\ UNCHANGED <<object, requestVars, stopped>>

\* The test of the while loop.
ThreadLoops ==
    /\ thread = "loop"
    /\ thread' = IF running THEN "pumping" ELSE "leaving"
    /\ UNCHANGED <<object, running, core, requestVars, stopped>>

\* Dispatch, poll, and a nap: no event finds a window to inject into, and no window
\* asks to be closed.
ThreadPumps ==
    /\ thread = "pumping"
    /\ thread' = "loop"
    /\ UNCHANGED <<object, running, core, requestVars, stopped>>

\* anowaw_stop, and the end of the thread.
ThreadLeaves ==
    /\ thread = "leaving"
    /\ core' = "freed"
    /\ thread' = "done"
    /\ UNCHANGED <<object, running, requestVars, stopped>>

-----------------------------------------------------------------------------
(* A request, from callback to callback.                                    *)

Complete(r) ==
    /\ completed' = [completed EXCEPT ![r] = @ + 1]
    /\ request' = [request EXCEPT ![r] = "over"]

Continue(r, next) ==
    /\ request' = [request EXCEPT ![r] = next]
    /\ UNCHANGED completed

\* The app runs already, is not installed, or is launched.
BridgeApp(r) ==
    /\ object = "self" /\ request[r] = "idle"
    /\ Continue(r, "locating") \/ Complete(r) \/ Continue(r, "launching")
    /\ UNCHANGED <<object, running, threadVars, stopped>>

\* Faulty variant: the handler reports a failed launch and goes on.
LaunchedAnyway(r) ==
    /\ object = "self" /\ request[r] = "launching"
    /\ \/ /\ completed' = [completed EXCEPT ![r] = @ + 1]
          /\ request' = [request EXCEPT ![r] = "settling"]
       \/ Continue(r, "settling")
    /\ UNCHANGED <<object, running, threadVars, stopped>>

\* The completion handler of openApplicationAtURL:.
Launched(r) ==
    /\ object = "self" /\ request[r] = "launching"
    /\ Complete(r) \/ Continue(r, "settling")
    /\ UNCHANGED <<object, running, threadVars, stopped>>

\* The block given to dispatch_after.
Settled(r) ==
    /\ object = "self" /\ request[r] = "settling"
    /\ Continue(r, "locating")
    /\ UNCHANGED <<object, running, threadVars, stopped>>

\* A hop to a thread that has exited, or exits before it has made it, raises
\* NSDestinationInvalidException (Foundation), which nobody catches.
Abort ==
    /\ thread = "done"
    /\ object' = "gone"
    /\ UNCHANGED <<running, threadVars, requestVars, stopped>>

\* The completion handler of getShareableContent: an error or no window, or the
\* handler goes on to startCaptureForWindow, which waits for the bridge thread.
Located(r) ==
    /\ object = "self" /\ request[r] = "locating"
    /\ \/ /\ Complete(r) \/ (thread # "done" /\ Continue(r, "hopping"))
          /\ UNCHANGED <<object, running, threadVars, stopped>>
       \/ Abort

\* The bridge thread has ended while a hop was waiting for it.
HopRaises(r) ==
    /\ object = "self" /\ request[r] = "hopping"
    /\ Abort

\* stop, which only lowers the flag: there is no window to close.
Stop ==
    /\ object = "self"
    /\ running' = FALSE
    /\ stopped' = TRUE
    /\ UNCHANGED <<object, threadVars, requestVars>>

-----------------------------------------------------------------------------

ThreadStep == ThreadStarts \/ ThreadLoops \/ ThreadPumps \/ ThreadLeaves
CallbackStep(r) == Launched(r) \/ Settled(r) \/ Located(r) \/ HopRaises(r)

\* Nothing is left to do.
Finished ==
    /\ object \in {"nil", "gone"} \/ thread = "done"
    /\ object = "self" => \A r \in Requests : request[r] = "over"
    /\ UNCHANGED vars

Next ==
    \/ InitWithSocketName \/ ThreadStep \/ Stop
    \/ \E r \in Requests : BridgeApp(r) \/ CallbackStep(r)
    \/ Finished

Spec == Init /\ [][Next]_vars

\* The bridge thread runs, and the system calls the handlers it has been given.
Fairness == WF_vars(ThreadStep) /\ \A r \in Requests : WF_vars(CallbackStep(r))

FairSpec == Spec /\ Fairness

-----------------------------------------------------------------------------

\* A request is answered at most once, whichever of its callbacks answers it.
AnsweredOnce == \A r \in Requests : completed[r] <= 1

\* stop disconnects, also when it comes before the thread has connected: running is
\* raised by the constructor, so that no later assignment undoes the stop.
StopDisconnects == stopped ~> thread = "done" /\ core # "up"

\* AnowawMacBridge.h:45: "Completion delivers the nonzero anowaW app handle, or 0 on
\* failure."  It should at least as long as the bridge thread lives.
CompletionDelivers ==
    \A r \in Requests : request[r] # "idle" ~> completed[r] > 0 \/ thread = "done"
=============================================================================
