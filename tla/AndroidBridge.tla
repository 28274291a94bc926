---------------------------- MODULE AndroidBridge ----------------------------
(***************************************************************************)
(* The Android controller (AnowawBridge.kt) over the JNI glue: the looper  *)
(* of the bridge thread, the threads that call the controller and wait on  *)
(* latches, and the callbacks that call it from the bridge thread.  Of the *)
(* core it keeps whether it lives and which apps it has.                   *)
(***************************************************************************)
EXTENDS Naturals, Sequences, FiniteSets

CONSTANTS
    Callers,     \* threads of the application
    Connector,   \* the one that connects
    MaxApps,     \* handles the core hands out
    MaxEvents,   \* input events of one poll
    MaxFrames,   \* images captured
    MaxCalls     \* calls of the controller by the callers

ASSUME CallersAssumption == Connector \in Callers
ASSUME AndroidAssumption ==
    /\ MaxApps \in Nat /\ MaxEvents \in Nat /\ MaxFrames \in Nat /\ MaxCalls \in Nat

VARIABLES
    corePtr,    \* whether corePtr is nonzero
    running,    \* the flag of that name
    apps,       \* keys of the map: apps with an open reader and virtual display
    looper,     \* "none", "open", "quitting" after quitSafely, or "exited"
    queue,      \* messages of the looper that are due
    timers,     \* delayed messages: pumps posted for 8 ms later
    steps,      \* what the bridge thread has left of the message it handles
    core,       \* "none", "up" or "freed": the Rust bridge
    coreApps,   \* apps registered in it
    made,       \* handles it has handed out
    pc,         \* where each caller is
    connected,  \* whether connect has returned a controller
    calls,      \* calls made (bounded)
    frames,     \* images captured (bounded)
    misuse      \* whether a native call has been given a pointer to no live core

coreVars == <<core, coreApps, made, misuse>>
threadVars == <<looper, queue, timers>>
callerVars == <<pc, connected, calls>>
vars == <<corePtr, running, apps, steps, frames, coreVars, threadVars, callerVars>>

Handle == 1..MaxApps
Nobody == "nobody"
NoApp == 0

ASSUME NobodyAssumption == Nobody \notin Callers

Kind == {"start", "run", "create", "close", "stop", "pump", "frame",
         "sink", "ready", "reap", "repost", "signal"}
Step == [do: Kind, by: Callers \union {Nobody}, app: 0..MaxApps]
StepOf(do, by, app) == [do |-> do, by |-> by, app |-> app]
Own(do) == StepOf(do, Nobody, NoApp)

Waiting == {"waiting", "waiting_stop"}

TypeOK ==
    /\ corePtr \in BOOLEAN /\ running \in BOOLEAN
    /\ apps \subseteq Handle /\ coreApps \subseteq Handle /\ made \in 0..MaxApps
    /\ looper \in {"none", "open", "quitting", "exited"}
    /\ queue \in Seq(Step) /\ steps \in Seq(Step) /\ timers \in Nat
    /\ core \in {"none", "up", "freed"} /\ misuse \in BOOLEAN
    /\ pc \in [Callers -> {"idle", "stopping", "quitting"} \union Waiting]
    /\ connected \in BOOLEAN /\ calls \in 0..MaxCalls /\ frames \in 0..MaxFrames

Init ==
    /\ corePtr = FALSE /\ running = FALSE /\ apps = {}
    /\ looper = "none" /\ queue = <<>> /\ timers = 0 /\ steps = <<>>
    /\ core = "none" /\ coreApps = {} /\ made = 0 /\ misuse = FALSE
    /\ pc = [c \in Callers |-> "idle"] /\ connected = FALSE
    /\ calls = 0 /\ frames = 0

-----------------------------------------------------------------------------
(* The natives: a null pointer is turned away, any other is used.           *)

Use == misuse' = (misuse \/ (corePtr /\ core # "up"))

\* nativeBridgeApp returned a handle, or 0: in the second case the core may have
\* registered the app all the same.
NativeBridgeApp(handle) ==
    /\ Use
    /\ \/ /\ handle = NoApp
          /\ UNCHANGED <<coreApps, made>>
       \/ /\ corePtr /\ made < MaxApps /\ handle \in {NoApp, made + 1}
          /\ coreApps' = coreApps \union {made + 1}
          /\ made' = made + 1

NativeCloseApps(closed) ==
    /\ IF closed # {} THEN Use ELSE UNCHANGED misuse
    /\ coreApps' = IF corePtr THEN coreApps \ closed ELSE coreApps

\* Faulty variant: stop leaves the pointer behind.
NativeStopKept ==
    IF corePtr
    THEN /\ Use
         /\ core' = "freed" /\ coreApps' = {}
         /\ UNCHANGED corePtr
    ELSE UNCHANGED <<core, coreApps, corePtr, misuse>>

\* nativeStop and the reset of corePtr after it.
NativeStop ==
    IF corePtr
    THEN /\ Use
         /\ core' = "freed" /\ coreApps' = {}
         /\ corePtr' = FALSE
    ELSE UNCHANGED <<core, coreApps, corePtr, misuse>>

-----------------------------------------------------------------------------
(* The looper.                                                              *)

\* handler.post: refused once the looper quits.
Post(step) ==
    queue' = IF looper = "open" THEN Append(queue, step) ELSE queue

\* Faulty variant: quit() drops the messages that are due as well.
QuitAtOnce ==
    /\ looper' = IF looper = "open" THEN "quitting" ELSE looper
    /\ timers' = 0
    /\ queue' = <<>>

\* thread.quitSafely(): what is due is still handled, what is delayed is dropped.
QuitSafely ==
    /\ looper' = IF looper = "open" THEN "quitting" ELSE looper
    /\ timers' = 0
    /\ UNCHANGED queue

\* The task of a message posted by a waiting caller counts the latch down in the end.
StepsOf(message) ==
    IF message.by # Nobody /\ message.do # "start"
    THEN <<message, StepOf("signal", message.by, NoApp)>>
    ELSE <<message>>

HandleMessage ==
    /\ steps = <<>> /\ queue # <<>>
    /\ steps' = StepsOf(Head(queue))
    /\ queue' = Tail(queue)
    /\ UNCHANGED <<corePtr, running, apps, frames, coreVars, looper, timers, callerVars>>

Exit ==
    /\ looper = "quitting" /\ steps = <<>> /\ queue = <<>>
    /\ looper' = "exited"
    /\ UNCHANGED <<corePtr, running, apps, steps, frames, coreVars, queue, timers, callerVars>>

PumpDue ==
    /\ timers > 0
    /\ timers' = timers - 1
    /\ queue' = Append(queue, Own("pump"))
    /\ UNCHANGED <<corePtr, running, apps, steps, frames, coreVars, looper, callerVars>>

\* An ImageReader has an image and posts its listener.
ImageAvailable ==
    /\ frames < MaxFrames
    /\ \E h \in apps : Post(StepOf("frame", Nobody, h))
    /\ frames' = frames + 1
    /\ UNCHANGED <<corePtr, running, apps, steps, coreVars, looper, timers, callerVars>>

-----------------------------------------------------------------------------
(* The bridge thread.                                                       *)

Doing(do) == steps # <<>> /\ Head(steps).do = do
Rest == Tail(steps)

\* The first part of the start task, up to latch.countDown().
StartCore ==
    /\ Doing("start")
    /\ \E ok \in BOOLEAN :
           /\ corePtr' = ok
           /\ core' = IF ok THEN "up" ELSE "none"
           /\ connected' = ok
           /\ steps' = IF ok THEN <<Own("run")>> \o Rest ELSE Rest
    /\ pc' = [pc EXCEPT ![Head(steps).by] = "idle"]
    /\ UNCHANGED <<running, apps, frames, coreApps, made, misuse, threadVars, calls>>

\* The second part, which runs although connect may have returned already.
StartPump ==
    /\ Doing("run")
    /\ running' = TRUE
    /\ steps' = <<Own("pump")>> \o Rest
    /\ UNCHANGED <<corePtr, apps, frames, coreVars, threadVars, callerVars>>

\* pump(): dispatch and poll; the sink is then called for each event.
Pump ==
    /\ Doing("pump")
    /\ IF running /\ corePtr
       THEN /\ Use
            /\ \E n \in 0..MaxEvents :
                   steps' = [i \in 1..n |-> Own("sink")] \o <<Own("reap"), Own("repost")>> \o Rest
       ELSE /\ steps' = Rest
            /\ UNCHANGED misuse
    /\ UNCHANGED <<corePtr, running, apps, frames, core, coreApps, made, threadVars, callerVars>>

\* Apps whose toplevel the compositor asked to close are closed.
Reap ==
    /\ Doing("reap")
    /\ \E toClose \in SUBSET (IF corePtr THEN apps ELSE {}) :
           /\ apps' = apps \ toClose
           /\ coreApps' = coreApps \ toClose
    /\ IF apps # {} THEN Use ELSE UNCHANGED misuse
    /\ steps' = Rest
    /\ UNCHANGED <<corePtr, running, frames, core, made, threadVars, callerVars>>

\* Faulty variant: a pump that closed the last app is not posted again.
RepostIfAny ==
    /\ Doing("repost")
    /\ timers' = IF looper = "open" /\ apps # {} THEN timers + 1 ELSE timers
    /\ steps' = Rest
    /\ UNCHANGED <<corePtr, running, apps, frames, coreVars, looper, queue, callerVars>>

\* handler.postDelayed(::pump, 8L).
Repost ==
    /\ Doing("repost")
    /\ timers' = IF looper = "open" THEN timers + 1 ELSE timers
    /\ steps' = Rest
    /\ UNCHANGED <<corePtr, running, apps, frames, coreVars, looper, queue, callerVars>>

\* Faulty variant: the listener pumps after it has pushed.
PushFrameAndPump ==
    /\ Doing("frame")
    /\ IF Head(steps).app \in apps THEN Use ELSE UNCHANGED misuse
    /\ steps' = <<Own("pump")>> \o Rest
    /\ UNCHANGED <<corePtr, running, apps, frames, core, coreApps, made, threadVars, callerVars>>

\* The image listener; a reader that has been closed calls it no more.
PushFrame ==
    /\ Doing("frame")
    /\ IF Head(steps).app \in apps THEN Use ELSE UNCHANGED misuse
    /\ steps' = Rest
    /\ UNCHANGED <<corePtr, running, apps, frames, core, coreApps, made, threadVars, callerVars>>

\* latch.countDown(): the caller goes on.
Signal ==
    /\ Doing("signal")
    /\ pc' = [pc EXCEPT ![Head(steps).by] = IF @ = "waiting_stop" THEN "quitting" ELSE "idle"]
    /\ steps' = Rest
    /\ UNCHANGED <<corePtr, running, apps, frames, coreVars, threadVars, connected, calls>>

-----------------------------------------------------------------------------
(* The blocks of createDisplay, closeApp and stop.                          *)

\* Faulty variant: the handle is not tested, and a display is made for 0.
CreateUntested ==
    /\ \E h \in 0..MaxApps :
           /\ NativeBridgeApp(h)
           /\ apps' = apps \union {h}
           /\ steps' = <<Own("ready")>> \o Rest
    /\ UNCHANGED <<corePtr, running, core, threadVars>>

\* The app is bridged, its reader and virtual display are made, and onFrameReady is
\* called; or the core has answered 0 and nothing is made.
Create ==
    /\ \E h \in 0..MaxApps :
           /\ NativeBridgeApp(h)
           /\ apps' = apps \union ({h} \ {NoApp})
           /\ steps' = IF h = NoApp THEN Rest ELSE <<Own("ready")>> \o Rest
    /\ UNCHANGED <<corePtr, running, core, threadVars>>

Close(h) ==
    /\ apps' = apps \ {h}
    /\ NativeCloseApps(apps \intersect {h})
    /\ steps' = Rest
    /\ UNCHANGED <<corePtr, running, core, made, threadVars>>

StopBlock ==
    /\ apps' = {}
    /\ NativeStop
    /\ steps' = Rest
    /\ UNCHANGED made

CreateTask == /\ Doing("create") /\ Create /\ UNCHANGED <<frames, callerVars>>
CloseTask  == /\ Doing("close") /\ Close(Head(steps).app) /\ UNCHANGED <<frames, callerVars>>
StopTask   == /\ Doing("stop") /\ StopBlock
              /\ UNCHANGED <<running, threadVars, frames, callerVars>>

\* inputSink or onFrameReady, which run on the bridge thread: a call of the controller
\* they make is run in place and not posted.
Callback ==
    /\ Doing("sink") \/ Doing("ready")
    /\ \/ /\ steps' = Rest
          /\ UNCHANGED <<corePtr, running, apps, coreVars, threadVars>>
       \/ Create
       \/ \E h \in Handle : Close(h)
       \/ /\ running' = FALSE
          /\ StopBlock
          /\ QuitSafely
    /\ UNCHANGED <<frames, callerVars>>

-----------------------------------------------------------------------------
(* The callers.                                                             *)

\* connect: the thread is started and its first message is the start task.
Connect ==
    /\ looper = "none"
    /\ looper' = "open"
    /\ queue' = <<StepOf("start", Connector, NoApp)>>
    /\ pc' = [pc EXCEPT ![Connector] = "waiting"]
    /\ UNCHANGED <<corePtr, running, apps, timers, steps, frames, coreVars, connected, calls>>

\* A call of the controller begins.
Enter(c) ==
    /\ connected /\ pc[c] = "idle" /\ calls < MaxCalls
    /\ calls' = calls + 1
    /\ UNCHANGED <<corePtr, apps, timers, steps, frames, coreVars, looper, connected>>

CallCreateDisplay(c) ==
    /\ Enter(c)
    /\ Post(StepOf("create", c, NoApp))
    /\ pc' = [pc EXCEPT ![c] = "waiting"]
    /\ UNCHANGED running

CallCloseApp(c) ==
    /\ Enter(c)
    /\ \E h \in Handle : Post(StepOf("close", c, h))
    /\ pc' = [pc EXCEPT ![c] = "waiting"]
    /\ UNCHANGED running

CallStop(c) ==
    /\ Enter(c)
    /\ running' = FALSE
    /\ pc' = [pc EXCEPT ![c] = "stopping"]
    /\ UNCHANGED queue

PostStop(c) ==
    /\ pc[c] = "stopping"
    /\ Post(StepOf("stop", c, NoApp))
    /\ pc' = [pc EXCEPT ![c] = "waiting_stop"]
    /\ UNCHANGED <<corePtr, running, apps, timers, steps, frames, coreVars, looper,
                   connected, calls>>

Quit(c) ==
    /\ pc[c] = "quitting"
    /\ QuitSafely
    /\ pc' = [pc EXCEPT ![c] = "idle"]
    /\ UNCHANGED <<corePtr, running, apps, steps, frames, coreVars, connected, calls>>

-----------------------------------------------------------------------------

LooperStep == HandleMessage \/ Exit
ThreadStep ==
    \/ StartCore \/ StartPump \/ Pump \/ Reap \/ Repost \/ PushFrame \/ Signal
    \/ CreateTask \/ CloseTask \/ StopTask \/ Callback
CallerStep(c) == CallCreateDisplay(c) \/ CallCloseApp(c) \/ CallStop(c) \/ PostStop(c) \/ Quit(c)

\* All calls are made: whoever still waits waits for a looper that has quit.
Finished ==
    /\ looper # "none" /\ ~corePtr /\ steps = <<>> /\ queue = <<>> /\ timers = 0
    /\ \A c \in Callers : \/ pc[c] = "idle" /\ (connected => calls = MaxCalls)
                          \/ pc[c] \in Waiting /\ looper = "exited"
    /\ UNCHANGED vars

Next ==
    \/ Connect \/ LooperStep \/ ThreadStep \/ PumpDue \/ ImageAvailable
    \/ \E c \in Callers : CallerStep(c)
    \/ Finished

Spec == Init /\ [][Next]_vars

\* Threads that can run do, a delayed message becomes due, and the two halves of stop
\* follow each other.  Nobody has to call.
Fairness ==
    /\ WF_vars(LooperStep \/ ThreadStep)
    /\ WF_vars(PumpDue)
    /\ \A c \in Callers : WF_vars(PostStop(c) \/ Quit(c))

FairSpec == Spec /\ Fairness

-----------------------------------------------------------------------------

\* No native call is made on a core that has been stopped, and none is stopped twice:
\* messages that were due before quitSafely, calls that raced with stop and the rest of
\* a pump whose callback stopped the bridge all run after anowaw_stop.
CoreAliveWhenUsed == ~misuse

\* No virtual display and reader without a toplevel in the core to show it: when an app
\* is closed, when the core refuses it, and after stop.
DisplaysAreBridged == apps \subseteq coreApps

\* While the core lives and nobody is stopping it, a pump is running or will run,
\* also when connect's caller or a callback acts before running is set.
Pumps == {"run", "pump", "repost"}
PumpPending ==
    \/ timers > 0
    \/ \E i \in DOMAIN queue : queue[i].do = "pump"
    \/ \E i \in DOMAIN steps : steps[i].do \in Pumps
Stopping == \E c \in Callers : pc[c] \in {"stopping", "waiting_stop"}
PumpGoesOn == core = "up" /\ ~Stopping => PumpPending

\* The pump is one loop: no two are ever scheduled side by side.
OnePump ==
    timers + Cardinality({i \in DOMAIN queue : queue[i].do = "pump"})
           + Cardinality({i \in DOMAIN steps : steps[i].do \in Pumps}) <= 1

\* A call whose block the looper has accepted returns, also when the bridge is stopped
\* meanwhile (quitSafely, and countDown in a finally).
AcceptedCallsReturn ==
    \A c \in Callers :
        (\E i \in DOMAIN queue : queue[i].by = c) ~> pc[c] \notin Waiting

\* What AnowawBridge.kt:119 says of createDisplay, that it returns: every call that
\* waits on a latch does.
CallsReturn == \A c \in Callers : pc[c] \in Waiting ~> pc[c] \notin Waiting
=============================================================================
