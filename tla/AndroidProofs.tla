---------------------------- MODULE AndroidProofs ----------------------------
(***************************************************************************)
(* The Android controller never uses a core that has been stopped, never   *)
(* keeps a display that has no toplevel, and pumps a living core by one    *)
(* chain of messages that does not break.                                  *)
(***************************************************************************)
EXTENDS AndroidBridge, SequenceTheorems, FiniteSetTheorems, TLAPS

\* The pointer is the truth about the core, which is why testing it is enough.
PointerTells == corePtr => core = "up"

ControllerInv == PointerTells /\ CoreAliveWhenUsed /\ DisplaysAreBridged

LEMMA UseIsSafe ==
    ASSUME PointerTells, CoreAliveWhenUsed, Use
    PROVE  CoreAliveWhenUsed'
BY DEF PointerTells, CoreAliveWhenUsed, Use

\* The blocks run by a task or, in a callback, in place.
LEMMA BlockKeepsInv ==
    ASSUME ControllerInv,
           Create \/ (\E h : Close(h)) \/ StopBlock
    PROVE  ControllerInv'
<1> USE DEF ControllerInv, PointerTells, DisplaysAreBridged
<1>1. CASE Create
  <2>1. PICK h \in 0..MaxApps :
           NativeBridgeApp(h) /\ apps' = apps \union ({h} \ {NoApp})
    BY <1>1 DEF Create
  <2>2. CoreAliveWhenUsed'
    BY <2>1, UseIsSafe DEF NativeBridgeApp
  <2>3. apps' \subseteq coreApps'
    BY <2>1 DEF NativeBridgeApp
  <2> QED BY <1>1, <2>2, <2>3 DEF Create
<1>2. CASE \E h : Close(h)
  <2>1. PICK h : Close(h)
    BY <1>2
  <2>2. CoreAliveWhenUsed'
    BY <2>1, UseIsSafe DEF Close, NativeCloseApps, CoreAliveWhenUsed
  <2>3. apps' \subseteq coreApps'
    BY <2>1 DEF Close, NativeCloseApps
  <2> QED BY <2>1, <2>2, <2>3 DEF Close
<1>3. CASE StopBlock
  <2>1. CoreAliveWhenUsed'
    BY <1>3, UseIsSafe DEF StopBlock, NativeStop, CoreAliveWhenUsed
  <2> QED BY <1>3, <2>1 DEF StopBlock, NativeStop
<1> QED BY <1>1, <1>2, <1>3

LEMMA InvInit == Init => ControllerInv
BY DEF Init, ControllerInv, PointerTells, CoreAliveWhenUsed, DisplaysAreBridged

LEMMA InvNext == ControllerInv /\ [Next]_vars => ControllerInv'
<1> SUFFICES ASSUME ControllerInv, [Next]_vars PROVE ControllerInv'
  OBVIOUS
<1> USE DEF ControllerInv
<1> DEFINE Kept == /\ corePtr' = corePtr /\ core' = core /\ misuse' = misuse
                   /\ apps' = apps /\ coreApps' = coreApps
<1>1. Kept => ControllerInv'
  BY DEF PointerTells, CoreAliveWhenUsed, DisplaysAreBridged
<1>2. ASSUME Connect \/ LooperStep \/ PumpDue \/ ImageAvailable
             \/ (\E c \in Callers : CallerStep(c)) \/ UNCHANGED vars
      PROVE  Kept
  BY <1>2 DEF Connect, LooperStep, HandleMessage, Exit, PumpDue, ImageAvailable, CallerStep,
              CallCreateDisplay, CallCloseApp, CallStop, PostStop, Quit, Enter, vars, coreVars
<1>3. ASSUME StartPump \/ Repost \/ Signal PROVE Kept
  BY <1>3 DEF StartPump, Repost, Signal, coreVars
<1>4. CASE StartCore
  BY <1>4 DEF StartCore, PointerTells, CoreAliveWhenUsed, DisplaysAreBridged
<1>5. CASE Pump \/ PushFrame
  <2>1. CoreAliveWhenUsed'
    BY <1>5, UseIsSafe DEF Pump, PushFrame, CoreAliveWhenUsed
  <2> QED BY <1>5, <2>1 DEF Pump, PushFrame, PointerTells, DisplaysAreBridged
<1>6. CASE Reap
  <2>1. CoreAliveWhenUsed'
    BY <1>6, UseIsSafe DEF Reap, CoreAliveWhenUsed
  <2>2. DisplaysAreBridged'
    BY <1>6 DEF Reap, DisplaysAreBridged
  <2> QED BY <1>6, <2>1, <2>2 DEF Reap, PointerTells
<1>7. CASE CreateTask \/ StopTask
  BY <1>7, BlockKeepsInv DEF CreateTask, StopTask
<1>8. CASE CloseTask
  BY <1>8, BlockKeepsInv DEF CloseTask
<1>9. CASE Callback
  <2>1. Kept \/ Create \/ (\E h \in Handle : Close(h)) \/ StopBlock
    BY <1>9 DEF Callback, coreVars
  <2> QED BY <1>1, <2>1, BlockKeepsInv
<1> QED
  BY <1>1, <1>2, <1>3, <1>4, <1>5, <1>6, <1>7, <1>8, <1>9
     DEF Next, ThreadStep, Finished

LEMMA InvHolds == Spec => []ControllerInv
BY InvInit, InvNext, PTL DEF Spec

\* Whatever the threads and callbacks do, a native call finds a living core.
THEOREM CoreOutlivesUse == Spec => []CoreAliveWhenUsed
<1>1. ControllerInv => CoreAliveWhenUsed
  BY DEF ControllerInv
<1> QED BY <1>1, InvHolds, PTL

\* Every virtual display has a toplevel that shows it.
THEOREM NoForgottenDisplay == Spec => []DisplaysAreBridged
<1>1. ControllerInv => DisplaysAreBridged
  BY DEF ControllerInv
<1> QED BY <1>1, InvHolds, PTL

-----------------------------------------------------------------------------
(* The looper.  Jobs are the messages the callers post; the thread works on *)
(* one at a time, and tells the caller in the end.                          *)

Jobs == {"start", "create", "close", "stop"}
Posted == Jobs \union {"pump", "frame"}

QueueShape ==
    \A i \in DOMAIN queue :
        queue[i].do \in Posted /\ (queue[i].do \in Jobs <=> queue[i].by \in Callers)

StepShape ==
    \A i \in DOMAIN steps :
        /\ steps[i].do \in Jobs \union {"signal"} <=> steps[i].by \in Callers
        /\ steps[i].do \in Jobs => i = 1
        /\ steps[i].do = "signal" => i = Len(steps)

\* Whoever has posted a job waits until it is done, and has posted no other.
PostersWait ==
    /\ \A i \in DOMAIN queue :
           queue[i].by \in Callers =>
               /\ pc[queue[i].by] \in Waiting
               /\ pc[queue[i].by] = "waiting_stop" => queue[i].do = "stop"
    /\ \A i \in DOMAIN steps : steps[i].by \in Callers => pc[steps[i].by] \in Waiting
    /\ \A i, j \in DOMAIN queue :
           queue[i].by \in Callers /\ queue[i].by = queue[j].by => i = j
    /\ \A i \in DOMAIN queue, j \in DOMAIN steps :
           queue[i].by \in Callers => queue[i].by # steps[j].by

\* Until the start task is done nothing else happens.
NothingYet ==
    /\ timers = 0 /\ core = "none" /\ ~connected /\ apps = {}
    /\ \A c \in Callers : pc[c] \in {"idle", "waiting"}

StartIsFirst ==
    /\ looper = "none" => queue = <<>> /\ steps = <<>> /\ NothingYet
    /\ \A i \in DOMAIN queue :
           queue[i].do = "start" =>
               Len(queue) = 1 /\ steps = <<>> /\ looper = "open" /\ NothingYet
    /\ \A i \in DOMAIN steps :
           steps[i].do = "start" =>
               Len(steps) = 1 /\ queue = <<>> /\ looper = "open" /\ NothingYet

\* A core that is up is pumped by a looper that goes on, unless somebody stops it; who
\* stops it waits for the stop task.
UpMeansOpen ==
    core = "up" =>
        /\ corePtr /\ looper = "open"
        /\ \A c \in Callers : pc[c] # "quitting"
        /\ \A i \in DOMAIN steps :
               steps[i].do = "signal" /\ pc[steps[i].by] = "waiting_stop" =>
                   steps[1].do = "stop"
        /\ running \/ Stopping \/ \E i \in DOMAIN steps : steps[i].do = "run"

\* One pump at most: under way, posted, or delayed.
PumpInSteps == \E i \in DOMAIN steps : steps[i].do \in Pumps
PumpInQueue == \E i \in DOMAIN queue : queue[i].do = "pump"

SinglePump ==
    /\ \A i, j \in DOMAIN steps : steps[i].do \in Pumps /\ steps[j].do \in Pumps => i = j
    /\ \A i, j \in DOMAIN queue : queue[i].do = "pump" /\ queue[j].do = "pump" => i = j
    /\ timers <= 1
    /\ timers > 0 => ~PumpInSteps /\ ~PumpInQueue
    /\ ~(PumpInSteps /\ PumpInQueue)

LooperInv ==
    /\ TypeOK
    /\ QueueShape /\ StepShape /\ PostersWait /\ StartIsFirst
    /\ UpMeansOpen /\ SinglePump /\ PumpGoesOn
-----------------------------------------------------------------------------
(* Sequences of steps.                                                      *)

LEMMA StepIs ==
    ASSUME NEW do \in Kind, NEW by \in Callers \union {Nobody}, NEW app \in 0..MaxApps
    PROVE  /\ StepOf(do, by, app) \in Step
           /\ StepOf(do, by, app).do = do /\ StepOf(do, by, app).by = by
  BY DEF StepOf, Step

LEMMA OwnIs ==
    ASSUME NEW do \in Kind
    PROVE  Own(do) \in Step /\ Own(do).do = do /\ Own(do).by = Nobody
  BY StepIs, AndroidAssumption DEF Own, NoApp

\* The first step is replaced by what comes of it.
Follows(new, pre, seq) ==
    /\ new \in Seq(Step) /\ Len(new) = Len(pre) + Len(seq) - 1
    /\ \A i \in DOMAIN new :
           \/ i \in DOMAIN pre /\ new[i] = pre[i]
           \/ \E k \in DOMAIN seq : k > 1 /\ i = Len(pre) + k - 1 /\ new[i] = seq[k]
    /\ \A i \in DOMAIN pre : i \in DOMAIN new /\ new[i] = pre[i]
    /\ \A k \in DOMAIN seq :
           k > 1 => Len(pre) + k - 1 \in DOMAIN new /\ new[Len(pre) + k - 1] = seq[k]

LEMMA PrefixFollows ==
    ASSUME NEW pre \in Seq(Step), NEW seq \in Seq(Step), seq # <<>>
    PROVE  Follows(pre \o Tail(seq), pre, seq)
  <1> DEFINE rest == Tail(seq)
             new == pre \o rest
             n == Len(pre)
  <1>1. /\ rest \in Seq(Step) /\ Len(rest) = Len(seq) - 1 /\ Len(seq) \in Nat /\ Len(seq) > 0
        /\ \A i \in 1..Len(seq) - 1 : rest[i] = seq[i + 1]
    OBVIOUS
  <1>2. n \in Nat /\ DOMAIN pre = 1..n /\ DOMAIN seq = 1..Len(seq)
    OBVIOUS
  <1>3. /\ new \in Seq(Step) /\ Len(new) = n + Len(rest)
        /\ \A i \in 1..n + Len(rest) : new[i] = IF i <= n THEN pre[i] ELSE rest[i - n]
    <2> HIDE DEF rest
    <2> QED BY <1>1, ConcatProperties DEF new, n
  <1>4. DOMAIN new = 1..n + Len(seq) - 1
    BY <1>1, <1>3
  <1> HIDE DEF rest, n, new
  <1>5. ASSUME NEW k \in DOMAIN seq, k > 1
        PROVE  n + k - 1 \in DOMAIN new /\ new[n + k - 1] = seq[k]
    <2>1. k - 1 \in 1..Len(seq) - 1 /\ (n + k - 1) - n = k - 1 /\ k - 1 + 1 = k
      BY <1>2, <1>5
    <2>2. n + k - 1 \in 1..n + Len(rest) /\ ~(n + k - 1 <= n)
      BY <1>1, <1>2, <2>1
    <2> QED BY <1>1, <1>3, <1>4, <2>1, <2>2
  <1>6. ASSUME NEW i \in DOMAIN new, i \notin DOMAIN pre
        PROVE  \E k \in DOMAIN seq : k > 1 /\ i = n + k - 1 /\ new[i] = seq[k]
    <2>1. i - n + 1 \in DOMAIN seq /\ i - n + 1 > 1 /\ i = n + (i - n + 1) - 1
      BY <1>1, <1>2, <1>4, <1>6
    <2> QED BY <1>5, <2>1
  <1>7. \A i \in DOMAIN pre : i \in DOMAIN new /\ new[i] = pre[i]
    BY <1>1, <1>2, <1>3, <1>4
  <1>8. Len(new) = n + Len(seq) - 1
    BY <1>1, <1>2, <1>3
  <1>9. Follows(new, pre, seq)
    BY <1>3, <1>5, <1>6, <1>7, <1>8 DEF Follows, n
  <1> QED BY <1>9 DEF new, rest

\* The rest alone.
LEMMA RestFacts ==
    ASSUME NEW seq \in Seq(Step), seq # <<>>
    PROVE  /\ Tail(seq) \in Seq(Step) /\ Len(Tail(seq)) = Len(seq) - 1
           /\ \A i \in DOMAIN Tail(seq) :
                  i \in Nat /\ i > 0 /\ i + 1 \in DOMAIN seq /\ Tail(seq)[i] = seq[i + 1]
           /\ \A k \in DOMAIN seq :
                  k > 1 => k - 1 \in DOMAIN Tail(seq) /\ Tail(seq)[k - 1] = seq[k]
           /\ Tail(seq) = <<>> \o Tail(seq)
           /\ Head(seq) = seq[1] /\ 1 \in DOMAIN seq
  OBVIOUS

LEMMA AppendFacts ==
    ASSUME NEW seq \in Seq(Step), NEW m \in Step
    PROVE  /\ Append(seq, m) \in Seq(Step) /\ Len(Append(seq, m)) = Len(seq) + 1
           /\ Len(seq) + 1 \in DOMAIN Append(seq, m) /\ Append(seq, m)[Len(seq) + 1] = m
           /\ \A i \in DOMAIN seq : i \in DOMAIN Append(seq, m) /\ Append(seq, m)[i] = seq[i]
           /\ \A i \in DOMAIN Append(seq, m) :
                  \/ i \in DOMAIN seq /\ Append(seq, m)[i] = seq[i]
                  \/ i = Len(seq) + 1 /\ Append(seq, m)[i] = m
  OBVIOUS

LEMMA PostFacts ==
    ASSUME queue \in Seq(Step), NEW m \in Step, Post(m)
    PROVE  /\ queue' \in Seq(Step)
           /\ \A i \in DOMAIN queue : i \in DOMAIN queue' /\ queue'[i] = queue[i]
           /\ \A i \in DOMAIN queue' :
                  \/ i \in DOMAIN queue /\ queue'[i] = queue[i]
                  \/ i = Len(queue) + 1 /\ queue'[i] = m /\ i \notin DOMAIN queue
  BY AppendFacts DEF Post
-----------------------------------------------------------------------------
(* Types.                                                                   *)

LEMMA LooperInit == Init => LooperInv
  <1> SUFFICES ASSUME Init PROVE LooperInv
    OBVIOUS
  <1>1. queue = <<>> /\ steps = <<>> /\ timers = 0 /\ core = "none" /\ looper = "none"
    BY DEF Init
  <1>2. QueueShape /\ StepShape /\ PostersWait /\ UpMeansOpen /\ SinglePump /\ PumpGoesOn
    BY <1>1 DEF QueueShape, StepShape, PostersWait, UpMeansOpen, SinglePump, PumpGoesOn,
                PumpInSteps, PumpInQueue
  <1>3. StartIsFirst
    BY DEF Init, StartIsFirst, NothingYet
  <1>4. TypeOK
    <2>1. /\ made \in 0..MaxApps /\ calls \in 0..MaxCalls /\ frames \in 0..MaxFrames
          /\ timers \in Nat
      BY AndroidAssumption DEF Init
    <2>2. pc \in [Callers -> {"idle", "stopping", "quitting"} \union Waiting]
      BY DEF Init
    <2>3. apps \subseteq Handle /\ coreApps \subseteq Handle
      BY DEF Init
    <2>4. queue \in Seq(Step) /\ steps \in Seq(Step)
      BY <1>1
    <2>5. corePtr \in BOOLEAN /\ running \in BOOLEAN /\ misuse \in BOOLEAN /\ connected \in BOOLEAN
      BY DEF Init
    <2> QED BY <1>1, <2>1, <2>2, <2>3, <2>4, <2>5 DEF TypeOK
  <1> QED BY <1>2, <1>3, <1>4 DEF LooperInv

\* The bridge thread's steps keep the types of what the callers see.
LEMMA ThreadStepTyped ==
    ASSUME TypeOK, ThreadStep
    PROVE  TypeOK'
  <1> USE AndroidAssumption DEF TypeOK
  <1>0. steps # <<>>
    BY DEF ThreadStep, StartCore, StartPump, Pump, Reap, Repost, PushFrame, Signal, CreateTask,
           CloseTask, StopTask, Callback, Doing
  <1>1. steps \in Seq(Step) /\ steps # <<>> /\ Head(steps) \in Step /\ Rest \in Seq(Step)
    BY <1>0 DEF Rest
  <1>2. ASSUME NEW do \in Kind PROVE <<Own(do)>> \o Rest \in Seq(Step)
    BY <1>1, OwnIs
  <1>3. ASSUME NEW c \in {"idle", "quitting"}, NEW by, pc' = [pc EXCEPT ![by] = c]
        PROVE  pc' \in [Callers -> {"idle", "stopping", "quitting"} \union Waiting]
    BY <1>3
  <1>4. CASE StartCore
    <2>1. steps' \in Seq(Step)
      BY <1>1, <1>2, <1>4 DEF StartCore, Kind
    <2>2. pc' \in [Callers -> {"idle", "stopping", "quitting"} \union Waiting]
      BY <1>3, <1>4 DEF StartCore
    <2> QED BY <1>4, <2>1, <2>2 DEF StartCore, threadVars
  <1>5. CASE StartPump
    <2>1. steps' \in Seq(Step)
      BY <1>2, <1>5 DEF StartPump, Kind
    <2> QED BY <1>5, <2>1 DEF StartPump, coreVars, threadVars, callerVars
  <1>6. CASE Pump
    <2>1. ASSUME NEW n \in 0..MaxEvents
          PROVE  [i \in 1..n |-> Own("sink")] \o <<Own("reap"), Own("repost")>> \o Rest \in Seq(Step)
      <3>1. [i \in 1..n |-> Own("sink")] \in Seq(Step)
        BY OwnIs DEF Kind
      <3>2. <<Own("reap"), Own("repost")>> \in Seq(Step)
        BY OwnIs DEF Kind
      <3> QED BY <1>1, <3>1, <3>2
    <2>2. steps' \in Seq(Step)
      BY <1>1, <1>6, <2>1 DEF Pump
    <2>3. misuse' \in BOOLEAN
      BY <1>6 DEF Pump, Use
    <2> QED BY <1>6, <2>2, <2>3 DEF Pump, threadVars, callerVars
  <1>7. CASE Reap
    <2>1. misuse' \in BOOLEAN /\ apps' \subseteq Handle /\ coreApps' \subseteq Handle
      BY <1>7 DEF Reap, Use
    <2> QED BY <1>1, <1>7, <2>1 DEF Reap, threadVars, callerVars
  <1>8. CASE Repost
    BY <1>1, <1>8 DEF Repost, coreVars, callerVars
  <1>9. CASE PushFrame
    <2>1. misuse' \in BOOLEAN
      BY <1>9 DEF PushFrame, Use
    <2> QED BY <1>1, <1>9, <2>1 DEF PushFrame, threadVars, callerVars
  <1>10. CASE Signal
    <2>1. pc' \in [Callers -> {"idle", "stopping", "quitting"} \union Waiting]
      BY <1>10 DEF Signal
    <2> QED BY <1>1, <1>10, <2>1 DEF Signal, coreVars, threadVars
  <1>11. ASSUME Create PROVE /\ steps' \in Seq(Step) /\ apps' \subseteq Handle
                             /\ coreApps' \subseteq Handle /\ made' \in 0..MaxApps
                             /\ misuse' \in BOOLEAN
                             /\ UNCHANGED <<corePtr, running, core, looper, queue, timers>>
    <2>1. PICK h \in 0..MaxApps :
             /\ NativeBridgeApp(h)
             /\ apps' = apps \union ({h} \ {NoApp})
             /\ steps' = IF h = NoApp THEN Rest ELSE <<Own("ready")>> \o Rest
      BY <1>11 DEF Create
    <2>2. steps' \in Seq(Step) /\ apps' \subseteq Handle
      BY <1>1, <1>2, <2>1 DEF Kind, Handle, NoApp
    <2>3. misuse' \in BOOLEAN
      BY <2>1 DEF NativeBridgeApp, Use
    <2>4. \/ UNCHANGED <<coreApps, made>>
          \/ /\ made < MaxApps /\ made' = made + 1
             /\ coreApps' = coreApps \union {made + 1}
      BY <2>1 DEF NativeBridgeApp
    <2>5. coreApps' \subseteq Handle /\ made' \in 0..MaxApps
      <3>1. made < MaxApps => made + 1 \in 1..MaxApps /\ made + 1 \in 0..MaxApps
        OBVIOUS
      <3> QED BY <2>4, <3>1 DEF Handle
    <2> QED BY <1>11, <2>2, <2>3, <2>5 DEF Create, threadVars
  <1>12. ASSUME NEW h, Close(h) PROVE /\ steps' \in Seq(Step) /\ apps' \subseteq Handle
                                      /\ coreApps' \subseteq Handle /\ misuse' \in BOOLEAN
                                      /\ UNCHANGED <<corePtr, running, core, made, looper,
                                                     queue, timers>>
    BY <1>1, <1>12 DEF Close, NativeCloseApps, Use, threadVars
  <1>13. ASSUME StopBlock PROVE /\ steps' \in Seq(Step) /\ apps' \subseteq Handle
                                /\ coreApps' \subseteq Handle /\ misuse' \in BOOLEAN
                                /\ corePtr' \in BOOLEAN /\ core' \in {"none", "up", "freed"}
                                /\ made' \in 0..MaxApps
    BY <1>1, <1>13 DEF StopBlock, NativeStop, Use
  <1>14. CASE CreateTask
    BY <1>11, <1>14 DEF CreateTask, callerVars
  <1>15. CASE CloseTask
    BY <1>12, <1>15 DEF CloseTask, callerVars
  <1>16. CASE StopTask
    BY <1>13, <1>16 DEF StopTask, callerVars, threadVars
  <1>17. CASE Callback
    <2>1. UNCHANGED <<frames, pc, connected, calls>>
      BY <1>17 DEF Callback, callerVars
    <2>2. CASE /\ steps' = Rest
               /\ UNCHANGED <<corePtr, running, apps, coreVars, threadVars>>
      BY <1>1, <2>1, <2>2 DEF coreVars, threadVars
    <2>3. CASE Create
      BY <1>11, <2>1, <2>3
    <2>4. CASE \E h \in Handle : Close(h)
      BY <1>12, <2>1, <2>4
    <2>5. CASE running' = FALSE /\ StopBlock /\ QuitSafely
      BY <1>13, <2>1, <2>5 DEF QuitSafely
    <2> QED BY <1>17, <2>2, <2>3, <2>4, <2>5 DEF Callback
  <1> QED
    BY <1>4, <1>5, <1>6, <1>7, <1>8, <1>9, <1>10, <1>14, <1>15, <1>16, <1>17 DEF ThreadStep

LEMMA OtherStepTyped ==
    ASSUME TypeOK,
           \/ Connect \/ LooperStep \/ PumpDue \/ ImageAvailable
           \/ (\E c \in Callers : CallerStep(c)) \/ UNCHANGED vars
    PROVE  TypeOK'
  <1> USE AndroidAssumption DEF TypeOK
  <1>1. CASE Connect
    <2>1. StepOf("start", Connector, NoApp) \in Step
      BY CallersAssumption, StepIs DEF Kind, NoApp
    <2>2. pc' \in [Callers -> {"idle", "stopping", "quitting"} \union Waiting]
      BY <1>1 DEF Connect, Waiting
    <2>3. queue' \in Seq(Step)
      BY <1>1, <2>1 DEF Connect
    <2> QED BY <1>1, <2>2, <2>3 DEF Connect, coreVars
  <1>2. CASE HandleMessage
    <2>1. queue # <<>> /\ Head(queue) \in Step /\ queue' \in Seq(Step)
      BY <1>2 DEF HandleMessage
    <2>2. StepOf("signal", Head(queue).by, NoApp) \in Step
      <3>1. Head(queue).by \in Callers \union {Nobody} /\ NoApp \in 0..MaxApps
        BY <2>1 DEF Step, NoApp
      <3> QED BY <3>1, StepIs DEF Kind
    <2>3. StepsOf(Head(queue)) \in Seq(Step)
      BY <2>1, <2>2 DEF StepsOf
    <2> QED BY <1>2, <2>1, <2>3 DEF HandleMessage, coreVars, callerVars
  <1>3. CASE Exit
    BY <1>3 DEF Exit, coreVars, callerVars
  <1>4. CASE PumpDue
    <2>1. queue' \in Seq(Step)
      BY <1>4, OwnIs DEF PumpDue, Kind
    <2> QED BY <1>4, <2>1 DEF PumpDue, coreVars, callerVars
  <1>5. CASE ImageAvailable
    <2>1. PICK h \in apps : Post(StepOf("frame", Nobody, h))
      BY <1>5 DEF ImageAvailable
    <2>2. StepOf("frame", Nobody, h) \in Step
      <3>1. h \in Handle
        OBVIOUS
      <3>2. h \in 0..MaxApps
        BY <3>1 DEF Handle
      <3> QED BY <3>2, StepIs DEF Kind
    <2>3. queue' \in Seq(Step)
      BY <2>1, <2>2, PostFacts
    <2>4. frames' \in 0..MaxFrames
      BY <1>5 DEF ImageAvailable
    <2> QED BY <1>5, <2>3, <2>4 DEF ImageAvailable, coreVars, callerVars
  <1>6. ASSUME NEW c \in Callers, CallerStep(c)
        PROVE  TypeOK'
    <2>1. ASSUME NEW do \in {"create", "close", "stop"}, NEW h \in 0..MaxApps,
                 Post(StepOf(do, c, h))
          PROVE  queue' \in Seq(Step)
      BY <2>1, StepIs, PostFacts DEF Kind
    <2>0. Enter(c) => calls' \in 0..MaxCalls
      BY DEF Enter
    <2>2. CASE CallCreateDisplay(c)
      <3>1. queue' \in Seq(Step)
        BY <2>1, <2>2 DEF CallCreateDisplay, NoApp
      <3> QED BY <2>0, <2>2, <3>1 DEF CallCreateDisplay, Enter, coreVars, Waiting
    <2>3. CASE CallCloseApp(c)
      <3>1. queue' \in Seq(Step)
        BY <2>1, <2>3 DEF CallCloseApp, Handle
      <3> QED BY <2>0, <2>3, <3>1 DEF CallCloseApp, Enter, coreVars, Waiting
    <2>4. CASE CallStop(c)
      BY <2>0, <2>4 DEF CallStop, Enter, coreVars
    <2>5. CASE PostStop(c)
      BY <2>1, <2>5 DEF PostStop, coreVars, Waiting, NoApp
    <2>6. CASE Quit(c)
      BY <2>6 DEF Quit, QuitSafely, coreVars
    <2> QED BY <1>6, <2>2, <2>3, <2>4, <2>5, <2>6 DEF CallerStep
  <1>7. CASE UNCHANGED vars
    BY <1>7 DEF vars, coreVars, threadVars, callerVars
  <1> QED BY <1>1, <1>2, <1>3, <1>4, <1>5, <1>6, <1>7 DEF LooperStep
-----------------------------------------------------------------------------
(* The bridge thread: its first step is replaced by what comes of it.       *)

Inner == {"run", "pump", "sink", "ready", "reap", "repost"}

\* What a step leaves to do is of the thread's own, and a pump only if it is one.
Replacement(pre) ==
    /\ pre \in Seq(Step)
    /\ \A i \in DOMAIN pre : pre[i].by = Nobody /\ pre[i].do \in Inner
    /\ \A i, j \in DOMAIN pre : pre[i].do \in Pumps /\ pre[j].do \in Pumps => i = j
    /\ (\E i \in DOMAIN pre : pre[i].do \in Pumps) => Head(steps).do \in Pumps

LEMMA ShapesGoOn ==
    ASSUME LooperInv, steps # <<>>, Head(steps).do # "start",
           NEW pre, Replacement(pre), steps' = pre \o Tail(steps),
           UNCHANGED <<queue, pc>>, looper' # "none"
    PROVE  QueueShape' /\ StepShape' /\ PostersWait' /\ StartIsFirst'
  <1>1. /\ steps \in Seq(Step) /\ queue \in Seq(Step) /\ pre \in Seq(Step)
        /\ QueueShape /\ StepShape /\ PostersWait /\ StartIsFirst
    BY DEF LooperInv, TypeOK, Replacement
  <1>2. /\ Len(steps') = Len(pre) + Len(steps) - 1
        /\ \A i \in DOMAIN steps' :
               \/ steps'[i].by = Nobody /\ steps'[i].do \in Inner
               \/ \E k \in DOMAIN steps :
                     k > 1 /\ i = Len(pre) + k - 1 /\ steps'[i] = steps[k]
    <2>1. Follows(steps', pre, steps)
      BY <1>1, PrefixFollows
    <2>2. \A i \in DOMAIN pre : pre[i].by = Nobody /\ pre[i].do \in Inner
      BY DEF Replacement
    <2> QED BY <2>1, <2>2 DEF Follows
  <1>3. \A i \in DOMAIN steps : i > 1 => steps[i].do \notin Jobs
    BY <1>1 DEF StepShape
  <1>4. Nobody \notin Callers /\ \A d \in Inner : d \notin Jobs \union {"signal"}
    BY NobodyAssumption DEF Inner, Jobs
  <1>5. QueueShape'
    BY <1>1 DEF QueueShape
  <1>6. StepShape'
    <2> SUFFICES ASSUME NEW i \in DOMAIN steps'
                 PROVE  /\ steps'[i].do \in Jobs \union {"signal"} <=> steps'[i].by \in Callers
                        /\ steps'[i].do \notin Jobs
                        /\ steps'[i].do = "signal" => i = Len(steps')
      BY DEF StepShape
    <2>1. CASE steps'[i].by = Nobody /\ steps'[i].do \in Inner
      BY <1>4, <2>1
    <2>2. CASE \E k \in DOMAIN steps :
                  k > 1 /\ i = Len(pre) + k - 1 /\ steps'[i] = steps[k]
      <3>1. PICK k \in DOMAIN steps : k > 1 /\ i = Len(pre) + k - 1 /\ steps'[i] = steps[k]
        BY <2>2
      <3> QED BY <1>1, <1>2, <1>3, <3>1 DEF StepShape
    <2> QED BY <1>2, <2>1, <2>2
  <1>7. PostersWait'
    <2>1. \A i \in DOMAIN steps' :
             steps'[i].by \in Callers => \E k \in DOMAIN steps : steps'[i] = steps[k]
      BY <1>2, <1>4
    <2>2. \A i \in DOMAIN steps' : steps'[i].by \in Callers => pc'[steps'[i].by] \in Waiting
      BY <1>1, <2>1 DEF PostersWait
    <2>3. \A i \in DOMAIN queue', j \in DOMAIN steps' :
             queue'[i].by \in Callers => queue'[i].by # steps'[j].by
      BY <1>1, <2>1 DEF PostersWait
    <2> QED BY <1>1, <2>2, <2>3 DEF PostersWait
  <1>8. StartIsFirst'
    <2>1. \A i \in DOMAIN queue : queue[i].do # "start"
      BY <1>1 DEF StartIsFirst
    <2>2. \A i \in DOMAIN steps' : steps'[i].do # "start"
      BY <1>2, <1>3 DEF Inner, Jobs
    <2> QED BY <2>1, <2>2 DEF StartIsFirst
  <1> QED BY <1>5, <1>6, <1>7, <1>8

\* The pump goes where its steps go.
LEMMA PumpGoesAlong ==
    ASSUME LooperInv, steps # <<>>, NEW pre, Replacement(pre), steps' = pre \o Tail(steps)
    PROVE  /\ \A i, j \in DOMAIN steps' :
                  steps'[i].do \in Pumps /\ steps'[j].do \in Pumps => i = j
           /\ PumpInSteps' => PumpInSteps
           /\ Head(steps).do \in Pumps =>
                  (PumpInSteps' <=> \E i \in DOMAIN pre : pre[i].do \in Pumps)
           /\ Head(steps).do \notin Pumps => (PumpInSteps' <=> PumpInSteps)
  <1>1. steps \in Seq(Step) /\ pre \in Seq(Step) /\ SinglePump
    BY DEF LooperInv, TypeOK, Replacement
  <1>2. /\ \A i \in DOMAIN steps' :
               \/ i \in DOMAIN pre /\ steps'[i] = pre[i]
               \/ \E k \in DOMAIN steps :
                     k > 1 /\ i = Len(pre) + k - 1 /\ steps'[i] = steps[k]
        /\ \A i \in DOMAIN pre : i \in DOMAIN steps' /\ steps'[i] = pre[i]
        /\ \A k \in DOMAIN steps :
               k > 1 => Len(pre) + k - 1 \in DOMAIN steps' /\ steps'[Len(pre) + k - 1] = steps[k]
    BY <1>1, PrefixFollows DEF Follows
  <1>3. Head(steps) = steps[1] /\ 1 \in DOMAIN steps
    BY <1>1, RestFacts
  <1>4. \A i, j \in DOMAIN steps : steps[i].do \in Pumps /\ steps[j].do \in Pumps => i = j
    BY <1>1 DEF SinglePump
  <1>5. \A i, j \in DOMAIN pre : pre[i].do \in Pumps /\ pre[j].do \in Pumps => i = j
    BY DEF Replacement
  <1>6. (\E i \in DOMAIN pre : pre[i].do \in Pumps) => Head(steps).do \in Pumps
    BY DEF Replacement
  <1>7. Head(steps).do \in Pumps => \A k \in DOMAIN steps : k > 1 => steps[k].do \notin Pumps
    BY <1>3, <1>4
  <1>8. ASSUME NEW i \in DOMAIN steps', NEW j \in DOMAIN steps',
               steps'[i].do \in Pumps, steps'[j].do \in Pumps
        PROVE  i = j
    <2>1. CASE Head(steps).do \in Pumps
      <3>1. i \in DOMAIN pre /\ steps'[i] = pre[i] /\ j \in DOMAIN pre /\ steps'[j] = pre[j]
        BY <1>2, <1>7, <1>8, <2>1
      <3> QED BY <1>5, <1>8, <3>1
    <2>2. CASE Head(steps).do \notin Pumps
      <3>1. PICK k \in DOMAIN steps : k > 1 /\ i = Len(pre) + k - 1 /\ steps'[i] = steps[k]
        BY <1>2, <1>6, <1>8, <2>2
      <3>2. PICK l \in DOMAIN steps : l > 1 /\ j = Len(pre) + l - 1 /\ steps'[j] = steps[l]
        BY <1>2, <1>6, <1>8, <2>2
      <3>3. k = l
        BY <1>4, <1>8, <3>1, <3>2
      <3> QED BY <3>1, <3>2, <3>3
    <2> QED BY <2>1, <2>2
  <1>9. PumpInSteps' => PumpInSteps
    BY <1>2, <1>3, <1>6 DEF PumpInSteps
  <1>10. Head(steps).do \in Pumps =>
            (PumpInSteps' <=> \E i \in DOMAIN pre : pre[i].do \in Pumps)
    BY <1>2, <1>7 DEF PumpInSteps
  <1>11. ASSUME Head(steps).do \notin Pumps, PumpInSteps PROVE PumpInSteps'
    <2>1. PICK k \in DOMAIN steps : steps[k].do \in Pumps
      BY <1>11 DEF PumpInSteps
    <2>2. k > 1
      BY <1>1, <1>3, <1>11, <2>1
    <2> QED BY <1>2, <2>1, <2>2 DEF PumpInSteps
  <1> QED BY <1>8, <1>9, <1>10, <1>11

LEMMA PendingIs ==
    /\ PumpPending <=> timers > 0 \/ PumpInQueue \/ PumpInSteps
    /\ PumpPending' <=> timers' > 0 \/ PumpInQueue' \/ PumpInSteps'
  BY DEF PumpPending, PumpInQueue, PumpInSteps

\* A step that leaves the core and the messages as they are, and passes a pump on.
LEMMA QuietStep ==
    ASSUME LooperInv, TypeOK', steps # <<>>, Head(steps).do \notin {"start", "stop", "run"},
           NEW pre, Replacement(pre), steps' = pre \o Tail(steps),
           Head(steps).do \in Pumps => \E i \in DOMAIN pre : pre[i].do \in Pumps,
           UNCHANGED <<queue, timers, looper, core, corePtr, running, pc>>
    PROVE  LooperInv'
  <1>1. /\ steps \in Seq(Step) /\ pre \in Seq(Step) /\ SinglePump /\ UpMeansOpen
        /\ PumpGoesOn /\ StartIsFirst
    BY DEF LooperInv, TypeOK, Replacement
  <1>2. looper' # "none"
    BY <1>1 DEF StartIsFirst
  <1>3. QueueShape' /\ StepShape' /\ PostersWait' /\ StartIsFirst'
    BY <1>2, ShapesGoOn
  <1>4. /\ \A i, j \in DOMAIN steps' : steps'[i].do \in Pumps /\ steps'[j].do \in Pumps => i = j
        /\ PumpInSteps' <=> PumpInSteps
    BY PumpGoesAlong
  <1>5. (PumpInQueue' <=> PumpInQueue) /\ (Stopping' <=> Stopping)
    BY DEF PumpInQueue, Stopping
  <1>6. SinglePump'
    BY <1>1, <1>4, <1>5 DEF SinglePump
  <1>7. PumpGoesOn'
    BY <1>1, <1>4, <1>5, PendingIs DEF PumpGoesOn
  <1>8. UpMeansOpen'
    <2>1. /\ \A i \in DOMAIN steps' :
                 steps'[i].do = "signal" => \E k \in DOMAIN steps : steps'[i] = steps[k]
          /\ \A k \in DOMAIN steps : k > 1 => \E i \in DOMAIN steps' : steps'[i] = steps[k]
      <3>1. Follows(steps', pre, steps)
        BY <1>1, PrefixFollows
      <3>2. \A i \in DOMAIN pre : pre[i].do # "signal"
        BY DEF Replacement, Inner
      <3> QED BY <3>1, <3>2 DEF Follows
    <2>2. Head(steps) = steps[1] /\ 1 \in DOMAIN steps
      BY <1>1, RestFacts
    <2>3. (\E k \in DOMAIN steps : steps[k].do = "run") =>
              \E i \in DOMAIN steps' : steps'[i].do = "run"
      <3> SUFFICES ASSUME NEW k \in DOMAIN steps, steps[k].do = "run"
                   PROVE  \E i \in DOMAIN steps' : steps'[i].do = "run"
        OBVIOUS
      <3>1. k > 1
        BY <1>1, <2>2
      <3> QED BY <2>1, <3>1
    <2> SUFFICES ASSUME core = "up"
                 PROVE  /\ corePtr' /\ looper' = "open" /\ \A c \in Callers : pc'[c] # "quitting"
                        /\ \A i \in DOMAIN steps' :
                               ~(steps'[i].do = "signal" /\ pc'[steps'[i].by] = "waiting_stop")
                        /\ \/ running' \/ Stopping'
                           \/ \E i \in DOMAIN steps' : steps'[i].do = "run"
      BY DEF UpMeansOpen
    <2>4. \A i \in DOMAIN steps :
             ~(steps[i].do = "signal" /\ pc[steps[i].by] = "waiting_stop")
      BY <1>1, <2>2 DEF UpMeansOpen
    <2>5. running \/ Stopping \/ \E i \in DOMAIN steps : steps[i].do = "run"
      BY <1>1 DEF UpMeansOpen
    <2>6. \A i \in DOMAIN steps' :
             ~(steps'[i].do = "signal" /\ pc'[steps'[i].by] = "waiting_stop")
      BY <2>1, <2>4
    <2>7. running' \/ Stopping' \/ \E i \in DOMAIN steps' : steps'[i].do = "run"
      BY <1>5, <2>3, <2>5
    <2>8. corePtr' /\ looper' = "open" /\ \A c \in Callers : pc'[c] # "quitting"
      BY <1>1 DEF UpMeansOpen
    <2> QED BY <2>6, <2>7, <2>8
  <1> QED BY <1>3, <1>6, <1>7, <1>8 DEF LooperInv
\* A step after which the core is not up.
LEMMA StoppedStep ==
    ASSUME LooperInv, TypeOK', steps # <<>>, Head(steps).do \in {"stop", "sink", "ready"},
           steps' = Tail(steps), core' # "up",
           UNCHANGED <<queue, pc>>, timers' \in {0, timers}, looper' # "none"
    PROVE  LooperInv'
  <1>1. Replacement(<<>>) /\ steps' = <<>> \o Tail(steps)
    BY RestFacts DEF LooperInv, TypeOK, Replacement
  <1>2. QueueShape' /\ StepShape' /\ PostersWait' /\ StartIsFirst'
    BY <1>1, ShapesGoOn
  <1>3. SinglePump'
    <2>1. /\ \A i, j \in DOMAIN steps' :
                 steps'[i].do \in Pumps /\ steps'[j].do \in Pumps => i = j
          /\ PumpInSteps' => PumpInSteps
      BY <1>1, PumpGoesAlong
    <2>2. SinglePump /\ timers \in Nat /\ timers' \in Nat
      BY DEF LooperInv, TypeOK
    <2> QED BY <2>1, <2>2 DEF SinglePump, PumpInQueue
  <1>4. UpMeansOpen' /\ PumpGoesOn'
    BY DEF UpMeansOpen, PumpGoesOn
  <1> QED BY <1>2, <1>3, <1>4 DEF LooperInv

LEMMA NoneIsReplacement ==
    ASSUME TypeOK, steps # <<>>
    PROVE  /\ Replacement(<<>>) /\ Tail(steps) = <<>> \o Tail(steps)
           /\ ~\E i \in DOMAIN <<>> : <<>>[i].do \in Pumps
           /\ Head(steps) = steps[1] /\ 1 \in DOMAIN steps
  BY RestFacts DEF TypeOK, Replacement

LEMMA OneIsReplacement ==
    ASSUME NEW do \in Inner, do \in Pumps => Head(steps).do \in Pumps
    PROVE  /\ Replacement(<<Own(do)>>)
           /\ (\E i \in DOMAIN <<Own(do)>> : <<Own(do)>>[i].do \in Pumps) <=> do \in Pumps
  <1>1. Own(do) \in Step /\ Own(do).do = do /\ Own(do).by = Nobody
    BY OwnIs DEF Inner, Kind
  <1>2. /\ <<Own(do)>> \in Seq(Step)
        /\ \A i \in DOMAIN <<Own(do)>> : i = 1 /\ <<Own(do)>>[i] = Own(do)
        /\ 1 \in DOMAIN <<Own(do)>>
    BY <1>1
  <1> QED BY <1>1, <1>2 DEF Replacement

LEMMA StartedLooper ==
    ASSUME LooperInv, steps # <<>>
    PROVE  looper # "none"
  BY DEF LooperInv, StartIsFirst

LEMMA StartPumpKeeps ==
    ASSUME LooperInv, TypeOK', StartPump
    PROVE  LooperInv'
  <1>1. /\ steps # <<>> /\ Head(steps).do = "run" /\ running' = TRUE
        /\ steps' = <<Own("pump")>> \o Tail(steps)
        /\ UNCHANGED <<corePtr, core, looper, queue, timers, pc>>
    BY DEF StartPump, Doing, Rest, coreVars, threadVars, callerVars
  <1>2. steps \in Seq(Step) /\ UpMeansOpen /\ SinglePump /\ PumpGoesOn /\ StartIsFirst
    BY DEF LooperInv, TypeOK
  <1>3. Replacement(<<Own("pump")>>) /\ \E i \in DOMAIN <<Own("pump")>> : <<Own("pump")>>[i].do \in Pumps
    BY <1>1, OneIsReplacement DEF Inner, Pumps
  <1>4. QueueShape' /\ StepShape' /\ PostersWait' /\ StartIsFirst'
    BY <1>1, <1>3, ShapesGoOn, StartedLooper
  <1>5. /\ \A i, j \in DOMAIN steps' : steps'[i].do \in Pumps /\ steps'[j].do \in Pumps => i = j
        /\ PumpInSteps' /\ PumpInSteps
    BY <1>1, <1>3, PumpGoesAlong DEF Pumps
  <1>6. SinglePump'
    BY <1>1, <1>2, <1>5 DEF SinglePump, PumpInQueue
  <1>7. PumpGoesOn'
    BY <1>5, PendingIs DEF PumpGoesOn
  <1>8. UpMeansOpen'
    <2>1. \A i \in DOMAIN steps' :
             steps'[i].do = "signal" => \E k \in DOMAIN steps : steps'[i] = steps[k]
      <3>1. Follows(steps', <<Own("pump")>>, steps)
        BY <1>1, <1>2, <1>3, PrefixFollows DEF Replacement
      <3>2. \A i \in DOMAIN <<Own("pump")>> : <<Own("pump")>>[i].do # "signal"
        BY <1>3 DEF Replacement, Inner
      <3> QED BY <3>1, <3>2 DEF Follows
    <2>2. Head(steps) = steps[1]
      BY <1>1, <1>2, RestFacts
    <2>3. core = "up" => \A i \in DOMAIN steps :
             ~(steps[i].do = "signal" /\ pc[steps[i].by] = "waiting_stop")
      BY <1>1, <1>2, <2>2 DEF UpMeansOpen
    <2>4. core = "up" => \A i \in DOMAIN steps' :
             ~(steps'[i].do = "signal" /\ pc'[steps'[i].by] = "waiting_stop")
      BY <1>1, <2>1, <2>3
    <2>5. core = "up" => corePtr' /\ looper' = "open" /\ \A c \in Callers : pc'[c] # "quitting"
      BY <1>1, <1>2 DEF UpMeansOpen
    <2> QED BY <1>1, <2>4, <2>5 DEF UpMeansOpen
  <1> QED BY <1>4, <1>6, <1>7, <1>8 DEF LooperInv

LEMMA PumpKeeps ==
    ASSUME LooperInv, TypeOK', Pump
    PROVE  LooperInv'
  <1>1. /\ steps # <<>> /\ Head(steps).do = "pump"
        /\ UNCHANGED <<corePtr, running, core, looper, queue, timers, pc>>
    BY DEF Pump, Doing, threadVars, callerVars
  <1>2. /\ steps \in Seq(Step) /\ UpMeansOpen /\ SinglePump /\ PumpGoesOn
        /\ Head(steps) = steps[1] /\ 1 \in DOMAIN steps
    BY <1>1, NoneIsReplacement DEF LooperInv, TypeOK
  <1>3. CASE running /\ corePtr
    <2>1. PICK n \in 0..MaxEvents :
             steps' = [i \in 1..n |-> Own("sink")] \o <<Own("reap"), Own("repost")>> \o Tail(steps)
      BY <1>3 DEF Pump, Rest
    <2> DEFINE sinks == [i \in 1..n |-> Own("sink")]
               last == <<Own("reap"), Own("repost")>>
               pre == sinks \o last
    <2>2. /\ n \in Nat /\ Own("sink") \in Step /\ Own("reap") \in Step /\ Own("repost") \in Step
          /\ Own("sink").do = "sink" /\ Own("reap").do = "reap" /\ Own("repost").do = "repost"
          /\ Own("sink").by = Nobody /\ Own("reap").by = Nobody /\ Own("repost").by = Nobody
      BY OwnIs, AndroidAssumption DEF Kind
    <2>3. /\ sinks \in Seq(Step) /\ Len(sinks) = n /\ last \in Seq(Step) /\ Len(last) = 2
          /\ \A i \in 1..n : sinks[i] = Own("sink")
          /\ last[1] = Own("reap") /\ last[2] = Own("repost")
      BY <2>2
    <2>4. /\ pre \in Seq(Step) /\ Len(pre) = n + 2
          /\ \A i \in 1..n + 2 : pre[i] = IF i <= n THEN sinks[i] ELSE last[i - n]
      <3> HIDE DEF sinks, last
      <3>1. sinks \in Seq(Step) /\ last \in Seq(Step) /\ Len(sinks) = n /\ Len(last) = 2 /\ n \in Nat
        BY <2>2, <2>3
      <3>2. /\ sinks \o last \in Seq(Step) /\ Len(sinks \o last) = Len(sinks) + Len(last)
            /\ \A i \in 1..Len(sinks) + Len(last) :
                   (sinks \o last)[i] = IF i <= Len(sinks) THEN sinks[i] ELSE last[i - Len(sinks)]
        BY <3>1, ConcatProperties
      <3> QED BY <3>1, <3>2
    <2>5. /\ \A i \in DOMAIN pre : pre[i] = IF i <= n THEN Own("sink") ELSE
                                         IF i = n + 1 THEN Own("reap") ELSE Own("repost")
          /\ DOMAIN pre = 1..n + 2
      <3> HIDE DEF sinks, last, pre
      <3>1. DOMAIN pre = 1..n + 2
        BY <2>2, <2>4
      <3>2. ASSUME NEW i \in 1..n + 2, ~(i <= n) PROVE i - n = 1 \/ i - n = 2
        BY <2>2, <3>2
      <3>3. \A i \in 1..n + 2 : i - n = 1 <=> i = n + 1
        BY <2>2
      <3> QED BY <2>2, <2>3, <2>4, <3>1, <3>2, <3>3
    <2>6. steps' = pre \o Tail(steps)
      <3>1. Tail(steps) \in Seq(Step)
        BY <1>1, <1>2, RestFacts
      <3> QED BY <2>1, <2>3, <3>1
    <2> HIDE DEF sinks, last, pre
    <2>7. Replacement(pre)
      <3>1. \A i \in DOMAIN pre : pre[i].by = Nobody /\ pre[i].do \in Inner
        BY <2>2, <2>5 DEF Inner
      <3>2. \A i \in DOMAIN pre : pre[i].do \in Pumps => i = n + 2
        <4>1. Own("sink").do \notin Pumps /\ Own("reap").do \notin Pumps
          BY <2>2 DEF Pumps
        <4> QED BY <2>2, <2>5, <4>1
      <3>3. Head(steps).do \in Pumps
        BY <1>1 DEF Pumps
      <3> QED BY <2>4, <3>1, <3>2, <3>3 DEF Replacement
    <2>8. \E i \in DOMAIN pre : pre[i].do \in Pumps
      <3>1. n + 2 \in DOMAIN pre /\ pre[n + 2] = Own("repost")
        BY <2>2, <2>5
      <3> QED BY <2>2, <3>1 DEF Pumps
    <2> QED BY <1>1, <2>6, <2>7, <2>8, QuietStep
  <1>4. CASE ~(running /\ corePtr)
    <2>1. steps' = <<>> \o Tail(steps) /\ Replacement(<<>>)
      BY <1>1, <1>4, NoneIsReplacement DEF Pump, Rest, LooperInv
    <2>2. QueueShape' /\ StepShape' /\ PostersWait' /\ StartIsFirst'
      BY <1>1, <2>1, ShapesGoOn, StartedLooper
    <2>3. /\ \A i, j \in DOMAIN steps' :
                 steps'[i].do \in Pumps /\ steps'[j].do \in Pumps => i = j
          /\ ~PumpInSteps'
      BY <1>1, <2>1, PumpGoesAlong DEF Pumps
    <2>4. SinglePump'
      BY <1>1, <1>2, <2>3 DEF SinglePump, PumpInQueue
    <2>5. core = "up" => Stopping
      <3> SUFFICES ASSUME core = "up", ~Stopping PROVE FALSE
        OBVIOUS
      <3>1. PICK i \in DOMAIN steps : steps[i].do = "run"
        BY <1>2, <1>4 DEF UpMeansOpen
      <3>2. i = 1
        BY <1>1, <1>2, <3>1 DEF SinglePump, Pumps
      <3> QED BY <1>1, <1>2, <3>1, <3>2
    <2>6. PumpGoesOn'
      BY <1>1, <2>5 DEF PumpGoesOn, Stopping
    <2>7. UpMeansOpen'
      <3>1. \A i \in DOMAIN steps' : \E k \in DOMAIN steps : steps'[i] = steps[k]
        <4>1. Follows(steps', <<>>, steps)
          BY <1>1, <1>2, <2>1, PrefixFollows DEF Replacement
        <4> QED BY <4>1 DEF Follows
      <3>2. core = "up" => \A i \in DOMAIN steps :
               ~(steps[i].do = "signal" /\ pc[steps[i].by] = "waiting_stop")
        BY <1>1, <1>2 DEF UpMeansOpen
      <3>3. core = "up" => \A i \in DOMAIN steps' :
               ~(steps'[i].do = "signal" /\ pc'[steps'[i].by] = "waiting_stop")
        BY <1>1, <3>1, <3>2
      <3>4. core = "up" => corePtr' /\ looper' = "open" /\ \A c \in Callers : pc'[c] # "quitting"
        BY <1>1, <1>2 DEF UpMeansOpen
      <3> QED BY <1>1, <2>5, <3>3, <3>4 DEF UpMeansOpen, Stopping
    <2> QED BY <2>2, <2>4, <2>6, <2>7 DEF LooperInv
  <1> QED BY <1>3, <1>4

LEMMA RepostKeeps ==
    ASSUME LooperInv, TypeOK', Repost
    PROVE  LooperInv'
  <1>1. /\ steps # <<>> /\ Head(steps).do = "repost"
        /\ steps' = Tail(steps) /\ UNCHANGED <<corePtr, running, core, looper, queue, pc>>
        /\ timers' = IF looper = "open" THEN timers + 1 ELSE timers
    BY DEF Repost, Doing, Rest, coreVars, callerVars
  <1>2. /\ steps \in Seq(Step) /\ UpMeansOpen /\ SinglePump /\ PumpGoesOn /\ timers \in Nat
        /\ Head(steps) = steps[1] /\ 1 \in DOMAIN steps
        /\ steps' = <<>> \o Tail(steps) /\ Replacement(<<>>)
    BY <1>1, NoneIsReplacement DEF LooperInv, TypeOK
  <1>3. QueueShape' /\ StepShape' /\ PostersWait' /\ StartIsFirst'
    BY <1>1, <1>2, ShapesGoOn, StartedLooper
  <1>4. /\ \A i, j \in DOMAIN steps' : steps'[i].do \in Pumps /\ steps'[j].do \in Pumps => i = j
        /\ ~PumpInSteps' /\ PumpInSteps
    BY <1>1, <1>2, PumpGoesAlong DEF Pumps, PumpInSteps
  <1>5. timers = 0 /\ ~PumpInQueue /\ ~PumpInQueue' /\ timers' \in {0, 1}
    BY <1>1, <1>2, <1>4 DEF SinglePump, PumpInQueue
  <1>6. SinglePump'
    BY <1>1, <1>2, <1>4, <1>5 DEF SinglePump
  <1>7. PumpGoesOn'
    BY <1>1, <1>2, <1>5, PendingIs DEF PumpGoesOn, UpMeansOpen
  <1>8. UpMeansOpen'
    <2>1. Follows(steps', <<>>, steps)
      BY <1>1, <1>2, PrefixFollows DEF Replacement
    <2>2. \A i \in DOMAIN steps' : \E k \in DOMAIN steps : steps'[i] = steps[k]
      BY <2>1 DEF Follows
    <2>3. core = "up" => \A i \in DOMAIN steps :
             ~(steps[i].do = "signal" /\ pc[steps[i].by] = "waiting_stop")
      BY <1>1, <1>2 DEF UpMeansOpen
    <2>4. core = "up" => \A i \in DOMAIN steps' :
             ~(steps'[i].do = "signal" /\ pc'[steps'[i].by] = "waiting_stop")
      BY <1>1, <2>2, <2>3
    <2>5. core = "up" => corePtr' /\ looper' = "open" /\ \A c \in Callers : pc'[c] # "quitting"
      BY <1>1, <1>2 DEF UpMeansOpen
    <2>6. \A i \in DOMAIN steps : steps[i].do # "run"
      BY <1>1, <1>2 DEF SinglePump, Pumps
    <2>7. core = "up" => running \/ Stopping
      BY <1>2, <2>6 DEF UpMeansOpen
    <2> QED BY <1>1, <2>4, <2>5, <2>7 DEF UpMeansOpen, Stopping
  <1> QED BY <1>3, <1>6, <1>7, <1>8 DEF LooperInv
LEMMA StartCoreKeeps ==
    ASSUME LooperInv, TypeOK', StartCore
    PROVE  LooperInv'
  <1>0. steps # <<>> /\ Head(steps).do = "start"
    BY DEF StartCore, Doing
  <1>1. /\ steps \in Seq(Step) /\ UNCHANGED <<running, looper, queue, timers>> /\ StartIsFirst
        /\ Head(steps) = steps[1] /\ 1 \in DOMAIN steps
    BY <1>0, NoneIsReplacement DEF StartCore, threadVars, LooperInv, TypeOK
  <1>2. Len(steps) = 1 /\ queue = <<>> /\ NothingYet /\ looper = "open"
    BY <1>0, <1>1 DEF StartIsFirst
  <1>3. Tail(steps) = <<>>
    <2>1. Tail(steps) \in Seq(Step) /\ Len(Tail(steps)) = 0
      BY <1>0, <1>1, <1>2, RestFacts
    <2> QED BY <2>1, EmptySeq
  <1>4. Own("run") \in Step /\ Own("run").do = "run" /\ Own("run").by = Nobody /\ Nobody \notin Callers
    BY OwnIs, NobodyAssumption DEF Kind
  <1>5. \/ /\ corePtr' /\ core' = "up" /\ steps' = <<Own("run")>>
        \/ /\ core' = "none" /\ steps' = <<>>
    <2>1. PICK ok \in BOOLEAN :
             /\ corePtr' = ok /\ core' = IF ok THEN "up" ELSE "none"
             /\ steps' = IF ok THEN <<Own("run")>> \o Rest ELSE Rest
      BY DEF StartCore
    <2>2. <<Own("run")>> \o Rest = <<Own("run")>> /\ Rest = <<>>
      <3>1. <<Own("run")>> \o <<>> = <<Own("run")>>
        BY <1>4
      <3> QED BY <1>3, <3>1 DEF Rest
    <2> QED BY <2>1, <2>2
  <1>6. \A i \in DOMAIN steps' : i = 1 /\ Len(steps') = 1 /\ steps'[i] = Own("run") /\ core' = "up"
    BY <1>5
  <1>7. core' = "up" => corePtr' /\ 1 \in DOMAIN steps' /\ steps'[1] = Own("run")
    BY <1>5
  <1>8. timers' = 0 /\ queue' = <<>> /\ looper' = "open"
    BY <1>1, <1>2 DEF NothingYet
  <1>9. \A c \in Callers : pc'[c] \in {"idle", "waiting"}
    <2>1. pc' = [pc EXCEPT ![Head(steps).by] = "idle"]
      BY DEF StartCore
    <2>2. pc \in [Callers -> {"idle", "stopping", "quitting"} \union Waiting]
      BY DEF LooperInv, TypeOK
    <2> QED BY <1>2, <2>1, <2>2 DEF NothingYet
  <1>10. QueueShape' /\ PostersWait' /\ StepShape' /\ StartIsFirst'
    BY <1>4, <1>6, <1>8 DEF QueueShape, PostersWait, StepShape, StartIsFirst, Jobs
  <1>11. UpMeansOpen'
    BY <1>4, <1>6, <1>7, <1>8, <1>9 DEF UpMeansOpen
  <1>12. SinglePump' /\ PumpGoesOn'
    BY <1>4, <1>6, <1>7, <1>8 DEF SinglePump, PumpGoesOn, PumpPending, PumpInSteps, PumpInQueue, Pumps
  <1> QED BY <1>10, <1>11, <1>12 DEF LooperInv

LEMMA SignalKeeps ==
    ASSUME LooperInv, TypeOK', Signal
    PROVE  LooperInv'
  <1> DEFINE c == Head(steps).by
  <1>0. steps # <<>> /\ Head(steps).do = "signal"
    BY DEF Signal, Doing
  <1>1. /\ steps \in Seq(Step) /\ QueueShape /\ StepShape /\ PostersWait /\ StartIsFirst
        /\ UpMeansOpen /\ SinglePump /\ PumpGoesOn
        /\ Head(steps) = steps[1] /\ 1 \in DOMAIN steps
        /\ pc \in [Callers -> {"idle", "stopping", "quitting"} \union Waiting]
    BY <1>0, NoneIsReplacement DEF LooperInv, TypeOK
  <1>2. /\ UNCHANGED <<corePtr, running, apps, core, looper, queue, timers, connected>>
        /\ pc' = [pc EXCEPT ![c] = IF @ = "waiting_stop" THEN "quitting" ELSE "idle"]
    BY DEF Signal, coreVars, threadVars
  <1>3. Len(steps) = 1 /\ c \in Callers /\ pc[c] \in Waiting
    BY <1>0, <1>1 DEF StepShape, PostersWait
  <1>4. steps' = <<>>
    <2>1. steps' = Tail(steps)
      BY DEF Signal, Rest
    <2> QED BY <1>1, <1>3, <2>1
  <1>5. /\ \A d \in Callers : d # c => pc'[d] = pc[d]
        /\ pc'[c] = IF pc[c] = "waiting_stop" THEN "quitting" ELSE "idle"
    BY <1>1, <1>2, <1>3
  <1>6. \A i \in DOMAIN queue : queue[i].by \in Callers => queue[i].by # c
    BY <1>1 DEF PostersWait
  <1>7. QueueShape' /\ StepShape'
    BY <1>1, <1>2, <1>4 DEF QueueShape, StepShape
  <1>8. PostersWait'
    BY <1>1, <1>2, <1>4, <1>5, <1>6 DEF PostersWait
  <1>9. StartIsFirst'
    <2>1. looper' # "none" /\ \A i \in DOMAIN queue : queue[i].do # "start"
      BY <1>0, <1>1, <1>2 DEF StartIsFirst
    <2> QED BY <1>2, <1>4, <2>1 DEF StartIsFirst
  <1>10. SinglePump'
    BY <1>1, <1>2, <1>4 DEF SinglePump, PumpInSteps, PumpInQueue
  <1>11. /\ \A i \in DOMAIN steps : i = 1
         /\ \A i \in DOMAIN steps : steps[i].do \notin Pumps /\ steps[i].do # "stop"
    <2>1. \A i \in DOMAIN steps : i = 1
      BY <1>1, <1>3
    <2> QED BY <1>0, <1>1, <2>1 DEF Pumps
  <1>12. core = "up" => pc[c] # "waiting_stop" /\ pc'[c] = "idle"
    BY <1>0, <1>1, <1>3, <1>5, <1>11 DEF UpMeansOpen
  <1>13. core = "up" => (Stopping' <=> Stopping)
    BY <1>3, <1>5, <1>12 DEF Stopping, Waiting
  <1>14. UpMeansOpen'
    <2> SUFFICES ASSUME core = "up"
                 PROVE  /\ corePtr' /\ looper' = "open"
                        /\ \A d \in Callers : pc'[d] # "quitting"
                        /\ running' \/ Stopping'
      BY <1>2, <1>4 DEF UpMeansOpen
    <2>1. corePtr /\ looper = "open" /\ \A d \in Callers : pc[d] # "quitting"
      BY <1>1 DEF UpMeansOpen
    <2>2. running \/ Stopping
      BY <1>1, <1>11 DEF UpMeansOpen, Pumps
    <2> QED BY <1>2, <1>5, <1>12, <1>13, <2>1, <2>2
  <1>15. PumpGoesOn'
    <2>1. PumpPending => PumpPending'
      BY <1>2, <1>11 DEF PumpPending
    <2> QED BY <1>1, <1>2, <1>13, <2>1 DEF PumpGoesOn
  <1> QED BY <1>7, <1>8, <1>9, <1>10, <1>14, <1>15 DEF LooperInv

\* The blocks of a task or, in a callback, in place.
LEMMA BlockKeeps ==
    ASSUME LooperInv, TypeOK', steps # <<>>, Head(steps).do \in {"create", "close", "sink", "ready"},
           UNCHANGED pc,
           \/ Create
           \/ \E h : Close(h)
           \/ steps' = Rest /\ UNCHANGED <<corePtr, running, core, threadVars>>
    PROVE  LooperInv'
  <1>1. UNCHANGED <<queue, timers, looper, core, corePtr, running, pc>>
    BY DEF Create, Close, threadVars
  <1>2. Head(steps).do \notin {"start", "stop", "run"} /\ Head(steps).do \notin Pumps
    BY DEF Pumps
  <1>3. CASE steps' = Rest
    <2>1. steps' = <<>> \o Tail(steps) /\ Replacement(<<>>)
      BY <1>3, NoneIsReplacement DEF Rest, LooperInv
    <2> QED BY <1>1, <1>2, <2>1, QuietStep
  <1>4. CASE steps' = <<Own("ready")>> \o Rest
    <2>1. steps' = <<Own("ready")>> \o Tail(steps) /\ Replacement(<<Own("ready")>>)
      BY <1>4, OneIsReplacement DEF Rest, Inner, Pumps
    <2> QED BY <1>1, <1>2, <2>1, QuietStep
  <1> QED BY <1>3, <1>4 DEF Create, Close

LEMMA StopBlockKeeps ==
    ASSUME LooperInv, TypeOK', steps # <<>>, Head(steps).do \in {"stop", "sink", "ready"},
           UNCHANGED <<pc, queue>>, timers' \in {0, timers}, looper' # "none", StopBlock
    PROVE  LooperInv'
  <1>1. steps' = Tail(steps)
    BY DEF StopBlock, Rest
  <1>2. core' # "up"
    BY DEF StopBlock, NativeStop, LooperInv, UpMeansOpen
  <1> QED BY <1>1, <1>2, StoppedStep

LEMMA ThreadStepKeeps ==
    ASSUME LooperInv, ThreadStep
    PROVE  LooperInv'
  <1>1. TypeOK'
    BY ThreadStepTyped DEF LooperInv
  <1>2. CASE Reap \/ PushFrame
    <2>1. /\ steps # <<>> /\ Head(steps).do \in {"reap", "frame"} /\ steps' = Rest
          /\ UNCHANGED <<queue, timers, looper, core, corePtr, running, pc>>
      BY <1>2 DEF Reap, PushFrame, Doing, threadVars, callerVars
    <2>2. steps' = <<>> \o Tail(steps) /\ Replacement(<<>>)
      BY <2>1, NoneIsReplacement DEF Rest, LooperInv
    <2> QED BY <1>1, <2>1, <2>2, QuietStep DEF Pumps
  <1>3. CASE CreateTask
    BY <1>1, <1>3, BlockKeeps DEF CreateTask, Doing, callerVars
  <1>4. CASE CloseTask
    BY <1>1, <1>4, BlockKeeps DEF CloseTask, Doing, callerVars
  <1>5. CASE StopTask
    BY <1>1, <1>5, StopBlockKeeps, StartedLooper DEF StopTask, Doing, threadVars, callerVars
  <1>6. CASE Callback
    <2>1. steps # <<>> /\ Head(steps).do \in {"sink", "ready"} /\ UNCHANGED pc
      BY <1>6 DEF Callback, Doing, callerVars
    <2>2. CASE StopBlock /\ QuitSafely
      BY <1>1, <2>1, <2>2, StopBlockKeeps, StartedLooper DEF QuitSafely
    <2>3. CASE \/ Create \/ (\E h : Close(h))
               \/ steps' = Rest /\ UNCHANGED <<corePtr, running, core, threadVars>>
      BY <1>1, <2>1, <2>3, BlockKeeps
    <2> QED BY <1>6, <2>2, <2>3 DEF Callback, coreVars
  <1> QED
    BY <1>1, <1>2, <1>3, <1>4, <1>5, <1>6, StartCoreKeeps, StartPumpKeeps, PumpKeeps,
       RepostKeeps, SignalKeeps
       DEF ThreadStep
-----------------------------------------------------------------------------
(* The messages.                                                            *)

\* The queue has at most m more, behind what it had.
Extended(m) ==
    /\ \A i \in DOMAIN queue : i \in DOMAIN queue' /\ queue'[i] = queue[i]
    /\ \A i \in DOMAIN queue' :
           \/ i \in DOMAIN queue /\ queue'[i] = queue[i]
           \/ i = Len(queue) + 1 /\ queue'[i] = m

LEMMA HandleMessageKeeps ==
    ASSUME LooperInv, TypeOK', HandleMessage
    PROVE  LooperInv'
  <1> DEFINE m == Head(queue)
  <1>1. /\ steps = <<>> /\ queue # <<>> /\ queue \in Seq(Step) /\ queue' = Tail(queue)
        /\ UNCHANGED <<corePtr, running, apps, core, looper, timers, pc, connected>>
        /\ steps' = StepsOf(m)
        /\ QueueShape /\ PostersWait /\ StartIsFirst /\ UpMeansOpen /\ SinglePump /\ PumpGoesOn
    BY DEF HandleMessage, coreVars, callerVars, LooperInv, TypeOK
  <1>2. /\ m \in Step /\ m = queue[1] /\ 1 \in DOMAIN queue
        /\ \A i \in DOMAIN queue' : i \in Nat /\ i > 0 /\ i + 1 \in DOMAIN queue /\ queue'[i] = queue[i + 1]
        /\ \A k \in DOMAIN queue : k > 1 => k - 1 \in DOMAIN queue' /\ queue'[k - 1] = queue[k]
    BY <1>1, RestFacts
  <1>3. Nobody \notin Callers /\ m.by \in Callers \union {Nobody}
    BY <1>2, NobodyAssumption DEF Step
  <1>4. m.do \in Posted /\ (m.do \in Jobs <=> m.by \in Callers)
    BY <1>1, <1>2 DEF QueueShape
  <1> DEFINE s == StepOf("signal", m.by, NoApp)
  <1>5. s.do = "signal" /\ s.by = m.by
    BY DEF StepOf
  <1>6. \/ /\ m.by \in Callers /\ m.do # "start" /\ steps' = <<m, s>>
        \/ /\ m.by \notin Callers \/ m.do = "start"
           /\ steps' = <<m>>
    BY <1>1, <1>3 DEF StepsOf
  <1>7. /\ 1 \in DOMAIN steps' /\ steps'[1] = m
        /\ \A i \in DOMAIN steps' :
               \/ i = 1 /\ steps'[i] = m
               \/ /\ i = 2 /\ Len(steps') = 2 /\ steps'[i] = s
                  /\ m.by \in Callers /\ m.do # "start"
        /\ m.do = "start" => Len(steps') = 1
    BY <1>6
  <1> HIDE DEF m, s
  <1>8. QueueShape'
    BY <1>1, <1>2 DEF QueueShape
  <1>9. StepShape'
    <2>1. "signal" \notin Posted /\ "signal" \notin Jobs
      BY DEF Posted, Jobs
    <2> QED BY <1>4, <1>5, <1>7, <2>1 DEF StepShape
  <1>10. PostersWait'
    <2>1. \A i \in DOMAIN queue' :
             queue'[i].by \in Callers => queue'[i].by # m.by
      <3> SUFFICES ASSUME NEW i \in DOMAIN queue', queue'[i].by \in Callers, queue'[i].by = m.by
                   PROVE  FALSE
        OBVIOUS
      <3>1. i + 1 = 1
        BY <1>1, <1>2 DEF PostersWait
      <3> QED BY <1>2, <3>1
    <2>2. m.by \in Callers => pc[m.by] \in Waiting
      BY <1>1, <1>2 DEF PostersWait
    <2>3. \A i \in DOMAIN steps' : steps'[i].by = m.by
      BY <1>5, <1>7
    <2>4. \A i, j \in DOMAIN queue' :
             queue'[i].by \in Callers /\ queue'[i].by = queue'[j].by => i = j
      <3> SUFFICES ASSUME NEW i \in DOMAIN queue', NEW j \in DOMAIN queue',
                          queue'[i].by \in Callers, queue'[i].by = queue'[j].by
                   PROVE  i = j
        OBVIOUS
      <3>1. i + 1 = j + 1
        BY <1>1, <1>2 DEF PostersWait
      <3> QED BY <1>2, <3>1
    <2>5. \A i \in DOMAIN queue' :
             queue'[i].by \in Callers =>
                 /\ pc'[queue'[i].by] \in Waiting
                 /\ pc'[queue'[i].by] = "waiting_stop" => queue'[i].do = "stop"
      BY <1>1, <1>2 DEF PostersWait
    <2> QED BY <1>1, <2>1, <2>2, <2>3, <2>4, <2>5 DEF PostersWait
  <1>11. StartIsFirst'
    <2>1. looper # "none"
      BY <1>1 DEF StartIsFirst
    <2>2. \A i \in DOMAIN queue' : queue'[i].do # "start"
      <3> SUFFICES ASSUME NEW i \in DOMAIN queue', queue'[i].do = "start" PROVE FALSE
        OBVIOUS
      <3>1. Len(queue) = 1 /\ i + 1 \in DOMAIN queue
        BY <1>1, <1>2 DEF StartIsFirst
      <3> QED BY <1>1, <1>2, <3>1
    <2>3. ASSUME NEW i \in DOMAIN steps', steps'[i].do = "start"
          PROVE  Len(steps') = 1 /\ queue' = <<>> /\ looper' = "open" /\ NothingYet'
      <3>1. m.do = "start"
        BY <1>5, <1>7, <2>3
      <3>2. Len(queue) = 1 /\ looper = "open" /\ NothingYet
        BY <1>1, <1>2, <3>1 DEF StartIsFirst
      <3>3. Tail(queue) \in Seq(Step) /\ Len(Tail(queue)) = 0
        BY <1>1, <3>2, RestFacts
      <3>4. Tail(queue) = <<>>
        BY <3>3, EmptySeq
      <3> QED BY <1>1, <1>7, <3>1, <3>2, <3>4 DEF NothingYet
    <2> QED BY <1>1, <2>1, <2>2, <2>3 DEF StartIsFirst
  <1>12. UpMeansOpen'
    <2> SUFFICES ASSUME core = "up"
                 PROVE  /\ corePtr' /\ looper' = "open"
                        /\ \A c \in Callers : pc'[c] # "quitting"
                        /\ \A i \in DOMAIN steps' :
                               steps'[i].do = "signal" /\ pc'[steps'[i].by] = "waiting_stop" =>
                                   steps'[1].do = "stop"
                        /\ running' \/ Stopping'
      BY <1>1 DEF UpMeansOpen
    <2>1. \A i \in DOMAIN steps' :
             steps'[i].do = "signal" => m.by \in Callers /\ steps'[i].by = m.by
      BY <1>4, <1>5, <1>7 DEF Posted, Jobs
    <2>2. m.by \in Callers /\ pc[m.by] = "waiting_stop" => m.do = "stop"
      BY <1>1, <1>2 DEF PostersWait
    <2>3. running \/ Stopping
      BY <1>1 DEF UpMeansOpen
    <2>4. \A i \in DOMAIN steps' :
             steps'[i].do = "signal" /\ pc'[steps'[i].by] = "waiting_stop" => steps'[1].do = "stop"
      BY <1>1, <1>7, <2>1, <2>2
    <2>5. corePtr' /\ looper' = "open" /\ \A c \in Callers : pc'[c] # "quitting"
      BY <1>1 DEF UpMeansOpen
    <2>6. Stopping => Stopping'
      BY <1>1 DEF Stopping
    <2> QED BY <1>1, <2>3, <2>4, <2>5, <2>6
  <1>13. /\ PumpInSteps' <=> m.do = "pump"
         /\ \A i, j \in DOMAIN steps' : steps'[i].do \in Pumps /\ steps'[j].do \in Pumps => i = j
         /\ ~PumpInSteps
    <2>1. m.do \in Pumps <=> m.do = "pump"
      BY <1>4 DEF Posted, Jobs, Pumps
    <2>2. s.do \notin Pumps
      BY <1>5 DEF Pumps
    <2> QED BY <1>1, <1>7, <2>1, <2>2 DEF PumpInSteps
  <1>14. /\ PumpInQueue' => PumpInQueue
         /\ m.do = "pump" => PumpInQueue /\ ~PumpInQueue'
         /\ PumpInQueue /\ m.do # "pump" => PumpInQueue'
         /\ \A i, j \in DOMAIN queue' : queue'[i].do = "pump" /\ queue'[j].do = "pump" => i = j
    <2>1. PumpInQueue' => PumpInQueue
      BY <1>2 DEF PumpInQueue
    <2>2. ASSUME m.do = "pump" PROVE PumpInQueue /\ ~PumpInQueue'
      <3>1. PumpInQueue
        BY <1>2, <2>2 DEF PumpInQueue
      <3>2. ASSUME NEW i \in DOMAIN queue', queue'[i].do = "pump" PROVE FALSE
        <4>1. i + 1 = 1
          BY <1>1, <1>2, <2>2, <3>2 DEF SinglePump
        <4> QED BY <1>2, <4>1
      <3> QED BY <3>1, <3>2 DEF PumpInQueue
    <2>3. ASSUME PumpInQueue, m.do # "pump" PROVE PumpInQueue'
      <3>1. PICK k \in DOMAIN queue : queue[k].do = "pump"
        BY <2>3 DEF PumpInQueue
      <3>2. k > 1
        BY <1>1, <1>2, <2>3, <3>1
      <3> QED BY <1>2, <3>1, <3>2 DEF PumpInQueue
    <2>4. ASSUME NEW i \in DOMAIN queue', NEW j \in DOMAIN queue',
                 queue'[i].do = "pump", queue'[j].do = "pump"
          PROVE  i = j
      <3>1. i + 1 = j + 1
        BY <1>1, <1>2, <2>4 DEF SinglePump
      <3> QED BY <1>2, <3>1
    <2> QED BY <2>1, <2>2, <2>3, <2>4
  <1>15. SinglePump'
    BY <1>1, <1>13, <1>14 DEF SinglePump
  <1>16. PumpGoesOn'
    <2>1. PumpPending => PumpPending'
      BY <1>1, <1>13, <1>14, PendingIs
    <2> QED BY <1>1, <2>1 DEF PumpGoesOn, Stopping
  <1> QED BY <1>8, <1>9, <1>10, <1>11, <1>12, <1>15, <1>16 DEF LooperInv

\* A message the thread posts for itself.
LEMMA OwnMessageKeeps ==
    ASSUME LooperInv, TypeOK', NEW m, m.by = Nobody, m.do \in {"frame", "pump"}, Extended(m),
           UNCHANGED <<corePtr, running, core, looper, steps, pc>>,
           ~NothingYet,
           \/ m.do = "frame" /\ timers' = timers
           \/ m.do = "pump" /\ timers > 0 /\ timers' = timers - 1
              /\ Len(queue) + 1 \in DOMAIN queue' /\ queue'[Len(queue) + 1] = m
    PROVE  LooperInv'
  <1>1. /\ queue \in Seq(Step) /\ timers \in Nat /\ QueueShape /\ StepShape /\ PostersWait
        /\ StartIsFirst /\ UpMeansOpen /\ SinglePump /\ PumpGoesOn
    BY DEF LooperInv, TypeOK
  <1>2. /\ \A i \in DOMAIN queue : i \in DOMAIN queue' /\ queue'[i] = queue[i]
        /\ \A i \in DOMAIN queue' :
               \/ i \in DOMAIN queue /\ queue'[i] = queue[i]
               \/ i = Len(queue) + 1 /\ queue'[i] = m
    BY DEF Extended
  <1>3. Nobody \notin Callers
    BY NobodyAssumption
  <1>4. QueueShape'
    BY <1>1, <1>2, <1>3 DEF QueueShape, Posted, Jobs
  <1>5. StepShape'
    BY <1>1 DEF StepShape
  <1>6. PostersWait'
    <2>1. \A i \in DOMAIN queue' : queue'[i].by \in Callers => i \in DOMAIN queue /\ queue'[i] = queue[i]
      BY <1>2, <1>3
    <2> QED BY <1>1, <2>1 DEF PostersWait
  <1>7. StartIsFirst'
    <2>1. looper' # "none"
      BY <1>1 DEF StartIsFirst
    <2>2. \A i \in DOMAIN queue' : queue'[i].do # "start"
      BY <1>1, <1>2 DEF StartIsFirst
    <2>3. \A i \in DOMAIN steps' : steps'[i].do # "start"
      BY <1>1 DEF StartIsFirst
    <2> QED BY <2>1, <2>2, <2>3 DEF StartIsFirst
  <1>8. UpMeansOpen'
    BY <1>1 DEF UpMeansOpen, Stopping
  <1>9. CASE m.do = "frame" /\ timers' = timers
    <2>1. /\ PumpInQueue' <=> PumpInQueue
          /\ \A i, j \in DOMAIN queue' : queue'[i].do = "pump" /\ queue'[j].do = "pump" => i = j
      BY <1>1, <1>2, <1>9 DEF PumpInQueue, SinglePump
    <2>2. PumpInSteps' <=> PumpInSteps
      BY DEF PumpInSteps
    <2>3. SinglePump'
      BY <1>1, <1>9, <2>1, <2>2 DEF SinglePump
    <2>4. PumpGoesOn'
      BY <1>1, <1>9, <2>1, <2>2, PendingIs DEF PumpGoesOn, Stopping
    <2> QED BY <1>4, <1>5, <1>6, <1>7, <1>8, <2>3, <2>4 DEF LooperInv
  <1>10. CASE /\ m.do = "pump" /\ timers > 0 /\ timers' = timers - 1
              /\ Len(queue) + 1 \in DOMAIN queue' /\ queue'[Len(queue) + 1] = m
    <2>1. timers' = 0 /\ ~PumpInSteps /\ ~PumpInQueue /\ ~PumpInSteps'
      BY <1>1, <1>10 DEF SinglePump, PumpInSteps
    <2>2. /\ PumpInQueue'
          /\ \A i, j \in DOMAIN queue' : queue'[i].do = "pump" /\ queue'[j].do = "pump" => i = j
      BY <1>2, <1>10, <2>1 DEF PumpInQueue
    <2>3. SinglePump' /\ PumpGoesOn'
      BY <1>1, <2>1, <2>2, PendingIs DEF SinglePump, PumpGoesOn
    <2> QED BY <1>4, <1>5, <1>6, <1>7, <1>8, <2>3 DEF LooperInv
  <1> QED BY <1>9, <1>10

\* A caller that has waited for nobody posts a job, or finds that the looper quits.
LEMMA JobKeeps ==
    ASSUME LooperInv, TypeOK', NEW c \in Callers, NEW m, m.by = c,
           m.do \in {"create", "close", "stop"}, Extended(m), pc[c] \in {"idle", "stopping"},
           NEW w \in Waiting, pc' = [pc EXCEPT ![c] = w],
           w = "waiting_stop" => m.do = "stop",
           pc[c] = "stopping" => w = "waiting_stop",
           UNCHANGED <<corePtr, running, apps, core, looper, steps, timers, connected>>,
           ~NothingYet
    PROVE  LooperInv'
  <1>1. /\ queue \in Seq(Step) /\ timers \in Nat /\ QueueShape /\ StepShape /\ PostersWait
        /\ StartIsFirst /\ UpMeansOpen /\ SinglePump /\ PumpGoesOn
        /\ pc \in [Callers -> {"idle", "stopping", "quitting"} \union Waiting]
    BY DEF LooperInv, TypeOK
  <1>2. /\ \A i \in DOMAIN queue : i \in DOMAIN queue' /\ queue'[i] = queue[i]
        /\ \A i \in DOMAIN queue' :
               \/ i \in DOMAIN queue /\ queue'[i] = queue[i]
               \/ i = Len(queue) + 1 /\ queue'[i] = m
    BY DEF Extended
  <1>3. pc'[c] = w /\ \A d \in Callers : d # c => pc'[d] = pc[d]
    BY <1>1
  <1>4. pc[c] \notin Waiting
    BY DEF Waiting
  <1>5. /\ \A i \in DOMAIN queue : queue[i].by \in Callers => queue[i].by # c
        /\ \A i \in DOMAIN steps : steps[i].by \in Callers => steps[i].by # c
    BY <1>1, <1>4 DEF PostersWait
  <1>6. QueueShape'
    BY <1>1, <1>2 DEF QueueShape, Posted, Jobs
  <1>7. StepShape'
    BY <1>1 DEF StepShape
  <1>8. PostersWait'
    <2>1. \A i \in DOMAIN queue' :
             queue'[i].by \in Callers =>
                 /\ pc'[queue'[i].by] \in Waiting
                 /\ pc'[queue'[i].by] = "waiting_stop" => queue'[i].do = "stop"
      <3> SUFFICES ASSUME NEW i \in DOMAIN queue', queue'[i].by \in Callers
                   PROVE  /\ pc'[queue'[i].by] \in Waiting
                          /\ pc'[queue'[i].by] = "waiting_stop" => queue'[i].do = "stop"
        OBVIOUS
      <3>1. CASE i \in DOMAIN queue /\ queue'[i] = queue[i]
        BY <1>1, <1>3, <1>5, <3>1 DEF PostersWait
      <3>2. CASE queue'[i] = m
        BY <1>3, <3>2
      <3> QED BY <1>2, <3>1, <3>2
    <2>2. \A i \in DOMAIN steps' : steps'[i].by \in Callers => pc'[steps'[i].by] \in Waiting
      BY <1>1, <1>3, <1>5 DEF PostersWait
    <2>3. \A i, j \in DOMAIN queue' :
             queue'[i].by \in Callers /\ queue'[i].by = queue'[j].by => i = j
      BY <1>1, <1>2, <1>5 DEF PostersWait
    <2>4. \A i \in DOMAIN queue', j \in DOMAIN steps' :
             queue'[i].by \in Callers => queue'[i].by # steps'[j].by
      BY <1>1, <1>2, <1>5 DEF PostersWait
    <2> QED BY <2>1, <2>2, <2>3, <2>4 DEF PostersWait
  <1>9. StartIsFirst'
    <2>1. looper' # "none"
      BY <1>1 DEF StartIsFirst
    <2>2. \A i \in DOMAIN queue' : queue'[i].do # "start"
      BY <1>1, <1>2 DEF StartIsFirst
    <2>3. \A i \in DOMAIN steps' : steps'[i].do # "start"
      BY <1>1 DEF StartIsFirst
    <2> QED BY <2>1, <2>2, <2>3 DEF StartIsFirst
  <1>10. Stopping => Stopping'
    BY <1>3 DEF Stopping
  <1>11. UpMeansOpen'
    <2> SUFFICES ASSUME core = "up"
                 PROVE  /\ corePtr' /\ looper' = "open"
                        /\ \A d \in Callers : pc'[d] # "quitting"
                        /\ \A i \in DOMAIN steps' :
                               steps'[i].do = "signal" /\ pc'[steps'[i].by] = "waiting_stop" =>
                                   steps'[1].do = "stop"
                        /\ running' \/ Stopping' \/ \E i \in DOMAIN steps' : steps'[i].do = "run"
      BY DEF UpMeansOpen
    <2>1. \A i \in DOMAIN steps : steps[i].do = "signal" => steps[i].by \in Callers /\ steps[i].by # c
      BY <1>1, <1>5 DEF StepShape
    <2>2. \A i \in DOMAIN steps' :
             steps'[i].do = "signal" /\ pc'[steps'[i].by] = "waiting_stop" => steps'[1].do = "stop"
      BY <1>1, <1>3, <2>1 DEF UpMeansOpen
    <2>3. corePtr' /\ looper' = "open" /\ \A d \in Callers : pc'[d] # "quitting"
      BY <1>1, <1>3 DEF UpMeansOpen, Waiting
    <2>4. running \/ Stopping \/ \E i \in DOMAIN steps : steps[i].do = "run"
      BY <1>1 DEF UpMeansOpen
    <2> QED BY <1>10, <2>2, <2>3, <2>4
  <1>12. /\ PumpInQueue' <=> PumpInQueue
         /\ PumpInSteps' <=> PumpInSteps
         /\ \A i, j \in DOMAIN queue' : queue'[i].do = "pump" /\ queue'[j].do = "pump" => i = j
    BY <1>1, <1>2 DEF PumpInQueue, PumpInSteps, SinglePump
  <1>13. SinglePump'
    BY <1>1, <1>12 DEF SinglePump
  <1>14. PumpGoesOn'
    BY <1>1, <1>10, <1>12, PendingIs DEF PumpGoesOn
  <1> QED BY <1>6, <1>7, <1>8, <1>9, <1>11, <1>13, <1>14 DEF LooperInv

\* connect: the only message is the start task.
LEMMA ConnectKeeps ==
    ASSUME LooperInv, TypeOK', Connect
    PROVE  LooperInv'
  <1> DEFINE m == StepOf("start", Connector, NoApp)
  <1>1. m.do = "start" /\ m.by = Connector /\ Connector \in Callers
    BY CallersAssumption DEF StepOf
  <1>2. queue' = <<m>>
    BY DEF Connect
  <1> HIDE DEF m
  <1>3. 1 \in DOMAIN queue' /\ Len(queue') = 1 /\ \A i \in DOMAIN queue' : i = 1 /\ queue'[i] = m
    BY <1>2
  <1>4. /\ looper = "none" /\ looper' = "open" /\ pc' = [pc EXCEPT ![Connector] = "waiting"]
        /\ UNCHANGED <<corePtr, running, apps, timers, steps, core, connected>>
    BY DEF Connect, coreVars
  <1>5. steps = <<>> /\ NothingYet /\ core = "none" /\ timers = 0
    BY <1>4 DEF LooperInv, StartIsFirst, NothingYet
  <1>6. DOMAIN steps' = {}
    BY <1>4, <1>5
  <1>7. pc'[Connector] = "waiting" /\ \A d \in Callers : pc'[d] \in {"idle", "waiting"}
    BY <1>1, <1>4, <1>5 DEF NothingYet, LooperInv, TypeOK
  <1>8. QueueShape'
    BY <1>1, <1>3 DEF QueueShape, Posted, Jobs
  <1>9. StepShape' /\ UpMeansOpen' /\ PumpGoesOn'
    BY <1>4, <1>5, <1>6 DEF StepShape, UpMeansOpen, PumpGoesOn
  <1>10. PostersWait'
    BY <1>1, <1>3, <1>6, <1>7 DEF PostersWait, Waiting
  <1>11. StartIsFirst'
    <2>1. NothingYet'
      BY <1>4, <1>5, <1>7 DEF NothingYet
    <2> QED BY <1>3, <1>4, <1>5, <1>6, <2>1 DEF StartIsFirst
  <1>12. SinglePump'
    BY <1>1, <1>3, <1>4, <1>5, <1>6 DEF SinglePump, PumpInSteps, PumpInQueue
  <1> QED BY <1>8, <1>9, <1>10, <1>11, <1>12 DEF LooperInv

\* Steps that leave the messages and the thread's steps alone, once the start task is done.
LEMMA CallerMoves ==
    ASSUME LooperInv, TypeOK', ~NothingYet, NEW c \in Callers, NEW at, at \notin Waiting,
           pc[c] \notin Waiting, pc' = [pc EXCEPT ![c] = at],
           UNCHANGED <<queue, steps, core, corePtr>>,
           timers' \in {0, timers}, looper' # "none",
           core = "up" => at = "stopping" /\ timers' = timers /\ looper' = looper
    PROVE  LooperInv'
  <1>1. /\ timers \in Nat /\ QueueShape /\ StepShape /\ PostersWait
        /\ StartIsFirst /\ UpMeansOpen /\ SinglePump /\ PumpGoesOn
        /\ pc \in [Callers -> {"idle", "stopping", "quitting"} \union Waiting]
    BY DEF LooperInv, TypeOK
  <1>2. pc'[c] = at /\ \A d \in Callers : d # c => pc'[d] = pc[d]
    BY <1>1
  <1>3. QueueShape' /\ StepShape'
    BY <1>1 DEF QueueShape, StepShape
  <1>4. /\ \A i \in DOMAIN queue : queue[i].by \in Callers => queue[i].by # c
        /\ \A i \in DOMAIN steps : steps[i].by \in Callers => steps[i].by # c
    BY <1>1 DEF PostersWait
  <1>5. PostersWait'
    BY <1>1, <1>2, <1>4 DEF PostersWait
  <1>6. StartIsFirst'
    BY <1>1 DEF StartIsFirst
  <1>7. SinglePump'
    <2>1. (PumpInSteps' <=> PumpInSteps) /\ (PumpInQueue' <=> PumpInQueue)
      BY DEF PumpInSteps, PumpInQueue
    <2>2. timers' <= 1 /\ (timers' > 0 => timers > 0)
      BY <1>1 DEF SinglePump
    <2> QED BY <1>1, <2>1, <2>2 DEF SinglePump
  <1>8. ASSUME core = "up" PROVE Stopping'
    BY <1>2, <1>8 DEF Stopping
  <1>9. UpMeansOpen'
    <2> SUFFICES ASSUME core = "up"
                 PROVE  /\ corePtr' /\ looper' = "open"
                        /\ \A d \in Callers : pc'[d] # "quitting"
                        /\ \A i \in DOMAIN steps' :
                               steps'[i].do = "signal" /\ pc'[steps'[i].by] = "waiting_stop" =>
                                   steps'[1].do = "stop"
                        /\ Stopping'
      BY DEF UpMeansOpen
    <2>1. \A i \in DOMAIN steps : steps[i].do = "signal" => steps[i].by \in Callers /\ steps[i].by # c
      BY <1>1, <1>4 DEF StepShape
    <2>2. \A i \in DOMAIN steps' :
             steps'[i].do = "signal" /\ pc'[steps'[i].by] = "waiting_stop" => steps'[1].do = "stop"
      BY <1>1, <1>2, <2>1 DEF UpMeansOpen
    <2>3. corePtr' /\ looper' = "open" /\ \A d \in Callers : pc'[d] # "quitting"
      BY <1>1, <1>2 DEF UpMeansOpen
    <2> QED BY <1>8, <2>2, <2>3
  <1>10. PumpGoesOn'
    BY <1>8 DEF PumpGoesOn
  <1> QED BY <1>3, <1>5, <1>6, <1>7, <1>9, <1>10 DEF LooperInv

LEMMA ExitKeeps ==
    ASSUME LooperInv, TypeOK', Exit
    PROVE  LooperInv'
  <1>1. /\ looper = "quitting" /\ looper' = "exited" /\ steps = <<>> /\ queue = <<>>
        /\ UNCHANGED <<queue, steps, timers, core, corePtr, running, apps, connected, pc>>
    BY DEF Exit, coreVars, callerVars
  <1>2. core # "up"
    BY <1>1 DEF LooperInv, UpMeansOpen
  <1>3. UpMeansOpen' /\ PumpGoesOn'
    BY <1>1, <1>2 DEF UpMeansOpen, PumpGoesOn
  <1>4. StartIsFirst'
    BY <1>1 DEF StartIsFirst
  <1>5. QueueShape' /\ StepShape' /\ PostersWait' /\ SinglePump'
    BY <1>1 DEF LooperInv, QueueShape, StepShape, PostersWait, SinglePump, PumpInSteps, PumpInQueue
  <1> QED BY <1>3, <1>4, <1>5 DEF LooperInv

LEMMA PumpDueKeeps ==
    ASSUME LooperInv, TypeOK', PumpDue
    PROVE  LooperInv'
  <1> DEFINE m == Own("pump")
  <1>1. m \in Step /\ m.by = Nobody /\ m.do = "pump"
    BY OwnIs DEF Kind
  <1>2. /\ timers > 0 /\ timers' = timers - 1 /\ queue' = Append(queue, m)
        /\ UNCHANGED <<corePtr, running, core, looper, steps, pc>>
    BY DEF PumpDue, coreVars, callerVars
  <1> HIDE DEF m
  <1>3. queue \in Seq(Step) /\ timers \in Nat
    BY DEF LooperInv, TypeOK
  <1>4. Extended(m) /\ Len(queue) + 1 \in DOMAIN queue' /\ queue'[Len(queue) + 1] = m
    BY <1>1, <1>2, <1>3, AppendFacts DEF Extended
  <1>5. ~NothingYet
    BY <1>2 DEF NothingYet
  <1> QED BY <1>1, <1>2, <1>4, <1>5, OwnMessageKeeps

LEMMA ImageAvailableKeeps ==
    ASSUME LooperInv, TypeOK', ImageAvailable
    PROVE  LooperInv'
  <1>1. PICK h \in apps : Post(StepOf("frame", Nobody, h))
    BY DEF ImageAvailable
  <1> DEFINE m == StepOf("frame", Nobody, h)
  <1>2. m \in Step /\ m.by = Nobody /\ m.do = "frame" /\ Post(m)
    <2>1. h \in 0..MaxApps
      BY AndroidAssumption DEF LooperInv, TypeOK, Handle
    <2>2. "frame" \in Kind /\ Nobody \in Callers \union {Nobody}
      BY DEF Kind
    <2>3. m \in Step /\ m.by = Nobody /\ m.do = "frame"
      BY <2>1, <2>2, StepIs
    <2> QED BY <1>1, <2>3
  <1> HIDE DEF m
  <1>3. queue \in Seq(Step) /\ UNCHANGED <<corePtr, running, core, looper, steps, timers, pc>>
    BY DEF ImageAvailable, coreVars, callerVars, LooperInv, TypeOK
  <1>4. Extended(m)
    BY <1>2, <1>3, PostFacts DEF Extended
  <1>5. ~NothingYet
    BY <1>1 DEF NothingYet
  <1> QED BY <1>2, <1>3, <1>4, <1>5, OwnMessageKeeps

LEMMA CallerStepKeeps ==
    ASSUME LooperInv, TypeOK', NEW c \in Callers, CallerStep(c)
    PROVE  LooperInv'
  <1>1. queue \in Seq(Step) /\ pc \in [Callers -> {"idle", "stopping", "quitting"} \union Waiting]
    BY DEF LooperInv, TypeOK
  <1>2. ASSUME NEW do \in {"create", "close", "stop"}, NEW app \in 0..MaxApps,
               Post(StepOf(do, c, app))
        PROVE  /\ StepOf(do, c, app).do = do /\ StepOf(do, c, app).by = c
               /\ Extended(StepOf(do, c, app))
    <2>1. StepOf(do, c, app) \in Step /\ StepOf(do, c, app).do = do /\ StepOf(do, c, app).by = c
      BY StepIs DEF Kind
    <2>2. Extended(StepOf(do, c, app))
      BY <1>1, <1>2, <2>1, PostFacts DEF Extended
    <2> QED BY <2>1, <2>2
  <1>3. NoApp \in 0..MaxApps /\ Handle \subseteq 0..MaxApps
    BY AndroidAssumption DEF NoApp, Handle
  <1>4. ASSUME Enter(c)
        PROVE  /\ ~NothingYet /\ pc[c] = "idle"
               /\ UNCHANGED <<corePtr, apps, core, looper, steps, timers, connected>>
    BY <1>4 DEF Enter, NothingYet, coreVars
  <1>5. CASE CallCreateDisplay(c)
    <2>1. Enter(c) /\ Post(StepOf("create", c, NoApp)) /\ running' = running
          /\ pc' = [pc EXCEPT ![c] = "waiting"]
      BY <1>5 DEF CallCreateDisplay
    <2>2. "waiting" \in Waiting
      BY DEF Waiting
    <2> QED BY <1>2, <1>3, <1>4, <2>1, <2>2, JobKeeps
  <1>6. CASE CallCloseApp(c)
    <2>1. Enter(c) /\ running' = running /\ pc' = [pc EXCEPT ![c] = "waiting"]
      BY <1>6 DEF CallCloseApp
    <2>2. PICK h \in Handle : Post(StepOf("close", c, h))
      BY <1>6 DEF CallCloseApp
    <2>3. "waiting" \in Waiting
      BY DEF Waiting
    <2> QED BY <1>2, <1>3, <1>4, <2>1, <2>2, <2>3, JobKeeps
  <1>7. CASE CallStop(c)
    <2>1. Enter(c) /\ pc' = [pc EXCEPT ![c] = "stopping"] /\ queue' = queue
      BY <1>7 DEF CallStop
    <2>2. looper # "none"
      BY <1>4, <2>1 DEF LooperInv, StartIsFirst
    <2>3. "stopping" \notin Waiting /\ "idle" \notin Waiting
      BY DEF Waiting
    <2> QED BY <1>4, <2>1, <2>2, <2>3, CallerMoves
  <1>8. CASE PostStop(c)
    <2>1. /\ pc[c] = "stopping" /\ Post(StepOf("stop", c, NoApp))
          /\ pc' = [pc EXCEPT ![c] = "waiting_stop"]
          /\ UNCHANGED <<corePtr, running, apps, core, looper, steps, timers, connected>>
      BY <1>8 DEF PostStop, coreVars
    <2>2. "waiting_stop" \in Waiting
      BY DEF Waiting
    <2>3. ~NothingYet
      BY <2>1 DEF NothingYet
    <2> QED BY <1>2, <1>3, <2>1, <2>2, <2>3, JobKeeps
  <1>9. CASE Quit(c)
    <2>1. /\ pc[c] = "quitting" /\ pc' = [pc EXCEPT ![c] = "idle"]
          /\ UNCHANGED <<queue, steps, core, corePtr>> /\ timers' = 0
          /\ looper' = IF looper = "open" THEN "quitting" ELSE looper
      BY <1>9 DEF Quit, QuitSafely, coreVars
    <2>2. ~NothingYet
      BY <2>1 DEF NothingYet
    <2>3. looper' # "none"
      BY <2>1, <2>2 DEF LooperInv, StartIsFirst
    <2>4. core # "up"
      BY <2>1 DEF LooperInv, UpMeansOpen
    <2>5. "quitting" \notin Waiting /\ "idle" \notin Waiting
      BY DEF Waiting
    <2> QED BY <2>1, <2>2, <2>3, <2>4, <2>5, CallerMoves
  <1> QED BY <1>5, <1>6, <1>7, <1>8, <1>9 DEF CallerStep

LEMMA LooperNext == LooperInv /\ [Next]_vars => LooperInv'
<1> SUFFICES ASSUME LooperInv, [Next]_vars PROVE LooperInv'
  OBVIOUS
<1>1. ASSUME \/ Connect \/ LooperStep \/ PumpDue \/ ImageAvailable
             \/ (\E c \in Callers : CallerStep(c)) \/ UNCHANGED vars
      PROVE  TypeOK'
  BY <1>1, OtherStepTyped DEF LooperInv
<1>2. CASE UNCHANGED vars
  BY <1>2 DEF vars, coreVars, threadVars, callerVars, LooperInv, TypeOK, QueueShape, StepShape,
              PostersWait, StartIsFirst, NothingYet, UpMeansOpen, Stopping, SinglePump,
              PumpInSteps, PumpInQueue, PumpGoesOn, PumpPending
<1>3. CASE Connect
  BY <1>1, <1>3, ConnectKeeps
<1>4. CASE LooperStep
  BY <1>1, <1>4, HandleMessageKeeps, ExitKeeps DEF LooperStep
<1>5. CASE ThreadStep
  BY <1>5, ThreadStepKeeps
<1>6. CASE PumpDue
  BY <1>1, <1>6, PumpDueKeeps
<1>7. CASE ImageAvailable
  BY <1>1, <1>7, ImageAvailableKeeps
<1>8. CASE \E c \in Callers : CallerStep(c)
  BY <1>1, <1>8, CallerStepKeeps
<1> QED BY <1>2, <1>3, <1>4, <1>5, <1>6, <1>7, <1>8 DEF Next, Finished

LEMMA LooperInvHolds == Spec => []LooperInv
BY LooperInit, LooperNext, PTL DEF Spec

\* The controller's state stays within its types.
THEOREM AndroidTyped == Spec => []TypeOK
<1>1. LooperInv => TypeOK
  BY DEF LooperInv
<1> QED BY <1>1, LooperInvHolds, PTL

\* A core that nobody is stopping is pumped: whatever callbacks and other threads do, the
\* next pump is under way, posted, or due in 8 ms.
THEOREM PumpKeepsGoing == Spec => []PumpGoesOn
<1>1. LooperInv => PumpGoesOn
  BY DEF LooperInv
<1> QED BY <1>1, LooperInvHolds, PTL

LEMMA AtMostOne ==
    ASSUME NEW S, \A i, j \in S : i = j
    PROVE  /\ Cardinality(S) \in Nat /\ Cardinality(S) <= 1
           /\ S = {} => Cardinality(S) = 0
<1>1. CASE S = {}
  BY <1>1, FS_EmptySet
<1>2. CASE S # {}
  <2>1. PICK i \in S : S = {i}
    BY <1>2
  <2>2. Cardinality(S) = 1
    BY <2>1, FS_Singleton
  <2> QED BY <1>2, <2>2
<1> QED BY <1>1, <1>2

\* No two pumps are ever scheduled side by side, so that the bridge is pumped every 8 ms
\* and no faster, whichever way it was started.
THEOREM PumpIsSingle == Spec => []OnePump
<1>1. ASSUME LooperInv PROVE OnePump
  <2> DEFINE Q == {i \in DOMAIN queue : queue[i].do = "pump"}
             S == {i \in DOMAIN steps : steps[i].do \in Pumps}
  <2>1. SinglePump /\ timers \in Nat
    BY <1>1 DEF LooperInv, TypeOK
  <2>2. (\A i, j \in Q : i = j) /\ (\A i, j \in S : i = j)
    BY <2>1 DEF SinglePump
  <2>3. /\ timers > 0 => Q = {} /\ S = {}
        /\ Q = {} \/ S = {}
    BY <2>1 DEF SinglePump, PumpInSteps, PumpInQueue
  <2>4. timers <= 1
    BY <2>1 DEF SinglePump
  <2> HIDE DEF Q, S
  <2>5. /\ Cardinality(Q) \in Nat /\ Cardinality(Q) <= 1 /\ (Q = {} => Cardinality(Q) = 0)
        /\ Cardinality(S) \in Nat /\ Cardinality(S) <= 1 /\ (S = {} => Cardinality(S) = 0)
    BY <2>2, AtMostOne
  <2>6. timers + Cardinality(Q) + Cardinality(S) <= 1
    BY <2>1, <2>3, <2>4, <2>5
  <2> QED BY <2>6 DEF OnePump, Q, S
<1> QED BY <1>1, LooperInvHolds, PTL
=============================================================================
