----------------------------- MODULE ShimProofs -----------------------------
(***************************************************************************)
(* The power mode, the projection service and the macOS shim keep their    *)
(* promises for any number of threads, services, sessions and requests.    *)
(***************************************************************************)
EXTENDS MCShims, TLAPS

-----------------------------------------------------------------------------
(* The power mode.                                                          *)

Quiet == {"idle", "reading"}
Binding == {"binding", "assigning"}

PowerTyped ==
    /\ DOMAIN at = Callers /\ DOMAIN local = Callers
    /\ bound \in Nat /\ binder \in 0..bound /\ \A t \in Callers : local[t] \in 0..bound
    /\ services \subseteq 1..bound /\ dismissed \subseteq 1..bound

\* A call that is alone is the only one past the test, and nothing is cached.
AloneInv ==
    \A t \in alone :
        /\ t \in Callers /\ at[t] \in Binding /\ binder = Power!None
        /\ \A u \in Callers \ {t} : at[u] \in Quiet

\* The services the controller must not forget.
Owed == services \ (contested \union dismissed)

\* Each of them is cached or about to be; if it is cached, no call is about to cache
\* another one, whoever uses a service uses that one, and nobody is about to forget it.
Kept ==
    /\ \A s \in Owed :
           s = binder \/ \E t \in Callers : at[t] = "assigning" /\ local[t] = s
    /\ binder \in Owed => \A t \in Callers :
           at[t] \notin Binding \union {"clearing"} /\ (at[t] = "using" => local[t] = binder)

\* What a call is about to cache is known to nobody else.
Unshared ==
    \A t \in Callers : at[t] = "assigning" /\ local[t] # Power!None =>
        /\ binder # local[t] /\ local[t] \notin dismissed
        /\ \A u \in Callers \ {t} : local[u] # local[t]

\* What has been told to go is about to be forgotten.
Forgotten == binder \in dismissed => \E t \in Callers : at[t] = "clearing"

PowerInv == PowerTyped /\ AloneInv /\ Kept /\ Unshared /\ Forgotten

LEMMA PowerInit == Power!Init => PowerInv
BY DEF Power!Init, Power!None, PowerInv, PowerTyped, AloneInv, Kept, Owed, Unshared, Forgotten,
       Binding

\* What a step does not touch: the steps of one thread leave the others where they are.
Others(t) ==
    /\ DOMAIN at' = Callers /\ DOMAIN local' = Callers
    /\ \A u \in Callers \ {t} : at'[u] = at[u] /\ local'[u] = local[u]

LEMMA PowerCall ==
    ASSUME PowerInv, NEW t \in Callers, Power!Call(t) \/ Power!Use(t)
    PROVE  PowerInv'
<1>1. /\ at[t] \in {"idle", "using"} /\ at'[t] \in Quiet /\ Others(t)
      /\ local'[t] \in {local[t], Power!None}
      /\ UNCHANGED <<binder, services, bound, alone, contested, dismissed>>
  BY DEF PowerInv, PowerTyped, Power!Call, Power!Use, Power!Go, Power!Hold, Power!fieldVars,
         Power!ghostVars, Power!worldVars, Others, Quiet
<1> USE DEF Others, Power!None, Binding, Quiet
<1>2. PowerTyped'
  BY <1>1 DEF PowerInv, PowerTyped
<1>3. AloneInv'
  BY <1>1 DEF PowerInv, AloneInv
<1>4. Kept'
  BY <1>1 DEF PowerInv, Kept, Owed
<1>5. Unshared'
  BY <1>1 DEF PowerInv, Unshared
<1>6. Forgotten'
  BY <1>1 DEF PowerInv, Forgotten
<1> QED BY <1>2, <1>3, <1>4, <1>5, <1>6 DEF PowerInv

LEMMA PowerRead ==
    ASSUME PowerInv, NEW t \in Callers, Power!Read(t)
    PROVE  PowerInv'
<1>1. /\ at[t] = "reading" /\ Others(t)
      /\ at'[t] = IF binder = Power!None THEN "binding" ELSE "using"
      /\ local'[t] = binder
      /\ UNCHANGED <<binder, services, bound, contested, dismissed>>
  BY DEF PowerInv, PowerTyped, Power!Read, Power!Go, Power!Hold, Power!worldVars, Others
<1>2. /\ binder # Power!None => alone' = alone
      /\ binder = Power!None => alone' \subseteq {t}
      /\ binder = Power!None /\ t \in alone' => \A u \in Callers \ {t} : at[u] \in Quiet
  BY DEF Power!Read, Quiet
<1> USE DEF Others, Power!None, Binding, Quiet
<1>3. PowerTyped'
  BY <1>1 DEF PowerInv, PowerTyped
<1>4. AloneInv'
  BY <1>1, <1>2 DEF PowerInv, AloneInv
<1>5. Kept'
  <2>1. binder \in Owed => binder # Power!None
    BY DEF PowerInv, PowerTyped, Owed
  <2> QED BY <1>1, <2>1 DEF PowerInv, Kept, Owed
<1>6. Unshared'
  BY <1>1 DEF PowerInv, Unshared
<1>7. Forgotten'
  BY <1>1 DEF PowerInv, Forgotten
<1> QED BY <1>3, <1>4, <1>5, <1>6, <1>7 DEF PowerInv

LEMMA PowerBind ==
    ASSUME PowerInv, NEW t \in Callers, Power!Bind(t)
    PROVE  PowerInv'
<1>1. /\ at[t] = "binding" /\ at'[t] = "assigning" /\ Others(t)
      /\ UNCHANGED <<binder, alone, contested, dismissed>>
  BY DEF PowerInv, PowerTyped, Power!Bind, Power!Go, Power!Hold, Power!fieldVars,
         Power!ghostVars, Others
<1>2. \/ local'[t] = Power!None /\ UNCHANGED <<services, bound>>
      \/ /\ local'[t] = bound + 1 /\ bound' = bound + 1
         /\ services' = services \union {bound + 1}
  BY DEF PowerInv, PowerTyped, Power!Bind, Power!Hold, Power!worldVars
<1> USE DEF Others, Power!None, Binding, Quiet
<1>3. PowerTyped'
  <2>1. bound' \in Nat /\ bound <= bound' /\ local'[t] \in 0..bound'
    BY <1>2 DEF PowerInv, PowerTyped
  <2>2. services' \subseteq 1..bound'
    <3>1. bound \in Nat /\ services \subseteq 1..bound
      BY DEF PowerInv, PowerTyped
    <3>2. CASE UNCHANGED <<services, bound>>
      BY <3>1, <3>2
    <3>3. CASE bound' = bound + 1 /\ services' = services \union {bound + 1}
      BY <3>1, <3>3
    <3> QED BY <1>2, <3>2, <3>3
  <2>3. \A n \in 0..bound : n \in 0..bound' /\ 1..bound \subseteq 1..bound'
    BY <2>1 DEF PowerInv, PowerTyped
  <2> QED BY <1>1, <2>1, <2>2, <2>3 DEF PowerInv, PowerTyped
<1>4. AloneInv'
  BY <1>1 DEF PowerInv, AloneInv
<1>5. Kept'
  <2>1. binder \notin Owed
    BY <1>1 DEF PowerInv, Kept
  <2>2. binder \notin Owed'
    BY <1>1, <1>2, <2>1 DEF PowerInv, PowerTyped, Owed
  <2>3. ASSUME NEW s \in Owed'
        PROVE  s = binder' \/ \E u \in Callers : at'[u] = "assigning" /\ local'[u] = s
    <3>1. s \in Owed \/ local'[t] = s
      BY <1>1, <1>2, <2>3 DEF Owed
    <3>2. CASE s \in Owed
      BY <1>1, <3>2 DEF PowerInv, Kept
    <3> QED BY <1>1, <3>1, <3>2
  <2> QED BY <1>1, <2>2, <2>3 DEF Kept
<1>6. Unshared'
  <2>1. ASSUME local'[t] # Power!None
        PROVE  /\ binder # local'[t] /\ local'[t] \notin dismissed
               /\ \A u \in Callers \ {t} : local[u] # local'[t]
    BY <1>1, <1>2, <2>1 DEF PowerInv, PowerTyped
  <2>2. ASSUME NEW u \in Callers \ {t}, local[u] # Power!None PROVE local[u] # local'[t]
    BY <1>1, <1>2, <2>2 DEF PowerInv, PowerTyped
  <2> QED BY <1>1, <2>1, <2>2 DEF PowerInv, Unshared
<1>7. Forgotten'
  BY <1>1 DEF PowerInv, Forgotten
<1> QED BY <1>3, <1>4, <1>5, <1>6, <1>7 DEF PowerInv

LEMMA PowerBindThrows ==
    ASSUME PowerInv, NEW t \in Callers, Power!BindThrows(t)
    PROVE  PowerInv'
<1>1. /\ at[t] = "binding" /\ at'[t] = "idle" /\ Others(t) /\ alone' = alone \ {t}
      /\ UNCHANGED <<binder, local, services, bound, contested, dismissed>>
  BY DEF PowerInv, PowerTyped, Power!BindThrows, Power!Go, Power!worldVars, Others
<1> USE DEF Others, Power!None, Binding, Quiet
<1>2. PowerTyped'
  BY <1>1 DEF PowerInv, PowerTyped
<1>3. AloneInv'
  BY <1>1 DEF PowerInv, AloneInv
<1>4. Kept'
  BY <1>1 DEF PowerInv, Kept, Owed
<1>5. Unshared'
  BY <1>1 DEF PowerInv, Unshared
<1>6. Forgotten'
  BY <1>1 DEF PowerInv, Forgotten
<1> QED BY <1>2, <1>3, <1>4, <1>5, <1>6 DEF PowerInv

\* A call that is alone caches what nobody threatens; another one loses nothing but what
\* two calls have contested.
LEMMA PowerAssign ==
    ASSUME PowerInv, NEW t \in Callers, Power!Assign(t)
    PROVE  PowerInv'
<1>1. /\ at[t] = "assigning" /\ at'[t] = "rereading" /\ Others(t) /\ binder' = local[t]
      /\ alone' = alone \ {t} /\ UNCHANGED <<local, services, bound, dismissed>>
      /\ contested \subseteq contested' /\ contested' \subseteq contested \union {local[t]}
      /\ t \notin alone /\ local[t] # Power!None => local[t] \in contested'
  BY DEF PowerInv, PowerTyped, Power!Assign, Power!Go, Power!worldVars, Others
<1> USE DEF Others, Power!None, Binding, Quiet
<1>2. PowerTyped'
  BY <1>1 DEF PowerInv, PowerTyped
<1>3. AloneInv'
  BY <1>1 DEF PowerInv, AloneInv
<1>4. Kept'
  <2>1. binder \notin Owed
    BY <1>1 DEF PowerInv, Kept
  <2>2. ASSUME NEW s \in Owed'
        PROVE  s = binder' \/ \E u \in Callers : at'[u] = "assigning" /\ local'[u] = s
    <3>1. s \in Owed
      BY <1>1, <2>2 DEF Owed
    <3>2. PICK u \in Callers : at[u] = "assigning" /\ local[u] = s
      BY <2>1, <3>1 DEF PowerInv, Kept
    <3> QED BY <1>1, <3>2
  <2>3. ASSUME binder' \in Owed', NEW u \in Callers
        PROVE  at'[u] \notin Binding \union {"clearing", "using"}
    <3>1. t \in alone
      BY <1>1, <2>3 DEF PowerInv, PowerTyped, Owed
    <3> QED BY <1>1, <3>1 DEF PowerInv, AloneInv
  <2> QED BY <2>2, <2>3 DEF Kept
<1>5. Unshared'
  BY <1>1 DEF PowerInv, Unshared
<1>6. Forgotten'
  <2>1. binder' \notin dismissed'
    BY <1>1 DEF PowerInv, Unshared, PowerTyped
  <2> QED BY <2>1 DEF Forgotten
<1> QED BY <1>2, <1>3, <1>4, <1>5, <1>6 DEF PowerInv

LEMMA PowerReread ==
    ASSUME PowerInv, NEW t \in Callers, Power!Reread(t)
    PROVE  PowerInv'
<1>1. /\ at[t] = "rereading" /\ at'[t] = "using" /\ Others(t) /\ local'[t] = binder
      /\ UNCHANGED <<binder, services, bound, alone, contested, dismissed>>
  BY DEF PowerInv, PowerTyped, Power!Reread, Power!Go, Power!Hold, Power!fieldVars,
         Power!ghostVars, Power!worldVars, Others
<1> USE DEF Others, Power!None, Binding, Quiet
<1>2. PowerTyped'
  BY <1>1 DEF PowerInv, PowerTyped
<1>3. AloneInv'
  BY <1>1 DEF PowerInv, AloneInv
<1>4. Kept'
  BY <1>1 DEF PowerInv, Kept, Owed
<1>5. Unshared'
  BY <1>1 DEF PowerInv, Unshared
<1>6. Forgotten'
  BY <1>1 DEF PowerInv, Forgotten
<1> QED BY <1>2, <1>3, <1>4, <1>5, <1>6 DEF PowerInv

\* What is destroyed is what is cached, if that is still owed; it is owed no more, whether
\* it goes or not.
LEMMA PowerDestroy ==
    ASSUME PowerInv, NEW t \in Callers, Power!Destroy(t)
    PROVE  PowerInv'
<1>1. /\ at[t] = "using" /\ at'[t] = "clearing" /\ Others(t) /\ local'[t] = Power!None
      /\ services' \subseteq services
      /\ dismissed' = dismissed \union ({local[t]} \ {Power!None})
      /\ UNCHANGED <<binder, bound, alone, contested>>
  BY DEF PowerInv, PowerTyped, Power!Destroy, Power!Go, Power!Hold, Others
<1> USE DEF Others, Power!None, Binding, Quiet
<1>2. PowerTyped'
  BY <1>1 DEF PowerInv, PowerTyped
<1>3. AloneInv'
  BY <1>1 DEF PowerInv, AloneInv
<1>4. Kept'
  <2>1. Owed' \subseteq Owed
    BY <1>1 DEF Owed
  <2>2. binder \notin Owed'
    <3>1. binder \in Owed => binder = local[t] /\ binder # Power!None
      BY <1>1 DEF PowerInv, Kept, PowerTyped, Owed
    <3> QED BY <1>1, <2>1, <3>1 DEF Owed
  <2> QED BY <1>1, <2>1, <2>2 DEF PowerInv, Kept
<1>5. Unshared'
  BY <1>1 DEF PowerInv, Unshared
<1>6. Forgotten'
  BY <1>1 DEF PowerInv, Forgotten
<1> QED BY <1>2, <1>3, <1>4, <1>5, <1>6 DEF PowerInv

LEMMA PowerClear ==
    ASSUME PowerInv, NEW t \in Callers, Power!Clear(t)
    PROVE  PowerInv'
<1>1. /\ at[t] = "clearing" /\ at'[t] = "idle" /\ Others(t) /\ binder' = Power!None
      /\ UNCHANGED <<local, services, bound, alone, contested, dismissed>>
  BY DEF PowerInv, PowerTyped, Power!Clear, Power!Go, Power!ghostVars, Power!worldVars, Others
<1> USE DEF Others, Power!None, Binding, Quiet
<1>2. PowerTyped'
  BY <1>1 DEF PowerInv, PowerTyped
<1>3. AloneInv'
  BY <1>1 DEF PowerInv, AloneInv
<1>4. Kept'
  <2>1. binder \notin Owed /\ Owed' = Owed /\ Power!None \notin Owed
    BY <1>1 DEF PowerInv, Kept, PowerTyped, Owed
  <2> QED BY <1>1, <2>1 DEF PowerInv, Kept
<1>5. Unshared'
  BY <1>1 DEF PowerInv, Unshared
<1>6. Forgotten'
  BY <1>1 DEF PowerInv, PowerTyped, Forgotten
<1> QED BY <1>2, <1>3, <1>4, <1>5, <1>6 DEF PowerInv

LEMMA PowerBackends ==
    ASSUME PowerInv, Power!BackendComes \/ Power!BackendGoes
    PROVE  PowerInv'
<1>1. services' \subseteq services
      /\ UNCHANGED <<binder, bound, at, local, alone, contested, dismissed>>
  BY DEF Power!BackendComes, Power!BackendGoes, Power!fieldVars, Power!ghostVars, Power!callVars
<1> QED BY <1>1 DEF PowerInv, PowerTyped, AloneInv, Kept, Owed, Unshared, Forgotten

LEMMA PowerNext == PowerInv /\ Power!Next => PowerInv'
BY PowerCall, PowerRead, PowerBind, PowerBindThrows, PowerAssign, PowerReread, PowerDestroy,
   PowerClear, PowerBackends DEF Power!Next, Power!CallStep

-----------------------------------------------------------------------------
(* The projection service.                                                  *)

\* What captures has been stored, or is about to be, by a service that shows it.
Shown ==
    /\ foreground => alive
    /\ capturing # Projection!None =>
           foreground /\ capturing = IF arriving = Projection!None THEN projection ELSE arriving

LEMMA ProjectionInit == Projection!Init => Shown
BY DEF Projection!Init, Shown

LEMMA ProjectionNext == Shown /\ Projection!Next => Shown'
<1> SUFFICES ASSUME Shown, Projection!Next PROVE Shown'
  OBVIOUS
<1> USE DEF Shown, Projection!serviceVars, Projection!sessionVars, Projection!systemVars,
            Projection!MainThreadFree, Projection!None
<1>1. CASE Projection!StartRefused
  BY <1>1 DEF Projection!StartRefused
<1>2. CASE Projection!StartGranted
  BY <1>2 DEF Projection!StartGranted
<1>3. CASE Projection!Store
  BY <1>3 DEF Projection!Store
<1>4. CASE Projection!OnStop
  BY <1>4 DEF Projection!OnStop
<1>5. CASE Projection!OnDestroy
  BY <1>5 DEF Projection!OnDestroy
<1>6. CASE Projection!SessionEnds
  BY <1>6 DEF Projection!SessionEnds
<1>7. CASE Projection!Killed
  BY <1>7 DEF Projection!Killed
<1> QED BY <1>1, <1>2, <1>3, <1>4, <1>5, <1>6, <1>7 DEF Projection!Next, Projection!MainThread

-----------------------------------------------------------------------------
(* The macOS shim.                                                          *)

Unanswered == {"idle", "launching", "settling", "locating", "hopping"}

Counted ==
    /\ completed \in [Requests -> 0..1] /\ DOMAIN request = Requests
    /\ \A r \in Requests : request[r] \in Unanswered => completed[r] = 0

LEMMA MacInit == Mac!Init => Counted
BY DEF Mac!Init, Counted

LEMMA MacNext == Counted /\ Mac!Next => Counted'
<1> SUFFICES ASSUME Counted, Mac!Next PROVE Counted'
  OBVIOUS
<1>1. CASE UNCHANGED <<request, completed>>
  BY <1>1 DEF Counted
<1>2. ASSUME NEW r \in Requests, request[r] \in Unanswered, Mac!Complete(r) PROVE Counted'
  BY <1>2 DEF Counted, Unanswered, Mac!Complete
<1>3. ASSUME NEW r \in Requests, request[r] \in Unanswered, NEW next, Mac!Continue(r, next)
      PROVE  Counted'
  BY <1>3 DEF Counted, Mac!Continue
<1>4. ASSUME NEW r \in Requests, Mac!BridgeApp(r) \/ Mac!CallbackStep(r) PROVE Counted'
  BY <1>1, <1>2, <1>3, <1>4 DEF Mac!BridgeApp, Mac!CallbackStep, Mac!Launched, Mac!Settled, Mac!Located,
                          Mac!HopRaises, Mac!Abort, Mac!requestVars, Unanswered
<1>5. ASSUME Mac!InitWithSocketName \/ Mac!ThreadStep \/ Mac!Stop \/ Mac!Finished
      PROVE  UNCHANGED <<request, completed>>
  BY <1>5 DEF Mac!InitWithSocketName, Mac!ThreadStep, Mac!ThreadStarts, Mac!ThreadLoops,
              Mac!ThreadPumps, Mac!ThreadLeaves, Mac!Stop, Mac!Finished, Mac!requestVars, Mac!vars
<1> QED BY <1>1, <1>4, <1>5 DEF Mac!Next

-----------------------------------------------------------------------------
(* Side by side.                                                            *)

LEMMA ShimsStart == ShimsInit => PowerInv /\ Shown /\ Counted
BY PowerInit, ProjectionInit, MacInit DEF ShimsInit

LEMMA ShimsStep == PowerInv /\ Shown /\ Counted /\ [ShimsNext]_shimVars
                       => PowerInv' /\ Shown' /\ Counted'
<1> SUFFICES ASSUME PowerInv, Shown, Counted, [ShimsNext]_shimVars
             PROVE  PowerInv' /\ Shown' /\ Counted'
  OBVIOUS
<1>1. UNCHANGED powerVars => PowerInv'
  BY DEF powerVars, PowerInv, PowerTyped, AloneInv, Kept, Owed, Unshared, Forgotten
<1>2. UNCHANGED projectionVars => Shown'
  BY DEF projectionVars, Shown
<1>3. UNCHANGED macVars => Counted'
  BY DEF macVars, Counted
<1> QED BY <1>1, <1>2, <1>3, PowerNext, ProjectionNext, MacNext DEF ShimsNext, shimVars

LEMMA ShimsHold == ShimsSpec => [](PowerInv /\ Shown /\ Counted)
BY ShimsStart, ShimsStep, PTL DEF ShimsSpec

\* Whatever calls overlap, fail, throw, and meet services that die or refuse to, the only
\* privileged service that runs on forgotten is one that was told to go or that two calls
\* have contested: a call that binds alone caches its service with nobody about to clear or
\* replace it, and a shutdown clears only what it has told to go.
THEOREM PrivilegesAreReturned == ShimsSpec => []NothingLeftBehind
<1>1. PowerInv => NothingLeftBehind
  <2> SUFFICES ASSUME PowerInv, Power!Rest,
                      NEW s \in services \ (contested \union dismissed)
               PROVE  s = binder
    BY DEF NothingLeftBehind, Power!NothingLeftBehind
  <2> QED BY DEF PowerInv, Kept, Owed, Power!Rest
<1> QED BY <1>1, ShimsHold, PTL

\* However many calls overlap, no service is held after it has been told to go: whoever has
\* told it is about to clear the field, and nobody else can come to store it again.
THEOREM DismissedIsForgotten == ShimsSpec => []ShutdownLetsGo
<1>1. PowerInv => ShutdownLetsGo
  BY DEF PowerInv, Forgotten, ShutdownLetsGo, Power!ShutdownLetsGo, Power!Rest
<1> QED BY <1>1, ShimsHold, PTL

\* The screen is never captured without a notification, however starts, ends of sessions
\* and the end of the service follow each other: what captures is what the service stores,
\* which it stops before the notification goes.
THEOREM CaptureStaysVisible == ShimsSpec => []CaptureIsVisible
<1>1. Shown => CaptureIsVisible
  BY DEF Shown, CaptureIsVisible, Projection!CaptureIsVisible, Projection!None
<1> QED BY <1>1, ShimsHold, PTL

\* Of the handlers of a request, one at most calls its completion.
THEOREM CompletionIsSingle == ShimsSpec => []AnsweredOnce
<1>1. Counted => AnsweredOnce
  BY DEF Counted, AnsweredOnce, Mac!AnsweredOnce
<1> QED BY <1>1, ShimsHold, PTL
=============================================================================
