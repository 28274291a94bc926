------------------------------ MODULE PowerMode ------------------------------
(***************************************************************************)
(* AnowawPowerController.kt: the calls that borrow shell privileges from a *)
(* user service of Shizuku or root.  injectInput runs on the bridge thread *)
(* and the rest on the threads of the application; the cached binder has   *)
(* no lock, so a call is modelled step by step.  The binders' factories    *)
(* and probes, and the services, belong to the application (external).     *)
(***************************************************************************)
EXTENDS Naturals

CONSTANTS
    Callers,      \* threads that call the controller
    MaxServices   \* services bound, and calls made (bounds of the model)

Backend == {"shizuku", "root"}
Service == 1..MaxServices
None == 0

VARIABLES
    binder,    \* the field of that name: a service or None
    ready,     \* backends whose readyProbe says TRUE
    services,  \* the services that run, with privileges
    backend,   \* service -> the backend it was bound from
    bound,     \* services bound so far
    at,        \* where each thread is
    shuts,     \* whether its call is shutdown
    local,     \* what it holds: the value that privileged() is to assign, or has returned
    alone,     \* (ghost) the thread, if any, that has found nothing cached while no other
               \* call was past that test, until it has assigned or another finds nothing
    contested, \* (ghost) services bound by calls that were not alone
    dismissed  \* (ghost) services told to go: destroy has been called

ghostVars == <<alone, contested, dismissed>>
fieldVars == <<binder, ghostVars>>
worldVars == <<ready, services, backend, bound>>
callVars  == <<at, shuts, local>>
vars == <<fieldVars, worldVars, callVars>>

Init ==
    /\ binder = None
    /\ alone = {} /\ contested = {} /\ dismissed = {}
    /\ ready = {} /\ services = {} /\ bound = 0
    /\ backend = [s \in Service |-> "shizuku"]
    /\ at = [t \in Callers |-> "idle"]
    /\ shuts = [t \in Callers |-> FALSE]
    /\ local = [t \in Callers |-> None]

Go(t, place) == at' = [at EXCEPT ![t] = place]
Hold(t, s) == local' = [local EXCEPT ![t] = s]

-----------------------------------------------------------------------------
(* A call.                                                                  *)

\* createTrustedDisplay, launchAppOnDisplay, injectInput or shutdown begins.
Call(t) ==
    /\ at[t] = "idle"
    /\ Go(t, "reading")
    /\ \E last \in BOOLEAN : shuts' = [shuts EXCEPT ![t] = last]
    /\ UNCHANGED <<local, fieldVars, worldVars>>

\* privileged() returns the cached binder if there is one.
Read(t) ==
    /\ at[t] = "reading"
    /\ Hold(t, binder)
    /\ Go(t, IF binder = None THEN "binding" ELSE "using")
    /\ alone' = IF binder # None THEN alone
                ELSE {u \in {t} : \A v \in Callers \ {t} : at[v] \in {"idle", "reading"}}
    /\ UNCHANGED <<shuts, binder, contested, dismissed, worldVars>>

\* A probe or a factory throws: the call ends, and so does a shutdown, with its exception.
BindThrows(t) ==
    /\ at[t] = "binding"
    /\ shuts' = [shuts EXCEPT ![t] = FALSE]
    /\ alone' = alone \ {t}
    /\ Go(t, "idle")
    /\ UNCHANGED <<local, binder, contested, dismissed, worldVars>>

\* The service of a backend is started; its factory may be unset, or answer null.
Bind(t) ==
    LET from == IF "shizuku" \in ready THEN "shizuku" ELSE "root" IN
    /\ at[t] = "binding"
    /\ \/ /\ Hold(t, None)
          /\ UNCHANGED worldVars
       \/ /\ from \in ready /\ bound < MaxServices
          /\ bound' = bound + 1
          /\ services' = services \union {bound + 1}
          /\ backend' = [backend EXCEPT ![bound + 1] = from]
          /\ Hold(t, bound + 1)
          /\ UNCHANGED ready
    /\ Go(t, "assigning")
    /\ UNCHANGED <<shuts, fieldVars>>

Assign(t) ==
    /\ at[t] = "assigning"
    /\ binder' = local[t]
    /\ contested' = IF t \in alone THEN contested ELSE contested \union ({local[t]} \ {None})
    /\ alone' = alone \ {t}
    /\ Go(t, "rereading")
    /\ UNCHANGED <<dismissed, shuts, local, worldVars>>

\* return binder, which by now may be another thread's or null again.
Reread(t) ==
    /\ at[t] = "rereading"
    /\ Hold(t, binder)
    /\ Go(t, "using")
    /\ UNCHANGED <<shuts, fieldVars, worldVars>>

\* The service is asked; one that has died throws, and for null the call is turned away.
Use(t) ==
    /\ at[t] = "using" /\ ~shuts[t]
    /\ Hold(t, None) /\ Go(t, "idle")
    /\ UNCHANGED <<shuts, fieldVars, worldVars>>

\* Faulty variant: shutdown forgets the service and lets it run.
LeaveRunning(t) ==
    /\ at[t] = "using" /\ shuts[t]
    /\ Hold(t, None) /\ Go(t, "clearing")
    /\ UNCHANGED <<shuts, fieldVars, worldVars>>

\* runCatching { it.destroy() }: the service ends, or what destroy throws is swallowed and
\* the service may run on.
Destroy(t) ==
    /\ at[t] = "using" /\ shuts[t]
    /\ services' \in {services, services \ {local[t]}}
    /\ dismissed' = dismissed \union ({local[t]} \ {None})
    /\ Hold(t, None) /\ Go(t, "clearing")
    /\ UNCHANGED <<shuts, binder, alone, contested, ready, backend, bound>>

\* Faulty variant: a shutdown whose destroy has thrown ends there.
ClearIfGone(t) ==
    /\ at[t] = "clearing"
    /\ binder' = IF binder \in services THEN binder ELSE None
    /\ shuts' = [shuts EXCEPT ![t] = FALSE]
    /\ Go(t, "idle")
    /\ UNCHANGED <<ghostVars, local, worldVars>>

Clear(t) ==
    /\ at[t] = "clearing"
    /\ binder' = None
    /\ shuts' = [shuts EXCEPT ![t] = FALSE]
    /\ Go(t, "idle")
    /\ UNCHANGED <<ghostVars, local, worldVars>>

-----------------------------------------------------------------------------
(* Shizuku and root (external): they come and go, with or without services. *)

BackendComes ==
    /\ \E b \in Backend \ ready : ready' = ready \union {b}
    /\ UNCHANGED <<fieldVars, services, backend, bound, callVars>>

BackendGoes ==
    /\ \E b \in ready :
           /\ ready' = ready \ {b}
           /\ services' \in {services, {s \in services : backend[s] # b}}
    /\ UNCHANGED <<fieldVars, backend, bound, callVars>>

-----------------------------------------------------------------------------

CallStep(t) ==
    \/ Call(t) \/ Read(t) \/ Bind(t) \/ BindThrows(t) \/ Assign(t) \/ Reread(t)
    \/ Use(t) \/ Destroy(t) \/ Clear(t)

Next == BackendComes \/ BackendGoes \/ \E t \in Callers : CallStep(t)

Spec == Init /\ [][Next]_vars

-----------------------------------------------------------------------------

Rest == \A t \in Callers : at[t] = "idle"

\* Nothing privileged is forgotten: between calls, whoever runs with privileges is held by
\* the controller, or has been told to go and has not (destroy threw), or was bound by one
\* of two calls that both found nothing cached, or by one that found it while another was
\* in the middle of a shutdown; so it is after calls that failed or threw, after a backend
\* has gone and come back, and whatever other calls overlap.
NothingLeftBehind == Rest => services \subseteq {binder} \union contested \union dismissed

\* A service that has been told to go is not held any more, also when its destroy threw or
\* another call was using it: the next call binds a new one.
ShutdownLetsGo == Rest => binder \notin dismissed
=============================================================================
