-------------------------- MODULE ProjectionService --------------------------
(***************************************************************************)
(* AnowawProjectionService.kt: the foreground service that holds the       *)
(* session of the baseline tier.  onStartCommand, the callbacks of the     *)
(* sessions and onDestroy run on the main thread; the system, which lets   *)
(* one session run at a time and may end it at any moment, is external.    *)
(***************************************************************************)
EXTENDS Naturals

CONSTANT MaxSessions   \* sessions that are granted (bound of the model)

Session == 1..MaxSessions
None == 0

VARIABLES
    alive,       \* whether there is an instance of the service
    foreground,  \* whether its notification is shown
    ending,      \* whether it has asked the system to be stopped
    projection,  \* the field of that name: a session or None
    arriving,    \* the session onStartCommand has got and not yet stored, or None
    capturing,   \* the session that captures the screen, or None
    watched,     \* sessions of this instance with a callback
    notices,     \* sessions whose onStop waits on the main thread
    granted,     \* sessions granted so far
    early        \* sessions that have ended before they were stored

serviceVars == <<alive, foreground, ending>>
sessionVars == <<projection, arriving, watched>>
systemVars  == <<capturing, notices, granted, early>>
vars == <<serviceVars, sessionVars, systemVars>>

Init ==
    /\ alive = FALSE /\ foreground = FALSE /\ ending = FALSE
    /\ projection = None /\ arriving = None /\ watched = {}
    /\ capturing = None /\ notices = {} /\ granted = 0 /\ early = {}

MainThreadFree == arriving = None

\* The session that runs ends, and its callback, if it has one, is posted.
NoticesAfterEnd == notices \union ({capturing} \intersect watched)

-----------------------------------------------------------------------------
(* onStartCommand.                                                          *)

\* A start without consent, or one for which there is no session, stops the service.
StartRefused ==
    /\ MainThreadFree
    /\ alive' = TRUE /\ foreground' = TRUE /\ ending' = TRUE
    /\ UNCHANGED <<sessionVars, systemVars>>

\* getMediaProjection; the system ends the session that ran before.
StartGranted ==
    /\ MainThreadFree /\ granted < MaxSessions
    /\ alive' = TRUE /\ foreground' = TRUE
    /\ granted' = granted + 1
    /\ arriving' = granted + 1 /\ capturing' = granted + 1
    /\ notices' = NoticesAfterEnd
    /\ UNCHANGED <<ending, projection, watched, early>>

\* Faulty variant: no callback is registered.
StoreUnwatched ==
    /\ arriving # None
    /\ projection' = arriving
    /\ arriving' = None
    /\ UNCHANGED <<watched, serviceVars, systemVars>>

\* The session is stored and registerCallback is called.
Store ==
    /\ arriving # None
    /\ projection' = arriving
    /\ watched' = watched \union {arriving}
    /\ arriving' = None
    /\ UNCHANGED <<serviceVars, systemVars>>

-----------------------------------------------------------------------------
(* The end of a session and of the service.                                 *)

\* The user or the system ends the session.
SessionEnds ==
    /\ capturing # None
    /\ capturing' = None
    /\ notices' = NoticesAfterEnd
    /\ early' = early \union ({capturing} \intersect {arriving})
    /\ UNCHANGED <<serviceVars, sessionVars, granted>>

\* onStop, which stops the instance that registered it: stopSelf of one that is gone
\* does nothing.
OnStop ==
    /\ MainThreadFree
    /\ \E s \in notices :
           /\ notices' = notices \ {s}
           /\ ending' = (ending \/ s \in watched)
    /\ UNCHANGED <<alive, foreground, sessionVars, capturing, granted, early>>

\* Faulty variant: the session is forgotten and not stopped.
OnDestroyForgets ==
    /\ MainThreadFree /\ ending
    /\ alive' = FALSE /\ foreground' = FALSE /\ ending' = FALSE
    /\ projection' = None /\ watched' = {}
    /\ UNCHANGED <<arriving, systemVars>>

\* onDestroy stops the session that is stored, and the notification goes.
OnDestroy ==
    /\ MainThreadFree /\ ending
    /\ alive' = FALSE /\ foreground' = FALSE /\ ending' = FALSE
    /\ IF projection # None /\ projection = capturing
       THEN capturing' = None /\ notices' = NoticesAfterEnd
       ELSE UNCHANGED <<capturing, notices>>
    /\ projection' = None /\ watched' = {}
    /\ UNCHANGED <<arriving, granted, early>>

\* The process is killed; START_NOT_STICKY: the service is not started again.
Killed ==
    /\ alive
    /\ alive' = FALSE /\ foreground' = FALSE /\ ending' = FALSE
    /\ projection' = None /\ arriving' = None /\ watched' = {}
    /\ capturing' = None /\ notices' = {}
    /\ UNCHANGED <<granted, early>>

-----------------------------------------------------------------------------

MainThread == Store \/ OnStop \/ OnDestroy

Next == StartRefused \/ StartGranted \/ MainThread \/ SessionEnds \/ Killed

Spec == Init /\ [][Next]_vars

\* The main thread handles what is posted to it, and the system destroys a service that
\* has asked for it.
Fairness == WF_vars(Store) /\ WF_vars(OnStop) /\ WF_vars(OnDestroy)

FairSpec == Spec /\ Fairness

-----------------------------------------------------------------------------

\* AnowawProjectionService.kt:27: a notification is visible for the duration of capture,
\* through restarts of the service, second sessions and the end of the first.
CaptureIsVisible == capturing # None => foreground

\* A service whose session has ended does not stay in the foreground with it: it is
\* destroyed, or is given another session.  (A session that ends before registerCallback
\* tells nobody, and its service stays.)
EndedSessionsLetGo ==
    \A s \in Session : (projection = s /\ capturing # s /\ s \notin early) ~> projection # s
=============================================================================
