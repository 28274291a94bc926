------------------------------- MODULE MCShims -------------------------------
(***************************************************************************)
(* The platform shims side by side: the Android controller, the power mode *)
(* and the projection service of Android, and the macOS shim.  None of     *)
(* them calls another (the application wires the power mode's injectInput  *)
(* as the controller's inputSink, and both modules let that happen at any  *)
(* time), so that a behaviour is one of a single part: the others keep     *)
(* still.                                                                  *)
(***************************************************************************)
EXTENDS AndroidBridge

CONSTANTS MaxServices, MaxSessions, Requests

VARIABLES
    part,   \* the shim that the behaviour is about
    binder, alone, contested, dismissed, ready, services, backend, bound, at, shuts, local,
    alive, foreground, ending, projection, arriving, watched,
    capturing, notices, granted, early,
    object, macRunning, thread, macCore, request, completed, stopped

Power      == INSTANCE PowerMode
Projection == INSTANCE ProjectionService
Mac        == INSTANCE MacBridge WITH running <- macRunning, core <- macCore

powerVars      == <<binder, alone, contested, dismissed, ready, services, backend, bound,
                    at, shuts, local>>
projectionVars == <<alive, foreground, ending, projection, arriving, watched,
                    capturing, notices, granted, early>>
macVars        == <<object, macRunning, thread, macCore, request, completed, stopped>>
shimVars       == <<vars, powerVars, projectionVars, macVars, part>>

ShimsInit ==
    /\ part \in {"android", "power", "projection", "mac"}
    /\ Init /\ Power!Init /\ Projection!Init /\ Mac!Init

ShimsNext ==
    \/ /\ part = "android" /\ Next
       /\ UNCHANGED <<part, powerVars, projectionVars, macVars>>
    \/ /\ part = "power" /\ Power!Next
       /\ UNCHANGED <<part, vars, projectionVars, macVars>>
    \/ /\ part = "projection" /\ Projection!Next
       /\ UNCHANGED <<part, vars, powerVars, macVars>>
    \/ /\ part = "mac" /\ Mac!Next
       /\ UNCHANGED <<part, vars, powerVars, projectionVars>>

ShimsSpec ==
    /\ ShimsInit /\ [][ShimsNext]_shimVars
    /\ Fairness /\ Projection!Fairness /\ Mac!Fairness

NothingLeftBehind  == Power!NothingLeftBehind
ShutdownLetsGo     == Power!ShutdownLetsGo
CaptureIsVisible   == Projection!CaptureIsVisible
EndedSessionsLetGo == Projection!EndedSessionsLetGo
AnsweredOnce       == Mac!AnsweredOnce
StopDisconnects    == Mac!StopDisconnects
=============================================================================
