----------------------------- MODULE MCServices -----------------------------
(* Instances of five services for TLC, four of the web backend and the release *)
(* programs.  They share no state: each behaviour picks one of them, and the   *)
(* others stay as they are.  Every liveness property is checked under the      *)
(* fairness of its own service.                                                *)
EXTENDS MCNotificationQueue, CalendarTaskSync, ConnectionSync, AccountErasure, ReleaseDeployment

VARIABLE part \* what this behaviour is about

serviceVars == <<vars, syncVars, connVars, erasureVars, releaseVars, part>>

Parts == {"notifications", "tasks", "connections", "erasure", "erasers", "release"}

\* The erasure is looked at twice: with one eraser and every action of the administrator;
\* and with two erasers and an archive, but one action.
OneEraser == \A e \in Erasers : actor'[e] # actor[e] => e = CHOOSE f \in Erasers : TRUE
ErasureParts ==
  \/ part = "erasure" /\ OneEraser /\ UNCHANGED snapshot
  \/ part = "erasers" /\ spent'.actions < 2

ServicesInit ==
  /\ part \in Parts
  /\ Init /\ SyncInit /\ ConnInit /\ ErasureInit /\ ReleaseInit
  /\ part # "notifications" => active = {}

ServicesNext ==
  /\ UNCHANGED part
  /\ \/ part = "notifications" /\ Next /\ UNCHANGED <<syncVars, connVars, erasureVars, releaseVars>>
     \/ part = "tasks" /\ SyncNext /\ UNCHANGED <<vars, connVars, erasureVars, releaseVars>>
     \/ part = "connections" /\ ConnNext /\ UNCHANGED <<vars, syncVars, erasureVars, releaseVars>>
     \/ ErasureNext /\ ErasureParts /\ UNCHANGED <<vars, syncVars, connVars, releaseVars>>
     \/ part = "release" /\ ReleaseNext /\ UNCHANGED <<vars, syncVars, connVars, erasureVars>>

ServicesSpec == ServicesInit /\ [][ServicesNext]_serviceVars

\* All rows, workers and requests of the queues stay within their types.
ServicesTypeOK ==
  TypeOK /\ SyncTypeOK /\ ConnectionTypeOK /\ ErasureTypeOK /\ ReleaseTypeOK

\* NotificationQueue, FairSpec: every message and every delivery is dealt with.
RowsSettleFairly == part = "notifications" /\ Fairness => EveryRowSettles

\* CalendarTaskSync, FairSyncSpec: every active job ends, or has run out of attempts.
JobsSettleFairly == part = "tasks" /\ SyncFairness => JobsSettle

\* ConnectionSync, FairConnSpec: every active job ends.
ConnJobsSettleFairly == part = "connections" /\ ConnFairness => ConnJobsSettle

\* AccountErasure, FairErasureSpec: a claimed erasure is completed or blocked.
ErasureSettlesFairly == part \in {"erasure", "erasers"} /\ ErasureFairness => ErasureSettles

\* ReleaseDeployment, FairReleaseSpec: a release is accepted, undone or recovered, or stranded.
InterruptionsSettleFairly == part = "release" /\ ReleaseFairness => InterruptionsSettle
=============================================================================
