---------------------------- MODULE AutomaticSync ----------------------------
(***************************************************************************)
(* The automatic synchronization of the resource (migration 156): its      *)
(* schedule is leased to a worker, whose claim executes one import under   *)
(* the key of the claim and writes the outcome back into the schedule.     *)
(* Manual imports of SourceIngestion run beside it.                        *)
(*                                                                         *)
(* The claims are numbered by the schedule's fence; a claim's number is    *)
(* the key of its run.                                                     *)
(***************************************************************************)
EXTENDS SourceIngestion

ASSUME AutomaticAssumption == Unattended = 1 .. Cardinality(Unattended)

VARIABLES
  schedule \* the data_source_sync_schedules row

automaticVars == <<ingestionVars, schedule>>

\* waiting: idle, backoff, credential_attention and permanent_failure.
\* attached: the run of the claim; success: the claim last recorded as successful.
\* The last conjunct is data_source_sync_schedules_state_check156.
AutomaticTypeOK ==
  /\ IngestionTypeOK
  /\ schedule \in [status : {"disabled", "waiting", "leased"}, due : BOOLEAN, expired : BOOLEAN,
                   fence : Nat, attached : {0} \cup Unattended, success : {0} \cup Unattended]
  /\ schedule.status # "leased" => schedule.attached = 0 /\ ~schedule.expired

AutomaticInit ==
  /\ IngestionInit
  /\ schedule = [status |-> "disabled", due |-> FALSE, expired |-> FALSE, fence |-> 0,
                 attached |-> 0, success |-> 0]

----------------------------------------------------------------------------
(* The functions of migration 156.                                         *)

Unleased(row) == [row EXCEPT !.status = "waiting", !.expired = FALSE, !.attached = 0, !.due = FALSE]

Succeeded(row, n) == [Unleased(row) EXCEPT !.success = n]
RunOver(r) == r # 0 /\ run[r].status = "succeeded"

\* configure_data_source_sync156.
ConfigureSync ==
  /\ schedule.status # "leased"
  /\ \E enabled \in BOOLEAN :
       schedule' = [Unleased(schedule) EXCEPT !.status = IF enabled THEN "waiting" ELSE "disabled",
                                              !.due = enabled]
  /\ UNCHANGED ingestionVars

\* Mutants of Recovered: any run that was attached counts; a claim without a run stays.
RecoveredAnyRun ==
  IF schedule.attached # 0 THEN Succeeded(schedule, schedule.fence) ELSE Unleased(schedule)
RecoveredAttached ==
  IF RunOver(schedule.attached) THEN Succeeded(schedule, schedule.fence)
  ELSE IF schedule.attached # 0 THEN Unleased(schedule) ELSE schedule

Recovered ==
  IF RunOver(schedule.attached) THEN Succeeded(schedule, schedule.fence) ELSE Unleased(schedule)

\* reconcile_expired_source_syncs156.
ReconcileExpired ==
  /\ schedule.status = "leased" /\ schedule.expired
  /\ schedule' = Recovered
  /\ UNCHANGED ingestionVars

Claimable156 ==
  /\ schedule.status = "waiting" /\ schedule.due
  /\ \A r \in Runs : run[r].status # "processing"

\* claim_due_data_source_syncs156.
ClaimSync ==
  LET n == schedule.fence + 1 IN
  /\ Claimable156 /\ n \in Unattended
  /\ schedule' = [schedule EXCEPT !.status = "leased", !.fence = n, !.expired = FALSE, !.due = FALSE]
  /\ GoOn(n, "begin")
  /\ UNCHANGED <<run, stored, resource, listed, reconciler, faults>>

HasClaim(n) == schedule.status = "leased" /\ schedule.fence = n

----------------------------------------------------------------------------
(* execute_claim.                                                          *)

\* Without the answer the worker does not know the run that it has reserved; a manual run
\* may have become active since the claim.
BeginSync(n) ==
  /\ StepOf(n, "begin")
  /\ \/ ReserveRun(n, "claim") /\ UNCHANGED faults
     \/ ReserveRun(n, "report") /\ Faulty
     \/ /\ GoOn(n, "report")
        /\ IF NoActiveRun THEN Faulty ELSE UNCHANGED faults
        /\ UNCHANGED <<run, stored, resource, listed, reconciler>>
  /\ UNCHANGED schedule

\* attach_source_sync_ingestion156.
AttachSync(n) ==
  LET allowed == HasClaim(n) /\ ~schedule.expired /\ run[n].status = "processing" IN
  /\ StepOf(n, "claim")
  /\ \/ /\ allowed
        /\ schedule' = [schedule EXCEPT !.attached = n]
        /\ (GoOn(n, "fetch") /\ UNCHANGED faults) \/ (GoOn(n, "error") /\ Faulty)
     \/ /\ GoOn(n, "error") /\ UNCHANGED schedule
        /\ IF allowed THEN Faulty ELSE UNCHANGED faults
  /\ UNCHANGED <<run, stored, resource, listed, reconciler>>

\* heartbeat_claim, which is no HTTPException: no reservation is released.
ClaimHeartbeatFails(n) ==
  /\ importer[n].step \in HeartbeatSteps
  /\ ~HasClaim(n) \/ schedule.expired
  /\ GoOn(n, "error")
  /\ UNCHANGED <<run, stored, resource, listed, reconciler, faults, schedule>>

\* complete_source_sync156, at the end of the import and again after a recovery.
CompleteSync(n, step, next) ==
  LET allowed == HasClaim(n) /\ schedule.attached = n /\ RunOver(n) IN
  /\ StepOf(n, step)
  /\ \/ /\ allowed
        /\ schedule' = Succeeded(schedule, n)
        /\ (GoOn(n, "idle") /\ UNCHANGED faults) \/ (GoOn(n, next) /\ Faulty)
     \/ /\ GoOn(n, next) /\ UNCHANGED schedule
        /\ IF allowed THEN Faulty ELSE UNCHANGED faults
  /\ UNCHANGED <<run, stored, resource, listed, reconciler>>

\* recover_completed_ingestion, whatever the error was.
RecoverSync(n) ==
  /\ importer[n].step \in {"error", "unknown"}
  /\ \/ GoOn(n, IF RunOver(n) THEN "again" ELSE "fail") /\ UNCHANGED faults
     \/ GoOn(n, "fail") /\ Faulty
  /\ UNCHANGED <<run, stored, resource, listed, reconciler, schedule>>

FailSyncRun(n) == StepOf(n, "fail") /\ FailRun(n, "report") /\ UNCHANGED schedule

\* fail_source_sync156; its own failure leaves the claim to its lease.
FailSync(n) ==
  /\ StepOf(n, "report")
  /\ \/ HasClaim(n) /\ schedule' = Unleased(schedule) /\ UNCHANGED faults
     \/ UNCHANGED schedule /\ IF HasClaim(n) THEN Faulty ELSE UNCHANGED faults
  /\ GoOn(n, "idle")
  /\ UNCHANGED <<run, stored, resource, listed, reconciler>>

ExecuteClaim(n) ==
  \/ BeginSync(n) \/ AttachSync(n) \/ ClaimHeartbeatFails(n)
  \/ CompleteSync(n, "ok", "error") \/ CompleteSync(n, "again", "fail")
  \/ RecoverSync(n) \/ FailSyncRun(n) \/ FailSync(n)
  \/ (Pipeline(n) /\ UNCHANGED schedule)

\* next_due_at, and the end of a lease that is not renewed.
SyncFallsDue ==
  /\ schedule.status = "waiting" /\ ~schedule.due
  /\ schedule' = [schedule EXCEPT !.due = TRUE]
  /\ UNCHANGED ingestionVars

SyncLeaseEnds ==
  /\ schedule.status = "leased" /\ ~schedule.expired
  /\ schedule' = [schedule EXCEPT !.expired = TRUE]
  /\ IF Executing(schedule.fence) THEN Faulty ELSE UNCHANGED faults
  /\ UNCHANGED <<run, stored, importer, resource, listed, reconciler>>

AutomaticNext ==
  \/ IngestionNext /\ UNCHANGED schedule
  \/ ConfigureSync \/ ReconcileExpired \/ ClaimSync \/ SyncFallsDue \/ SyncLeaseEnds
  \/ \E n \in Unattended : ExecuteClaim(n)

AutomaticSpec == AutomaticInit /\ [][AutomaticNext]_automaticVars

\* The worker runs its batches, and a claim that was begun goes on to its end.
AutomaticFairness ==
  /\ IngestionFairness
  /\ \A n \in Unattended : WF_automaticVars(ExecuteClaim(n))
  /\ WF_automaticVars(ReconcileExpired \/ SyncLeaseEnds)

FairAutomaticSpec == AutomaticSpec /\ AutomaticFairness

----------------------------------------------------------------------------
(* Properties.                                                             *)

\* A claim is recorded as a success only if its own import was committed, also by the
\* recovery of claims whose worker died (reconcile_expired_source_syncs156).
SuccessIsCommitted == schedule.success # 0 => run[schedule.success].status = "succeeded"

\* A claim of the schedule ends, whatever dies (reconcile_expired_source_syncs156).
ClaimsSettle == schedule.status = "leased" ~> schedule.status # "leased"
=============================================================================
