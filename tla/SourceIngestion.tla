--------------------------- MODULE SourceIngestion ---------------------------
(***************************************************************************)
(* Imports of one resource of an API data source: the runs with their      *)
(* idempotency keys and leases (migrations 150 and 152), the storage that  *)
(* a run reserves, writes and commits on its way (056 and 154), the        *)
(* compensations of process_upload, and the reconciler of stale runs.      *)
(*                                                                         *)
(* The changes at the provider are numbered; the cursor of the resource is *)
(* the number up to which the last committed listing went.  A run reserves *)
(* storage once, so that its reservation, its storage object and the       *)
(* object in the bucket are kept with the run.                             *)
(***************************************************************************)
EXTENDS Naturals, FiniteSets

CONSTANTS
  Runs,       \* idempotency keys
  Unattended, \* those of the automatic synchronization
  MaxRemoteChanges, \* bound: changes at the provider
  MaxFaults   \* bound: calls that fail, processes that die, leases that are outlived

ASSUME IngestionAssumption ==
  /\ Runs # {} /\ Unattended \subseteq Runs
  /\ MaxRemoteChanges \in Nat /\ MaxFaults \in Nat

VARIABLES
  run,        \* the data_source_ingestion_runs row of each key
  stored,     \* its storage_reservations and storage_objects rows, and the object in the bucket
  importer,   \* the process that executes the run
  resource,   \* the data_source_resources row
  listed,     \* the provider: the number of its last change
  reconciler, \* reconcile_claimed_ingestion
  faults      \* bound

ingestionVars == <<run, stored, importer, resource, listed, reconciler, faults>>

Changes == 0 .. MaxRemoteChanges
ImportSteps == {"idle", "begin", "claim", "fetch", "noop", "reserve", "track", "untrack", "write", "commit", "attach",
                "resolve", "drop", "complete", "recover", "compensate", "ok", "error", "unknown",
                "again", "fail", "report"}

\* holder: whose lease token the row has; tracked, object: storage_reservation_id and
\* storage_object_id are set.
NoRun == [status |-> "none", state |-> "active", holder |-> "importer", expired |-> FALSE,
          expected |-> 0, tracked |-> FALSE, object |-> FALSE]
NoStorage == [reservation |-> "none", object |-> "none", blob |-> FALSE]
IdleImporter == [step |-> "idle", seen |-> 0, late |-> FALSE]

IngestionTypeOK ==
  /\ run \in [Runs -> [status : {"none", "processing", "succeeded", "failed"},
                       state : {"active", "investigating", "ambiguous", "resolved"},
                       holder : {"importer", "reconciler"}, expired : BOOLEAN,
                       expected : Changes, tracked : BOOLEAN, object : BOOLEAN]]
  /\ stored \in [Runs -> [reservation : {"none", "reserved", "committed", "released"},
                          object : {"none", "active", "deleted"}, blob : BOOLEAN]]
  /\ importer \in [Runs -> [step : ImportSteps, seen : Changes, late : BOOLEAN]]
  /\ resource \in [cursor : Changes, revision : Nat]
  /\ listed \in Changes
  /\ reconciler \in [step : {"idle", "look", "unreserve", "adopt", "release", "erase", "settle"},
                     run : Runs, outcome : {"failed", "ambiguous"}]
  /\ faults \in 0 .. MaxFaults

IngestionInit ==
  /\ run = [r \in Runs |-> NoRun]
  /\ stored = [r \in Runs |-> NoStorage]
  /\ importer = [r \in Runs |-> IdleImporter]
  /\ resource = [cursor |-> 0, revision |-> 0]
  /\ listed = 0
  /\ reconciler = [step |-> "idle", run |-> CHOOSE r \in Runs : TRUE, outcome |-> "ambiguous"]
  /\ faults = 0

Faulty == faults < MaxFaults /\ faults' = faults + 1
StepOf(r, step) == importer[r].step = step
GoOn(r, step) == importer' = [importer EXCEPT ![r].step = step]

----------------------------------------------------------------------------
(* The run rows.                                                           *)

\* Mutant of NoActiveRun: without the index of migration 156 imports overlap.
OverlapAllowed == TRUE

\* data_source_ingestion_one_active_resource156.
NoActiveRun == \A r \in Runs : run[r].status # "processing"

\* reserve_incremental_source_ingestion152 inserts a key once, and not beside an active
\* run; every other call with the key answers what became of it and executes nothing.
ReserveRun(r, next) ==
  /\ run[r].status = "none" /\ NoActiveRun
  /\ run' = [run EXCEPT ![r] = [NoRun EXCEPT !.status = "processing", !.expected = resource.cursor]]
  /\ GoOn(r, next)
  /\ UNCHANGED <<stored, resource, listed, reconciler>>

\* The test of every call that carries the importer's lease token.
Leased(r) ==
  run[r].status = "processing" /\ run[r].state = "active" /\ run[r].holder = "importer"

Ended(row, status) == [row EXCEPT !.status = status, !.state = "resolved", !.expired = FALSE]

\* complete_incremental_ingestion152.
Committable(r) ==
  /\ Leased(r)
  /\ run[r].object /\ stored[r].object = "active"
  /\ resource.cursor = run[r].expected

CommitRun(r) ==
  /\ run' = [run EXCEPT ![r] = Ended(@, "succeeded")]
  /\ resource' = [cursor |-> importer[r].seen, revision |-> resource.revision + 1]

\* fail_source_ingestion150.
Failable(r) == Leased(r) /\ ~(run[r].object /\ stored[r].object = "active")

----------------------------------------------------------------------------
(* process_api_source with process_upload.                                 *)

Fetch(r) ==
  /\ StepOf(r, "fetch")
  /\ \/ /\ importer' = [importer EXCEPT ![r].seen = listed,
                          ![r].step = IF listed = run[r].expected THEN "noop" ELSE "reserve"]
        /\ UNCHANGED faults
     \/ GoOn(r, "error") /\ Faulty
  /\ UNCHANGED <<run, stored, resource, listed, reconciler>>

\* complete_noop_source_ingestion161; its answer may be lost.
CompleteNoop(r) ==
  LET allowed == Leased(r) /\ resource.cursor = run[r].expected IN
  /\ StepOf(r, "noop")
  /\ \/ /\ allowed
        /\ run' = [run EXCEPT ![r] = Ended(@, "succeeded")]
        /\ resource' = [resource EXCEPT !.cursor = importer[r].seen]
        /\ (GoOn(r, "ok") /\ UNCHANGED faults) \/ (GoOn(r, "error") /\ Faulty)
     \/ /\ GoOn(r, "error") /\ UNCHANGED <<run, resource>>
        /\ IF allowed THEN Faulty ELSE UNCHANGED faults
  /\ UNCHANGED <<stored, listed, reconciler>>

\* reserve_storage_bytes.
ReserveStorage(r) ==
  /\ StepOf(r, "reserve")
  /\ \/ /\ stored' = [stored EXCEPT ![r].reservation = "reserved"]
        /\ GoOn(r, "track") /\ UNCHANGED faults
     \/ GoOn(r, "error") /\ Faulty /\ UNCHANGED stored
  /\ UNCHANGED <<run, resource, listed, reconciler>>

\* attach_source_ingestion_reservation150.
TrackReservation(r) ==
  /\ StepOf(r, "track")
  /\ \/ /\ Leased(r)
        /\ run' = [run EXCEPT ![r].tracked = TRUE]
        /\ (GoOn(r, "write") /\ UNCHANGED faults) \/ (GoOn(r, "untrack") /\ Faulty)
     \/ /\ GoOn(r, "untrack") /\ UNCHANGED run
        /\ IF Leased(r) THEN Faulty ELSE UNCHANGED faults
  /\ UNCHANGED <<stored, resource, listed, reconciler>>

\* finish_storage_reservation without success, as a compensation.
Unreserved(r) == [stored EXCEPT ![r].reservation = IF @ = "reserved" THEN "released" ELSE @]

Untrack(r) ==
  /\ StepOf(r, "untrack")
  /\ (stored' = Unreserved(r) /\ UNCHANGED faults) \/ (Faulty /\ UNCHANGED stored)
  /\ GoOn(r, "error")
  /\ UNCHANGED <<run, resource, listed, reconciler>>

\* prepare_immutable_storage154 and the write to the bucket. When the outcome of the
\* write is unknown the reservation stays; when it is known to have failed, it does not.
WriteObject(r) ==
  /\ StepOf(r, "write")
  /\ \/ /\ stored[r].reservation = "reserved"
        /\ stored' = [stored EXCEPT ![r].blob = TRUE]
        /\ (GoOn(r, "commit") /\ UNCHANGED faults) \/ (GoOn(r, "error") /\ Faulty)
     \/ GoOn(r, "untrack") /\ Faulty /\ UNCHANGED stored
     \/ stored[r].reservation # "reserved" /\ GoOn(r, "error") /\ UNCHANGED <<stored, faults>>
  /\ UNCHANGED <<run, resource, listed, reconciler>>

\* verify_immutable_storage154, whose refusal is an error, and finish_immutable_storage154,
\* whose refusal or lost answer leaves the outcome unknown.
CommitStorage(r) ==
  /\ StepOf(r, "commit")
  /\ \/ /\ stored[r].reservation = "reserved"
        /\ stored' = [stored EXCEPT ![r].reservation = "committed", ![r].object = "active"]
        /\ (GoOn(r, "attach") /\ UNCHANGED faults) \/ (GoOn(r, "unknown") /\ Faulty)
     \/ /\ GoOn(r, "error") \/ GoOn(r, "unknown")
        /\ UNCHANGED stored
        /\ IF stored[r].reservation = "reserved" THEN Faulty ELSE UNCHANGED faults
  /\ UNCHANGED <<run, resource, listed, reconciler>>

\* attach_source_ingestion_storage150.
AttachObject(r) ==
  LET allowed == Leased(r) /\ stored[r].object = "active" IN
  /\ StepOf(r, "attach")
  /\ \/ /\ allowed
        /\ run' = [run EXCEPT ![r].object = TRUE, ![r].tracked = TRUE]
        /\ (GoOn(r, "complete") /\ UNCHANGED faults) \/ (GoOn(r, "resolve") /\ Faulty)
     \/ /\ GoOn(r, "resolve") /\ UNCHANGED run
        /\ IF allowed THEN Faulty ELSE UNCHANGED faults
  /\ UNCHANGED <<stored, resource, listed, reconciler>>

\* storage_object_attachment_state: only the holder of the lease knows.
ResolveAttachment(r) ==
  /\ StepOf(r, "resolve")
  /\ \/ /\ run[r].status = "succeeded" \/ run[r].holder = "importer"
        /\ GoOn(r, IF run[r].object THEN "complete" ELSE "drop")
        /\ UNCHANGED faults
     \/ /\ GoOn(r, "unknown")
        /\ IF run[r].holder = "importer" THEN Faulty ELSE UNCHANGED faults
  /\ UNCHANGED <<run, stored, resource, listed, reconciler>>

\* Mutant of Releasable: without the trigger any object is released.
ReleasableActive(r) == stored[r].object = "active"

\* release_storage_object takes active objects, and protect_incremental_history_storage152
\* refuses one that the changes of a committed revision refer to.
Releasable(r) == stored[r].object = "active" /\ ~(run[r].status = "succeeded" /\ run[r].object)

\* release_storage, and then the bucket.
Dropped(r, end) ==
  /\ \/ /\ Releasable(r)
        /\ stored' = [stored EXCEPT ![r].object = "deleted", ![r].blob = FALSE]
        /\ UNCHANGED faults
     \/ /\ Releasable(r)
        /\ stored' = [stored EXCEPT ![r].object = "deleted"]
        /\ Faulty
     \/ /\ UNCHANGED stored
        /\ IF Releasable(r) THEN Faulty ELSE UNCHANGED faults
  /\ GoOn(r, end)

DropUnattached(r) ==
  /\ StepOf(r, "drop")
  /\ Dropped(r, "unknown")
  /\ UNCHANGED <<run, resource, listed, reconciler>>

\* The staged changes and the completion. An error leaves open whether the database did
\* it, will still do it, or will not.
Complete152(r) ==
  /\ StepOf(r, "complete")
  /\ \/ Committable(r) /\ CommitRun(r) /\ GoOn(r, "ok") /\ UNCHANGED faults
     \/ Committable(r) /\ CommitRun(r) /\ GoOn(r, "recover") /\ Faulty
     \/ /\ UNCHANGED <<run, resource>>
        /\ \/ GoOn(r, "recover") /\ IF Committable(r) THEN Faulty ELSE UNCHANGED faults
           \/ Faulty /\ importer' = [importer EXCEPT ![r].step = "recover", ![r].late = TRUE]
  /\ UNCHANGED <<stored, listed, reconciler>>

\* The database carries out, or refuses, a call that its caller has given up on.
LateCompletion(r) ==
  /\ importer[r].late
  /\ IF Committable(r) THEN CommitRun(r) ELSE UNCHANGED <<run, resource>>
  /\ importer' = [importer EXCEPT ![r].late = FALSE]
  /\ UNCHANGED <<stored, listed, reconciler, faults>>

\* recover_completed_ingestion as the metadata_failure_resolver.
RecoverCompletion(r) ==
  /\ StepOf(r, "recover")
  /\ \/ /\ GoOn(r, IF run[r].status = "succeeded" THEN "ok" ELSE "compensate")
        /\ UNCHANGED faults
     \/ GoOn(r, "unknown") /\ Faulty
  /\ UNCHANGED <<run, stored, resource, listed, reconciler>>

Compensate(r) ==
  /\ StepOf(r, "compensate")
  /\ Dropped(r, "error")
  /\ UNCHANGED <<run, resource, listed, reconciler>>

\* Before the reservation, the write and the completion the lease is renewed, or an error
\* raised, at the write with the reservation released.
HeartbeatSteps == {"reserve", "write", "complete"}

HeartbeatFails(r) ==
  /\ importer[r].step \in HeartbeatSteps
  /\ GoOn(r, IF StepOf(r, "write") THEN "untrack" ELSE "error")
  /\ IF Leased(r) THEN Faulty ELSE UNCHANGED faults
  /\ UNCHANGED <<run, stored, resource, listed, reconciler>>

Pipeline(r) ==
  \/ Fetch(r) \/ CompleteNoop(r) \/ ReserveStorage(r) \/ TrackReservation(r) \/ Untrack(r)
  \/ WriteObject(r) \/ CommitStorage(r) \/ AttachObject(r) \/ ResolveAttachment(r)
  \/ DropUnattached(r) \/ Complete152(r) \/ RecoverCompletion(r) \/ Compensate(r)
  \/ HeartbeatFails(r)

----------------------------------------------------------------------------
(* ingest_api_source: the request of a user.                               *)

RequestImport(r) == r \notin Unattended /\ ReserveRun(r, "fetch") /\ UNCHANGED faults

\* Mutant of FailStep: an unknown outcome is recorded as a failure.
FailStepAlways(r) == StepOf(r, "error") \/ StepOf(r, "unknown")

\* An unknown outcome is left to the reconciler.
FailStep(r) == StepOf(r, "error")

\* fail_ingestion; its own failure is only logged.
FailRun(r, next) ==
  /\ \/ Failable(r) /\ run' = [run EXCEPT ![r] = Ended(@, "failed")] /\ UNCHANGED faults
     \/ UNCHANGED run /\ IF Failable(r) THEN Faulty ELSE UNCHANGED faults
  /\ GoOn(r, next)
  /\ UNCHANGED <<stored, resource, listed, reconciler>>

FailImport(r) == r \notin Unattended /\ FailStep(r) /\ FailRun(r, "idle")

AnswerImport(r) ==
  /\ r \notin Unattended
  /\ importer[r].step \in {"ok", "unknown"} /\ ~FailStep(r)
  /\ GoOn(r, "idle")
  /\ UNCHANGED <<run, stored, resource, listed, reconciler, faults>>

----------------------------------------------------------------------------
(* reconcile_stale_ingestions.                                             *)

ReconcilerAt(step) == reconciler.step = step
ReconcilerGoes(step) == reconciler' = [reconciler EXCEPT !.step = step]
Settles(outcome) == reconciler' = [reconciler EXCEPT !.step = "settle", !.outcome = outcome]
GivesUp == Faulty /\ Settles("ambiguous")

\* Mutant of Stale: a run whose reconciliation was interrupted is not taken up again.
StaleActive(r) == run[r].status = "processing" /\ run[r].expired /\ run[r].state = "active"

Stale(r) == run[r].status = "processing" /\ run[r].expired

Taken(row) == [row EXCEPT !.state = "investigating", !.holder = "reconciler", !.expired = FALSE]

\* claim_stale_source_ingestions150.
ClaimStale(r) ==
  /\ ReconcilerAt("idle") /\ Stale(r)
  /\ run' = [run EXCEPT ![r] = Taken(@)]
  /\ reconciler' = [reconciler EXCEPT !.step = "look", !.run = r]
  /\ UNCHANGED <<stored, importer, resource, listed, faults>>

\* The run's row and its reservation are read; a run without one stays ambiguous.
Look ==
  LET r == reconciler.run IN
  /\ ReconcilerAt("look")
  /\ \/ /\ UNCHANGED faults
        /\ IF ~run[r].tracked THEN Settles("ambiguous")
           ELSE CASE stored[r].reservation = "reserved" -> ReconcilerGoes("unreserve")
                  [] stored[r].reservation = "released" -> Settles("failed")
                  [] OTHER -> ReconcilerGoes("adopt")
     \/ GivesUp
  /\ UNCHANGED <<run, stored, importer, resource, listed>>

\* finish_storage_reservation without success refuses what was committed meanwhile;
\* then the object in the bucket is deleted.
UnreserveStale ==
  LET r == reconciler.run IN
  /\ ReconcilerAt("unreserve")
  /\ \/ /\ stored[r].reservation = "reserved"
        /\ stored' = [Unreserved(r) EXCEPT ![r].blob = FALSE]
        /\ Settles("failed") /\ UNCHANGED faults
     \/ stored[r].reservation = "reserved" /\ stored' = Unreserved(r) /\ GivesUp
     \/ /\ UNCHANGED stored
        /\ IF stored[r].reservation = "reserved" THEN GivesUp
           ELSE Settles("ambiguous") /\ UNCHANGED faults
  /\ UNCHANGED <<run, importer, resource, listed>>

\* The storage object is attached when the importer did not come to it.
Adopt ==
  LET r == reconciler.run IN
  /\ ReconcilerAt("adopt")
  /\ \/ /\ run[r].object \/ stored[r].object = "active"
        /\ run' = [run EXCEPT ![r].object = TRUE]
        /\ ReconcilerGoes("release") /\ UNCHANGED faults
     \/ /\ ~run[r].object /\ UNCHANGED run
        /\ IF stored[r].object = "active" THEN GivesUp ELSE Settles("ambiguous") /\ UNCHANGED faults
  /\ UNCHANGED <<stored, importer, resource, listed>>

ReleaseStale ==
  LET r == reconciler.run IN
  /\ ReconcilerAt("release")
  /\ \/ /\ stored[r].object = "deleted" \/ Releasable(r)
        /\ stored' = [stored EXCEPT ![r].object = "deleted"]
        /\ ReconcilerGoes("erase") /\ UNCHANGED faults
     \/ GivesUp /\ UNCHANGED stored
  /\ UNCHANGED <<run, importer, resource, listed>>

EraseStale ==
  /\ ReconcilerAt("erase")
  /\ \/ /\ stored' = [stored EXCEPT ![reconciler.run].blob = FALSE]
        /\ Settles("failed") /\ UNCHANGED faults
     \/ GivesUp /\ UNCHANGED stored
  /\ UNCHANGED <<run, importer, resource, listed>>

\* settle_source_ingestion_reconciliation150.
SettleStale ==
  LET r == reconciler.run IN
  /\ ReconcilerAt("settle")
  /\ run' = IF run[r].status # "processing" \/ run[r].state # "investigating" THEN run
            ELSE IF reconciler.outcome = "failed" THEN [run EXCEPT ![r] = Ended(@, "failed")]
            ELSE [run EXCEPT ![r].state = "ambiguous"]
  /\ ReconcilerGoes("idle")
  /\ UNCHANGED <<stored, importer, resource, listed, faults>>

ReconcileStale == Look \/ UnreserveStale \/ Adopt \/ ReleaseStale \/ EraseStale \/ SettleStale

ReconcilerDies ==
  /\ ~ReconcilerAt("idle") /\ Faulty
  /\ ReconcilerGoes("idle")
  /\ UNCHANGED <<run, stored, importer, resource, listed>>

----------------------------------------------------------------------------
(* The provider, processes that end, and time.                             *)

ProviderChanges ==
  /\ listed < MaxRemoteChanges
  /\ listed' = listed + 1
  /\ UNCHANGED <<run, stored, importer, resource, reconciler, faults>>

Executing(r) == importer[r].step # "idle"

ImporterDies(r) ==
  /\ Executing(r) /\ Faulty
  /\ GoOn(r, "idle")
  /\ UNCHANGED <<run, stored, resource, listed, reconciler>>

\* Two hours without a heartbeat, the lease of the reconciler, or the delay of a day.
RunLeaseEnds(r) ==
  /\ run[r].status = "processing" /\ ~run[r].expired
  /\ ~(reconciler.run = r /\ ~ReconcilerAt("idle"))
  /\ run' = [run EXCEPT ![r].expired = TRUE]
  /\ IF run[r].holder = "importer" /\ Executing(r) THEN Faulty ELSE UNCHANGED faults
  /\ UNCHANGED <<stored, importer, resource, listed, reconciler>>

Recovery ==
  \/ \E r \in Runs : LateCompletion(r) \/ ClaimStale(r) \/ RunLeaseEnds(r) \/ ImporterDies(r)
  \/ ReconcileStale \/ ReconcilerDies \/ ProviderChanges

IngestionNext ==
  \/ \E r \in Runs : RequestImport(r) \/ Pipeline(r) \/ FailImport(r) \/ AnswerImport(r)
  \/ Recovery

IngestionSpec == IngestionInit /\ [][IngestionNext]_ingestionVars

\* A process goes on to its end, leases run out, and the reconciler is run again and again.
IngestionFairness ==
  /\ \A r \in Runs :
       /\ WF_ingestionVars(Pipeline(r) \/ FailImport(r) \/ AnswerImport(r))
       /\ WF_ingestionVars(RunLeaseEnds(r)) /\ WF_ingestionVars(ClaimStale(r))
  /\ WF_ingestionVars(ReconcileStale)

FairIngestionSpec == IngestionSpec /\ IngestionFairness

----------------------------------------------------------------------------
(* Properties.                                                             *)

\* The storage object that a committed run refers to is there, over compensations,
\* recoveries, reconciliations and completions that are carried out after their caller
\* has given up on them (process_upload, protect_incremental_history_storage152).
CommittedObjectKept ==
  \A r \in Runs : run[r].status = "succeeded" /\ run[r].object
                    => stored[r].object = "active" /\ stored[r].blob

\* An import that a user asked for and that failed leaves no storage object counted
\* against the quota (ingest_api_source, settle_source_ingestion_reconciliation150).
NoStorageLeft ==
  \A r \in Runs \ Unattended : run[r].status = "failed" => stored[r].object # "active"

\* The object was released after its attachment had failed: no reconciliation can attach
\* it any more, and none gets past that.
Unattachable(r) == ~run[r].object /\ stored[r].object = "deleted"

\* A run that has its storage reserved ends, succeeded or failed, also when importers die
\* and reconciliations of it fail or are interrupted (reconcile_stale_ingestions).
RunsSettle ==
  \A r \in Runs : run[r].status = "processing" /\ run[r].tracked
                  ~> (run[r].status # "processing" \/ Unattachable(r))

\* While an import runs the cursor stays where the import began: none does its work for a
\* listing that another one, or a late completion, has committed before it
\* (complete_incremental_ingestion152, incremental_cursor_conflict).
CursorStaysPut == \A r \in Runs : run[r].status = "processing" => run[r].expected = resource.cursor

\* data_analysis/services.py, process_upload: "The import outcome is being reconciled.
\* Retry with the same request key."
OutcomeReconciled ==
  \A r \in Runs : importer[r].step = "unknown" ~> run[r].status # "processing"
=============================================================================
