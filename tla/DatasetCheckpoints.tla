------------------------- MODULE DatasetCheckpoints -------------------------
(***************************************************************************)
(* Checkpoints of one incremental dataset: the rows with their attempts    *)
(* and leases (migration 153), the storage that every attempt reserves,    *)
(* writes and commits (056 and 154), materialize_claimed_checkpoint with   *)
(* process_upload, and reconcile_expired_checkpoints.                      *)
(*                                                                         *)
(* A row is named by its target revision, and what an attempt stores by    *)
(* the revision and the number of the attempt.  Its content is determined  *)
(* by the revision, so that it is left out.                                *)
(***************************************************************************)
EXTENDS Naturals

CONSTANTS
  Revisions, \* revisions of the dataset for which a checkpoint may be requested
  Builders,  \* processes of run_dataset_checkpoint_worker.py
  NoBuilder,
  MaxMaterializations, \* max_attempts
  MaxBreaks  \* bound: calls that fail, processes that die, leases that are outlived

ASSUME CheckpointAssumption ==
  /\ Revisions \subseteq Nat \ {0} /\ NoBuilder \notin Builders
  /\ MaxMaterializations \in Nat \ {0} /\ MaxBreaks \in Nat

VARIABLES
  checkpoint, \* the data_dataset_checkpoints row of each revision
  transfer,   \* storage_reservations, storage_objects and the bucket, per revision and attempt
  builder,    \* the row that a process is at work on
  latest,     \* the revision of data_source_resources.latest_checkpoint_version_id
  breaks      \* bound

checkpointVars == <<checkpoint, transfer, builder, latest, breaks>>

Attempts == 1 .. MaxMaterializations
Files == Revisions \X Attempts
BuilderSteps ==
  {"idle", "prepare", "reserve", "track", "untrack", "write", "discard", "commit", "attach",
   "resolve", "drop", "publish", "recover", "http", "limit", "retry", "fail",
   "inspect", "verify", "finish", "adopt", "unreserve", "republish", "ambiguous"}

\* holder: whose lease token the row has; prepared: the artifact's metadata are there;
\* reservation, object: the attempt whose reservation and object the row refers to.
NoCheckpoint == [status |-> "none", holder |-> NoBuilder, expired |-> FALSE, attempts |-> 0,
                 prepared |-> FALSE, reservation |-> 0, object |-> 0]
\* private: storage_backend is supabase_private.
NoTransfer == [reservation |-> "none", private |-> FALSE, object |-> "none", blob |-> FALSE]
IdleBuilder == [step |-> "idle", revision |-> 0, attempt |-> 0]

\* The last conjunct is data_dataset_checkpoints_lease_check153.
CheckpointTypeOK ==
  /\ checkpoint \in [Revisions ->
       [status : {"none", "pending", "materializing", "ready", "failed", "ambiguous"},
        holder : Builders \cup {NoBuilder}, expired : BOOLEAN, attempts : 0 .. MaxMaterializations,
        prepared : BOOLEAN, reservation : 0 .. MaxMaterializations,
        object : 0 .. MaxMaterializations]]
  /\ transfer \in [Files -> [reservation : {"none", "reserved", "committed", "released"},
                             private : BOOLEAN, object : {"none", "active", "deleted"},
                             blob : BOOLEAN]]
  /\ builder \in [Builders -> [step : BuilderSteps, revision : Revisions \cup {0},
                               attempt : 0 .. MaxMaterializations]]
  /\ latest \in Revisions \cup {0}
  /\ breaks \in 0 .. MaxBreaks
  /\ \A c \in Revisions :
       (checkpoint[c].status = "materializing") = (checkpoint[c].holder # NoBuilder)

CheckpointInit ==
  /\ checkpoint = [c \in Revisions |-> NoCheckpoint]
  /\ transfer = [f \in Files |-> NoTransfer]
  /\ builder = [b \in Builders |-> IdleBuilder]
  /\ latest = 0
  /\ breaks = 0

Break == breaks < MaxBreaks /\ breaks' = breaks + 1
Doing(b, step) == builder[b].step = step
ToStep(b, step) ==
  builder' = [builder EXCEPT ![b] = IF step = "idle" THEN IdleBuilder ELSE [@ EXCEPT !.step = step]]

Target(b) == builder[b].revision
RowOf(b) == checkpoint[Target(b)]
File(b) == <<Target(b), builder[b].attempt>>
Stored(b) == transfer[File(b)]

\* A call that carries out "done" when it is allowed. Its answer may be lost, and it may
\* fail without effect.
Rpc(b, allowed, done, nothing, next, error) ==
  \/ /\ allowed /\ done
     /\ (ToStep(b, next) /\ UNCHANGED breaks) \/ (ToStep(b, error) /\ Break)
  \/ /\ nothing /\ ToStep(b, error)
     /\ IF allowed THEN Break ELSE UNCHANGED breaks

----------------------------------------------------------------------------
(* The functions of migration 153.                                         *)

\* request_dataset_checkpoint153: a revision has one row, whatever became of it.
RequestCheckpoint(c) ==
  /\ checkpoint[c].status = "none"
  /\ checkpoint' = [checkpoint EXCEPT ![c].status = "pending"]
  /\ UNCHANGED <<transfer, builder, latest, breaks>>

\* claim_dataset_checkpoints153.
ClaimCheckpoint(b, c) ==
  LET n == checkpoint[c].attempts + 1 IN
  /\ Doing(b, "idle") /\ checkpoint[c].status = "pending" /\ n \in Attempts
  /\ checkpoint' = [checkpoint EXCEPT ![c].status = "materializing", ![c].holder = b,
                                      ![c].expired = FALSE, ![c].attempts = n]
  /\ builder' = [builder EXCEPT ![b] = [step |-> "prepare", revision |-> c, attempt |-> n]]
  /\ UNCHANGED <<transfer, latest, breaks>>

HasLease(b) == RowOf(b).status = "materializing" /\ RowOf(b).holder = b
HasLeaseInTime(b) == HasLease(b) /\ ~RowOf(b).expired

\* publish_dataset_checkpoint153 answers a repetition with the version that there is.
Publishable(b) ==
  \/ RowOf(b).status = "ready"
  \/ /\ HasLeaseInTime(b) /\ RowOf(b).prepared
     /\ RowOf(b).object # 0 /\ transfer[<<Target(b), RowOf(b).object>>].object = "active"

\* Mutant of Newer: the version that was published last becomes the latest one.
NewerAlways(c) == c # 0

Newer(c) == c >= latest

Publish153(b) ==
  IF RowOf(b).status = "ready" THEN UNCHANGED <<checkpoint, latest>>
  ELSE /\ checkpoint' = [checkpoint EXCEPT ![Target(b)].status = "ready",
                                           ![Target(b)].holder = NoBuilder,
                                           ![Target(b)].expired = FALSE]
       /\ latest' = IF Newer(Target(b)) THEN Target(b) ELSE latest

\* Mutant of SettledAs: a retry goes back to the queue after the last attempt too.
SettledAsPending(row, outcome) ==
  [row EXCEPT !.holder = NoBuilder, !.expired = FALSE,
              !.status = IF outcome = "ambiguous" THEN "ambiguous"
                         ELSE IF outcome = "retry" THEN "pending" ELSE "failed"]

\* settle_dataset_checkpoint153; the steps retry, fail and ambiguous are its outcomes.
SettledAs(row, outcome) ==
  [row EXCEPT !.holder = NoBuilder, !.expired = FALSE,
              !.status = IF outcome = "ambiguous" THEN "ambiguous"
                         ELSE IF outcome = "retry" /\ row.attempts < MaxMaterializations
                              THEN "pending" ELSE "failed"]

SettleCheckpoint(b) ==
  /\ builder[b].step \in {"retry", "fail", "ambiguous"}
  /\ \/ /\ HasLease(b)
        /\ checkpoint' = [checkpoint EXCEPT ![Target(b)] = SettledAs(@, builder[b].step)]
        /\ UNCHANGED breaks
     \/ UNCHANGED checkpoint /\ IF HasLease(b) THEN Break ELSE UNCHANGED breaks
  /\ ToStep(b, "idle")
  /\ UNCHANGED <<transfer, latest>>

----------------------------------------------------------------------------
(* materialize_claimed_checkpoint with process_upload. The step retry is   *)
(* its "except Exception"; http and limit are its "except HTTPException".  *)

\* reconstruct_dataset_revision, the heartbeats of its pages, prepare_dataset_checkpoint153.
Prepare(b) ==
  /\ Doing(b, "prepare")
  /\ \/ Rpc(b, HasLeaseInTime(b), checkpoint' = [checkpoint EXCEPT ![Target(b)].prepared = TRUE],
            UNCHANGED checkpoint, "reserve", "retry")
     \/ Break /\ UNCHANGED checkpoint /\ \E step \in {"http", "limit"} : ToStep(b, step)
  /\ UNCHANGED <<transfer, latest>>

\* The heartbeats of process_upload.
BeatFails(b) ==
  /\ builder[b].step \in {"reserve", "write", "publish"}
  /\ ToStep(b, "retry")
  /\ IF HasLeaseInTime(b) THEN Break ELSE UNCHANGED breaks
  /\ UNCHANGED <<checkpoint, transfer, latest>>

\* reserve_storage_bytes.
Reserve(b) ==
  /\ Doing(b, "reserve")
  /\ Rpc(b, TRUE, transfer' = [transfer EXCEPT ![File(b)].reservation = "reserved"],
         UNCHANGED transfer, "track", "http")
  /\ UNCHANGED <<checkpoint, latest>>

\* attach_dataset_checkpoint_storage153 for the reservation.
Track(b) ==
  /\ Doing(b, "track")
  /\ Rpc(b, HasLeaseInTime(b),
         checkpoint' = [checkpoint EXCEPT ![Target(b)].reservation = builder[b].attempt],
         UNCHANGED checkpoint, "write", "untrack")
  /\ UNCHANGED <<transfer, latest>>

\* finish_storage_reservation without success. After a failed attachment its error is
\* logged, after a failed write it is raised.
GiveBack(b) ==
  /\ builder[b].step \in {"untrack", "discard"}
  /\ Rpc(b, Stored(b).reservation = "reserved",
         transfer' = [transfer EXCEPT ![File(b)].reservation = "released"], UNCHANGED transfer,
         "http", IF Doing(b, "untrack") THEN "http" ELSE "retry")
  /\ UNCHANGED <<checkpoint, latest>>

\* prepare_immutable_storage154 and the write to the bucket: done, with or without an
\* answer; known to have failed; or with an unknown outcome.
Write(b) ==
  LET written(blob) ==
        transfer' = [transfer EXCEPT ![File(b)].private = TRUE, ![File(b)].blob = blob]
  IN
  /\ Doing(b, "write")
  /\ \/ /\ Stored(b).reservation = "reserved" /\ written(TRUE)
        /\ (ToStep(b, "commit") /\ UNCHANGED breaks) \/ (ToStep(b, "http") /\ Break)
     \/ /\ Stored(b).reservation = "reserved" /\ written(FALSE) /\ Break
        /\ ToStep(b, "discard") \/ ToStep(b, "http")
     \/ /\ UNCHANGED transfer /\ ToStep(b, "http")
        /\ IF Stored(b).reservation = "reserved" THEN Break ELSE UNCHANGED breaks
  /\ UNCHANGED <<checkpoint, latest>>

Accounted(f) == transfer' = [transfer EXCEPT ![f].reservation = "committed", ![f].object = "active"]

\* verify_immutable_storage154 and finish_immutable_storage154. The second one also
\* answers for a reservation that the reconciler has committed meanwhile, the first does not.
Commit(b) ==
  /\ Doing(b, "commit")
  /\ \/ Rpc(b, Stored(b).reservation = "reserved", Accounted(File(b)), UNCHANGED transfer,
            "attach", "http")
     \/ /\ Stored(b).reservation = "committed" /\ ToStep(b, "attach")
        /\ UNCHANGED <<transfer, breaks>>
  /\ UNCHANGED <<checkpoint, latest>>

Attachable(b) == HasLeaseInTime(b) /\ Stored(b).object = "active"
Attached(b) == checkpoint' = [checkpoint EXCEPT ![Target(b)].object = builder[b].attempt]

\* attach_dataset_checkpoint_storage153 for the object.
Attach(b) ==
  /\ Doing(b, "attach")
  /\ Rpc(b, Attachable(b), Attached(b), UNCHANGED checkpoint, "publish", "resolve")
  /\ UNCHANGED <<transfer, latest>>

\* attachment_state.
ResolveObject(b) ==
  /\ Doing(b, "resolve")
  /\ \/ /\ ToStep(b, IF RowOf(b).object = builder[b].attempt THEN "publish" ELSE "drop")
        /\ UNCHANGED breaks
     \/ ToStep(b, "http") /\ Break
  /\ UNCHANGED <<checkpoint, transfer, latest>>

\* Mutant of Droppable: without the trigger any object is released.
DroppableActive(b) == Stored(b).object = "active"

\* release_storage_object takes active objects, and protect_published_dataset_storage154
\* refuses one that a version refers to.
Droppable(b) ==
  /\ Stored(b).object = "active"
  /\ ~(RowOf(b).status = "ready" /\ RowOf(b).object = builder[b].attempt)

\* release_storage, and then the bucket.
Drop(b) ==
  /\ Doing(b, "drop")
  /\ \/ /\ Droppable(b)
        /\ \E erased \in BOOLEAN :
             /\ transfer' = [transfer EXCEPT ![File(b)].object = "deleted",
                                             ![File(b)].blob = @ /\ ~erased]
             /\ IF erased THEN UNCHANGED breaks ELSE Break
     \/ /\ UNCHANGED transfer
        /\ IF Droppable(b) THEN Break ELSE UNCHANGED breaks
  /\ ToStep(b, "http")
  /\ UNCHANGED <<checkpoint, latest>>

Publish(b) ==
  /\ Doing(b, "publish")
  /\ Rpc(b, Publishable(b), Publish153(b), UNCHANGED <<checkpoint, latest>>, "idle", "recover")
  /\ UNCHANGED transfer

\* The metadata_failure_resolver.
Recover(b) ==
  /\ Doing(b, "recover")
  /\ \/ ToStep(b, IF RowOf(b).status = "ready" THEN "idle" ELSE "http") /\ UNCHANGED breaks
     \/ ToStep(b, "http") /\ Break
  /\ UNCHANGED <<checkpoint, transfer, latest>>

\* An attempt whose row refers to an object is left to the reconciliation.
HandleError(b) ==
  /\ builder[b].step \in {"http", "limit"}
  /\ ToStep(b, IF RowOf(b).status = "materializing" /\ RowOf(b).object # 0 THEN "idle"
               ELSE IF Doing(b, "limit") THEN "fail" ELSE "retry")
  /\ UNCHANGED <<checkpoint, transfer, latest, breaks>>

Materialize(b) ==
  \/ Prepare(b) \/ BeatFails(b) \/ Reserve(b) \/ Track(b) \/ GiveBack(b) \/ Write(b)
  \/ Commit(b) \/ Attach(b) \/ ResolveObject(b) \/ Drop(b) \/ Publish(b) \/ Recover(b)
  \/ HandleError(b) \/ SettleCheckpoint(b)

----------------------------------------------------------------------------
(* reconcile_expired_checkpoints. An exception leaves the row to the next  *)
(* expiry of its lease, as the end of the process does.                    *)

\* What the attempt has left behind decides.
ReconcileStep(row) ==
  IF row.object # 0 THEN (IF row.prepared THEN "republish" ELSE "ambiguous")
  ELSE IF row.reservation # 0 THEN "inspect" ELSE "retry"

\* claim_expired_dataset_checkpoints153.
ClaimExpired(b, c) ==
  /\ Doing(b, "idle") /\ checkpoint[c].status = "materializing" /\ checkpoint[c].expired
  /\ checkpoint' = [checkpoint EXCEPT ![c].holder = b, ![c].expired = FALSE]
  /\ builder' = [builder EXCEPT ![b] = [step |-> ReconcileStep(checkpoint[c]), revision |-> c,
                                        attempt |-> checkpoint[c].reservation]]
  /\ UNCHANGED <<transfer, latest, breaks>>

\* The reservation is read.
InspectStep(file) ==
  IF file.private
  THEN CASE file.reservation = "reserved" -> "verify"
         [] file.reservation = "committed" /\ file.object = "active" -> "adopt"
         [] file.reservation = "committed" /\ file.object # "active" -> "ambiguous"
         [] OTHER -> "retry"
  ELSE IF file.reservation = "reserved" THEN "unreserve" ELSE "ambiguous"

Inspect(b) ==
  /\ Doing(b, "inspect")
  /\ ToStep(b, InspectStep(Stored(b)))
  /\ UNCHANGED <<checkpoint, transfer, latest, breaks>>

\* The object in the bucket is there, missing, or cannot be verified.
Verify(b) ==
  /\ Doing(b, "verify")
  /\ \/ ToStep(b, IF Stored(b).blob THEN "finish" ELSE "unreserve") /\ UNCHANGED breaks
     \/ ToStep(b, "ambiguous") /\ Break
  /\ UNCHANGED <<checkpoint, transfer, latest>>

FinishObject(b) ==
  /\ Doing(b, "finish")
  /\ IF Stored(b).reservation = "reserved" THEN Accounted(File(b)) /\ ToStep(b, "adopt")
     ELSE UNCHANGED transfer /\ ToStep(b, "idle")
  /\ UNCHANGED <<checkpoint, latest, breaks>>

Adopt153(b) ==
  /\ Doing(b, "adopt")
  /\ IF Attachable(b) THEN Attached(b) /\ ToStep(b, "republish")
     ELSE UNCHANGED checkpoint /\ ToStep(b, "idle")
  /\ UNCHANGED <<transfer, latest, breaks>>

Unreserve(b) ==
  /\ Doing(b, "unreserve")
  /\ IF Stored(b).reservation = "reserved"
     THEN /\ transfer' = [transfer EXCEPT ![File(b)].reservation = "released"]
          /\ ToStep(b, "retry")
     ELSE UNCHANGED transfer /\ ToStep(b, "idle")
  /\ UNCHANGED <<checkpoint, latest, breaks>>

Republish(b) ==
  /\ Doing(b, "republish")
  /\ IF Publishable(b) THEN Publish153(b) ELSE UNCHANGED <<checkpoint, latest>>
  /\ ToStep(b, "idle")
  /\ UNCHANGED <<transfer, breaks>>

ReconcileExpiredCheckpoint(b) ==
  Inspect(b) \/ Verify(b) \/ FinishObject(b) \/ Adopt153(b) \/ Unreserve(b) \/ Republish(b)

----------------------------------------------------------------------------
(* Processes that end, time, and the whole.                                *)

BuilderDies(b) ==
  /\ ~Doing(b, "idle") /\ Break
  /\ ToStep(b, "idle")
  /\ UNCHANGED <<checkpoint, transfer, latest>>

AtWork(c) == \E b \in Builders : checkpoint[c].holder = b /\ Target(b) = c

CheckpointLeaseEnds(c) ==
  /\ checkpoint[c].status = "materializing" /\ ~checkpoint[c].expired
  /\ checkpoint' = [checkpoint EXCEPT ![c].expired = TRUE]
  /\ IF AtWork(c) THEN Break ELSE UNCHANGED breaks
  /\ UNCHANGED <<transfer, builder, latest>>

CheckpointNext ==
  \/ \E c \in Revisions : RequestCheckpoint(c) \/ CheckpointLeaseEnds(c)
  \/ \E b \in Builders, c \in Revisions : ClaimCheckpoint(b, c) \/ ClaimExpired(b, c)
  \/ \E b \in Builders : Materialize(b) \/ ReconcileExpiredCheckpoint(b) \/ BuilderDies(b)

CheckpointSpec == CheckpointInit /\ [][CheckpointNext]_checkpointVars

\* A process goes on to its end, leases run out, and the timer starts the command again
\* and again, which claims expired rows and then pending ones.
CheckpointFairness ==
  /\ \A b \in Builders : WF_checkpointVars(Materialize(b) \/ ReconcileExpiredCheckpoint(b))
  /\ \A c \in Revisions :
       /\ WF_checkpointVars(CheckpointLeaseEnds(c))
       /\ WF_checkpointVars(\E b \in Builders : ClaimCheckpoint(b, c) \/ ClaimExpired(b, c))

FairCheckpointSpec == CheckpointSpec /\ CheckpointFairness

----------------------------------------------------------------------------
(* Properties.                                                             *)

\* The storage object of a published checkpoint is there, in the accounts and in the
\* bucket, over attempts that have lost their lease and go on, their compensations, and
\* reconciliations (protect_published_dataset_storage154).
PublishedObjectKept ==
  \A c \in Revisions :
    checkpoint[c].status = "ready" =>
      LET file == transfer[<<c, checkpoint[c].object>>] IN file.object = "active" /\ file.blob

\* The resource points at the newest of its published checkpoints, in whatever order they
\* are finished (publish_dataset_checkpoint153).
LatestIsNewest ==
  /\ \A c \in Revisions : checkpoint[c].status = "ready" => c <= latest
  /\ latest # 0 => checkpoint[latest].status = "ready"

\* The object was released after its attachment had failed, and was attached by a
\* reconciliation in between: no reconciliation can publish it.
Unpublishable(c) ==
  checkpoint[c].object # 0 /\ transfer[<<c, checkpoint[c].object>>].object = "deleted"

Open(c) == checkpoint[c].status \in {"pending", "materializing"}

\* A checkpoint that was requested is published, fails, or is set aside, whatever dies
\* (run_dataset_checkpoint_worker.py).
CheckpointsSettle == \A c \in Revisions : Open(c) ~> (~Open(c) \/ Unpublishable(c))
=============================================================================
