-------------------------- MODULE CalendarTaskSync --------------------------
(***************************************************************************)
(* The synchronization of one calendar task with its Google event: the     *)
(* requests that edit, link, archive and delete the task, the durable job  *)
(* queue between them and the worker (migration 068), the worker's calls   *)
(* to the provider, and the inbound synchronization that writes the same   *)
(* event.                                                                  *)
(*                                                                         *)
(* The content of the task is its version.  A request or a job is a list   *)
(* of separate data API calls: each call is an action.                     *)
(***************************************************************************)
EXTENDS Naturals, FiniteSets, Sequences

CONSTANTS
  SyncWorkers,   \* worker processes
  MaxCalls,      \* bound: requests of the owner
  MaxVersion,    \* bound: versions of the task
  MaxRemote,     \* bound: events ever created at the provider
  MaxJobRows,    \* bound: rows of calendar_task_sync_jobs, and of calendar_events, for the task
  MaxTries,      \* max_attempts
  OutlivedLeases \* may a worker go on after its lease of two minutes?

ASSUME TaskSyncAssumption ==
  /\ MaxVersion \in Nat \ {0} /\ MaxTries \in Nat \ {0}
  /\ MaxCalls \in Nat /\ MaxRemote \in Nat /\ MaxJobRows \in Nat
  /\ OutlivedLeases \in BOOLEAN

VARIABLES
  plan,      \* the calendar_tasks row
  entry,     \* the calendar_events row the task was last linked to
  queue,     \* the last row of calendar_task_sync_jobs
  unsettled, \* does an older row have another status than "succeeded"?
  provider,  \* Google: the content of every event ever created, 0 when it is gone
  marked,    \* the events that carry the task's marker
  syncer,    \* what each worker holds
  request,   \* the owner's request, and how many there were
  disturbed  \* history: which disturbances there were

syncVars == <<plan, entry, queue, unsettled, provider, marked, syncer, request, disturbed>>

\* lease: a worker outlived its lease; inbound: the inbound queue created an event without
\* the marker; gone: a patch was answered 404 or 410 and became an insert.
Disturbances == {"lease", "inbound", "gone"}
Disturb(condition, what) == disturbed' = IF condition THEN disturbed \cup {what} ELSE disturbed

atProvider == <<provider, marked>>
jobRows == <<queue, unsettled>>

Versions == 1 .. MaxVersion
PlanStatus == {"not_synced", "pending", "synced", "failed", "reconciliation_required"}
JobOps == {"create", "update", "delete"}
JobStatusSet == {"none", "pending", "processing", "succeeded", "failed",
                 "reconciliation_required", "superseded"}
SyncSteps == {"idle", "load", "lookup", "push", "save", "mark", "delete", "tombstone",
              "complete", "reconcile", "finish", "retry", "fail", "failed", "supersede", "requeue"}

\* due: next_attempt_at has passed, for a row in processing its lease; done: completed_at.
JobRow == [no : 0 .. MaxJobRows, status : JobStatusSet, op : JobOps, version : Versions,
           tries : 0 .. MaxTries, due : BOOLEAN, done : BOOLEAN]
NoJobRow == [no |-> 0, status |-> "none", op |-> "create", version |-> 1,
             tries |-> 0, due |-> FALSE, done |-> TRUE]
IdleSyncer == [step |-> "idle", no |-> 0, op |-> "create", version |-> 1, tries |-> 0,
               entry |-> 0, content |-> 1, remote |-> 0]
NoOwner == [step |-> "idle", version |-> 1, op |-> "create", calls |-> 0]

SyncTypeOK ==
  /\ plan \in [present : BOOLEAN, version : Versions, status : PlanStatus, linked : BOOLEAN]
  /\ entry \in [no : Nat, content : Versions, remote : 0 .. MaxRemote, deleted : BOOLEAN]
  /\ queue \in JobRow
  /\ unsettled \in BOOLEAN
  /\ provider \in Seq(0 .. MaxVersion)
  /\ marked \subseteq DOMAIN provider
  /\ syncer \in [SyncWorkers -> [step : SyncSteps, no : 0 .. MaxJobRows, op : JobOps,
                                 version : Versions, tries : 0 .. MaxTries, entry : Nat,
                                 content : Versions, remote : 0 .. MaxRemote]]
  /\ request \in [step : {"idle", "event", "link", "enqueue"}, version : Versions, op : JobOps,
                 calls : 0 .. MaxCalls]
  /\ disturbed \subseteq Disturbances

SyncInit ==
  /\ plan = [present |-> TRUE, version |-> 1, status |-> "not_synced", linked |-> FALSE]
  /\ entry = [no |-> 0, content |-> 1, remote |-> 0, deleted |-> FALSE]
  /\ queue = NoJobRow
  /\ unsettled = FALSE
  /\ provider = <<>>
  /\ marked = {}
  /\ syncer = [w \in SyncWorkers |-> IdleSyncer]
  /\ request = NoOwner
  /\ disturbed = {}

----------------------------------------------------------------------------
(* The job rows.                                                           *)

\* The rows of the unique index: there is at most one.
ActiveJob(q) == q.status \in {"pending", "processing"} \/ (q.status = "failed" /\ ~q.done)

MergedJob(q, op, v) ==
  [q EXCEPT !.op = op,
            !.version = IF v > @ THEN v ELSE @,
            !.status = IF @ = "processing" THEN @ ELSE "pending",
            !.due = IF q.status = "processing" THEN @ ELSE TRUE]

\* enqueue_calendar_task_sync_job.
EnqueueJob(op, v) ==
  IF ActiveJob(queue)
  THEN queue' = MergedJob(queue, op, v) /\ UNCHANGED unsettled
  ELSE /\ queue.no < MaxJobRows
       /\ queue' = [no |-> queue.no + 1, status |-> "pending", op |-> op, version |-> v,
                    tries |-> 0, due |-> TRUE, done |-> FALSE]
       /\ unsettled' = (unsettled \/ queue.status \notin {"none", "succeeded"})

LeaseOver(q) == q.status = "processing" /\ q.due

\* The two sweeps of a claim: neither sets completed_at.
SweptJob(q) == IF LeaseOver(q) THEN [q EXCEPT !.status = "failed"] ELSE q

\* Mutant of ClaimableJob: a failed job is not taken up again.
ClaimablePendingOnly(q) == q.status = "pending" /\ q.due /\ q.tries < MaxTries

ClaimableJob(q) == q.status \in {"pending", "failed"} /\ q.due /\ q.tries < MaxTries

\* claim_calendar_task_sync_jobs.
ClaimJob(w) ==
  LET q == SweptJob(queue) IN
  /\ syncer[w].step = "idle"
  /\ ClaimableJob(q)
  /\ queue' = [q EXCEPT !.status = "processing", !.tries = @ + 1, !.due = FALSE]
  /\ syncer' = [syncer EXCEPT ![w] = [IdleSyncer EXCEPT
       !.step = "load", !.no = q.no, !.op = q.op, !.version = q.version, !.tries = q.tries + 1]]
  /\ UNCHANGED <<plan, entry, unsettled, atProvider, request, disturbed>>

\* The same call when it finds nothing to claim.
SweepJob ==
  /\ LeaseOver(queue) /\ ~ClaimableJob(SweptJob(queue))
  /\ queue' = SweptJob(queue)
  /\ UNCHANGED <<plan, entry, unsettled, atProvider, syncer, request, disturbed>>

\* The row filter of finish_calendar_task_sync_job: not who holds the row.
Finishable(w) == queue.no = syncer[w].no /\ queue.status = "processing"

FinishedJob(q, status, due) ==
  [q EXCEPT !.status = status, !.due = due,
            !.done = status # "failed" \/ q.tries >= MaxTries]

GoTo(w, step) == syncer' = [syncer EXCEPT ![w].step = step]
\* What is left to do needs the job only.
GoEnd(w, step) == syncer' = [syncer EXCEPT ![w] = [IdleSyncer EXCEPT
                    !.step = step, !.no = syncer[w].no, !.op = syncer[w].op,
                    !.tries = syncer[w].tries]]
GoIdle(w) == syncer' = [syncer EXCEPT ![w] = IdleSyncer]

----------------------------------------------------------------------------
(* process_job and process_task_sync_job.                                  *)

SetPlanStatus(s) == plan' = IF plan.present THEN [plan EXCEPT !.status = s] ELSE plan

\* _load_job_state: the task is compared with the claimed copy of the job.
LoadJob(w) ==
  LET me == syncer[w] IN
  /\ me.step = "load"
  /\ syncer' = [syncer EXCEPT ![w] =
       IF ~plan.present \/ ~plan.linked THEN [me EXCEPT !.step = "fail", !.version = 1]
       ELSE IF plan.version > me.version THEN [me EXCEPT !.step = "supersede", !.version = 1]
       ELSE [me EXCEPT !.entry = entry.no, !.content = entry.content, !.remote = entry.remote,
                       !.step = IF me.op = "delete" THEN "delete"
                                ELSE IF entry.remote = 0 THEN "lookup" ELSE "push"]]
  /\ UNCHANGED <<plan, entry, jobRows, atProvider, request, disturbed>>

LiveRemote(r) == r # 0 /\ provider[r] # 0

\* _lookup_marker lists no cancelled event.
MarkerMatches == {r \in marked : LiveRemote(r)}

\* Mutant of Lookup: a job without a known event does not ask the provider for one.
LookupNever(w) ==
  /\ syncer[w].step = "lookup"
  /\ GoTo(w, "push")
  /\ UNCHANGED <<plan, entry, jobRows, atProvider, request, disturbed>>

Lookup(w) ==
  /\ syncer[w].step = "lookup"
  /\ syncer' = [syncer EXCEPT ![w] =
       IF Cardinality(MarkerMatches) > 1 THEN [@ EXCEPT !.step = "reconcile"]
       ELSE [@ EXCEPT !.step = "push",
                      !.remote = IF MarkerMatches = {} THEN 0
                                 ELSE CHOOSE r \in MarkerMatches : TRUE]]
  /\ UNCHANGED <<plan, entry, jobRows, atProvider, request, disturbed>>

\* PATCH of the known event, or POST of a new one when there is none any more. The
\* answer arrives, or it is lost although the provider did the work.
Push(w) ==
  LET me == syncer[w]
      patched == LiveRemote(me.remote)
      r == IF patched THEN me.remote ELSE Len(provider) + 1
  IN
  /\ me.step = "push"
  /\ r <= MaxRemote
  /\ provider' = IF patched THEN [provider EXCEPT ![r] = me.content]
                 ELSE Append(provider, me.content)
  /\ marked' = marked \cup {r}
  /\ \/ syncer' = [syncer EXCEPT ![w] = [me EXCEPT !.remote = r, !.step = "save"]]
     \/ GoEnd(w, "retry")
  /\ Disturb(me.remote # 0 /\ ~patched, "gone")
  /\ UNCHANGED <<plan, entry, jobRows, request>>

\* The event row by its id, then the task row by its id, whatever they hold by now.
SaveEvent(w) ==
  LET me == syncer[w] IN
  /\ me.step = "save"
  /\ entry' = IF entry.no = me.entry THEN [entry EXCEPT !.remote = me.remote] ELSE entry
  /\ GoEnd(w, "mark")
  /\ UNCHANGED <<plan, jobRows, atProvider, request, disturbed>>

MarkSynced(w) ==
  /\ syncer[w].step = "mark"
  /\ SetPlanStatus("synced")
  /\ GoEnd(w, "finish")
  /\ UNCHANGED <<entry, jobRows, atProvider, request, disturbed>>

\* Mutant of DeleteRemote: a refused call counts as deleted, too.
DeleteRemoteAny(w) ==
  LET me == syncer[w] IN
  /\ me.step = "delete"
  /\ \/ provider' = IF me.remote = 0 THEN provider ELSE [provider EXCEPT ![me.remote] = 0]
     \/ UNCHANGED provider
  /\ GoTo(w, "tombstone")
  /\ UNCHANGED <<plan, entry, jobRows, marked, request, disturbed>>

\* DELETE of the known event; 404 and 410 count as deleted.
DeleteRemote(w) ==
  LET me == syncer[w] IN
  /\ me.step = "delete"
  /\ provider' = IF me.remote = 0 THEN provider ELSE [provider EXCEPT ![me.remote] = 0]
  /\ GoTo(w, "tombstone") \/ (me.remote # 0 /\ GoEnd(w, "retry"))
  /\ UNCHANGED <<plan, entry, jobRows, marked, request, disturbed>>

Tombstone(w) ==
  /\ syncer[w].step = "tombstone"
  /\ entry' = IF entry.no = syncer[w].entry THEN [entry EXCEPT !.deleted = TRUE] ELSE entry
  /\ GoEnd(w, "complete")
  /\ UNCHANGED <<plan, jobRows, atProvider, request, disturbed>>

\* complete_calendar_task_sync_delete. The rows that refer to the task lose it, which
\* a constraint allows for succeeded ones only: the transaction raises otherwise.
CompleteDelete(w) ==
  /\ syncer[w].step = "complete"
  /\ IF Finishable(w) /\ queue.op = "delete" /\ ~unsettled
     THEN /\ queue' = FinishedJob(queue, "succeeded", queue.due)
          /\ plan' = [plan EXCEPT !.present = FALSE]
          /\ GoIdle(w)
     ELSE GoEnd(w, "retry") /\ UNCHANGED <<plan, queue>>
  /\ UNCHANGED <<entry, unsettled, atProvider, request, disturbed>>

\* A call fails: a transient error, or one that no retry mends.
CallFails(w) ==
  /\ syncer[w].step \in {"load", "lookup", "push", "save", "mark", "delete", "tombstone"}
  /\ GoEnd(w, "retry") \/ (syncer[w].step \in {"lookup", "push", "delete"} /\ GoEnd(w, "fail"))
  /\ UNCHANGED <<plan, entry, jobRows, atProvider, request, disturbed>>

Reconcile(w) ==
  /\ syncer[w].step = "reconcile"
  /\ SetPlanStatus("reconciliation_required")
  /\ queue' = IF Finishable(w) THEN FinishedJob(queue, "reconciliation_required", queue.due)
              ELSE queue
  /\ IF Finishable(w) THEN GoIdle(w) ELSE GoEnd(w, "retry")
  /\ UNCHANGED <<entry, unsettled, atProvider, request, disturbed>>

FinishSucceeded(w) ==
  /\ syncer[w].step = "finish"
  /\ IF Finishable(w)
     THEN queue' = FinishedJob(queue, "succeeded", queue.due) /\ GoIdle(w)
     ELSE GoEnd(w, "retry") /\ UNCHANGED queue
  /\ UNCHANGED <<plan, entry, unsettled, atProvider, request, disturbed>>

\* A retry is scheduled from the claimed copy of attempts; a state conflict ends the poll.
FinishRetry(w) ==
  /\ syncer[w].step = "retry"
  /\ IF syncer[w].tries < MaxTries
     THEN /\ queue' = IF Finishable(w) THEN FinishedJob(queue, "failed", FALSE) ELSE queue
          /\ GoIdle(w)
     ELSE GoEnd(w, "fail") /\ UNCHANGED queue
  /\ UNCHANGED <<plan, entry, unsettled, atProvider, request, disturbed>>

\* _set_task_failure.
SetTaskFailure(w) ==
  /\ syncer[w].step = "fail"
  /\ SetPlanStatus("failed")
  /\ GoEnd(w, "failed")
  /\ UNCHANGED <<entry, jobRows, atProvider, request, disturbed>>

\* No next_attempt_at: a job with attempts left is due again at once.
FinishFailed(w) ==
  /\ syncer[w].step = "failed"
  /\ queue' = IF Finishable(w) THEN FinishedJob(queue, "failed", TRUE) ELSE queue
  /\ GoIdle(w)
  /\ UNCHANGED <<plan, entry, unsettled, atProvider, request, disturbed>>

FinishSuperseded(w) ==
  /\ syncer[w].step = "supersede"
  /\ IF Finishable(w)
     THEN queue' = FinishedJob(queue, "superseded", queue.due) /\ GoEnd(w, "requeue")
     ELSE GoIdle(w) /\ UNCHANGED queue
  /\ UNCHANGED <<plan, entry, unsettled, atProvider, request, disturbed>>

\* The claimed operation again, for the task's present version.
Requeue(w) ==
  /\ syncer[w].step = "requeue"
  /\ IF plan.present THEN EnqueueJob(syncer[w].op, plan.version) ELSE UNCHANGED jobRows
  /\ GoIdle(w)
  /\ UNCHANGED <<plan, entry, atProvider, request, disturbed>>

SyncerDies(w) ==
  /\ syncer[w].step # "idle"
  /\ GoIdle(w)
  /\ UNCHANGED <<plan, entry, jobRows, atProvider, request, disturbed>>

----------------------------------------------------------------------------
(* The owner's requests.                                                   *)

NewCall == request.step = "idle" /\ request.calls < MaxCalls
Calls(step, v, op) ==
  request' = [step |-> step, version |-> v, op |-> op, calls |-> request.calls + 1]
CallsOnce == request' = [request EXCEPT !.calls = @ + 1]
Answered == request' = [NoOwner EXCEPT !.calls = request.calls]

\* update_task: the update is guarded by the version; a linked task is queued.
EditTask ==
  /\ NewCall
  /\ plan.present /\ plan.version < MaxVersion
  /\ plan' = [plan EXCEPT !.version = @ + 1]
  /\ IF plan.linked THEN Calls("event", plan.version + 1, "create") ELSE CallsOnce
  /\ UNCHANGED <<entry, jobRows, atProvider, syncer, disturbed>>

\* sync_task.
SyncNow ==
  /\ NewCall
  /\ plan.present
  /\ Calls("event", plan.version, "create")
  /\ UNCHANGED <<plan, entry, jobRows, atProvider, syncer, disturbed>>

\* queue_task_to_provider: the linked event unless it is deleted, or a new one.
WriteEvent ==
  /\ request.step = "event"
  /\ IF plan.linked /\ ~entry.deleted
     THEN /\ entry' = [entry EXCEPT !.content = request.version]
          /\ request' = [request EXCEPT !.step = "link", !.op = "update"]
     ELSE /\ entry.no < MaxJobRows
          /\ entry' = [no |-> entry.no + 1, content |-> request.version, remote |-> 0,
                       deleted |-> FALSE]
          /\ request' = [request EXCEPT !.step = "link", !.op = "create"]
  /\ UNCHANGED <<plan, jobRows, atProvider, syncer, disturbed>>

LinkTask ==
  /\ request.step = "link"
  /\ plan' = IF plan.present THEN [plan EXCEPT !.linked = TRUE, !.status = "pending"] ELSE plan
  /\ request' = [request EXCEPT !.step = "enqueue"]
  /\ UNCHANGED <<entry, jobRows, atProvider, syncer, disturbed>>

\* The task must still be there for the row to refer to it.
EnqueueRequest ==
  /\ request.step = "enqueue"
  /\ IF plan.present THEN EnqueueJob(request.op, request.version) ELSE UNCHANGED jobRows
  /\ Answered
  /\ UNCHANGED <<plan, entry, atProvider, syncer, disturbed>>

RequestFails ==
  /\ request.step # "idle"
  /\ Answered
  /\ UNCHANGED <<plan, entry, jobRows, atProvider, syncer, disturbed>>

\* archive_task changes the version and queues nothing.
Archive ==
  /\ NewCall
  /\ plan.present /\ plan.version < MaxVersion
  /\ plan' = [plan EXCEPT !.version = @ + 1]
  /\ CallsOnce
  /\ UNCHANGED <<entry, jobRows, atProvider, syncer, disturbed>>

Unlink ==
  /\ NewCall
  /\ plan.present /\ plan.linked
  /\ plan' = [plan EXCEPT !.linked = FALSE, !.status = "not_synced"]
  /\ CallsOnce
  /\ UNCHANGED <<entry, jobRows, atProvider, syncer, disturbed>>

\* delete_task with mode local_and_provider.
DeleteBoth ==
  /\ NewCall
  /\ plan.present /\ plan.linked /\ ~entry.deleted
  /\ plan' = [plan EXCEPT !.status = "pending"]
  /\ Calls("enqueue", plan.version, "delete")
  /\ UNCHANGED <<entry, jobRows, atProvider, syncer, disturbed>>

\* delete_task with mode local_only: refused while a row refers to the task that did
\* not succeed.
DeleteLocal ==
  /\ NewCall
  /\ plan.present
  /\ ~unsettled /\ queue.status \in {"none", "succeeded"}
  /\ plan' = [plan EXCEPT !.present = FALSE, !.linked = FALSE]
  /\ CallsOnce
  /\ UNCHANGED <<entry, jobRows, atProvider, syncer, disturbed>>

----------------------------------------------------------------------------
(* The provider, the inbound queue and time.                               *)

\* Somebody deletes the event in Google Calendar.
RemoteDeletion(r) ==
  /\ LiveRemote(r)
  /\ provider' = [provider EXCEPT ![r] = 0]
  /\ UNCHANGED <<plan, entry, jobRows, marked, syncer, request, disturbed>>

\* _push_local_changes of a connection synchronization: no marker and no lookup.
InboundPush ==
  /\ entry.no > 0
  /\ \/ /\ ~entry.deleted
        /\ IF entry.remote = 0
           THEN /\ Len(provider) < MaxRemote
                /\ provider' = Append(provider, entry.content)
                /\ entry' = [entry EXCEPT !.remote = Len(provider) + 1]
           ELSE /\ LiveRemote(entry.remote)
                /\ provider' = [provider EXCEPT ![entry.remote] = entry.content]
                /\ UNCHANGED entry
     \/ /\ entry.deleted /\ LiveRemote(entry.remote)
        /\ provider' = [provider EXCEPT ![entry.remote] = 0]
        /\ UNCHANGED entry
  /\ Disturb(~entry.deleted /\ entry.remote = 0, "inbound")
  /\ UNCHANGED <<plan, jobRows, marked, syncer, request>>

\* _upsert_external_event: an event removed at the provider is deleted here.
InboundPull ==
  /\ entry.remote # 0 /\ ~LiveRemote(entry.remote) /\ ~entry.deleted
  /\ entry' = [entry EXCEPT !.deleted = TRUE]
  /\ UNCHANGED <<plan, jobRows, atProvider, syncer, request, disturbed>>

HoldsJob(w) == syncer[w].step # "idle" /\ syncer[w].no = queue.no

\* A lease ends.
LeaseEnds ==
  /\ queue.status = "processing" /\ ~queue.due
  /\ OutlivedLeases \/ \A w \in SyncWorkers : ~HoldsJob(w)
  /\ queue' = [queue EXCEPT !.due = TRUE]
  /\ Disturb(\E w \in SyncWorkers : HoldsJob(w), "lease")
  /\ UNCHANGED <<plan, entry, unsettled, atProvider, syncer, request>>

RetryFallsDue ==
  /\ queue.status = "failed" /\ ~queue.due
  /\ queue' = [queue EXCEPT !.due = TRUE]
  /\ UNCHANGED <<plan, entry, unsettled, atProvider, syncer, request, disturbed>>

SyncerStep(w) ==
  \/ ClaimJob(w) \/ LoadJob(w) \/ Lookup(w) \/ Push(w) \/ SaveEvent(w) \/ MarkSynced(w)
  \/ DeleteRemote(w) \/ Tombstone(w) \/ CompleteDelete(w) \/ CallFails(w) \/ Reconcile(w)
  \/ FinishSucceeded(w) \/ FinishRetry(w) \/ SetTaskFailure(w) \/ FinishFailed(w)
  \/ FinishSuperseded(w) \/ Requeue(w)

OwnerStep ==
  \/ EditTask \/ SyncNow \/ WriteEvent \/ LinkTask \/ EnqueueRequest \/ RequestFails
  \/ Archive \/ Unlink \/ DeleteBoth \/ DeleteLocal

SyncNext ==
  \/ \E w \in SyncWorkers : SyncerStep(w) \/ SyncerDies(w)
  \/ OwnerStep
  \/ \E r \in DOMAIN provider : RemoteDeletion(r)
  \/ InboundPush \/ InboundPull
  \/ SweepJob \/ LeaseEnds \/ RetryFallsDue

SyncSpec == SyncInit /\ [][SyncNext]_syncVars

\* Workers poll and end what they began; leases and delays run out.
SyncFairness ==
  /\ \A w \in SyncWorkers : WF_syncVars(SyncerStep(w))
  /\ WF_syncVars(SweepJob \/ LeaseEnds \/ RetryFallsDue)

FairSyncSpec == SyncSpec /\ SyncFairness

----------------------------------------------------------------------------
(* Properties.                                                             *)

\* At most one live provider event carries the marker of the task, over retries,
\* lost answers, crashes, unlinking and linking again, and removals at Google
\* (_lookup_marker), unless a worker outlived its lease, the inbound queue created the
\* event without a marker, or the patch of a removed event became an insert.
MarkedEventOnce == disturbed = {} => Cardinality(MarkerMatches) <= 1

\* The worker removes the task only after the provider event it is known to be
\* linked to has gone (complete_calendar_task_sync_delete).
RemovedWithItsEvent ==
  [][plan.present /\ ~plan'.present /\ syncer' # syncer /\ disturbed \subseteq {"gone"}
       => ~LiveRemote(entry.remote)]_syncVars

\* A job whose attempts ran out under a sweep, or that was merged into afterwards: no
\* claim takes it, and the unique index keeps another one from being inserted.
OutOfTries == queue.status \in {"pending", "failed"} /\ queue.tries >= MaxTries

\* An active job is finished, or has run out of attempts.
JobsSettle == ActiveJob(queue) ~> (~ActiveJob(queue) \/ OutOfTries)
=============================================================================
