--------------------------- MODULE ConnectionSync ---------------------------
(***************************************************************************)
(* The inbound synchronization of one calendar connection: the owner's     *)
(* requests and the scheduler that queue a job (migration 069), the worker *)
(* that lists the provider's changes after the stored cursor, applies them *)
(* and stores the next cursor.                                             *)
(*                                                                         *)
(* The changes at the provider are numbered.  The cursor is the number up  *)
(* to which a listing went, the local copy the number it reflects.         *)
(***************************************************************************)
EXTENDS Naturals

CONSTANTS
  ConnWorkers,  \* worker processes
  MaxChanges,   \* bound: changes at the provider
  MaxConnJobs,  \* bound: rows of calendar_connection_sync_jobs
  MaxConnTries, \* max_attempts
  MaxDue        \* bound: how often the interval since the last success runs out

ASSUME ConnectionAssumption ==
  /\ MaxChanges \in Nat /\ MaxConnJobs \in Nat /\ MaxConnTries \in Nat \ {0}
  /\ MaxDue \in Nat

VARIABLES
  conn,     \* the calendar_sync_connections row, with the local copy of the events
  connJob,  \* the last row of calendar_connection_sync_jobs
  head,     \* the provider: the number of its last change
  agent,    \* what each worker holds
  caller,   \* where the request of the owner and the scheduler are
  former,   \* the status as the request that enables the connection has read it
  intervals, \* how often the interval ran out (bound)
  overtaken  \* history: has a worker outlived its lease?

connVars == <<conn, connJob, head, agent, caller, former, intervals, overtaken>>
callers == <<caller, former>>

InboundStatus == {"idle", "pending", "syncing", "synced", "failed"}
AgentSteps == {"idle", "read", "mark", "list", "apply", "save", "synced", "finish", "fail", "failed"}
Callers == {"owner", "scheduler"}

\* due: next_attempt_at has passed, for a row in processing its lease; done: completed_at.
NoConnJob == [no |-> 0, status |-> "succeeded", tries |-> 0, due |-> FALSE, done |-> TRUE]
IdleAgent == [step |-> "idle", no |-> 0, tries |-> 0, cursor |-> 0, seen |-> 0, terminal |-> FALSE]

ConnectionTypeOK ==
  /\ conn \in [enabled : BOOLEAN, status : InboundStatus, due : BOOLEAN,
               cursor : 0 .. MaxChanges, copy : 0 .. MaxChanges]
  /\ connJob \in [no : 0 .. MaxConnJobs,
                  status : {"pending", "processing", "succeeded", "failed"},
                  tries : 0 .. MaxConnTries, due : BOOLEAN, done : BOOLEAN]
  /\ head \in 0 .. MaxChanges
  /\ agent \in [ConnWorkers -> [step : AgentSteps, no : 0 .. MaxConnJobs, tries : 0 .. MaxConnTries,
                                cursor : 0 .. MaxChanges, seen : 0 .. MaxChanges,
                                terminal : BOOLEAN]]
  /\ caller \in [Callers -> {"idle", "enqueue", "pending"}]
  /\ former \in InboundStatus \cup {"none"}
  /\ intervals \in 0 .. MaxDue
  /\ overtaken \in BOOLEAN

ConnInit ==
  /\ conn = [enabled |-> TRUE, status |-> "idle", due |-> TRUE, cursor |-> 0, copy |-> 0]
  /\ connJob = NoConnJob
  /\ head = 0
  /\ agent = [w \in ConnWorkers |-> IdleAgent]
  /\ caller = [c \in Callers |-> "idle"]
  /\ former = "none"
  /\ intervals = 0
  /\ overtaken = FALSE

----------------------------------------------------------------------------
(* Queueing.                                                               *)

\* The rows of the unique index.
ActiveConnJob(j) == j.status \in {"pending", "processing"} \/ (j.status = "failed" /\ ~j.done)

\* eligible_inbound_connections.
Eligible == conn.enabled /\ conn.due /\ conn.status \in {"idle", "synced"}

\* schedule_periodic_inbound: the list is read before the first job is queued.
ScheduleConnection ==
  /\ caller["scheduler"] = "idle"
  /\ Eligible
  /\ caller' = [caller EXCEPT !["scheduler"] = "enqueue"]
  /\ UNCHANGED <<conn, connJob, head, agent, former, intervals, overtaken>>

\* run_connection_sync.
RequestSync ==
  /\ caller["owner"] = "idle"
  /\ conn.enabled
  /\ caller' = [caller EXCEPT !["owner"] = "enqueue"]
  /\ UNCHANGED <<conn, connJob, head, agent, former, intervals, overtaken>>

\* set_connection_inbound_sync, the way that changes the flag.
SetInbound ==
  /\ caller["owner"] = "idle"
  /\ conn' = [conn EXCEPT !.enabled = ~@, !.status = IF conn.enabled THEN "idle" ELSE "pending"]
  /\ IF conn.enabled THEN UNCHANGED callers
     ELSE caller' = [caller EXCEPT !["owner"] = "enqueue"] /\ former' = conn.status
  /\ UNCHANGED <<connJob, head, agent, intervals, overtaken>>

\* enqueue_calendar_connection_sync_job.
EnqueueConnJob(c) ==
  /\ caller[c] = "enqueue"
  /\ IF ActiveConnJob(connJob)
     THEN connJob' = IF connJob.status = "processing" THEN connJob
                     ELSE [connJob EXCEPT !.status = "pending", !.due = TRUE]
     ELSE /\ connJob.no < MaxConnJobs
          /\ connJob' = [no |-> connJob.no + 1, status |-> "pending", tries |-> 0,
                         due |-> TRUE, done |-> FALSE]
  /\ caller' = [caller EXCEPT ![c] = "pending"]
  /\ former' = IF c = "owner" THEN "none" ELSE former
  /\ UNCHANGED <<conn, head, agent, intervals, overtaken>>

\* Another caller's job is inserted first and has ended when it is looked up: the call
\* returns no row, and the connection gets back what the request has read.
EnableRefused ==
  /\ caller["owner"] = "enqueue" /\ former # "none"
  /\ ~ActiveConnJob(connJob)
  /\ conn' = [conn EXCEPT !.enabled = FALSE, !.status = former]
  /\ caller' = [caller EXCEPT !["owner"] = "idle"]
  /\ former' = "none"
  /\ UNCHANGED <<connJob, head, agent, intervals, overtaken>>

\* enqueue_connection_sync marks the connection in a call of its own.
MarkPending(c) ==
  /\ caller[c] = "pending"
  /\ conn' = [conn EXCEPT !.status = "pending"]
  /\ caller' = [caller EXCEPT ![c] = "idle"]
  /\ UNCHANGED <<connJob, head, agent, former, intervals, overtaken>>

CallerFails(c) ==
  /\ caller[c] # "idle"
  /\ caller' = [caller EXCEPT ![c] = "idle"]
  /\ former' = IF c = "owner" THEN "none" ELSE former
  /\ UNCHANGED <<conn, connJob, head, agent, intervals, overtaken>>

----------------------------------------------------------------------------
(* process_connection_job and process_connection_sync_job.                 *)

\* The two sweeps: the second one ends the job.
SweptConnJob(j) ==
  IF j.status = "processing" /\ j.due
  THEN [j EXCEPT !.status = "failed", !.done = j.tries >= MaxConnTries]
  ELSE j

\* Mutant of ClaimableConnJob: a failed job is not taken up again.
ClaimableConnPendingOnly(j) == j.status = "pending" /\ j.due /\ j.tries < MaxConnTries

ClaimableConnJob(j) == j.status \in {"pending", "failed"} /\ j.due /\ j.tries < MaxConnTries

\* claim_calendar_connection_sync_jobs.
ClaimConnJob(w) ==
  LET j == SweptConnJob(connJob) IN
  /\ agent[w].step = "idle"
  /\ ClaimableConnJob(j)
  /\ connJob' = [j EXCEPT !.status = "processing", !.tries = @ + 1, !.due = FALSE]
  /\ agent' = [agent EXCEPT ![w] = [IdleAgent EXCEPT !.step = "read", !.no = j.no,
                                                     !.tries = j.tries + 1]]
  /\ UNCHANGED <<conn, head, callers, intervals, overtaken>>

\* The same call when it finds nothing to claim.
SweepConnJob ==
  /\ SweptConnJob(connJob) # connJob /\ ~ClaimableConnJob(SweptConnJob(connJob))
  /\ connJob' = SweptConnJob(connJob)
  /\ UNCHANGED <<conn, head, agent, callers, intervals, overtaken>>

AgentGoes(w, step) == agent' = [agent EXCEPT ![w].step = step]
AgentFails(w, terminal) ==
  agent' = [agent EXCEPT ![w] = [IdleAgent EXCEPT !.step = "fail", !.no = agent[w].no,
                                  !.tries = agent[w].tries, !.terminal = terminal]]

\* The row, with the cursor that the listing will start from.
ReadConnection(w) ==
  /\ agent[w].step = "read"
  /\ IF conn.enabled
     THEN agent' = [agent EXCEPT ![w].step = "mark", ![w].cursor = conn.cursor]
     ELSE AgentFails(w, TRUE)
  /\ UNCHANGED <<conn, connJob, head, callers, intervals, overtaken>>

MarkSyncing(w) ==
  /\ agent[w].step = "mark"
  /\ conn' = [conn EXCEPT !.status = "syncing"]
  /\ AgentGoes(w, "list")
  /\ UNCHANGED <<connJob, head, callers, intervals, overtaken>>

\* _google_sync: the pages of the changes after the cursor. A token that the provider
\* has forgotten (410) starts over from nothing, which lists as far.
ListChanges(w) ==
  /\ agent[w].step = "list"
  /\ \E from \in {agent[w].cursor, 0} :
       agent' = [agent EXCEPT ![w].step = "apply", ![w].cursor = from, ![w].seen = head]
  /\ UNCHANGED <<conn, connJob, head, callers, intervals, overtaken>>

\* Mutant of ApplyChanges: the cursor is stored with the first page.
ApplyAfterCursor(w) ==
  /\ agent[w].step = "apply"
  /\ conn' = [conn EXCEPT !.cursor = agent[w].seen]
  /\ AgentGoes(w, "save")
  /\ UNCHANGED <<connJob, head, callers, intervals, overtaken>>

\* _upsert_external_event of every change that was listed.
ApplyChanges(w) ==
  /\ agent[w].step = "apply"
  /\ conn' = IF agent[w].seen > agent[w].cursor THEN [conn EXCEPT !.copy = agent[w].seen] ELSE conn
  /\ AgentGoes(w, "save")
  /\ UNCHANGED <<connJob, head, callers, intervals, overtaken>>

\* The end of _sync_connection_with_client.
SaveCursor(w) ==
  /\ agent[w].step = "save"
  /\ conn' = [conn EXCEPT !.cursor = agent[w].seen]
  /\ AgentGoes(w, "synced")
  /\ UNCHANGED <<connJob, head, callers, intervals, overtaken>>

MarkConnSynced(w) ==
  /\ agent[w].step = "synced"
  /\ conn' = [conn EXCEPT !.status = "synced", !.due = FALSE]
  /\ AgentGoes(w, "finish")
  /\ UNCHANGED <<connJob, head, callers, intervals, overtaken>>

ConnFinishable(w) == connJob.no = agent[w].no /\ connJob.status = "processing"

\* A state conflict raises into the handler of any error.
FinishConnJob(w) ==
  /\ agent[w].step = "finish"
  /\ IF ConnFinishable(w)
     THEN /\ connJob' = [connJob EXCEPT !.status = "succeeded", !.done = TRUE]
          /\ agent' = [agent EXCEPT ![w] = IdleAgent]
     ELSE AgentFails(w, agent[w].tries >= MaxConnTries) /\ UNCHANGED connJob
  /\ UNCHANGED <<conn, head, callers, intervals, overtaken>>

\* A call fails: a transient code, or one that no retry mends.
AgentCallFails(w) ==
  /\ agent[w].step \in {"read", "mark", "list", "apply", "save", "synced"}
  /\ AgentFails(w, agent[w].tries >= MaxConnTries) \/ (agent[w].step = "list" /\ AgentFails(w, TRUE))
  /\ UNCHANGED <<conn, connJob, head, callers, intervals, overtaken>>

\* mark_connection_sync_failed.
MarkConnFailed(w) ==
  /\ agent[w].step = "fail"
  /\ conn' = [conn EXCEPT !.status = IF agent[w].terminal THEN "failed" ELSE "pending"]
  /\ AgentGoes(w, "failed")
  /\ UNCHANGED <<connJob, head, callers, intervals, overtaken>>

\* Without a retry delay next_attempt_at stays in the past: a job with attempts left
\* is due at once, although its connection was marked failed.
FinishConnFailed(w) ==
  /\ agent[w].step = "failed"
  /\ connJob' = IF ConnFinishable(w)
                THEN [connJob EXCEPT !.status = "failed", !.due = agent[w].terminal,
                                     !.done = connJob.tries >= MaxConnTries]
                ELSE connJob
  /\ agent' = [agent EXCEPT ![w] = IdleAgent]
  /\ UNCHANGED <<conn, head, callers, intervals, overtaken>>

AgentDies(w) ==
  /\ agent[w].step # "idle"
  /\ agent' = [agent EXCEPT ![w] = IdleAgent]
  /\ UNCHANGED <<conn, connJob, head, callers, intervals, overtaken>>

----------------------------------------------------------------------------
(* The provider and time.                                                  *)

RemoteChange ==
  /\ head < MaxChanges
  /\ head' = head + 1
  /\ UNCHANGED <<conn, connJob, agent, callers, intervals, overtaken>>

HoldsConnJob(w) == agent[w].step # "idle" /\ agent[w].no = connJob.no

\* The lease of three minutes ends, or the delay of a retry.
ConnJobFallsDue ==
  /\ connJob.status \in {"processing", "failed"} /\ ~connJob.due
  /\ connJob' = [connJob EXCEPT !.due = TRUE]
  /\ overtaken' = (overtaken \/ (connJob.status = "processing" /\ \E w \in ConnWorkers : HoldsConnJob(w)))
  /\ UNCHANGED <<conn, head, agent, callers, intervals>>

IntervalEnds ==
  /\ ~conn.due /\ intervals < MaxDue
  /\ conn' = [conn EXCEPT !.due = TRUE]
  /\ intervals' = intervals + 1
  /\ UNCHANGED <<connJob, head, agent, callers, overtaken>>

AgentStep(w) ==
  \/ ClaimConnJob(w) \/ ReadConnection(w) \/ MarkSyncing(w) \/ ListChanges(w) \/ ApplyChanges(w)
  \/ SaveCursor(w) \/ MarkConnSynced(w) \/ FinishConnJob(w) \/ AgentCallFails(w)
  \/ MarkConnFailed(w) \/ FinishConnFailed(w)

CallerStep(c) == EnqueueConnJob(c) \/ MarkPending(c) \/ CallerFails(c)

ConnNext ==
  \/ \E w \in ConnWorkers : AgentStep(w) \/ AgentDies(w)
  \/ ScheduleConnection \/ RequestSync \/ SetInbound \/ EnableRefused
  \/ \E c \in Callers : CallerStep(c)
  \/ SweepConnJob \/ RemoteChange \/ ConnJobFallsDue \/ IntervalEnds

ConnSpec == ConnInit /\ [][ConnNext]_connVars

\* The main loop schedules and polls; leases and delays run out.
ConnFairness ==
  /\ \A w \in ConnWorkers : WF_connVars(AgentStep(w))
  /\ WF_connVars(ScheduleConnection)
  /\ \A c \in Callers : WF_connVars(CallerStep(c))
  /\ WF_connVars(SweepConnJob \/ ConnJobFallsDue)

FairConnSpec == ConnSpec /\ ConnFairness

----------------------------------------------------------------------------
(* Properties.                                                             *)

\* No change is skipped: all that lies behind the stored cursor has been applied, over
\* crashes between the pages, retries and forgotten tokens, unless a worker outlived its
\* lease (_sync_connection_with_client).
NothingSkipped == ~overtaken => conn.cursor <= conn.copy

\* An active job is finished in the end, whatever the requests, failures and crashes
\* (claim_calendar_connection_sync_jobs, finish_calendar_connection_sync_job).
ConnJobsSettle == ActiveConnJob(connJob) ~> ~ActiveConnJob(connJob)
=============================================================================
