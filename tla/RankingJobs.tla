---------------------------- MODULE RankingJobs ----------------------------
(***************************************************************************)
(* The durable ranking queue of the CV reranker                            *)
(* (web/backend/cv_reranker): the row of a job, the rows of its documents, *)
(* the result and content caches, the worker processes that claim, process *)
(* and recover jobs, and the API requests that create, cancel and delete   *)
(* them.                                                                   *)
(*                                                                         *)
(* One action is one database transaction (PostgreSQL, READ COMMITTED).    *)
(* SQLAlchemy keeps a session copy of what a worker or a request has read  *)
(* (expire_on_commit=False) and only "status" is read again, so a decision *)
(* may rest on a value another transaction has already replaced.           *)
(***************************************************************************)
EXTENDS Naturals, FiniteSets

CONSTANTS
  Jobs,         \* identifiers of ranking_jobs rows; a deleted one is never reused
  Files,        \* documents of every job, the same files: jobs share the caches
  Workers,      \* worker processes (a restarted process keeps its name here)
  Clients,      \* concurrent API requests
  Score,        \* relevance the model gives to each file
  NoJob, NoFile,
  MaxAttempts,  \* settings.job_max_attempts
  MaxActive,    \* settings.max_active_jobs_per_user
  MaxStored,    \* settings.max_stored_jobs_per_user
  StallsAllowed \* may a live worker go without a heartbeat for job_stale_after_minutes?

ASSUME ConstantsAssumption ==
  /\ NoJob \notin Jobs
  /\ NoFile \notin Files
  /\ Files # {} /\ Files \subseteq Nat /\ IsFiniteSet(Files)
  /\ Score \in [Files -> Nat]
  /\ MaxAttempts \in Nat \ {0}
  /\ MaxActive \in Nat /\ MaxStored \in Nat
  /\ StallsAllowed \in BOOLEAN

VARIABLES
  status,     \* ranking_jobs.status, with "absent" and "deleted" for no row
  heartbeat,  \* heartbeat_at: "none" is NULL, "stale" is older than the cutoff
  attempts,   \* attempt_count
  progress,   \* processed_files
  docs,       \* job_documents, one per job and file
  contents,   \* files with a document_contents row
  results,    \* files with a ranking_results row
  pc,         \* what each worker does next
  job,        \* the job each worker holds
  local,      \* the worker's session copy and loop variables
  request     \* what each API request has read

database == <<status, heartbeat, attempts, progress, docs, contents, results>>
vars == <<status, heartbeat, attempts, progress, docs, contents, results,
          pc, job, local, request>>

Terminal == {"completed", "completed_with_errors", "failed", "cancelled"}
Active   == {"queued", "processing", "cancellation_requested"}
NoRow    == {"absent", "deleted"}
JobStatus == Terminal \cup Active \cup NoRow
DocStatus == {"stored", "extracting", "chunking", "ready", "ranking",
              "completed", "failed", "cancelled"}
Polling == {"recover", "claim"}
Working == {"begin", "next", "lookup", "extract", "link", "chunk", "index", "cancelling",
            "batch", "predict", "unscored", "attach", "store", "finish"}

NewDoc == [status |-> "stored", content |-> FALSE, result |-> FALSE, rank |-> 0]

\* A session that has loaded nothing.
NoSession == [seen |-> "absent", view |-> [f \in Files |-> "stored"], count |-> 0,
              todo |-> {}, cur |-> NoFile, prepared |-> {}, hits |-> {}]
NoRequest == [op |-> "none", job |-> NoJob, seen |-> "absent", content |-> {}, result |-> {}]

Init ==
  /\ status = [j \in Jobs |-> "absent"]
  /\ heartbeat = [j \in Jobs |-> "none"]
  /\ attempts = [j \in Jobs |-> 0]
  /\ progress = [j \in Jobs |-> 0]
  /\ docs = [j \in Jobs |-> [f \in Files |-> NewDoc]]
  /\ contents = {} /\ results = {}
  /\ pc = [w \in Workers |-> "recover"]
  /\ job = [w \in Workers |-> NoJob]
  /\ local = [w \in Workers |-> NoSession]
  /\ request = [c \in Clients |-> NoRequest]

----------------------------------------------------------------------------
(* Worker main loop: recover, claim, process.                              *)

Exists(j) == status[j] \notin NoRow

\* process() has returned or raised: the worker loop starts over.
Release(w) ==
  /\ pc' = [pc EXCEPT ![w] = "recover"]
  /\ job' = [job EXCEPT ![w] = NoJob]
  /\ local' = [local EXCEPT ![w] = NoSession]

\* Mutants of Stale: a live job is recovered, a finished job is recovered, an
\* abandoned cancellation is not.
StaleWithoutCutoff(j) == status[j] \in {"processing", "cancellation_requested"}
StaleInAnyStatus(j) == heartbeat[j] = "stale"
StaleProcessingOnly(j) == status[j] = "processing" /\ heartbeat[j] = "stale"

\* The row filter of recover_stale_jobs.
Stale(j) ==
  /\ status[j] \in {"processing", "cancellation_requested"}
  /\ heartbeat[j] = "stale"

\* Mutants of RecoveredStatus: one attempt too many, the stage in place of the status.
RecoveredOneMore(j) ==
  CASE status[j] = "cancellation_requested" -> "cancelled"
    [] status[j] = "processing" /\ attempts[j] > MaxAttempts -> "failed"
    [] OTHER -> "queued"
RecoveredStage(j) ==
  CASE status[j] = "cancellation_requested" -> "cancelled"
    [] status[j] = "processing" /\ attempts[j] >= MaxAttempts -> "failed"
    [] OTHER -> "recovered"

RecoveredStatus(j) ==
  CASE status[j] = "cancellation_requested" -> "cancelled"
    [] status[j] = "processing" /\ attempts[j] >= MaxAttempts -> "failed"
    [] OTHER -> "queued"

Settle(s) == IF s \in {"completed", "failed"} THEN s ELSE "cancelled"

\* recover_stale_jobs: every stale row in one transaction.
Recover(w) ==
  /\ pc[w] = "recover"
  /\ status' = [j \in Jobs |-> IF Stale(j) THEN RecoveredStatus(j) ELSE status[j]]
  /\ heartbeat' = [j \in Jobs |-> IF Stale(j) THEN "none" ELSE heartbeat[j]]
  /\ docs' = [j \in Jobs |->
                IF Stale(j) /\ status[j] = "cancellation_requested"
                THEN [f \in Files |-> [docs[j][f] EXCEPT !.status = Settle(@)]]
                ELSE docs[j]]
  /\ pc' = [pc EXCEPT ![w] = "claim"]
  /\ UNCHANGED <<attempts, progress, contents, results, job, local, request>>

\* claim_next_job: FOR UPDATE SKIP LOCKED; which queued row comes first is left open.
Claim(w) ==
  /\ pc[w] = "claim"
  /\ \/ \E j \in Jobs :
          /\ status[j] = "queued"
          /\ status' = [status EXCEPT ![j] = "processing"]
          /\ heartbeat' = [heartbeat EXCEPT ![j] = "fresh"]
          /\ attempts' = [attempts EXCEPT ![j] = @ + 1]
          /\ pc' = [pc EXCEPT ![w] = "begin"]
          /\ job' = [job EXCEPT ![w] = j]
     \/ /\ \A j \in Jobs : status[j] # "queued"
        /\ pc' = [pc EXCEPT ![w] = "recover"]
        /\ UNCHANGED <<status, heartbeat, attempts, job>>
  /\ UNCHANGED <<progress, docs, contents, results, local, request>>

\* process(): load the job and its documents, return unless it is being processed.
\* The test is on the status only, not on which worker claimed the job.
Begin(w) ==
  /\ pc[w] = "begin"
  /\ IF status[job[w]] # "processing"
     THEN Release(w)
     ELSE /\ local' = [local EXCEPT ![w] =
                [NoSession EXCEPT !.seen = "processing",
                                  !.view = [f \in Files |-> docs[job[w]][f].status],
                                  !.count = progress[job[w]],
                                  !.todo = Files]]
          /\ pc' = [pc EXCEPT ![w] = "next"]
          /\ UNCHANGED job
  /\ UNCHANGED <<database, request>>

\* A statement on a row another request has deleted raises: the loop logs and goes on.
RowVanished(w) ==
  /\ pc[w] \in Working \ {"begin"}
  /\ ~Exists(job[w])
  /\ Release(w)
  /\ UNCHANGED <<database, request>>

\* The process dies, or any database error reaches the worker loop.
Crash(w) ==
  /\ pc[w] \in Working
  /\ Release(w)
  /\ UNCHANGED <<database, request>>

----------------------------------------------------------------------------
(* JobProcessor.process                                                    *)

At(w, label) == pc[w] = label /\ Exists(job[w])

\* _cancelled: commit what is pending and read the status again.
CheckThen(w, label, changed) ==
  /\ local' = [local EXCEPT ![w] = [changed EXCEPT !.seen = status[job[w]]]]
  /\ pc' = [pc EXCEPT ![w] = IF status[job[w]] = "cancellation_requested"
                             THEN "cancelling" ELSE label]
  /\ UNCHANGED <<job, request>>

\* One document row and the session's copy of it.
PutDoc(w, f, row, label, changed) ==
  /\ docs' = [docs EXCEPT ![job[w]][f] = row]
  /\ local' = [local EXCEPT ![w] = [changed EXCEPT !.view[f] = row.status]]
  /\ pc' = [pc EXCEPT ![w] = label]
  /\ UNCHANGED <<job, request>>

Row(w, f) == docs[job[w]][f]

Beat(w) == heartbeat' = [heartbeat EXCEPT ![job[w]] = "fresh"]

\* Mutant of StartingCount: a retry goes on counting from the previous attempt.
StartingCountKept(w) == local[w].count

\* process() starts every attempt with processed_files = 0.
StartingCount(w) == IF local[w].todo = Files THEN 0 ELSE local[w].count

\* The check at the head of the document loop. The first one also writes the
\* reset of processed_files, unless the loaded value was already zero.
NextDocument(w) ==
  LET me == local[w]
      start == StartingCount(w)
  IN
  /\ At(w, "next")
  /\ progress' = IF start # me.count THEN [progress EXCEPT ![job[w]] = start] ELSE progress
  /\ \E f \in me.todo :
       CheckThen(w, "lookup", [me EXCEPT !.cur = f, !.count = start])
  /\ UNCHANGED <<status, heartbeat, attempts, docs, contents, results>>

\* _prepare_document finds no content: mark the document and beat, then extract.
StartExtraction(w) ==
  LET f == local[w].cur IN
  /\ At(w, "lookup")
  /\ f \notin contents
  /\ PutDoc(w, f, [Row(w, f) EXCEPT !.status = "extracting"], "extract", local[w])
  /\ Beat(w)
  /\ UNCHANGED <<status, attempts, progress, contents, results>>

\* _prepare_document finds the content of an earlier extraction.
ReuseContent(w) ==
  /\ At(w, "lookup")
  /\ local[w].cur \in contents
  /\ pc' = [pc EXCEPT ![w] = "link"]
  /\ UNCHANGED <<database, job, local, request>>

\* Upsert the content, point the document at it, and check for cancellation; the
\* check commits all three.
LinkContent(w) ==
  LET f == local[w].cur IN
  /\ \/ At(w, "extract")
     \/ At(w, "link") /\ f \in contents
  /\ contents' = contents \cup {f}
  /\ docs' = [docs EXCEPT ![job[w]][f].content = TRUE]
  /\ CheckThen(w, "chunk", local[w])
  /\ UNCHANGED <<status, heartbeat, attempts, progress, results>>

\* The content found by the lookup was deleted meanwhile: the foreign key fails,
\* the session is unusable, and process() raises.
ContentVanished(w) ==
  /\ At(w, "link")
  /\ local[w].cur \notin contents
  /\ Release(w)
  /\ UNCHANGED <<database, request>>

StartChunking(w) ==
  LET f == local[w].cur IN
  /\ At(w, "chunk")
  /\ PutDoc(w, f, [Row(w, f) EXCEPT !.status = "chunking"], "index", local[w])
  /\ UNCHANGED <<status, heartbeat, attempts, progress, contents, results>>

\* Chunks are cached, the ranking cache is looked up, the document is ready.
DocumentReady(w) ==
  LET f == local[w].cur IN
  /\ At(w, "index")
  /\ PutDoc(w, f, [Row(w, f) EXCEPT !.status = "ready"], "next",
            [local[w] EXCEPT !.todo = @ \ {f}, !.cur = NoFile,
                             !.prepared = @ \cup {f},
                             !.hits = IF f \in results THEN @ \cup {f} ELSE @])
  /\ UNCHANGED <<status, heartbeat, attempts, progress, contents, results>>

\* Mutant of Counted: the increment is made to the row instead of the session's copy.
CountedInRow(w) == progress[job[w]] + 1

\* processed_files += 1 on the session's copy.
Counted(w) == local[w].count + 1

\* _fail_document: processed_files is counted from the session's own copies.
FailDocument(w, f, label) ==
  LET me == local[w]
      n == IF me.view[f] \in {"failed", "completed"} THEN me.count ELSE Counted(w)
  IN
  /\ PutDoc(w, f, [Row(w, f) EXCEPT !.status = "failed"], label,
            [me EXCEPT !.count = n, !.todo = @ \ {f}, !.cur = NoFile])
  /\ progress' = [progress EXCEPT ![job[w]] = n]
  /\ UNCHANGED <<status, heartbeat, attempts, contents, results>>

\* No extractable text, no rankable text, or any other processing error.
PrepareFails(w) ==
  /\ At(w, "extract") \/ At(w, "index")
  /\ FailDocument(w, local[w].cur, "next")

\* _cancel_remaining, by the session's copies of the document statuses.
CancelRemaining(w) ==
  /\ At(w, "cancelling")
  /\ docs' = [docs EXCEPT ![job[w]] =
                [f \in Files |->
                   IF local[w].view[f] \in {"completed", "failed"} THEN @[f]
                   ELSE [@[f] EXCEPT !.status = "cancelled"]]]
  /\ status' = [status EXCEPT ![job[w]] = "cancelled"]
  /\ Release(w)
  /\ UNCHANGED <<heartbeat, attempts, progress, contents, results, request>>

Uncached(w) == local[w].prepared \ local[w].hits

\* Every document is prepared or failed: flatten the uncached ones into batches.
StartRanking(w) ==
  /\ At(w, "next")
  /\ local[w].todo = {}
  /\ local' = [local EXCEPT ![w].todo = Uncached(w)]
  /\ pc' = [pc EXCEPT ![w] = "batch"]
  /\ UNCHANGED <<database, job, request>>

\* The check before each inference batch (one batch per uncached document).
CheckBatch(w) ==
  /\ At(w, "batch")
  /\ IF local[w].todo # {}
     THEN CheckThen(w, "predict", local[w])
     ELSE /\ local' = [local EXCEPT ![w].todo = local[w].prepared]
          /\ pc' = [pc EXCEPT ![w] = "attach"]
          /\ UNCHANGED <<job, request>>
  /\ UNCHANGED database

PredictBatch(w) ==
  /\ At(w, "predict")
  /\ \E f \in local[w].todo : local' = [local EXCEPT ![w].todo = @ \ {f}]
  /\ Beat(w)
  /\ pc' = [pc EXCEPT ![w] = "batch"]
  /\ UNCHANGED <<status, attempts, progress, docs, contents, results, job, request>>

\* The model raises: every uncached document fails, one commit each, and the job
\* finishes without attaching the cached results it had found.
InferenceFails(w) ==
  /\ At(w, "predict")
  /\ local' = [local EXCEPT ![w].todo = Uncached(w)]
  /\ pc' = [pc EXCEPT ![w] = "unscored"]
  /\ UNCHANGED <<database, job, request>>

FailUnscored(w) ==
  /\ At(w, "unscored")
  /\ \E f \in local[w].todo :
       FailDocument(w, f, IF local[w].todo = {f} THEN "finish" ELSE "unscored")

CheckAttach(w) ==
  /\ At(w, "attach")
  /\ IF local[w].todo # {}
     THEN \E f \in local[w].todo : CheckThen(w, "store", [local[w] EXCEPT !.cur = f])
     ELSE /\ pc' = [pc EXCEPT ![w] = "finish"]
          /\ UNCHANGED <<job, local, request>>
  /\ UNCHANGED database

\* Use the cached result or persist the new one, and complete the document.
AttachResult(w) ==
  LET me == local[w]
      f == me.cur
  IN
  /\ At(w, "store")
  /\ f \in me.hits => f \in results
  /\ results' = results \cup {f}
  /\ PutDoc(w, f, [Row(w, f) EXCEPT !.status = "completed", !.result = TRUE], "attach",
            [me EXCEPT !.count = Counted(w), !.todo = @ \ {f}, !.cur = NoFile])
  /\ progress' = [progress EXCEPT ![job[w]] = Counted(w)]
  /\ Beat(w)
  /\ UNCHANGED <<status, attempts, contents>>

\* The cached result found while preparing was deleted meanwhile: the update of
\* last_accessed_at matches no row and process() raises.
ResultVanished(w) ==
  LET f == local[w].cur IN
  /\ At(w, "store")
  /\ f \in local[w].hits /\ f \notin results
  /\ Release(w)
  /\ UNCHANGED <<database, request>>

\* Higher score first; the file name decides between equal scores.
Before(f, g) == Score[f] > Score[g] \/ (Score[f] = Score[g] /\ f < g)
RankIn(f, S) == Cardinality({g \in S : Before(g, f)}) + 1

\* _finish: rank what this session completed. The status is written only when it
\* differs from the session's copy.
Finish(w) ==
  LET me == local[w]
      completed == {f \in me.prepared : me.view[f] = "completed"}
      outcome == IF \E f \in Files : me.view[f] = "failed"
                 THEN "completed_with_errors" ELSE "completed"
  IN
  /\ At(w, "finish")
  /\ docs' = [docs EXCEPT ![job[w]] =
                [f \in Files |-> IF f \in completed
                                 THEN [@[f] EXCEPT !.rank = RankIn(f, completed)] ELSE @[f]]]
  /\ status' = IF me.seen = outcome THEN status ELSE [status EXCEPT ![job[w]] = outcome]
  /\ Beat(w)
  /\ Release(w)
  /\ UNCHANGED <<attempts, progress, contents, results, request>>

----------------------------------------------------------------------------
(* API requests: each reads in one statement and writes in a later one.    *)

Idle(c) == request[c].op = "none"
Answer(c) == request' = [request EXCEPT ![c] = NoRequest]

\* create_job counts the user's active and stored jobs ...
ReadForCreate(c) ==
  /\ Idle(c)
  /\ Cardinality({j \in Jobs : status[j] \in Active}) < MaxActive
  /\ Cardinality({j \in Jobs : Exists(j)}) < MaxStored
  /\ request' = [request EXCEPT ![c].op = "create"]
  /\ UNCHANGED <<database, pc, job, local>>

\* ... and inserts the job after the uploads have been staged.
CreateJob(c) ==
  /\ request[c].op = "create"
  /\ \E j \in Jobs : /\ status[j] = "absent"
                     /\ status' = [status EXCEPT ![j] = "queued"]
  /\ Answer(c)
  /\ UNCHANGED <<heartbeat, attempts, progress, docs, contents, results, pc, job, local>>

\* cancel_job reads the job (owned_job); in any other status it changes nothing.
ReadForCancel(c, j) ==
  /\ Idle(c)
  /\ status[j] \in {"queued", "processing"}
  /\ request' = [request EXCEPT ![c].op = "cancel", ![c].job = j, ![c].seen = status[j]]
  /\ UNCHANGED <<database, pc, job, local>>

\* delete_job reads the job and what its documents refer to, and refuses an active job.
ReadForDelete(c, j) ==
  /\ Idle(c)
  /\ Exists(j)
  /\ status[j] \notin {"processing", "cancellation_requested"}
  /\ request' = [request EXCEPT ![c].op = "delete", ![c].job = j,
                   ![c].content = {f \in Files : docs[j][f].content},
                   ![c].result = {f \in Files : docs[j][f].result}]
  /\ UNCHANGED <<database, pc, job, local>>

\* cancel_job decides by the status it read and writes without a condition.
CancelJob(c) ==
  LET j == request[c].job
      outcome == CASE request[c].seen = "queued" -> "cancelled"
                   [] request[c].seen = "processing" -> "cancellation_requested"
  IN
  /\ request[c].op = "cancel"
  /\ status' = IF Exists(j) THEN [status EXCEPT ![j] = outcome] ELSE status
  /\ Answer(c)
  /\ UNCHANGED <<heartbeat, attempts, progress, docs, contents, results, pc, job, local>>

\* Mutant of StillReferenced: the results are dropped without counting references.
NeverReferenced(j, f) == FALSE

\* Another job's document refers to the result of the file.
StillReferenced(j, f) == \E i \in Jobs \ {j} : Exists(i) /\ docs[i][f].result

\* delete_job removes the row it read, then the results and the content it
\* referred to that nothing refers to any more.
DeleteJob(c) ==
  LET j == request[c].job
      Held(f) == \E i \in Jobs \ {j} : Exists(i) /\ docs[i][f].content
      left == results \ {f \in request[c].result : ~StillReferenced(j, f)}
  IN
  /\ request[c].op = "delete"
  /\ status' = [status EXCEPT ![j] = "deleted"]
  /\ heartbeat' = [heartbeat EXCEPT ![j] = "none"]
  /\ docs' = [docs EXCEPT ![j] = [f \in Files |-> NewDoc]]
  /\ progress' = [progress EXCEPT ![j] = 0]
  /\ results' = left
  /\ contents' = contents \ {f \in request[c].content : ~Held(f) /\ f \notin left}
  /\ Answer(c)
  /\ UNCHANGED <<attempts, pc, job, local>>

----------------------------------------------------------------------------
\* job_stale_after_minutes pass without a heartbeat. A live worker beats before
\* each extraction, after each batch and each attachment, so without a stall this
\* happens only to a row no worker is working on.
HeartbeatExpires(j) ==
  /\ heartbeat[j] = "fresh"
  /\ StallsAllowed \/ \A w \in Workers : job[w] # j
  /\ heartbeat' = [heartbeat EXCEPT ![j] = "stale"]
  /\ UNCHANGED <<status, attempts, progress, docs, contents, results, pc, job, local, request>>

WorkerStep(w) ==
  \/ Recover(w) \/ Claim(w) \/ Begin(w) \/ RowVanished(w)
  \/ NextDocument(w) \/ StartExtraction(w) \/ ReuseContent(w) \/ LinkContent(w)
  \/ ContentVanished(w) \/ StartChunking(w) \/ DocumentReady(w) \/ PrepareFails(w)
  \/ CancelRemaining(w) \/ StartRanking(w) \/ CheckBatch(w) \/ PredictBatch(w)
  \/ InferenceFails(w) \/ FailUnscored(w) \/ CheckAttach(w) \/ AttachResult(w)
  \/ ResultVanished(w) \/ Finish(w)

RequestStep(c) ==
  \/ ReadForCreate(c) \/ CreateJob(c)
  \/ \E j \in Jobs : ReadForCancel(c, j) \/ ReadForDelete(c, j)
  \/ CancelJob(c) \/ DeleteJob(c)

Next ==
  \/ \E w \in Workers : WorkerStep(w) \/ Crash(w)
  \/ \E c \in Clients : RequestStep(c)
  \/ \E j \in Jobs : HeartbeatExpires(j)

Spec == Init /\ [][Next]_vars

\* The worker loop never stops, a restarted process starts over, and time passes.
Fairness ==
  /\ \A w \in Workers : WF_vars(WorkerStep(w))
  /\ \A j \in Jobs : WF_vars(HeartbeatExpires(j))

FairSpec == Spec /\ Fairness

----------------------------------------------------------------------------
(* Properties                                                              *)

Document == [status : DocStatus, content : BOOLEAN, result : BOOLEAN, rank : Nat]
Session == [seen : JobStatus, view : [Files -> DocStatus], count : Nat,
            todo : SUBSET Files, cur : Files \cup {NoFile},
            prepared : SUBSET Files, hits : SUBSET Files]
Request == [op : {"none", "create", "cancel", "delete"},
            job : Jobs \cup {NoJob}, seen : JobStatus,
            content : SUBSET Files, result : SUBSET Files]

\* A worker holds a job exactly while process() runs, and a document while it
\* handles one; a request that writes has read what it writes about.
HoldingOK ==
  /\ \A w \in Workers :
       /\ pc[w] \in Working <=> job[w] \in Jobs
       /\ pc[w] \in {"lookup", "extract", "link", "chunk", "index", "store"}
            => local[w].cur \in Files
  /\ \A c \in Clients :
       request[c].op = "cancel" => request[c].seen \in {"queued", "processing"}

\* Every variable keeps its type.
TypeOK ==
  /\ status \in [Jobs -> JobStatus]
  /\ heartbeat \in [Jobs -> {"none", "fresh", "stale"}]
  /\ attempts \in [Jobs -> Nat]
  /\ progress \in [Jobs -> Nat]
  /\ docs \in [Jobs -> [Files -> Document]]
  /\ contents \subseteq Files
  /\ results \subseteq Files
  /\ pc \in [Workers -> Polling \cup Working]
  /\ job \in [Workers -> Jobs \cup {NoJob}]
  /\ local \in [Workers -> Session]
  /\ request \in [Clients -> Request]
  /\ HoldingOK

\* "Stale processing jobs are requeued up to JOB_MAX_ATTEMPTS": however claims,
\* recoveries, crashes and cancellations interleave, no job starts an attempt
\* beyond the limit.
AttemptsBounded ==
  \A j \in Jobs : /\ attempts[j] <= MaxAttempts
                  /\ status[j] = "queued" => attempts[j] < MaxAttempts

\* No fence names the owner of a job, yet as long as a live worker keeps its
\* heartbeat no two workers ever hold the same job.
OneWorkerPerJob ==
  \A v, w \in Workers : job[v] = job[w] /\ job[v] # NoJob => v = w

RanksDense(j) ==
  LET done == {f \in Files : docs[j][f].status = "completed"}
  IN {docs[j][f].rank : f \in done} = 1 .. Cardinality(done)

\* A job reported completed has every document completed, with a result row that
\* still exists and a rank of its own, and counts all of them as processed; one
\* completed with errors has a failed document and dense ranks for the others.
OutcomeMatchesDocuments ==
  \A j \in Jobs :
    /\ status[j] = "completed" =>
         /\ \A f \in Files : docs[j][f].status = "completed" /\ docs[j][f].result
         /\ progress[j] = Cardinality(Files)
    /\ status[j] = "completed_with_errors" =>
         \E f \in Files : docs[j][f].status = "failed"
    /\ status[j] \in {"completed", "completed_with_errors"} => RanksDense(j)

\* A document never refers to a result or to a content row that another job's
\* deletion has removed, and no cached result outlives the content it scores.
CacheReferencesHold ==
  /\ \A j \in Jobs, f \in Files : /\ docs[j][f].result => f \in results
                                  /\ docs[j][f].content => f \in contents
  /\ results \subseteq contents

\* processed_files never exceeds total_files, over retries and even when two
\* sessions write their own counts to the same job.
ProgressBounded == \A j \in Jobs : progress[j] <= Cardinality(Files)

\* A job that has failed or completed is never reopened: the only later writes are
\* a cancellation decided on an earlier read, and its deletion.
OutcomeIsFinal ==
  [][\A j \in Jobs :
       status[j] \in {"completed", "completed_with_errors", "failed"} =>
         status'[j] \in {status[j], "cancellation_requested", "cancelled", "deleted"}]_vars

\* A cancellation request written over a row that recovery had already released:
\* no worker holds it and there is no heartbeat to become stale.
Wedged(j) ==
  /\ status[j] = "cancellation_requested" /\ heartbeat[j] = "none"
  /\ \A w \in Workers : job[w] # j

\* Every accepted job is finished, cancelled, failed or deleted in the end, whatever
\* crashes: the wedge above is the only way to stay active for ever.
EveryJobSettles ==
  \A j \in Jobs : (status[j] \in Active) ~> (status[j] \in Terminal \cup {"deleted"} \/ Wedged(j))

\* README.md: "stale cancellation requests are finalized as cancelled".
CancellationSettles ==
  \A j \in Jobs : (status[j] = "cancellation_requested") ~> (status[j] # "cancellation_requested")
=============================================================================
