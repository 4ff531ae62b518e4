------------------------- MODULE RankingJobsProofs -------------------------
(***************************************************************************)
(* Theorems about RankingJobs, for every set of jobs, files, workers and   *)
(* requests and every limit: types, the retry limit, one worker for a job, *)
(* the caches, the count of processed documents, and what an outcome says. *)
(*                                                                         *)
(* The caches, the count and the limit are safe whatever the workers do.   *)
(* One worker for a job, final outcomes and outcomes that agree with the   *)
(* documents are proved for workers that do not outlive their heartbeat.   *)
(*                                                                         *)
(* No session lasts for ever: a step of a worker ends it or lowers the     *)
(* distance to its end, and each session has cost an attempt of its job.   *)
(***************************************************************************)
EXTENDS RankingJobs, FiniteSetTheorems, TLAPS

----------------------------------------------------------------------------
(* Types                                                                   *)

\* A rank is a natural number: the files of a job are finite.
LEMMA RankType == \A f \in Files, S \in SUBSET Files : RankIn(f, S) \in Nat
<1> SUFFICES ASSUME NEW f \in Files, NEW S \in SUBSET Files
             PROVE  RankIn(f, S) \in Nat
  OBVIOUS
<1>1. IsFiniteSet(S)
  BY FS_Subset, ConstantsAssumption
<1>2. IsFiniteSet({g \in S : Before(g, f)})
  BY <1>1, FS_Subset
<1> QED
  BY <1>2, FS_CardinalityType DEF RankIn

\* What the three helpers of process() write has the right type.
WorkerTypeOK ==
  /\ pc \in [Workers -> Polling \cup Working]
  /\ job \in [Workers -> Jobs \cup {NoJob}]
  /\ local \in [Workers -> Session]
  /\ \A w \in Workers :
       /\ pc[w] \in Working <=> job[w] \in Jobs
       /\ pc[w] \in {"lookup", "extract", "link", "chunk", "index", "store"}
            => local[w].cur \in Files

LEMMA NoSessionType == NoSession \in Session
BY DEF NoSession, Session, JobStatus, NoRow, DocStatus

LEMMA ReleaseType ==
  ASSUME WorkerTypeOK, NEW w \in Workers, Release(w)
  PROVE  WorkerTypeOK'
BY NoSessionType, ConstantsAssumption DEF WorkerTypeOK, Release, Polling, Working

\* Moving a working worker on to a label with a session that fits the label.
LEMMA AdvanceType ==
  ASSUME WorkerTypeOK, NEW w \in Workers, pc[w] \in Working, UNCHANGED job,
         NEW label \in Working, pc' = [pc EXCEPT ![w] = label],
         NEW s \in Session, local' = [local EXCEPT ![w] = s],
         label \in {"lookup", "extract", "link", "chunk", "index", "store"} => s.cur \in Files
  PROVE  WorkerTypeOK'
<1>1. pc' \in [Workers -> Polling \cup Working] /\ local' \in [Workers -> Session]
  BY DEF WorkerTypeOK
<1>2. ASSUME NEW v \in Workers
      PROVE  /\ pc'[v] \in Working <=> job'[v] \in Jobs
             /\ pc'[v] \in {"lookup", "extract", "link", "chunk", "index", "store"}
                  => local'[v].cur \in Files
  <2>1. CASE v = w
    BY <2>1 DEF WorkerTypeOK
  <2>2. CASE v # w
    BY <2>2 DEF WorkerTypeOK
  <2> QED
    BY <2>1, <2>2
<1> QED
  BY <1>1, <1>2 DEF WorkerTypeOK

\* The session a worker holds, field by field.
LEMMA SessionType ==
  ASSUME TypeOK, NEW w \in Workers
  PROVE  /\ local[w] \in Session
         /\ local[w].seen \in JobStatus /\ local[w].count \in Nat
         /\ local[w].view \in [Files -> DocStatus]
         /\ local[w].todo \subseteq Files /\ local[w].prepared \subseteq Files
         /\ local[w].hits \subseteq Files /\ local[w].cur \in Files \cup {NoFile}
BY DEF TypeOK, Session

\* A step that changes only the worker's variables preserves the types.
LEMMA WorkerTypeSuffices ==
  TypeOK /\ WorkerTypeOK' /\ UNCHANGED <<database, request>> => TypeOK'
BY DEF TypeOK, HoldingOK, WorkerTypeOK, database

LEMMA CheckThenType ==
  ASSUME TypeOK, NEW w \in Workers, pc[w] \in Working,
         NEW s \in Session, NEW next \in Working, CheckThen(w, next, s),
         next \in {"lookup", "extract", "link", "chunk", "index", "store"} => s.cur \in Files
  PROVE  WorkerTypeOK' /\ UNCHANGED request
<1>1. pc[w] \in Working
  OBVIOUS
<1>2. job[w] \in Jobs /\ status[job[w]] \in JobStatus
  BY <1>1 DEF TypeOK, HoldingOK
<1>3. [s EXCEPT !.seen = status[job[w]]] \in Session
  BY <1>2 DEF Session
<1>4. [s EXCEPT !.seen = status[job[w]]].cur = s.cur
  BY DEF Session
<1>5. WorkerTypeOK
  BY DEF TypeOK, HoldingOK, WorkerTypeOK
<1>6. "cancelling" \in Working /\ "cancelling" \notin {"lookup", "extract", "link", "chunk", "index", "store"}
  BY DEF Working
<1>7. CASE status[job[w]] = "cancellation_requested"
  BY <1>1, <1>3, <1>5, <1>6, <1>7, AdvanceType DEF CheckThen
<1>8. CASE status[job[w]] # "cancellation_requested"
  BY <1>1, <1>3, <1>4, <1>5, <1>8, AdvanceType DEF CheckThen
<1> QED
  BY <1>7, <1>8 DEF CheckThen

LEMMA PutDocType ==
  ASSUME TypeOK, NEW w \in Workers, pc[w] \in Working, NEW f \in Files,
         NEW row \in Document, NEW s \in Session, NEW label \in Working,
         PutDoc(w, f, row, label, s),
         label \in {"lookup", "extract", "link", "chunk", "index", "store"} => s.cur \in Files
  PROVE  WorkerTypeOK' /\ UNCHANGED request /\ docs' \in [Jobs -> [Files -> Document]]
<1>1. docs' \in [Jobs -> [Files -> Document]]
  BY DEF TypeOK, HoldingOK, PutDoc
<1>2. row.status \in DocStatus
  BY DEF Document
<1>3. [s EXCEPT !.view[f] = row.status] \in Session
  BY <1>2 DEF Session
<1>4. [s EXCEPT !.view[f] = row.status].cur = s.cur
  BY DEF Session
<1>5. WorkerTypeOK
  BY DEF TypeOK, HoldingOK, WorkerTypeOK
<1> QED
  BY <1>1, <1>3, <1>4, <1>5, AdvanceType DEF PutDoc

\* A document row keeps its type when one field changes.
LEMMA DocumentType ==
  ASSUME NEW d \in Document
  PROVE  /\ d.status \in DocStatus
         /\ \A s \in DocStatus : [d EXCEPT !.status = s] \in Document
         /\ [d EXCEPT !.content = TRUE] \in Document
         /\ \A n \in Nat : [d EXCEPT !.rank = n] \in Document
BY DEF Document

LEMMA DocsType ==
  ASSUME TypeOK
  PROVE  \A j \in Jobs, g \in Files : docs[j][g] \in Document
BY DEF TypeOK

LEMMA RowType ==
  ASSUME TypeOK, NEW w \in Workers, pc[w] \in Working, NEW f \in Files
  PROVE  /\ \A d \in DocStatus : [Row(w, f) EXCEPT !.status = d] \in Document
         /\ \A d \in DocStatus : [Row(w, f) EXCEPT !.status = d, !.result = TRUE] \in Document
<1>1. Row(w, f) \in Document
  BY DEF TypeOK, HoldingOK, Row
<1> QED
  BY <1>1 DEF Document

\* The rest of TypeOK when the worker's variables are known to keep their types.
LEMMA TypeFromParts ==
  ASSUME TypeOK, WorkerTypeOK', UNCHANGED request,
         status' \in [Jobs -> JobStatus],
         heartbeat' \in [Jobs -> {"none", "fresh", "stale"}],
         attempts' \in [Jobs -> Nat], progress' \in [Jobs -> Nat],
         docs' \in [Jobs -> [Files -> Document]],
         contents' \subseteq Files, results' \subseteq Files
  PROVE  TypeOK'
BY DEF TypeOK, HoldingOK, WorkerTypeOK

LEMMA FailDocumentType ==
  ASSUME TypeOK, NEW w \in Workers, pc[w] \in Working, NEW f \in Files,
         NEW label \in {"next", "unscored", "finish"}, FailDocument(w, f, label)
  PROVE  TypeOK'
<1> DEFINE me == local[w]
           n == IF me.view[f] \in {"failed", "completed"} THEN me.count ELSE Counted(w)
           s == [me EXCEPT !.count = n, !.todo = @ \ {f}, !.cur = NoFile]
<1>1. n \in Nat
  BY SessionType DEF Counted
<1>2. s \in Session
  BY <1>1, SessionType DEF Session
<1>3. [Row(w, f) EXCEPT !.status = "failed"] \in Document
  BY RowType DEF DocStatus
<1>4. PutDoc(w, f, [Row(w, f) EXCEPT !.status = "failed"], label, s)
  BY DEF FailDocument
<1>5. label \in Working /\ label \notin {"lookup", "extract", "link", "chunk", "index", "store"}
  BY DEF Working
<1>6. WorkerTypeOK' /\ UNCHANGED request /\ docs' \in [Jobs -> [Files -> Document]]
  BY <1>2, <1>3, <1>4, <1>5, PutDocType
<1>7. progress' \in [Jobs -> Nat]
  BY <1>1 DEF FailDocument, TypeOK
<1> QED
  BY <1>6, <1>7, TypeFromParts DEF FailDocument, TypeOK

\* Every step of a worker, and its crash, preserves the types.
LEMMA WorkerStepType ==
  ASSUME TypeOK, NEW w \in Workers, WorkerStep(w) \/ Crash(w)
  PROVE  TypeOK'
<1> DEFINE me == local[w]
           f == me.cur
<1> USE DEF database
<1>a. WorkerTypeOK /\ me \in Session
  BY SessionType DEF TypeOK, HoldingOK, WorkerTypeOK
<1>b. /\ me.seen \in JobStatus /\ me.count \in Nat /\ me.view \in [Files -> DocStatus]
      /\ me.todo \subseteq Files /\ me.prepared \subseteq Files
      /\ me.hits \subseteq Files /\ me.cur \in Files \cup {NoFile}
  BY SessionType
<1>c. pc[w] \in {"lookup", "extract", "link", "chunk", "index", "store"} => f \in Files
  BY DEF TypeOK, HoldingOK
<1>d. ASSUME Release(w) PROVE WorkerTypeOK'
  BY <1>a, <1>d, ReleaseType
<1>1. CASE Recover(w)
  <2>1. \A j \in Jobs : RecoveredStatus(j) \in JobStatus
    BY DEF RecoveredStatus, JobStatus, Terminal, Active
  <2>2. status' \in [Jobs -> JobStatus] /\ heartbeat' \in [Jobs -> {"none", "fresh", "stale"}]
    BY <1>1, <2>1 DEF Recover, TypeOK
  <2>3. \A j \in Jobs, g \in Files :
          [docs[j][g] EXCEPT !.status = Settle(docs[j][g].status)] \in Document
    <3>1. \A d \in DocStatus : Settle(d) \in DocStatus
      BY DEF Settle, DocStatus
    <3> QED
      BY <3>1, DocsType, DocumentType
  <2>4. docs' \in [Jobs -> [Files -> Document]]
    BY <1>1, <2>3 DEF Recover, TypeOK
  <2>5. WorkerTypeOK'
    BY <1>1, <1>a DEF Recover, WorkerTypeOK, Polling, Working
  <2> QED
    BY <1>1, <2>2, <2>4, <2>5, TypeFromParts DEF Recover, TypeOK
<1>2. CASE Claim(w)
  <2>1. CASE \E j \in Jobs : pc' = [pc EXCEPT ![w] = "begin"] /\ job' = [job EXCEPT ![w] = j]
                             /\ status' = [status EXCEPT ![j] = "processing"]
                             /\ heartbeat' = [heartbeat EXCEPT ![j] = "fresh"]
                             /\ attempts' = [attempts EXCEPT ![j] = @ + 1]
    <3>1. WorkerTypeOK'
      BY <1>2, <1>a, <2>1, ConstantsAssumption DEF Claim, WorkerTypeOK, Polling, Working
    <3>2. status' \in [Jobs -> JobStatus] /\ heartbeat' \in [Jobs -> {"none", "fresh", "stale"}]
          /\ attempts' \in [Jobs -> Nat]
      BY <2>1 DEF TypeOK, JobStatus, Active
    <3> QED
      BY <1>2, <3>1, <3>2, TypeFromParts DEF Claim, TypeOK
  <2>2. CASE pc' = [pc EXCEPT ![w] = "recover"] /\ UNCHANGED <<status, heartbeat, attempts, job>>
    <3>1. WorkerTypeOK'
      BY <1>2, <1>a, <2>2 DEF Claim, WorkerTypeOK, Polling, Working
    <3> QED
      BY <1>2, <2>2, <3>1, TypeFromParts DEF Claim, TypeOK
  <2> QED
    BY <1>2, <2>1, <2>2 DEF Claim
<1>3. CASE Begin(w)
  <2>1. CASE status[job[w]] # "processing"
    BY <1>3, <2>1, <1>d, WorkerTypeSuffices DEF Begin
  <2>2. CASE status[job[w]] = "processing"
    <3> DEFINE s == [NoSession EXCEPT !.seen = "processing",
                       !.view = [g \in Files |-> docs[job[w]][g].status],
                       !.count = progress[job[w]], !.todo = Files]
    <3>1. pc[w] \in Working /\ "next" \in Working
      BY <1>3 DEF Begin, Working
    <3>2. job[w] \in Jobs
      BY <3>1 DEF TypeOK, HoldingOK
    <3>3. [g \in Files |-> docs[job[w]][g].status] \in [Files -> DocStatus]
          /\ progress[job[w]] \in Nat
      BY <3>2 DEF TypeOK, Document
    <3>4. s \in Session
      BY <3>3, NoSessionType DEF Session, JobStatus, Active
    <3>5. WorkerTypeOK'
      BY <1>3, <1>a, <2>2, <3>1, <3>4, AdvanceType DEF Begin
    <3> QED
      BY <1>3, <3>5, WorkerTypeSuffices DEF Begin
  <2> QED
    BY <2>1, <2>2
<1>4. CASE RowVanished(w) \/ ContentVanished(w) \/ ResultVanished(w) \/ Crash(w)
  BY <1>4, <1>d, WorkerTypeSuffices DEF RowVanished, ContentVanished, ResultVanished, Crash
<1>5. CASE NextDocument(w)
  <2>1. pc[w] \in Working /\ "lookup" \in Working
    BY <1>5 DEF NextDocument, At, Working
  <2>2. StartingCount(w) \in Nat
    BY <1>b DEF StartingCount
  <2>3. PICK g \in me.todo : CheckThen(w, "lookup", [me EXCEPT !.cur = g, !.count = StartingCount(w)])
    BY <1>5 DEF NextDocument
  <2>4. /\ [me EXCEPT !.cur = g, !.count = StartingCount(w)] \in Session
        /\ [me EXCEPT !.cur = g, !.count = StartingCount(w)].cur \in Files
    BY <1>a, <1>b, <2>2 DEF Session
  <2>5. WorkerTypeOK' /\ UNCHANGED request
    BY <2>1, <2>3, <2>4, CheckThenType
  <2>6. progress' \in [Jobs -> Nat]
    BY <1>5, <2>2 DEF NextDocument, TypeOK
  <2> QED
    BY <1>5, <2>5, <2>6, TypeFromParts DEF NextDocument, TypeOK
<1>6. CASE StartExtraction(w)
  <2>1. pc[w] \in Working /\ f \in Files /\ "extract" \in Working
    BY <1>6, <1>c DEF StartExtraction, At, Working
  <2>2. [Row(w, f) EXCEPT !.status = "extracting"] \in Document
    BY <2>1, RowType DEF DocStatus
  <2>3. WorkerTypeOK' /\ UNCHANGED request /\ docs' \in [Jobs -> [Files -> Document]]
    BY <1>6, <1>a, <2>1, <2>2, PutDocType DEF StartExtraction
  <2>4. heartbeat' \in [Jobs -> {"none", "fresh", "stale"}]
    BY <1>6 DEF StartExtraction, Beat, TypeOK
  <2> QED
    BY <1>6, <2>3, <2>4, TypeFromParts DEF StartExtraction, TypeOK
<1>7. CASE ReuseContent(w)
  <2>1. pc[w] \in Working /\ f \in Files /\ "link" \in Working
    BY <1>7, <1>c DEF ReuseContent, At, Working
  <2>2. WorkerTypeOK'
    BY <1>7, <2>1 DEF ReuseContent, TypeOK, HoldingOK, WorkerTypeOK
  <2> QED
    BY <1>7, <2>2, WorkerTypeSuffices DEF ReuseContent
<1>8. CASE LinkContent(w)
  <2>1. pc[w] \in Working /\ f \in Files /\ "chunk" \in Working /\ job[w] \in Jobs
    BY <1>8, <1>c DEF LinkContent, At, Working, TypeOK, HoldingOK
  <2>2. WorkerTypeOK' /\ UNCHANGED request
    BY <1>8, <1>a, <2>1, CheckThenType DEF LinkContent
  <2>3. docs' \in [Jobs -> [Files -> Document]]
    <3>1. [docs[job[w]][f] EXCEPT !.content = TRUE] \in Document
      BY <2>1, DocsType, DocumentType
    <3>2. docs' = [docs EXCEPT ![job[w]] = [docs[job[w]] EXCEPT ![f] = [docs[job[w]][f] EXCEPT !.content = TRUE]]]
      BY <1>8 DEF LinkContent
    <3> QED
      BY <2>1, <3>1, <3>2 DEF TypeOK
  <2> QED
    BY <1>8, <2>1, <2>2, <2>3, TypeFromParts DEF LinkContent, TypeOK
<1>9. CASE StartChunking(w)
  <2>1. pc[w] \in Working /\ f \in Files /\ "index" \in Working
    BY <1>9, <1>c DEF StartChunking, At, Working
  <2>2. [Row(w, f) EXCEPT !.status = "chunking"] \in Document
    BY <2>1, RowType DEF DocStatus
  <2>3. WorkerTypeOK' /\ UNCHANGED request /\ docs' \in [Jobs -> [Files -> Document]]
    BY <1>9, <1>a, <2>1, <2>2, PutDocType DEF StartChunking
  <2> QED
    BY <1>9, <2>3, TypeFromParts DEF StartChunking, TypeOK
<1>10. CASE DocumentReady(w)
  <2> DEFINE s == [me EXCEPT !.todo = @ \ {f}, !.cur = NoFile,
                     !.prepared = @ \cup {f},
                     !.hits = IF f \in results THEN @ \cup {f} ELSE @]
  <2>1. pc[w] \in Working /\ f \in Files /\ "next" \in Working
    BY <1>10, <1>c DEF DocumentReady, At, Working
  <2>2. [Row(w, f) EXCEPT !.status = "ready"] \in Document
    BY <2>1, RowType DEF DocStatus
  <2>3. s \in Session
    BY <1>a, <1>b, <2>1 DEF Session
  <2>4. WorkerTypeOK' /\ UNCHANGED request /\ docs' \in [Jobs -> [Files -> Document]]
    BY <1>10, <2>1, <2>2, <2>3, PutDocType DEF DocumentReady
  <2> QED
    BY <1>10, <2>4, TypeFromParts DEF DocumentReady, TypeOK
<1>11. CASE PrepareFails(w)
  <2>1. pc[w] \in Working /\ f \in Files
    BY <1>11, <1>c DEF PrepareFails, At, Working
  <2> QED
    BY <1>11, <2>1, FailDocumentType DEF PrepareFails
<1>12. CASE FailUnscored(w)
  <2>1. pc[w] \in Working
    BY <1>12 DEF FailUnscored, At, Working
  <2>2. PICK g \in me.todo : FailDocument(w, g, IF me.todo = {g} THEN "finish" ELSE "unscored")
    BY <1>12 DEF FailUnscored
  <2>3. g \in Files
    BY <1>b
  <2> QED
    BY <2>1, <2>2, <2>3, FailDocumentType
<1>13. CASE CancelRemaining(w)
  <2>1. job[w] \in Jobs
    BY <1>13 DEF CancelRemaining, At, Working, TypeOK, HoldingOK
  <2>2. \A g \in Files : /\ docs[job[w]][g] \in Document
                         /\ [docs[job[w]][g] EXCEPT !.status = "cancelled"] \in Document
    BY <2>1, DocsType, DocumentType DEF DocStatus
  <2>3. docs' \in [Jobs -> [Files -> Document]]
    BY <1>13, <2>1, <2>2 DEF CancelRemaining, TypeOK
  <2>4. status' \in [Jobs -> JobStatus]
    BY <1>13 DEF CancelRemaining, TypeOK, JobStatus, Terminal
  <2>5. WorkerTypeOK' /\ UNCHANGED request
    BY <1>13, <1>d DEF CancelRemaining
  <2> QED
    BY <1>13, <2>3, <2>4, <2>5, TypeFromParts DEF CancelRemaining, TypeOK
<1>14. CASE StartRanking(w) \/ InferenceFails(w)
  <2>1. /\ pc[w] \in Working
        /\ [me EXCEPT !.todo = Uncached(w)] \in Session
    BY <1>14, <1>a, <1>b DEF StartRanking, InferenceFails, At, Working, Uncached, Session
  <2>2. /\ {"batch", "unscored"} \subseteq Working
        /\ \/ pc' = [pc EXCEPT ![w] = "batch"]
           \/ pc' = [pc EXCEPT ![w] = "unscored"]
        /\ local' = [local EXCEPT ![w] = [me EXCEPT !.todo = Uncached(w)]]
        /\ UNCHANGED <<database, job, request>>
    BY <1>14 DEF StartRanking, InferenceFails, Working
  <2>3. WorkerTypeOK'
    BY <1>a, <2>1, <2>2, AdvanceType
  <2> QED
    BY <2>2, <2>3, WorkerTypeSuffices
<1>15. CASE CheckBatch(w)
  <2>1. pc[w] \in Working /\ "predict" \in Working /\ "attach" \in Working
    BY <1>15 DEF CheckBatch, At, Working
  <2>2. CASE me.todo # {}
    <3>1. CheckThen(w, "predict", me) /\ UNCHANGED database
      BY <1>15, <2>2 DEF CheckBatch
    <3>2. WorkerTypeOK' /\ UNCHANGED request
      BY <1>a, <2>1, <3>1, CheckThenType
    <3> QED
      BY <3>1, <3>2, WorkerTypeSuffices
  <2>3. CASE me.todo = {}
    <3>1. [me EXCEPT !.todo = me.prepared] \in Session
      BY <1>a, <1>b DEF Session
    <3>2. WorkerTypeOK'
      BY <1>15, <1>a, <2>1, <2>3, <3>1, AdvanceType DEF CheckBatch
    <3> QED
      BY <1>15, <2>3, <3>2, WorkerTypeSuffices DEF CheckBatch
  <2> QED
    BY <2>2, <2>3
<1>16. CASE PredictBatch(w)
  <2>1. pc[w] \in Working /\ "batch" \in Working
    BY <1>16 DEF PredictBatch, At, Working
  <2>2. PICK g \in me.todo : local' = [local EXCEPT ![w] = [me EXCEPT !.todo = @ \ {g}]]
    BY <1>16 DEF PredictBatch
  <2>3. [me EXCEPT !.todo = @ \ {g}] \in Session
    BY <1>a, <1>b DEF Session
  <2>4. WorkerTypeOK'
    BY <1>16, <1>a, <2>1, <2>2, <2>3, AdvanceType DEF PredictBatch
  <2>5. heartbeat' \in [Jobs -> {"none", "fresh", "stale"}]
    BY <1>16 DEF PredictBatch, Beat, TypeOK
  <2> QED
    BY <1>16, <2>4, <2>5, TypeFromParts DEF PredictBatch, TypeOK
<1>17. CASE CheckAttach(w)
  <2>1. pc[w] \in Working /\ "store" \in Working /\ "finish" \in Working
    BY <1>17 DEF CheckAttach, At, Working
  <2>2. CASE me.todo # {}
    <3>1. PICK g \in me.todo : CheckThen(w, "store", [me EXCEPT !.cur = g])
      BY <1>17, <2>2 DEF CheckAttach
    <3>2. [me EXCEPT !.cur = g] \in Session /\ [me EXCEPT !.cur = g].cur \in Files
      BY <1>a, <1>b DEF Session
    <3>3. WorkerTypeOK' /\ UNCHANGED request
      BY <2>1, <3>1, <3>2, CheckThenType
    <3> QED
      BY <1>17, <3>3, WorkerTypeSuffices DEF CheckAttach
  <2>3. CASE me.todo = {}
    <3>1. /\ pc' = [pc EXCEPT ![w] = "finish"]
          /\ UNCHANGED <<database, job, local, request>>
      BY <1>17, <2>3 DEF CheckAttach
    <3>2. WorkerTypeOK'
      BY <1>a, <2>1, <3>1 DEF WorkerTypeOK
    <3> QED
      BY <3>1, <3>2, WorkerTypeSuffices
  <2> QED
    BY <2>2, <2>3
<1>18. CASE AttachResult(w)
  <2> DEFINE s == [me EXCEPT !.count = Counted(w), !.todo = @ \ {f}, !.cur = NoFile]
  <2>1. pc[w] \in Working /\ f \in Files /\ "attach" \in Working
    BY <1>18, <1>c DEF AttachResult, At, Working
  <2>2. [Row(w, f) EXCEPT !.status = "completed", !.result = TRUE] \in Document
    BY <2>1, RowType DEF DocStatus
  <2>3. Counted(w) \in Nat
    BY <1>b DEF Counted
  <2>4. s \in Session
    BY <1>a, <1>b, <2>3 DEF Session
  <2>5. WorkerTypeOK' /\ UNCHANGED request /\ docs' \in [Jobs -> [Files -> Document]]
    BY <1>18, <2>1, <2>2, <2>4, PutDocType DEF AttachResult
  <2>6. /\ progress' \in [Jobs -> Nat] /\ results' \subseteq Files
        /\ heartbeat' \in [Jobs -> {"none", "fresh", "stale"}]
    BY <1>18, <2>1, <2>3 DEF AttachResult, Beat, TypeOK
  <2> QED
    BY <1>18, <2>5, <2>6, TypeFromParts DEF AttachResult, TypeOK
<1>19. CASE Finish(w)
  <2> DEFINE completed == {g \in me.prepared : me.view[g] = "completed"}
             outcome == IF \E g \in Files : me.view[g] = "failed"
                        THEN "completed_with_errors" ELSE "completed"
  <2>1. job[w] \in Jobs
    BY <1>19 DEF Finish, At, Working, TypeOK, HoldingOK
  <2>2. completed \in SUBSET Files
    BY <1>b
  <2>3. \A g \in Files : RankIn(g, completed) \in Nat
    BY <2>2, RankType
  <2>4. \A g \in Files : /\ docs[job[w]][g] \in Document
                         /\ [docs[job[w]][g] EXCEPT !.rank = RankIn(g, completed)] \in Document
    BY <2>1, <2>3, DocsType, DocumentType
  <2>5. docs' \in [Jobs -> [Files -> Document]]
    BY <1>19, <2>1, <2>4 DEF Finish, TypeOK
  <2>6. status' \in [Jobs -> JobStatus]
    BY <1>19 DEF Finish, TypeOK, JobStatus, Terminal
  <2>7. WorkerTypeOK' /\ UNCHANGED request
    BY <1>19, <1>d DEF Finish
  <2>8. heartbeat' \in [Jobs -> {"none", "fresh", "stale"}]
    BY <1>19 DEF Finish, Beat, TypeOK
  <2> QED
    BY <1>19, <2>5, <2>6, <2>7, <2>8, TypeFromParts DEF Finish, TypeOK
<1> QED
  BY <1>1, <1>2, <1>3, <1>4, <1>5, <1>6, <1>7, <1>8, <1>9, <1>10, <1>11, <1>12, <1>13,
     <1>14, <1>15, <1>16, <1>17, <1>18, <1>19 DEF WorkerStep

\* The rest of TypeOK when the requests are known to keep their types.
LEMMA RequestTypeSuffices ==
  ASSUME TypeOK, UNCHANGED <<pc, job, local>>,
         request' \in [Clients -> Request],
         \A c \in Clients :
           request'[c].op = "cancel" => request'[c].seen \in {"queued", "processing"},
         status' \in [Jobs -> JobStatus],
         heartbeat' \in [Jobs -> {"none", "fresh", "stale"}],
         attempts' \in [Jobs -> Nat], progress' \in [Jobs -> Nat],
         docs' \in [Jobs -> [Files -> Document]],
         contents' \subseteq Files, results' \subseteq Files
  PROVE  TypeOK'
BY DEF TypeOK, HoldingOK

\* An answered request has read nothing.
LEMMA AnswerType ==
  ASSUME TypeOK, NEW c \in Clients, Answer(c)
  PROVE  /\ request' \in [Clients -> Request]
         /\ \A d \in Clients :
              request'[d].op = "cancel" => request'[d].seen \in {"queued", "processing"}
<1>1. NoRequest \in Request /\ NoRequest.op # "cancel"
  BY DEF NoRequest, Request, JobStatus, NoRow
<1> QED
  BY <1>1 DEF Answer, TypeOK, HoldingOK

\* Every step of an API request preserves the types.
LEMMA RequestStepType ==
  ASSUME TypeOK, NEW c \in Clients, RequestStep(c)
  PROVE  TypeOK'
<1> DEFINE r == request[c]
<1> USE DEF database
<1>a. r \in Request
  BY DEF TypeOK
<1>b. /\ r.op \in {"none", "create", "cancel", "delete"} /\ r.job \in Jobs \cup {NoJob}
      /\ r.seen \in JobStatus /\ r.content \subseteq Files /\ r.result \subseteq Files
  BY <1>a DEF Request
<1>1. CASE ReadForCreate(c)
  <2>1. [r EXCEPT !.op = "create"] \in Request
    BY <1>a DEF Request
  <2>2. [r EXCEPT !.op = "create"].op # "cancel"
    BY <1>a DEF Request
  <2>3. request' = [request EXCEPT ![c] = [r EXCEPT !.op = "create"]]
    BY <1>1 DEF ReadForCreate
  <2> QED
    BY <1>1, <2>1, <2>2, <2>3, RequestTypeSuffices DEF ReadForCreate, TypeOK, HoldingOK
<1>2. CASE CreateJob(c)
  <2>1. status' \in [Jobs -> JobStatus]
    BY <1>2 DEF CreateJob, TypeOK, JobStatus, Active
  <2> QED
    BY <1>2, <2>1, AnswerType, RequestTypeSuffices DEF CreateJob, TypeOK
<1>3. ASSUME NEW j \in Jobs, ReadForCancel(c, j) PROVE TypeOK'
  <2> DEFINE s == [r EXCEPT !.op = "cancel", !.job = j, !.seen = status[j]]
  <2>1. status[j] \in {"queued", "processing"} /\ status[j] \in JobStatus
    BY <1>3 DEF ReadForCancel, TypeOK
  <2>2. s \in Request /\ s.seen = status[j]
    BY <1>a, <2>1 DEF Request
  <2>3. request' = [request EXCEPT ![c] = s]
    BY <1>3 DEF ReadForCancel
  <2> QED
    BY <1>3, <2>1, <2>2, <2>3, RequestTypeSuffices DEF ReadForCancel, TypeOK, HoldingOK
<1>4. ASSUME NEW j \in Jobs, ReadForDelete(c, j) PROVE TypeOK'
  <2> DEFINE C == {f \in Files : docs[j][f].content}
             R == {f \in Files : docs[j][f].result}
             s == [r EXCEPT !.op = "delete", !.job = j, !.content = C, !.result = R]
  <2>1. s \in Request /\ s.op # "cancel"
    BY <1>a DEF Request
  <2>2. request' = [request EXCEPT ![c] = s]
    BY <1>4 DEF ReadForDelete
  <2> HIDE DEF s
  <2>3. /\ request' \in [Clients -> Request]
        /\ \A d \in Clients :
             request'[d].op = "cancel" => request'[d].seen \in {"queued", "processing"}
    BY <2>1, <2>2 DEF TypeOK, HoldingOK
  <2> QED
    BY <1>4, <2>3, RequestTypeSuffices DEF ReadForDelete, TypeOK
<1>5. CASE CancelJob(c)
  <2> DEFINE outcome == CASE r.seen = "queued" -> "cancelled"
                          [] r.seen = "processing" -> "cancellation_requested"
  <2>1. r.seen \in {"queued", "processing"}
    BY <1>5 DEF CancelJob, TypeOK, HoldingOK
  <2>2. outcome \in JobStatus
    BY <2>1 DEF JobStatus, Terminal, Active
  <2>3. status' \in [Jobs -> JobStatus]
    BY <1>5, <2>2 DEF CancelJob, TypeOK
  <2> QED
    BY <1>5, <2>3, AnswerType, RequestTypeSuffices DEF CancelJob, TypeOK
<1>6. CASE DeleteJob(c)
  <2>1. status' \in [Jobs -> JobStatus] /\ heartbeat' \in [Jobs -> {"none", "fresh", "stale"}]
        /\ progress' \in [Jobs -> Nat]
    BY <1>6 DEF DeleteJob, TypeOK, JobStatus, NoRow
  <2>2. NewDoc \in Document
    BY DEF NewDoc, Document, DocStatus
  <2>3. docs' \in [Jobs -> [Files -> Document]]
    BY <1>6, <2>2 DEF DeleteJob, TypeOK
  <2>4. contents' \subseteq Files /\ results' \subseteq Files
    BY <1>6 DEF DeleteJob, TypeOK
  <2> QED
    BY <1>6, <2>1, <2>3, <2>4, AnswerType, RequestTypeSuffices DEF DeleteJob, TypeOK
<1> QED
  BY <1>1, <1>2, <1>3, <1>4, <1>5, <1>6 DEF RequestStep

\* Every variable keeps its type in every behaviour.
THEOREM TypeCorrect == Spec => []TypeOK
<1>1. Init => TypeOK
  <2> SUFFICES ASSUME Init PROVE TypeOK
    OBVIOUS
  <2>1. NewDoc \in Document
    BY DEF NewDoc, Document, DocStatus
  <2>2. NoRequest \in Request /\ NoRequest.op # "cancel"
    BY DEF NoRequest, Request, JobStatus, NoRow
  <2>3. HoldingOK
    BY <2>2, ConstantsAssumption DEF Init, HoldingOK, Working
  <2> QED
    BY <2>1, <2>2, <2>3, NoSessionType DEF Init, TypeOK, JobStatus, NoRow, Polling
<1>2. TypeOK /\ [Next]_vars => TypeOK'
  <2> SUFFICES ASSUME TypeOK, [Next]_vars PROVE TypeOK'
    OBVIOUS
  <2>1. ASSUME NEW w \in Workers, WorkerStep(w) \/ Crash(w) PROVE TypeOK'
    BY <2>1, WorkerStepType
  <2>2. ASSUME NEW c \in Clients, RequestStep(c) PROVE TypeOK'
    BY <2>2, RequestStepType
  <2>3. ASSUME NEW j \in Jobs, HeartbeatExpires(j) PROVE TypeOK'
    BY <2>3 DEF HeartbeatExpires, TypeOK, HoldingOK
  <2>4. CASE UNCHANGED vars
    BY <2>4 DEF vars, TypeOK, HoldingOK
  <2> QED
    BY <2>1, <2>2, <2>3, <2>4 DEF Next
<1> QED
  BY <1>1, <1>2, PTL DEF Spec

----------------------------------------------------------------------------
(* The retry limit                                                         *)

\* A job that has not been created has not been attempted.
AttemptsInv ==
  /\ AttemptsBounded
  /\ \A j \in Jobs : status[j] = "absent" => attempts[j] = 0

\* A step that attempts nothing and requeues nothing keeps the limit.
LEMMA AttemptsKept ==
  ASSUME TypeOK, AttemptsInv, UNCHANGED attempts,
         \A j \in Jobs : status'[j] = status[j] \/ status'[j] \notin {"queued", "absent"}
  PROVE  AttemptsInv'
BY DEF TypeOK, AttemptsInv, AttemptsBounded

\* A worker attempts a job it has taken from the queue, where every job has an
\* attempt left; recovery puts back only a job below the limit.
LEMMA WorkerStepAttempts ==
  ASSUME TypeOK, AttemptsInv, NEW w \in Workers, WorkerStep(w) \/ Crash(w)
  PROVE  AttemptsInv'
<1>1. CASE Recover(w)
  <2>1. ASSUME NEW j \in Jobs, status'[j] = "queued", status[j] # "queued"
        PROVE  attempts[j] < MaxAttempts
    <3>1. Stale(j) /\ RecoveredStatus(j) = "queued"
      BY <1>1, <2>1 DEF Recover, TypeOK
    <3>2. status[j] = "processing" /\ ~(attempts[j] >= MaxAttempts)
      BY <3>1 DEF Stale, RecoveredStatus
    <3>3. attempts[j] \in Nat /\ MaxAttempts \in Nat
      BY ConstantsAssumption DEF TypeOK
    <3> QED
      BY <3>2, <3>3
  <2>2. \A j \in Jobs : RecoveredStatus(j) # "absent"
    BY DEF RecoveredStatus
  <2> QED
    BY <1>1, <2>1, <2>2 DEF Recover, TypeOK, AttemptsInv, AttemptsBounded
<1>2. CASE Claim(w)
  <2>1. CASE UNCHANGED <<status, attempts>>
    BY <2>1, AttemptsKept
  <2>2. CASE \E j \in Jobs : /\ status[j] = "queued"
                             /\ status' = [status EXCEPT ![j] = "processing"]
                             /\ attempts' = [attempts EXCEPT ![j] = @ + 1]
    BY <2>2, ConstantsAssumption DEF TypeOK, AttemptsInv, AttemptsBounded
  <2> QED
    BY <1>2, <2>1, <2>2 DEF Claim
<1>3. CASE CancelRemaining(w) \/ Finish(w)
  BY <1>3, AttemptsKept DEF CancelRemaining, Finish, TypeOK
<1>4. CASE UNCHANGED <<status, attempts>>
  BY <1>4, AttemptsKept
<1> QED
  BY <1>1, <1>2, <1>3, <1>4
  DEF WorkerStep, Crash, database, Begin, RowVanished, NextDocument, StartExtraction,
      ReuseContent, LinkContent, ContentVanished, StartChunking, DocumentReady, PrepareFails,
      FailDocument, StartRanking, CheckBatch, PredictBatch, InferenceFails, FailUnscored,
      CheckAttach, AttachResult, ResultVanished

\* A request attempts nothing, and queues only a job that was never attempted.
LEMMA RequestStepAttempts ==
  ASSUME TypeOK, AttemptsInv, NEW c \in Clients, RequestStep(c)
  PROVE  AttemptsInv'
<1>1. CASE CreateJob(c)
  BY <1>1, ConstantsAssumption DEF CreateJob, TypeOK, AttemptsInv, AttemptsBounded
<1>2. CASE CancelJob(c)
  <2>1. request[c].seen \in {"queued", "processing"}
    BY <1>2 DEF CancelJob, TypeOK, HoldingOK
  <2> QED
    BY <1>2, <2>1, AttemptsKept DEF CancelJob, TypeOK
<1>3. CASE DeleteJob(c)
  BY <1>3, AttemptsKept DEF DeleteJob, TypeOK
<1>4. CASE UNCHANGED <<status, attempts>>
  BY <1>4, AttemptsKept
<1> QED
  BY <1>1, <1>2, <1>3, <1>4 DEF RequestStep, ReadForCreate, ReadForCancel, ReadForDelete, database

LEMMA AttemptsInvariant == Spec => []AttemptsInv
<1>1. Init => AttemptsInv
  BY ConstantsAssumption DEF Init, AttemptsInv, AttemptsBounded
<1>2. TypeOK /\ AttemptsInv /\ [Next]_vars => AttemptsInv'
  <2> SUFFICES ASSUME TypeOK, AttemptsInv, [Next]_vars PROVE AttemptsInv'
    OBVIOUS
  <2>1. CASE UNCHANGED <<status, attempts>>
    BY <2>1, AttemptsKept
  <2> QED
    BY <2>1, WorkerStepAttempts, RequestStepAttempts DEF Next, HeartbeatExpires, vars
<1> QED
  BY <1>1, <1>2, TypeCorrect, PTL DEF Spec

\* README.md, "requeued up to JOB_MAX_ATTEMPTS": no job ever starts more attempts
\* than the limit, however many workers, crashes, recoveries and stalls there are.
THEOREM RetryLimit == Spec => []AttemptsBounded
<1>1. AttemptsInv => AttemptsBounded
  BY DEF AttemptsInv
<1> QED
  BY <1>1, AttemptsInvariant, PTL

----------------------------------------------------------------------------
(* One worker per job, and outcomes that are final, as long as a live      *)
(* worker keeps its heartbeat. The code has no fence; what excludes a      *)
(* second worker is that a held row is neither queued nor stale.           *)

HeldStatus == {"processing", "cancellation_requested", "cancelled", "deleted"}

OwnerInv ==
  /\ OneWorkerPerJob
  /\ \A w \in Workers : job[w] \in Jobs =>
       status[job[w]] \in HeldStatus /\ heartbeat[job[w]] # "stale"

\* A step that takes no job, and requeues, finishes or ages no job that is still
\* held after it.
LEMMA OwnerKept ==
  ASSUME TypeOK, OwnerInv,
         job' = job \/ \E w \in Workers : job' = [job EXCEPT ![w] = NoJob],
         \A v \in Workers : job'[v] \in Jobs =>
           /\ status'[job'[v]] = status[job'[v]] \/ status'[job'[v]] \in HeldStatus
           /\ heartbeat'[job'[v]] = heartbeat[job'[v]] \/ heartbeat'[job'[v]] # "stale"
  PROVE  OwnerInv'
<1>1. \A v \in Workers : job'[v] = job[v] \/ job'[v] = NoJob
  BY DEF TypeOK
<1>2. \A v \in Workers : job'[v] \in Jobs => job'[v] = job[v]
  BY <1>1, ConstantsAssumption
<1>3. OneWorkerPerJob'
  BY <1>1 DEF OwnerInv, OneWorkerPerJob
<1>4. ASSUME NEW v \in Workers, job'[v] \in Jobs
      PROVE  status'[job'[v]] \in HeldStatus /\ heartbeat'[job'[v]] # "stale"
  BY <1>2, <1>4 DEF OwnerInv
<1> QED
  BY <1>3, <1>4 DEF OwnerInv

\* A claim takes a queued job, which nobody holds; recovery touches stale rows only;
\* the worker that finishes a job is the only one that held it.
LEMMA WorkerStepOwner ==
  ASSUME TypeOK, OwnerInv, NEW w \in Workers, WorkerStep(w) \/ Crash(w)
  PROVE  OwnerInv'
<1>1. CASE Recover(w)
  <2>1. \A v \in Workers : job[v] \in Jobs => ~Stale(job[v])
    BY DEF OwnerInv, Stale
  <2> QED
    BY <1>1, <2>1, OwnerKept DEF Recover
<1>2. CASE Claim(w)
  <2>1. CASE \E j \in Jobs : /\ status[j] = "queued"
                             /\ status' = [status EXCEPT ![j] = "processing"]
                             /\ heartbeat' = [heartbeat EXCEPT ![j] = "fresh"]
                             /\ job' = [job EXCEPT ![w] = j]
    <3>1. PICK j \in Jobs : /\ status[j] = "queued"
                            /\ status' = [status EXCEPT ![j] = "processing"]
                            /\ heartbeat' = [heartbeat EXCEPT ![j] = "fresh"]
                            /\ job' = [job EXCEPT ![w] = j]
      BY <2>1
    <3>2. \A v \in Workers : job[v] # j
      BY <3>1 DEF OwnerInv, HeldStatus
    <3>3. OneWorkerPerJob'
      BY <3>1, <3>2 DEF TypeOK, OwnerInv, OneWorkerPerJob
    <3>4. ASSUME NEW v \in Workers, job'[v] \in Jobs
          PROVE  status'[job'[v]] \in HeldStatus /\ heartbeat'[job'[v]] # "stale"
      <4>1. CASE v = w
        BY <3>1, <4>1 DEF TypeOK, HeldStatus
      <4>2. CASE v # w
        BY <3>1, <3>2, <3>4, <4>2 DEF TypeOK, OwnerInv
      <4> QED
        BY <4>1, <4>2
    <3> QED
      BY <3>3, <3>4 DEF OwnerInv
  <2>2. CASE UNCHANGED <<status, heartbeat, job>>
    BY <2>2, OwnerKept
  <2> QED
    BY <1>2, <2>1, <2>2 DEF Claim
<1>3. CASE CancelRemaining(w) \/ Finish(w)
  <2>1. job[w] \in Jobs /\ job' = [job EXCEPT ![w] = NoJob]
    BY <1>3 DEF CancelRemaining, Finish, Release, At, Working, TypeOK, HoldingOK
  <2>2. \A v \in Workers : job'[v] \in Jobs => job'[v] # job[w]
    BY <2>1, ConstantsAssumption DEF TypeOK, OwnerInv, OneWorkerPerJob
  <2>3. \A j \in Jobs : j # job[w] => status'[j] = status[j]
    BY <1>3 DEF CancelRemaining, Finish, TypeOK
  <2>4. \A j \in Jobs : j # job[w] => heartbeat'[j] = heartbeat[j]
    BY <1>3 DEF CancelRemaining, Finish, Beat, TypeOK
  <2> QED
    BY <2>1, <2>2, <2>3, <2>4, OwnerKept
<1>4. CASE /\ UNCHANGED status
           /\ heartbeat' = heartbeat \/ Beat(w)
           /\ job' = job \/ Release(w)
  <2>1. \A j \in Jobs : heartbeat'[j] = heartbeat[j] \/ heartbeat'[j] # "stale"
    BY <1>4 DEF Beat, TypeOK
  <2> QED
    BY <1>4, <2>1, OwnerKept DEF Release
<1> QED
  BY <1>1, <1>2, <1>3, <1>4
  DEF WorkerStep, Crash, database, Begin, RowVanished, NextDocument, StartExtraction,
      ReuseContent, LinkContent, ContentVanished, StartChunking, DocumentReady, PrepareFails,
      FailDocument, StartRanking, CheckBatch, PredictBatch, InferenceFails, FailUnscored,
      CheckAttach, AttachResult, ResultVanished, CheckThen, PutDoc

\* A request may cancel or delete a job under its worker, and queues only a job that
\* did not exist.
LEMMA RequestStepOwner ==
  ASSUME TypeOK, OwnerInv, NEW c \in Clients, RequestStep(c)
  PROVE  OwnerInv'
<1>1. CASE CreateJob(c)
  <2>1. \A v \in Workers : job[v] \in Jobs => status[job[v]] # "absent"
    BY DEF OwnerInv, HeldStatus
  <2>2. UNCHANGED <<job, heartbeat>>
        /\ \A j \in Jobs : status[j] # "absent" => status'[j] = status[j]
    BY <1>1 DEF CreateJob, TypeOK
  <2> QED
    BY <2>1, <2>2, OwnerKept
<1>2. CASE CancelJob(c)
  <2>1. request[c].seen \in {"queued", "processing"}
    BY <1>2 DEF CancelJob, TypeOK, HoldingOK
  <2>2. UNCHANGED <<job, heartbeat>>
        /\ \A j \in Jobs : status'[j] = status[j] \/ status'[j] \in HeldStatus
    BY <1>2, <2>1 DEF CancelJob, TypeOK, HeldStatus
  <2> QED
    BY <2>2, OwnerKept
<1>3. CASE DeleteJob(c)
  <2>1. UNCHANGED job /\ \A j \in Jobs :
          /\ status'[j] = status[j] \/ status'[j] \in HeldStatus
          /\ heartbeat'[j] = heartbeat[j] \/ heartbeat'[j] # "stale"
    BY <1>3 DEF DeleteJob, TypeOK, HeldStatus
  <2> QED
    BY <2>1, OwnerKept
<1>4. CASE UNCHANGED <<status, heartbeat, job>>
  BY <1>4, OwnerKept
<1> QED
  BY <1>1, <1>2, <1>3, <1>4 DEF RequestStep, ReadForCreate, ReadForCancel, ReadForDelete, database

\* No two workers ever hold the same job, if none outlives its heartbeat.
LEMMA OwnerInvariant == ASSUME ~StallsAllowed PROVE Spec => []OwnerInv
<1>1. Init => OwnerInv
  BY ConstantsAssumption DEF Init, OwnerInv, OneWorkerPerJob
<1>2. TypeOK /\ OwnerInv /\ [Next]_vars => OwnerInv'
  <2> SUFFICES ASSUME TypeOK, OwnerInv, [Next]_vars PROVE OwnerInv'
    OBVIOUS
  <2>1. ASSUME NEW j \in Jobs, HeartbeatExpires(j) PROVE OwnerInv'
    <3>1. \A w \in Workers : job[w] # j
      BY <2>1 DEF HeartbeatExpires
    <3>2. UNCHANGED <<job, status>> /\ \A i \in Jobs : i # j => heartbeat'[i] = heartbeat[i]
      BY <2>1 DEF HeartbeatExpires, TypeOK
    <3> QED
      BY <3>1, <3>2, OwnerKept
  <2>2. CASE UNCHANGED <<status, heartbeat, job>>
    BY <2>2, OwnerKept
  <2> QED
    BY <2>1, <2>2, WorkerStepOwner, RequestStepOwner DEF Next, vars
<1> QED
  BY <1>1, <1>2, TypeCorrect, PTL DEF Spec

\* README.md and worker.py:43: the claim, the heartbeat and the recovery together
\* exclude two workers on one job, for any number of workers and jobs.
THEOREM SingleOwner == ASSUME ~StallsAllowed PROVE Spec => []OneWorkerPerJob
<1>1. OwnerInv => OneWorkerPerJob
  BY DEF OwnerInv
<1> QED
  BY <1>1, OwnerInvariant, PTL

\* A completed or failed job is never reopened or given another outcome: whoever
\* could write one holds the job, and a held job has no outcome.
THEOREM OutcomesFinal == ASSUME ~StallsAllowed PROVE Spec => OutcomeIsFinal
<1> DEFINE A == \A j \in Jobs :
                  status[j] \in {"completed", "completed_with_errors", "failed"} =>
                    status'[j] \in {status[j], "cancellation_requested", "cancelled", "deleted"}
<1>1. TypeOK /\ OwnerInv /\ [Next]_vars => A
  <2> SUFFICES ASSUME TypeOK, OwnerInv, [Next]_vars,
                      NEW j \in Jobs,
                      status[j] \in {"completed", "completed_with_errors", "failed"}
               PROVE  status'[j] \in {status[j], "cancellation_requested", "cancelled", "deleted"}
    OBVIOUS
  <2>1. ASSUME NEW w \in Workers, Recover(w) PROVE status'[j] = status[j]
    BY <2>1 DEF Recover, Stale
  <2>2. ASSUME NEW w \in Workers, Claim(w) PROVE status'[j] = status[j]
    BY <2>2 DEF Claim, TypeOK
  <2>3. ASSUME NEW w \in Workers, CancelRemaining(w) \/ Finish(w) PROVE status'[j] = status[j]
    <3>1. job[w] \in Jobs
      BY <2>3 DEF CancelRemaining, Finish, At, Working, TypeOK, HoldingOK
    <3>2. job[w] # j
      BY <3>1 DEF OwnerInv, HeldStatus
    <3> QED
      BY <2>3, <3>2 DEF CancelRemaining, Finish, TypeOK
  <2>4. ASSUME NEW c \in Clients, CreateJob(c) PROVE status'[j] = status[j]
    BY <2>4 DEF CreateJob, TypeOK
  <2>5. ASSUME NEW c \in Clients, CancelJob(c)
        PROVE  status'[j] \in {status[j], "cancellation_requested", "cancelled"}
    <3>1. request[c].seen \in {"queued", "processing"}
      BY <2>5 DEF CancelJob, TypeOK, HoldingOK
    <3>2. PICK outcome \in {"cancelled", "cancellation_requested"} :
            status' = IF Exists(request[c].job)
                        THEN [status EXCEPT ![request[c].job] = outcome] ELSE status
      BY <2>5, <3>1 DEF CancelJob
    <3> QED
      BY <3>2 DEF TypeOK
  <2>6. ASSUME NEW c \in Clients, DeleteJob(c) PROVE status'[j] \in {status[j], "deleted"}
    BY <2>6 DEF DeleteJob, TypeOK
  <2>7. CASE UNCHANGED status
    BY <2>7
  <2>8. ASSUME NEW w \in Workers, WorkerStep(w)
        PROVE  \/ Recover(w) \/ Claim(w) \/ CancelRemaining(w) \/ Finish(w)
               \/ UNCHANGED status
    <3>1. \/ Begin(w) \/ RowVanished(w) \/ NextDocument(w) \/ StartExtraction(w)
             \/ ReuseContent(w) \/ LinkContent(w) \/ ContentVanished(w) \/ StartChunking(w)
             \/ DocumentReady(w) \/ PrepareFails(w)
          => UNCHANGED status
      BY DEF Begin, RowVanished, NextDocument, StartExtraction, ReuseContent, LinkContent,
             ContentVanished, StartChunking, DocumentReady, PrepareFails, FailDocument, database
    <3>2. \/ StartRanking(w) \/ CheckBatch(w) \/ PredictBatch(w) \/ InferenceFails(w)
             \/ FailUnscored(w) \/ CheckAttach(w) \/ AttachResult(w) \/ ResultVanished(w)
          => UNCHANGED status
      BY DEF StartRanking, CheckBatch, PredictBatch, InferenceFails, FailUnscored, CheckAttach,
             AttachResult, ResultVanished, FailDocument, database
    <3> QED
      BY <2>8, <3>1, <3>2 DEF WorkerStep
  <2>9. ASSUME NEW c \in Clients, RequestStep(c)
        PROVE  CreateJob(c) \/ CancelJob(c) \/ DeleteJob(c) \/ UNCHANGED status
    BY <2>9 DEF RequestStep, ReadForCreate, ReadForCancel, ReadForDelete, database
  <2>10. \/ \E w \in Workers : WorkerStep(w)
         \/ \E c \in Clients : RequestStep(c)
         \/ UNCHANGED status
    BY DEF Next, vars, HeartbeatExpires, Crash, database
  <2> QED
    BY <2>1, <2>2, <2>3, <2>4, <2>5, <2>6, <2>7, <2>8, <2>9, <2>10
<1> QED
  BY <1>1, TypeCorrect, OwnerInvariant, PTL DEF Spec, OutcomeIsFinal

----------------------------------------------------------------------------
(* What a step does to the session of a worker, field by field.            *)

\* A worker that goes on with its job.
Moves(w, labels, s) ==
  /\ pc'[w] \in labels /\ job'[w] = job[w]
  /\ local'[w].count = s.count /\ local'[w].todo = s.todo /\ local'[w].cur = s.cur
  /\ local'[w].prepared = s.prepared /\ local'[w].hits = s.hits /\ local'[w].view = s.view

OthersStay(w) ==
  \A v \in Workers \ {w} : pc'[v] = pc[v] /\ job'[v] = job[v] /\ local'[v] = local[v]

LEMMA ReleaseMoves ==
  ASSUME TypeOK, NEW w \in Workers, Release(w)
  PROVE  OthersStay(w) /\ pc'[w] = "recover" /\ job'[w] = NoJob
BY DEF TypeOK, Release, OthersStay

LEMMA CheckThenMoves ==
  ASSUME TypeOK, NEW w \in Workers, NEW s \in Session, NEW label, CheckThen(w, label, s)
  PROVE  OthersStay(w) /\ Moves(w, {label, "cancelling"}, s)
<1>1. local'[w] = [s EXCEPT !.seen = status[job[w]]]
  BY DEF TypeOK, CheckThen
<1>2. /\ local'[w].count = s.count /\ local'[w].todo = s.todo /\ local'[w].cur = s.cur
      /\ local'[w].prepared = s.prepared /\ local'[w].hits = s.hits /\ local'[w].view = s.view
  BY <1>1 DEF Session
<1>3. pc'[w] \in {label, "cancelling"} /\ job'[w] = job[w]
  BY DEF TypeOK, CheckThen
<1>4. OthersStay(w)
  BY DEF TypeOK, CheckThen, OthersStay
<1> QED
  BY <1>2, <1>3, <1>4 DEF Moves

\* What documents refer to.
SameContent == \A j \in Jobs, g \in Files : docs'[j][g].content = docs[j][g].content
SameResult == \A j \in Jobs, g \in Files : docs'[j][g].result = docs[j][g].result

\* Rows of other jobs, and the statuses of the worker's own job and its copies of them.
OtherJobsStay(w) == \A j \in Jobs \ {job[w]} : docs'[j] = docs[j]
StatusPut(w, f, d) ==
  /\ local'[w].view[f] = d /\ docs'[job[w]][f].status = d
  /\ \A g \in Files \ {f} : /\ local'[w].view[g] = local[w].view[g]
                            /\ docs'[job[w]][g] = docs[job[w]][g]

\* PutDoc, when the session's copy of another document is not changed.
LEMMA PutDocMoves ==
  ASSUME TypeOK, NEW w \in Workers, NEW s \in Session, NEW label, NEW f \in Files,
         NEW row \in Document, PutDoc(w, f, row, label, s), job[w] \in Jobs,
         s.view = local[w].view
  PROVE  /\ OthersStay(w) /\ OtherJobsStay(w) /\ StatusPut(w, f, row.status)
         /\ Moves(w, {label}, [s EXCEPT !.view[f] = row.status])
         /\ row.content = Row(w, f).content => SameContent
         /\ row.result = Row(w, f).result => SameResult
<1> DEFINE t == [s EXCEPT !.view[f] = row.status]
<1>1. local'[w] = t /\ pc'[w] = label /\ job'[w] = job[w]
  BY DEF TypeOK, PutDoc
<1>2. Moves(w, {label}, t)
  BY <1>1 DEF Moves
<1>3. OthersStay(w)
  BY DEF TypeOK, PutDoc, OthersStay
<1>4. docs' = [docs EXCEPT ![job[w]] = [docs[job[w]] EXCEPT ![f] = row]]
  BY DEF PutDoc
<1>5. OtherJobsStay(w)
  BY <1>4 DEF TypeOK, OtherJobsStay
<1>6. /\ docs'[job[w]][f] = row
      /\ \A g \in Files \ {f} : docs'[job[w]][g] = docs[job[w]][g]
  BY <1>4 DEF TypeOK
<1>7. t.view = [s.view EXCEPT ![f] = row.status] /\ s.view \in [Files -> DocStatus]
  BY DEF Session
<1>8. StatusPut(w, f, row.status)
  BY <1>1, <1>6, <1>7 DEF StatusPut
<1>9. row.content = Row(w, f).content => SameContent
  BY <1>5, <1>6 DEF OtherJobsStay, SameContent, Row
<1>10. row.result = Row(w, f).result => SameResult
  BY <1>5, <1>6 DEF OtherJobsStay, SameResult, Row
<1> QED
  BY <1>2, <1>3, <1>5, <1>8, <1>9, <1>10

\* A worker inside process() holds a job, and a document while it handles one.
LEMMA HoldsWork ==
  ASSUME TypeOK, NEW w \in Workers, pc[w] \in Working
  PROVE  /\ job[w] \in Jobs
         /\ pc[w] \in {"lookup", "extract", "link", "chunk", "index", "store"}
              => local[w].cur \in Files
BY DEF TypeOK, HoldingOK

\* process() has loaded its documents.
InSession(w) == pc[w] \in Working \ {"begin"} /\ Exists(job[w])

LEMMA AtSession ==
  ASSUME NEW w \in Workers, NEW label \in Working \ {"begin"}, At(w, label)
  PROVE  InSession(w) /\ pc[w] = label
BY DEF At, InSession

\* The document loop: the next document, its extraction, its content, its chunks.
LEMMA NextDocumentMoves ==
  ASSUME TypeOK, NEW w \in Workers, NextDocument(w)
  PROVE  /\ InSession(w) /\ pc[w] = "next" /\ OthersStay(w)
         /\ pc'[w] \in {"lookup", "cancelling"} /\ job'[w] = job[w]
         /\ local'[w].count = StartingCount(w) /\ local'[w].cur \in local[w].todo
         /\ local'[w].todo = local[w].todo /\ local'[w].prepared = local[w].prepared
         /\ local'[w].hits = local[w].hits /\ local'[w].view = local[w].view
<1> DEFINE me == local[w]
           s(f) == [me EXCEPT !.cur = f, !.count = StartingCount(w)]
<1>0. InSession(w) /\ pc[w] = "next"
  BY AtSession DEF NextDocument, Working
<1>1. PICK f \in me.todo : CheckThen(w, "lookup", s(f))
  BY DEF NextDocument
<1>2. StartingCount(w) \in Nat /\ me \in Session /\ f \in Files
  BY SessionType DEF StartingCount
<1>3. /\ s(f) \in Session /\ s(f).count = StartingCount(w) /\ s(f).cur = f
      /\ s(f).todo = me.todo /\ s(f).prepared = me.prepared /\ s(f).hits = me.hits
      /\ s(f).view = me.view
  BY <1>2 DEF Session
<1> HIDE DEF s
<1>4. OthersStay(w) /\ Moves(w, {"lookup", "cancelling"}, s(f))
  BY <1>1, <1>3, CheckThenMoves
<1> QED
  BY <1>0, <1>3, <1>4 DEF Moves

\* A document gets another status and the session goes on.
LEMMA DocumentMoves ==
  ASSUME TypeOK, NEW w \in Workers, StartExtraction(w) \/ StartChunking(w)
  PROVE  /\ InSession(w) /\ OthersStay(w) /\ job'[w] = job[w] /\ local[w].cur \in Files
         /\ \/ pc[w] = "lookup" /\ pc'[w] = "extract"
            \/ pc[w] = "chunk" /\ pc'[w] = "index"
         /\ local'[w].count = local[w].count /\ local'[w].cur = local[w].cur
         /\ local'[w].todo = local[w].todo /\ local'[w].prepared = local[w].prepared
         /\ OtherJobsStay(w) /\ SameContent /\ SameResult
         /\ \E d \in {"extracting", "chunking"} : StatusPut(w, local[w].cur, d)
<1> DEFINE me == local[w]
           f == me.cur
<1>1. InSession(w) /\ pc[w] \in Working /\ f \in Files /\ job[w] \in Jobs /\ me \in Session
  <2>1. pc[w] \in {"lookup", "chunk"} /\ Exists(job[w])
    BY DEF StartExtraction, StartChunking, At
  <2> QED
    BY <2>1, HoldsWork, SessionType DEF InSession, Working
<1>2. Row(w, f) \in Document
  BY <1>1, DocsType DEF Row
<1>3. ASSUME NEW d \in {"extracting", "chunking"}, NEW label,
             PutDoc(w, f, [Row(w, f) EXCEPT !.status = d], label, me)
      PROVE  /\ OthersStay(w) /\ OtherJobsStay(w) /\ SameContent /\ SameResult
             /\ StatusPut(w, f, d)
             /\ pc'[w] = label /\ job'[w] = job[w]
             /\ local'[w].count = me.count /\ local'[w].todo = me.todo /\ local'[w].cur = f
             /\ local'[w].prepared = me.prepared
  <2> DEFINE row == [Row(w, f) EXCEPT !.status = d]
  <2>1. /\ row \in Document /\ row.status = d /\ row.content = Row(w, f).content
        /\ row.result = Row(w, f).result
    BY <1>2 DEF Document, DocStatus
  <2>2. PutDoc(w, f, row, label, me)
    BY <1>3
  <2> HIDE DEF row
  <2>3. /\ OthersStay(w) /\ OtherJobsStay(w) /\ SameContent /\ SameResult
        /\ StatusPut(w, f, row.status) /\ Moves(w, {label}, [me EXCEPT !.view[f] = row.status])
    BY <1>1, <2>1, <2>2, PutDocMoves
  <2> QED
    BY <1>1, <2>1, <2>3 DEF Moves, Session
<1>4. CASE StartExtraction(w)
  BY <1>1, <1>3, <1>4 DEF StartExtraction, At
<1>5. CASE StartChunking(w)
  BY <1>1, <1>3, <1>5 DEF StartChunking, At
<1> QED
  BY <1>4, <1>5

LEMMA LinkContentMoves ==
  ASSUME TypeOK, NEW w \in Workers, LinkContent(w)
  PROVE  /\ InSession(w) /\ pc[w] \in {"extract", "link"} /\ OthersStay(w)
         /\ job[w] \in Jobs /\ local[w].cur \in Files
         /\ pc'[w] \in {"chunk", "cancelling"} /\ job'[w] = job[w]
         /\ local'[w].count = local[w].count /\ local'[w].cur = local[w].cur
         /\ local'[w].todo = local[w].todo /\ local'[w].prepared = local[w].prepared
         /\ local'[w].view = local[w].view
         /\ OtherJobsStay(w) /\ SameResult
         /\ docs'[job[w]][local[w].cur].content
         /\ \A g \in Files : docs'[job[w]][g].status = docs[job[w]][g].status
         /\ \A g \in Files \ {local[w].cur} : docs'[job[w]][g] = docs[job[w]][g]
<1> DEFINE me == local[w]
           f == me.cur
<1>1. pc[w] \in {"extract", "link"} /\ Exists(job[w])
  BY DEF LinkContent, At
<1>2. InSession(w) /\ f \in Files /\ job[w] \in Jobs /\ me \in Session
  BY <1>1, HoldsWork, SessionType DEF InSession, Working
<1>3. OthersStay(w) /\ Moves(w, {"chunk", "cancelling"}, me)
  BY <1>2, CheckThenMoves DEF LinkContent
<1>4. docs' = [docs EXCEPT ![job[w]] = [docs[job[w]] EXCEPT ![f] =
                              [docs[job[w]][f] EXCEPT !.content = TRUE]]]
  BY DEF LinkContent
<1>5. /\ docs'[job[w]][f] = [docs[job[w]][f] EXCEPT !.content = TRUE]
      /\ \A g \in Files \ {f} : docs'[job[w]][g] = docs[job[w]][g]
      /\ OtherJobsStay(w)
  BY <1>2, <1>4 DEF TypeOK, OtherJobsStay
<1>6. /\ docs'[job[w]][f].content /\ docs'[job[w]][f].status = docs[job[w]][f].status
      /\ docs'[job[w]][f].result = docs[job[w]][f].result
  <2>1. docs[job[w]][f] \in Document
    BY <1>2, DocsType
  <2> QED
    BY <1>5, <2>1 DEF Document
<1>7. SameResult
  BY <1>5, <1>6 DEF SameResult, OtherJobsStay
<1> QED
  BY <1>1, <1>2, <1>3, <1>5, <1>6, <1>7 DEF Moves

LEMMA DocumentReadyMoves ==
  ASSUME TypeOK, NEW w \in Workers, DocumentReady(w)
  PROVE  /\ InSession(w) /\ pc[w] = "index" /\ OthersStay(w) /\ job[w] \in Jobs
         /\ local[w].cur \in Files
         /\ pc'[w] = "next" /\ job'[w] = job[w]
         /\ local'[w].count = local[w].count
         /\ local'[w].todo = local[w].todo \ {local[w].cur}
         /\ local'[w].prepared = local[w].prepared \cup {local[w].cur}
         /\ OtherJobsStay(w) /\ SameContent /\ SameResult /\ StatusPut(w, local[w].cur, "ready")
<1> DEFINE me == local[w]
           f == me.cur
           row == [Row(w, f) EXCEPT !.status = "ready"]
           s == [me EXCEPT !.todo = @ \ {f}, !.cur = NoFile, !.prepared = @ \cup {f},
                           !.hits = IF f \in results THEN @ \cup {f} ELSE @]
<1>1. pc[w] = "index" /\ Exists(job[w])
  BY DEF DocumentReady, At
<1>2. InSession(w) /\ f \in Files /\ job[w] \in Jobs /\ me \in Session
  BY <1>1, HoldsWork, SessionType DEF InSession, Working
<1>3. /\ s \in Session /\ s.count = me.count /\ s.todo = me.todo \ {f}
      /\ s.prepared = me.prepared \cup {f} /\ s.view = me.view
  BY <1>2 DEF Session
<1>4. /\ row \in Document /\ row.status = "ready" /\ row.content = Row(w, f).content
      /\ row.result = Row(w, f).result
  BY <1>2, DocsType DEF Document, Row, DocStatus
<1>5. PutDoc(w, f, row, "next", s)
  BY DEF DocumentReady
<1> HIDE DEF row, s
<1>6. /\ OthersStay(w) /\ OtherJobsStay(w) /\ SameContent /\ SameResult
      /\ StatusPut(w, f, row.status) /\ Moves(w, {"next"}, [s EXCEPT !.view[f] = row.status])
  BY <1>2, <1>3, <1>4, <1>5, PutDocMoves
<1> QED
  BY <1>1, <1>2, <1>3, <1>4, <1>6 DEF Moves, Session

LEMMA FailDocumentMoves ==
  ASSUME TypeOK, NEW w \in Workers, job[w] \in Jobs, NEW f \in Files, NEW label,
         FailDocument(w, f, label)
  PROVE  /\ OthersStay(w) /\ pc'[w] = label /\ job'[w] = job[w]
         /\ local'[w].count \in {local[w].count, local[w].count + 1}
         /\ local'[w].todo = local[w].todo \ {f}
         /\ local'[w].prepared = local[w].prepared
         /\ progress'[job[w]] = local'[w].count
         /\ \A j \in Jobs \ {job[w]} : progress'[j] = progress[j]
         /\ OtherJobsStay(w) /\ SameContent /\ SameResult /\ StatusPut(w, f, "failed")
<1> DEFINE me == local[w]
           n == IF me.view[f] \in {"failed", "completed"} THEN me.count ELSE Counted(w)
           row == [Row(w, f) EXCEPT !.status = "failed"]
           s == [me EXCEPT !.count = n, !.todo = @ \ {f}, !.cur = NoFile]
<1>1. me \in Session /\ n \in {me.count, me.count + 1} /\ n \in Nat
  BY SessionType DEF Counted
<1>2. PutDoc(w, f, row, label, s) /\ progress' = [progress EXCEPT ![job[w]] = n]
  BY DEF FailDocument
<1> HIDE DEF n
<1>3. /\ s \in Session /\ s.count = n /\ s.todo = me.todo \ {f}
      /\ s.prepared = me.prepared /\ s.view = me.view
  BY <1>1 DEF Session
<1>4. /\ row \in Document /\ row.status = "failed" /\ row.content = Row(w, f).content
      /\ row.result = Row(w, f).result
  BY DocsType DEF Document, Row, DocStatus
<1> HIDE DEF row, s
<1>5. progress'[job[w]] = n /\ \A j \in Jobs \ {job[w]} : progress'[j] = progress[j]
  BY <1>2 DEF TypeOK
<1>6. /\ OthersStay(w) /\ OtherJobsStay(w) /\ SameContent /\ SameResult
      /\ StatusPut(w, f, row.status) /\ Moves(w, {label}, [s EXCEPT !.view[f] = row.status])
  BY <1>2, <1>3, <1>4, PutDocMoves
<1> QED
  BY <1>1, <1>3, <1>4, <1>5, <1>6 DEF Moves, Session

\* The counts, the prepared documents and the copies of the statuses stay.
SessionKept(w) ==
  /\ job'[w] = job[w] /\ local'[w].count = local[w].count
  /\ local'[w].prepared = local[w].prepared /\ local'[w].view = local[w].view
  /\ local'[w].hits = local[w].hits

LEMMA BeginMoves ==
  ASSUME TypeOK, NEW w \in Workers, Begin(w), pc'[w] # "recover"
  PROVE  /\ OthersStay(w) /\ pc[w] = "begin" /\ pc'[w] = "next" /\ job'[w] = job[w]
         /\ job[w] \in Jobs /\ UNCHANGED database
         /\ local'[w].todo = Files /\ local'[w].prepared = {}
         /\ local'[w].count = progress[job[w]]
         /\ \A g \in Files : local'[w].view[g] = docs[job[w]][g].status
<1> DEFINE s == [NoSession EXCEPT !.seen = "processing",
                   !.view = [g \in Files |-> docs[job[w]][g].status],
                   !.count = progress[job[w]], !.todo = Files]
<1>1. pc[w] = "begin" /\ UNCHANGED database
  BY DEF Begin
<1>2. job[w] \in Jobs
  BY <1>1, HoldsWork DEF Working
<1>3. local' = [local EXCEPT ![w] = s] /\ pc' = [pc EXCEPT ![w] = "next"] /\ job' = job
  <2>1. ~Release(w)
    BY ReleaseMoves
  <2> QED
    BY <2>1 DEF Begin
<1>4. /\ s.todo = Files /\ s.prepared = {} /\ s.count = progress[job[w]]
      /\ \A g \in Files : s.view[g] = docs[job[w]][g].status
  BY DEF NoSession
<1> HIDE DEF s
<1> QED
  BY <1>1, <1>2, <1>3, <1>4 DEF TypeOK, OthersStay

\* Inference: what is left to predict, and its failure.
LEMMA RankingMoves ==
  ASSUME TypeOK, NEW w \in Workers, StartRanking(w) \/ InferenceFails(w)
  PROVE  /\ InSession(w) /\ OthersStay(w) /\ SessionKept(w) /\ UNCHANGED database
         /\ \/ pc[w] = "next" /\ local[w].todo = {} /\ pc'[w] = "batch"
            \/ pc[w] = "predict" /\ pc'[w] = "unscored"
         /\ local'[w].todo = Uncached(w)
<1> DEFINE me == local[w]
<1>1. /\ InSession(w) /\ UNCHANGED database
      /\ \/ pc[w] = "next" /\ local[w].todo = {} /\ pc' = [pc EXCEPT ![w] = "batch"]
         \/ pc[w] = "predict" /\ pc' = [pc EXCEPT ![w] = "unscored"]
      /\ local' = [local EXCEPT ![w] = [me EXCEPT !.todo = Uncached(w)]] /\ job' = job
  BY DEF StartRanking, InferenceFails, At, InSession, Working
<1>2. me \in Session
  BY SessionType
<1>3. OthersStay(w)
  BY <1>1 DEF TypeOK, OthersStay
<1>4. /\ local'[w].count = me.count /\ local'[w].prepared = me.prepared
      /\ local'[w].view = me.view /\ local'[w].todo = Uncached(w)
      /\ local'[w].hits = me.hits
  BY <1>1, <1>2 DEF TypeOK, Session
<1> QED
  BY <1>1, <1>3, <1>4 DEF TypeOK, SessionKept

LEMMA CheckBatchMoves ==
  ASSUME TypeOK, NEW w \in Workers, CheckBatch(w)
  PROVE  /\ InSession(w) /\ pc[w] = "batch" /\ OthersStay(w) /\ SessionKept(w)
         /\ UNCHANGED database
         /\ \/ /\ local[w].todo # {} /\ pc'[w] \in {"predict", "cancelling"}
               /\ local'[w].todo = local[w].todo
            \/ /\ local[w].todo = {} /\ pc'[w] = "attach"
               /\ local'[w].todo = local[w].prepared
<1> DEFINE me == local[w]
<1>1. InSession(w) /\ pc[w] = "batch" /\ UNCHANGED database
  BY DEF CheckBatch, At, InSession, Working
<1>2. me \in Session
  BY SessionType
<1>3. CASE me.todo # {}
  <2>1. OthersStay(w) /\ Moves(w, {"predict", "cancelling"}, me)
    BY <1>2, <1>3, CheckThenMoves DEF CheckBatch
  <2> QED
    BY <1>1, <1>3, <2>1 DEF Moves, SessionKept
<1>4. CASE me.todo = {}
  <2>1. /\ local' = [local EXCEPT ![w] = [me EXCEPT !.todo = me.prepared]]
        /\ pc' = [pc EXCEPT ![w] = "attach"] /\ job' = job
    BY <1>4 DEF CheckBatch
  <2>2. /\ local'[w].count = me.count /\ local'[w].prepared = me.prepared
        /\ local'[w].view = me.view /\ local'[w].todo = me.prepared
        /\ local'[w].hits = me.hits
    BY <1>2, <2>1 DEF TypeOK, Session
  <2>3. OthersStay(w)
    BY <2>1 DEF TypeOK, OthersStay
  <2> QED
    BY <1>1, <1>4, <2>1, <2>2, <2>3 DEF TypeOK, SessionKept
<1> QED
  BY <1>3, <1>4

LEMMA PredictBatchMoves ==
  ASSUME TypeOK, NEW w \in Workers, PredictBatch(w)
  PROVE  /\ InSession(w) /\ pc[w] = "predict" /\ OthersStay(w) /\ SessionKept(w)
         /\ pc'[w] = "batch" /\ local'[w].todo \subseteq local[w].todo
         /\ \E f \in local[w].todo : local'[w].todo = local[w].todo \ {f}
         /\ UNCHANGED <<status, progress, docs, contents, results>>
<1> DEFINE me == local[w]
<1>1. /\ InSession(w) /\ pc[w] = "predict"
      /\ UNCHANGED <<status, progress, docs, contents, results, job>>
      /\ pc' = [pc EXCEPT ![w] = "batch"]
  BY DEF PredictBatch, At, InSession, Working
<1>2. PICK f \in me.todo : local' = [local EXCEPT ![w] = [me EXCEPT !.todo = @ \ {f}]]
  BY DEF PredictBatch
<1>3. me \in Session
  BY SessionType
<1>4. /\ local'[w].count = me.count /\ local'[w].prepared = me.prepared
      /\ local'[w].view = me.view /\ local'[w].todo = me.todo \ {f}
      /\ local'[w].hits = me.hits
  BY <1>2, <1>3 DEF TypeOK, Session
<1>5. OthersStay(w)
  BY <1>1, <1>2 DEF TypeOK, OthersStay
<1> QED
  BY <1>1, <1>4, <1>5 DEF TypeOK, SessionKept

\* Results are attached one by one.
LEMMA CheckAttachMoves ==
  ASSUME TypeOK, NEW w \in Workers, CheckAttach(w)
  PROVE  /\ InSession(w) /\ pc[w] = "attach" /\ OthersStay(w) /\ SessionKept(w)
         /\ UNCHANGED database /\ local'[w].todo = local[w].todo
         /\ \/ pc'[w] \in {"store", "cancelling"} /\ local'[w].cur \in local[w].todo
            \/ local[w].todo = {} /\ pc'[w] = "finish"
<1> DEFINE me == local[w]
<1>1. InSession(w) /\ pc[w] = "attach" /\ UNCHANGED database
  BY DEF CheckAttach, At, InSession, Working
<1>2. me \in Session /\ me.todo \subseteq Files
  BY SessionType
<1>3. CASE me.todo # {}
  <2>1. PICK f \in me.todo : CheckThen(w, "store", [me EXCEPT !.cur = f])
    BY <1>3 DEF CheckAttach
  <2> DEFINE s == [me EXCEPT !.cur = f]
  <2>2. /\ s \in Session /\ s.count = me.count /\ s.todo = me.todo /\ s.cur = f
        /\ s.prepared = me.prepared /\ s.view = me.view /\ s.hits = me.hits
    BY <1>2 DEF Session
  <2> HIDE DEF s
  <2>3. OthersStay(w) /\ Moves(w, {"store", "cancelling"}, s)
    BY <2>1, <2>2, CheckThenMoves DEF s
  <2> QED
    BY <1>1, <2>2, <2>3 DEF Moves, SessionKept
<1>4. CASE me.todo = {}
  <2>1. pc' = [pc EXCEPT ![w] = "finish"] /\ UNCHANGED <<job, local>>
    BY <1>4 DEF CheckAttach
  <2> QED
    BY <1>1, <1>4, <2>1 DEF TypeOK, OthersStay, SessionKept
<1> QED
  BY <1>3, <1>4

\* The row of a document whose result is attached.
LEMMA CompletedRow ==
  ASSUME NEW d \in Document
  PROVE  LET row == [d EXCEPT !.status = "completed", !.result = TRUE] IN
         /\ row \in Document /\ row.status = "completed"
         /\ row.content = d.content /\ row.result
BY DEF Document, DocStatus

LEMMA AttachResultMoves ==
  ASSUME TypeOK, NEW w \in Workers, AttachResult(w)
  PROVE  /\ InSession(w) /\ pc[w] = "store" /\ OthersStay(w)
         /\ job[w] \in Jobs /\ local[w].cur \in Files
         /\ pc'[w] = "attach" /\ job'[w] = job[w]
         /\ local'[w].count = local[w].count + 1
         /\ local'[w].todo = local[w].todo \ {local[w].cur}
         /\ local'[w].prepared = local[w].prepared
         /\ progress'[job[w]] = local'[w].count
         /\ \A j \in Jobs \ {job[w]} : progress'[j] = progress[j]
         /\ OtherJobsStay(w) /\ SameContent /\ StatusPut(w, local[w].cur, "completed")
         /\ docs'[job[w]][local[w].cur].result
<1> DEFINE me == local[w]
           f == me.cur
           row == [Row(w, f) EXCEPT !.status = "completed", !.result = TRUE]
           s == [me EXCEPT !.count = Counted(w), !.todo = @ \ {f}, !.cur = NoFile]
<1>1. pc[w] = "store" /\ Exists(job[w])
  BY DEF AttachResult, At
<1>2. /\ InSession(w) /\ f \in Files /\ job[w] \in Jobs /\ me \in Session
      /\ Counted(w) = me.count + 1 /\ Counted(w) \in Nat
  BY <1>1, HoldsWork, SessionType DEF InSession, Working, Counted
<1>3. /\ s \in Session /\ s.count = Counted(w) /\ s.todo = me.todo \ {f}
      /\ s.prepared = me.prepared /\ s.view = me.view
  BY <1>2 DEF Session
<1>4. row \in Document /\ row.status = "completed" /\ row.content = Row(w, f).content /\ row.result
  <2>1. Row(w, f) \in Document
    BY <1>2, DocsType DEF Row
  <2> QED
    BY <2>1, CompletedRow
<1>5. PutDoc(w, f, row, "attach", s) /\ progress' = [progress EXCEPT ![job[w]] = Counted(w)]
  BY DEF AttachResult
<1>6. docs'[job[w]][f].result
  <2>1. docs' = [docs EXCEPT ![job[w]] = [docs[job[w]] EXCEPT ![f] = row]]
    BY <1>5 DEF PutDoc
  <2> HIDE DEF row
  <2>2. docs'[job[w]][f] = row
    BY <1>2, <2>1 DEF TypeOK
  <2> QED
    BY <1>4, <2>2
<1> HIDE DEF row, s
<1>7. progress'[job[w]] = Counted(w) /\ \A j \in Jobs \ {job[w]} : progress'[j] = progress[j]
  BY <1>2, <1>5 DEF TypeOK
<1>8. /\ OthersStay(w) /\ OtherJobsStay(w) /\ SameContent
      /\ StatusPut(w, f, row.status) /\ Moves(w, {"attach"}, [s EXCEPT !.view[f] = row.status])
  BY <1>2, <1>3, <1>4, <1>5, PutDocMoves
<1>9. [s EXCEPT !.view[f] = row.status].count = Counted(w)
      /\ [s EXCEPT !.view[f] = row.status].todo = me.todo \ {f}
      /\ [s EXCEPT !.view[f] = row.status].prepared = me.prepared
  BY <1>3 DEF Session
<1>10. /\ pc'[w] = "attach" /\ job'[w] = job[w] /\ local'[w].count = Counted(w)
       /\ local'[w].todo = me.todo \ {f} /\ local'[w].prepared = me.prepared
  <2> DEFINE left == [s EXCEPT !.view[f] = row.status]
  <2>1. Moves(w, {"attach"}, left) /\ left.count = Counted(w) /\ left.todo = me.todo \ {f}
        /\ left.prepared = me.prepared
    BY <1>8, <1>9
  <2> HIDE DEF left
  <2> QED
    BY <2>1 DEF Moves
<1>11. StatusPut(w, f, "completed")
  BY <1>4, <1>8
<1> QED
  BY <1>1, <1>2, <1>6, <1>7, <1>8, <1>10, <1>11

\* Cancelling and finishing write the rows of the job and release it.
LEMMA CancelRemainingMoves ==
  ASSUME TypeOK, NEW w \in Workers, CancelRemaining(w)
  PROVE  /\ InSession(w) /\ job[w] \in Jobs /\ OthersStay(w) /\ OtherJobsStay(w)
         /\ pc'[w] = "recover" /\ job'[w] = NoJob /\ SameContent /\ SameResult
<1>1. pc[w] = "cancelling" /\ Exists(job[w]) /\ Release(w)
  BY DEF CancelRemaining, At
<1>2. InSession(w) /\ job[w] \in Jobs
  BY <1>1, HoldsWork DEF InSession, Working
<1>3. OtherJobsStay(w)
  BY <1>2 DEF CancelRemaining, TypeOK, OtherJobsStay
<1>4. ASSUME NEW g \in Files
      PROVE  /\ docs'[job[w]][g].content = docs[job[w]][g].content
             /\ docs'[job[w]][g].result = docs[job[w]][g].result
  <2>1. docs'[job[w]][g] \in {docs[job[w]][g], [docs[job[w]][g] EXCEPT !.status = "cancelled"]}
    BY <1>2 DEF CancelRemaining, TypeOK
  <2>2. docs[job[w]][g] \in Document
    BY <1>2, DocsType
  <2> QED
    BY <2>1, <2>2 DEF Document
<1>5. SameContent /\ SameResult
  BY <1>3, <1>4 DEF OtherJobsStay, SameContent, SameResult
<1> QED
  BY <1>1, <1>2, <1>3, <1>5, ReleaseMoves

\* The documents the session has completed.
CompletedBy(w) == {f \in local[w].prepared : local[w].view[f] = "completed"}

LEMMA FinishMoves ==
  ASSUME TypeOK, NEW w \in Workers, Finish(w)
  PROVE  /\ InSession(w) /\ pc[w] = "finish" /\ job[w] \in Jobs
         /\ OthersStay(w) /\ OtherJobsStay(w)
         /\ pc'[w] = "recover" /\ job'[w] = NoJob /\ SameContent /\ SameResult
         /\ \A g \in Files : docs'[job[w]][g].status = docs[job[w]][g].status
         /\ \A g \in CompletedBy(w) : docs'[job[w]][g].rank = RankIn(g, CompletedBy(w))
<1>1. pc[w] = "finish" /\ Exists(job[w]) /\ Release(w)
  BY DEF Finish, At
<1>2. InSession(w) /\ job[w] \in Jobs
  BY <1>1, HoldsWork DEF InSession, Working
<1>3. docs' = [docs EXCEPT ![job[w]] =
                [f \in Files |-> IF f \in CompletedBy(w)
                                 THEN [docs[job[w]][f] EXCEPT !.rank = RankIn(f, CompletedBy(w))]
                                 ELSE docs[job[w]][f]]]
  BY DEF Finish, CompletedBy
<1>4. OtherJobsStay(w)
  BY <1>3 DEF TypeOK, OtherJobsStay
<1>5. ASSUME NEW g \in Files
      PROVE  /\ docs'[job[w]][g].content = docs[job[w]][g].content
             /\ docs'[job[w]][g].result = docs[job[w]][g].result
             /\ docs'[job[w]][g].status = docs[job[w]][g].status
             /\ g \in CompletedBy(w) => docs'[job[w]][g].rank = RankIn(g, CompletedBy(w))
  <2>1. docs'[job[w]][g] = IF g \in CompletedBy(w)
                           THEN [docs[job[w]][g] EXCEPT !.rank = RankIn(g, CompletedBy(w))]
                           ELSE docs[job[w]][g]
    BY <1>2, <1>3 DEF TypeOK
  <2>2. docs[job[w]][g] \in Document
    BY <1>2, DocsType
  <2> QED
    BY <2>1, <2>2 DEF Document
<1>6. SameContent /\ SameResult
  BY <1>4, <1>5 DEF OtherJobsStay, SameContent, SameResult
<1>7. CompletedBy(w) \subseteq Files
  BY SessionType DEF CompletedBy
<1> QED
  BY <1>1, <1>2, <1>4, <1>5, <1>6, <1>7, ReleaseMoves

LEMMA RecoverMoves ==
  ASSUME TypeOK, NEW w \in Workers, Recover(w)
  PROVE  /\ OthersStay(w) /\ pc[w] = "recover" /\ pc'[w] = "claim"
         /\ UNCHANGED <<progress, contents, results, job, local, request>>
         /\ SameContent /\ SameResult
         /\ \A j \in Jobs : ~Stale(j) => docs'[j] = docs[j] /\ status'[j] = status[j]
         /\ \A j \in Jobs : Stale(j) => status'[j] \in {"cancelled", "failed", "queued"}
<1>1. \A j \in Jobs, g \in Files :
        docs'[j][g] \in {docs[j][g], [docs[j][g] EXCEPT !.status = Settle(docs[j][g].status)]}
  BY DEF Recover
<1>2. SameContent /\ SameResult
  BY <1>1, DocsType DEF SameContent, SameResult, Document
<1>3. \A j \in Jobs : ~Stale(j) => docs'[j] = docs[j] /\ status'[j] = status[j]
  BY DEF Recover, TypeOK
<1>4. \A j \in Jobs : Stale(j) => status'[j] \in {"cancelled", "failed", "queued"}
  BY DEF Recover, RecoveredStatus
<1> QED
  BY <1>2, <1>3, <1>4 DEF Recover, TypeOK, OthersStay

----------------------------------------------------------------------------
(* The caches. Jobs share them and two sessions may work on one job; what  *)
(* protects a row of a cache is a document that refers to it, and a        *)
(* session that has prepared a document has made it refer to its content.  *)

LinkedInv(w) ==
  /\ \A f \in local[w].prepared : docs[job[w]][f].content
  /\ pc[w] \in {"chunk", "index"} => docs[job[w]][local[w].cur].content
  /\ pc[w] \in {"attach", "store"} => local[w].todo \subseteq local[w].prepared
  /\ pc[w] = "store" => local[w].cur \in local[w].prepared

CacheInv ==
  /\ CacheReferencesHold
  /\ \A j \in Jobs : ~Exists(j) => \A f \in Files : ~docs[j][f].content /\ ~docs[j][f].result
  /\ \A w \in Workers : job[w] \in Jobs => status[job[w]] # "absent"
  /\ \A w \in Workers : InSession(w) => LinkedInv(w)

\* No row comes or goes.
SameRows ==
  \A j \in Jobs : (Exists(j)' <=> Exists(j)) /\ (status'[j] = "absent" => status[j] = "absent")

ContentGrows == \A j \in Jobs, f \in Files : docs[j][f].content => docs'[j][f].content

\* A session keeps what it relies on while the documents keep their content.
LEMMA LinkedKept ==
  ASSUME TypeOK, NEW v \in Workers, InSession(v), LinkedInv(v),
         pc'[v] = pc[v], job'[v] = job[v], local'[v] = local[v], ContentGrows
  PROVE  LinkedInv(v)'
<1>1. job[v] \in Jobs /\ local[v].prepared \subseteq Files
      /\ (pc[v] \in {"chunk", "index"} => local[v].cur \in Files)
  BY HoldsWork, SessionType DEF InSession
<1> QED
  BY <1>1 DEF LinkedInv, ContentGrows

LEMMA CacheKept ==
  ASSUME TypeOK, CacheInv, NEW w \in Workers, OthersStay(w), SameRows, ContentGrows,
         CacheReferencesHold',
         \A j \in Jobs : ~Exists(j) => \A f \in Files : ~docs'[j][f].content /\ ~docs'[j][f].result,
         job'[w] \in Jobs => status[job'[w]] # "absent",
         InSession(w)' => LinkedInv(w)'
  PROVE  CacheInv'
<1>1. ASSUME NEW v \in Workers, job'[v] \in Jobs PROVE status'[job'[v]] # "absent"
  BY <1>1 DEF CacheInv, OthersStay, SameRows
<1>2. ASSUME NEW v \in Workers, InSession(v)' PROVE LinkedInv(v)'
  <2>1. CASE v = w
    BY <1>2, <2>1
  <2>2. CASE v # w
    <3>1. pc'[v] = pc[v] /\ job'[v] = job[v] /\ local'[v] = local[v]
      BY <2>2 DEF OthersStay
    <3>2. job[v] \in Jobs
      BY <1>2, <3>1, HoldsWork DEF InSession
    <3>3. InSession(v)
      BY <1>2, <3>1, <3>2 DEF InSession, SameRows
    <3> QED
      BY <3>1, <3>3, LinkedKept DEF CacheInv
  <2> QED
    BY <2>1, <2>2
<1> QED
  BY <1>1, <1>2 DEF CacheInv, SameRows

\* The documents keep what they refer to and the caches keep their rows.
LEMMA ReferencesKept ==
  ASSUME CacheInv, SameContent, SameResult, UNCHANGED <<contents, results>>
  PROVE  /\ CacheReferencesHold' /\ ContentGrows
         /\ \A j \in Jobs : ~Exists(j) =>
              \A f \in Files : ~docs'[j][f].content /\ ~docs'[j][f].result
BY DEF CacheInv, CacheReferencesHold, SameContent, SameResult, ContentGrows

LEMMA UnchangedRows == UNCHANGED status => SameRows
BY DEF SameRows, Exists

\* A worker loses its job, or goes on without using a cache.
LEMMA QuietCache ==
  ASSUME TypeOK, CacheInv, NEW w \in Workers, OthersStay(w), SameRows,
         SameContent, SameResult, UNCHANGED <<contents, results>>,
         job'[w] \in Jobs => status[job'[w]] # "absent",
         InSession(w)' => LinkedInv(w)'
  PROVE  CacheInv'
BY CacheKept, ReferencesKept

LEMMA WorkerStepCache ==
  ASSUME TypeOK, CacheInv, NEW w \in Workers, WorkerStep(w) \/ Crash(w)
  PROVE  CacheInv'
<1> DEFINE me == local[w]
           f == me.cur
<1>a. /\ me.prepared \subseteq Files /\ me.todo \subseteq Files /\ me.hits \subseteq Files
      /\ NoJob \notin Jobs
  BY SessionType, ConstantsAssumption
<1>b. InSession(w) => LinkedInv(w) /\ job[w] \in Jobs /\ status[job[w]] # "absent"
  BY HoldsWork DEF CacheInv, InSession
<1>c. ASSUME UNCHANGED docs PROVE SameContent /\ SameResult
  BY <1>c DEF SameContent, SameResult
<1>1. CASE Recover(w)
  <2>1. SameRows
    BY <1>1, RecoverMoves DEF SameRows, Exists, NoRow, Stale
  <2>2. job[w] \notin Jobs
    BY <1>1 DEF Recover, TypeOK, HoldingOK, Working
  <2>3. ~InSession(w)' /\ job'[w] = job[w]
    BY <1>1, RecoverMoves DEF InSession, Working
  <2> QED
    BY <1>1, <2>1, <2>2, <2>3, RecoverMoves, QuietCache
<1>2. CASE Claim(w)
  <2>1. /\ SameRows /\ OthersStay(w) /\ ~InSession(w)'
        /\ UNCHANGED <<docs, contents, results>>
        /\ job'[w] \in Jobs => status[job'[w]] # "absent"
    <3>1. CASE \E j \in Jobs : /\ status[j] = "queued"
                               /\ status' = [status EXCEPT ![j] = "processing"]
                               /\ pc' = [pc EXCEPT ![w] = "begin"]
                               /\ job' = [job EXCEPT ![w] = j]
      BY <1>2, <3>1 DEF Claim, TypeOK, SameRows, Exists, NoRow, OthersStay, InSession
    <3>2. CASE pc' = [pc EXCEPT ![w] = "recover"] /\ UNCHANGED <<status, job>>
      <4>1. pc[w] = "claim"
        BY <1>2 DEF Claim
      <4>2. job[w] \notin Jobs
        BY <4>1 DEF TypeOK, HoldingOK, Working
      <4> QED
        BY <1>2, <3>2, <4>2, UnchangedRows DEF Claim, TypeOK, OthersStay, InSession, Working
    <3> QED
      BY <1>2, <3>1, <3>2 DEF Claim
  <2> QED
    BY <1>c, <2>1, QuietCache
<1>3. CASE Release(w) /\ UNCHANGED database
  <2>1. OthersStay(w) /\ ~InSession(w)' /\ job'[w] \notin Jobs
    BY <1>3, <1>a, ReleaseMoves DEF InSession, Working
  <2> QED
    BY <1>3, <1>c, <2>1, UnchangedRows, QuietCache DEF database
<1>4. CASE Begin(w) /\ pc'[w] # "recover"
  <2>1. LinkedInv(w)'
    BY <1>4, BeginMoves DEF LinkedInv
  <2>2. status[job[w]] # "absent"
    BY <1>4, BeginMoves DEF CacheInv
  <2> QED
    BY <1>4, <1>c, <2>1, <2>2, BeginMoves, UnchangedRows, QuietCache DEF database
<1>5. CASE NextDocument(w)
  <2>1. LinkedInv(w)'
    <3>1. docs' = docs /\ pc'[w] \in {"lookup", "cancelling"} /\ job'[w] = job[w]
          /\ local'[w].prepared = me.prepared /\ InSession(w)
      BY <1>5, NextDocumentMoves DEF NextDocument
    <3> QED
      BY <1>b, <3>1 DEF LinkedInv
  <2>2. OthersStay(w) /\ job'[w] = job[w] /\ status[job[w]] # "absent"
    BY <1>5, <1>b, NextDocumentMoves
  <2>3. SameRows /\ SameContent /\ SameResult /\ UNCHANGED <<contents, results>>
    BY <1>5, <1>c, UnchangedRows DEF NextDocument
  <2> QED
    BY <2>1, <2>2, <2>3, QuietCache
<1>6. CASE StartExtraction(w) \/ StartChunking(w)
  <2>1. LinkedInv(w)'
    <3>1. \A g \in Files : docs'[job[w]][g].content = docs[job[w]][g].content
      BY <1>6, <1>b, DocumentMoves DEF SameContent
    <3> QED
      BY <1>6, <1>a, <1>b, <3>1, DocumentMoves DEF LinkedInv
  <2> QED
    BY <1>6, <1>b, <2>1, DocumentMoves, UnchangedRows, QuietCache DEF StartExtraction, StartChunking
<1>7. CASE ReuseContent(w)
  <2>1. /\ InSession(w) /\ pc[w] = "lookup" /\ pc'[w] = "link" /\ OthersStay(w)
        /\ UNCHANGED <<database, job, local>>
    BY <1>7 DEF ReuseContent, At, InSession, Working, TypeOK, OthersStay
  <2>2. LinkedInv(w)'
    BY <1>b, <2>1 DEF LinkedInv, database
  <2> QED
    BY <1>b, <1>c, <2>1, <2>2, UnchangedRows, QuietCache DEF database
<1>8. CASE LinkContent(w)
  <2>1. contents' = contents \cup {f} /\ results' = results /\ status' = status
    BY <1>8 DEF LinkContent
  <2>2. /\ InSession(w) /\ OthersStay(w) /\ f \in Files /\ SameResult
        /\ docs'[job[w]][f].content /\ OtherJobsStay(w)
        /\ \A g \in Files \ {f} : docs'[job[w]][g] = docs[job[w]][g]
        /\ pc'[w] \in {"chunk", "cancelling"} /\ job'[w] = job[w]
        /\ local'[w].cur = f /\ local'[w].prepared = me.prepared
    BY <1>8, LinkContentMoves
  <2>3. \A j \in Jobs, g \in Files :
          docs'[j][g].content => docs[j][g].content \/ (j = job[w] /\ g = f)
    BY <2>2 DEF OtherJobsStay
  <2>4. ContentGrows
    BY <2>2 DEF OtherJobsStay, ContentGrows
  <2>5. CacheReferencesHold'
    BY <2>1, <2>2, <2>3 DEF CacheInv, CacheReferencesHold, SameResult
  <2>6. \A j \in Jobs : ~Exists(j) => \A g \in Files : ~docs'[j][g].content /\ ~docs'[j][g].result
    BY <2>2, <2>3 DEF CacheInv, InSession, SameResult
  <2>7. LinkedInv(w)'
    BY <1>a, <1>b, <2>2, <2>4 DEF LinkedInv, ContentGrows
  <2> QED
    BY <1>b, <2>1, <2>2, <2>4, <2>5, <2>6, <2>7, UnchangedRows, CacheKept
<1>9. CASE DocumentReady(w)
  <2>1. /\ InSession(w) /\ pc[w] = "index" /\ f \in Files /\ pc'[w] = "next" /\ SameContent
        /\ local'[w].prepared = me.prepared \cup {f} /\ job'[w] = job[w]
    BY <1>9, DocumentReadyMoves
  <2>2. LinkedInv(w)'
    BY <1>a, <1>b, <2>1 DEF LinkedInv, SameContent
  <2>3. OthersStay(w) /\ SameContent /\ SameResult /\ status[job[w]] # "absent"
    BY <1>9, <1>b, <2>1, DocumentReadyMoves
  <2>4. SameRows /\ UNCHANGED <<contents, results>>
    BY <1>9, UnchangedRows DEF DocumentReady
  <2> QED
    BY <2>1, <2>2, <2>3, <2>4, QuietCache
<1>10. ASSUME NEW g \in Files, NEW label \in {"next", "unscored", "finish"},
              FailDocument(w, g, label), InSession(w)
       PROVE  CacheInv'
  <2>1. /\ OthersStay(w) /\ pc'[w] = label /\ job'[w] = job[w] /\ SameContent /\ SameResult
        /\ local'[w].prepared = me.prepared
    BY <1>10, <1>b, FailDocumentMoves
  <2>2. LinkedInv(w)'
    BY <1>10, <1>a, <1>b, <2>1 DEF LinkedInv, SameContent
  <2> QED
    BY <1>10, <1>b, <2>1, <2>2, UnchangedRows, QuietCache DEF FailDocument
<1>11. CASE PrepareFails(w)
  <2>1. InSession(w) /\ f \in Files /\ FailDocument(w, f, "next")
    <3>1. pc[w] \in {"extract", "index"} /\ Exists(job[w])
      BY <1>11 DEF PrepareFails, At
    <3> QED
      BY <1>11, <3>1, HoldsWork DEF PrepareFails, InSession, Working
  <2> QED
    BY <1>10, <2>1
<1>12. CASE FailUnscored(w)
  <2>1. InSession(w) /\ \E g \in me.todo :
          FailDocument(w, g, IF me.todo = {g} THEN "finish" ELSE "unscored")
    BY <1>12 DEF FailUnscored, At, InSession, Working
  <2> QED
    BY <1>10, <1>a, <2>1
<1>13. CASE CancelRemaining(w) \/ Finish(w)
  <2>1. /\ InSession(w) /\ job[w] \in Jobs /\ OthersStay(w) /\ SameContent /\ SameResult
        /\ pc'[w] = "recover" /\ job'[w] = NoJob
    BY <1>13, CancelRemainingMoves, FinishMoves
  <2>2. SameRows /\ UNCHANGED <<contents, results>>
    BY <1>13, <2>1 DEF CancelRemaining, Finish, TypeOK, SameRows, Exists, NoRow, InSession
  <2> QED
    BY <1>a, <2>1, <2>2, QuietCache DEF InSession, Working
<1>14. CASE StartRanking(w) \/ InferenceFails(w)
  <2>1. LinkedInv(w)'
    BY <1>14, <1>b, RankingMoves DEF LinkedInv, SessionKept, database
  <2> QED
    BY <1>14, <1>b, <1>c, <2>1, RankingMoves, UnchangedRows, QuietCache DEF SessionKept, database
<1>15. CASE CheckBatch(w)
  <2>1. LinkedInv(w)'
    BY <1>15, <1>b, CheckBatchMoves DEF LinkedInv, SessionKept, database
  <2> QED
    BY <1>15, <1>b, <1>c, <2>1, CheckBatchMoves, UnchangedRows, QuietCache DEF SessionKept, database
<1>16. CASE PredictBatch(w)
  <2>1. LinkedInv(w)'
    BY <1>16, <1>b, PredictBatchMoves DEF LinkedInv, SessionKept
  <2> QED
    BY <1>16, <1>b, <1>c, <2>1, PredictBatchMoves, UnchangedRows, QuietCache DEF SessionKept
<1>17. CASE CheckAttach(w)
  <2>1. LinkedInv(w)'
    BY <1>17, <1>b, CheckAttachMoves DEF LinkedInv, SessionKept, database
  <2> QED
    BY <1>17, <1>b, <1>c, <2>1, CheckAttachMoves, UnchangedRows, QuietCache DEF SessionKept, database
<1>18. CASE AttachResult(w)
  <2>1. /\ InSession(w) /\ pc[w] = "store" /\ OthersStay(w) /\ f \in Files /\ job'[w] = job[w]
        /\ pc'[w] = "attach" /\ local'[w].todo = me.todo \ {f}
        /\ local'[w].prepared = me.prepared /\ SameContent /\ OtherJobsStay(w)
        /\ \A g \in Files \ {f} : docs'[job[w]][g] = docs[job[w]][g]
    BY <1>18, AttachResultMoves DEF StatusPut
  <2>2. results' = results \cup {f} /\ contents' = contents /\ status' = status
    BY <1>18 DEF AttachResult
  <2>3. docs[job[w]][f].content
    BY <1>b, <2>1 DEF LinkedInv
  <2>4. CacheReferencesHold'
    <3>1. f \in contents
      BY <1>b, <2>1, <2>3 DEF CacheInv, CacheReferencesHold
    <3>2. ASSUME NEW j \in Jobs, NEW g \in Files, docs'[j][g].result PROVE g \in results'
      <4>1. CASE j = job[w] /\ g = f
        BY <2>2, <4>1
      <4>2. CASE ~(j = job[w] /\ g = f)
        <5>1. docs'[j][g] = docs[j][g]
          BY <2>1, <4>2 DEF OtherJobsStay
        <5> QED
          BY <2>2, <3>2, <5>1 DEF CacheInv, CacheReferencesHold
      <4> QED
        BY <4>1, <4>2
    <3> QED
      BY <2>1, <2>2, <3>1, <3>2 DEF CacheInv, CacheReferencesHold, SameContent
  <2>5. ContentGrows
    BY <2>1 DEF SameContent, ContentGrows
  <2>6. \A j \in Jobs : ~Exists(j) => \A g \in Files : ~docs'[j][g].content /\ ~docs'[j][g].result
    BY <2>1 DEF CacheInv, InSession, OtherJobsStay
  <2>7. LinkedInv(w)'
    BY <1>a, <1>b, <2>1 DEF LinkedInv, SameContent
  <2> QED
    BY <1>b, <2>1, <2>2, <2>4, <2>5, <2>6, <2>7, UnchangedRows, CacheKept
<1>19. CASE Begin(w) /\ pc'[w] = "recover"
  BY <1>3, <1>19 DEF Begin, TypeOK
<1> QED
  BY <1>1, <1>2, <1>3, <1>4, <1>5, <1>6, <1>7, <1>8, <1>9, <1>11, <1>12, <1>13, <1>14, <1>15,
     <1>16, <1>17, <1>18, <1>19 DEF WorkerStep, Crash, RowVanished, ContentVanished, ResultVanished

\* A request: only a deletion takes something out of the caches, and what is left is what
\* the documents of other jobs refer to.
LEMMA RequestStepCache ==
  ASSUME TypeOK, CacheInv, NEW c \in Clients, RequestStep(c)
  PROVE  CacheInv'
<1>a. ASSUME NEW v \in Workers, pc'[v] = pc[v], job'[v] = job[v], local'[v] = local[v],
             InSession(v)', \A j \in Jobs : j = job[v] => Exists(j) /\ docs'[j] = docs[j]
      PROVE  LinkedInv(v)'
  <2>1. job[v] \in Jobs
    BY <1>a, HoldsWork DEF InSession
  <2>2. InSession(v) /\ LinkedInv(v)
    BY <1>a, <2>1 DEF CacheInv, InSession
  <2> QED
    BY <1>a, <2>1, <2>2 DEF LinkedInv
<1>1. CASE DeleteJob(c)
  <2> DEFINE j == request[c].job
             Held(f) == \E i \in Jobs \ {j} : Exists(i) /\ docs[i][f].content
             left == results \ {f \in request[c].result : ~StillReferenced(j, f)}
  <2>1. /\ results' = left
        /\ contents' = contents \ {f \in request[c].content : ~Held(f) /\ f \notin left}
        /\ UNCHANGED <<pc, job, local>>
    BY <1>1 DEF DeleteJob
  <2>2. \A i \in Jobs : i # j => docs'[i] = docs[i] /\ status'[i] = status[i]
    BY <1>1 DEF DeleteJob, TypeOK
  <2>3. \A i \in Jobs : i = j => /\ status'[i] = "deleted" /\ ~Exists(i)'
                                 /\ \A f \in Files : ~docs'[i][f].content /\ ~docs'[i][f].result
    BY <1>1 DEF DeleteJob, TypeOK, Exists, NoRow, NewDoc
  <2>4. ASSUME NEW i \in Jobs, NEW f \in Files, docs'[i][f].content PROVE f \in contents'
    <3>1. i # j /\ docs[i][f].content
      BY <2>2, <2>3, <2>4
    <3>2. Exists(i) /\ f \in contents
      BY <3>1 DEF CacheInv, CacheReferencesHold
    <3> QED
      BY <2>1, <3>1, <3>2
  <2>5. ASSUME NEW i \in Jobs, NEW f \in Files, docs'[i][f].result PROVE f \in results'
    <3>1. i # j /\ docs[i][f].result
      BY <2>2, <2>3, <2>5
    <3>2. Exists(i) /\ f \in results
      BY <3>1 DEF CacheInv, CacheReferencesHold
    <3> QED
      BY <2>1, <3>1, <3>2 DEF StillReferenced
  <2>6. results' \subseteq contents'
    BY <2>1 DEF CacheInv, CacheReferencesHold
  <2>7. \A i \in Jobs : ~Exists(i)' => \A f \in Files : ~docs'[i][f].content /\ ~docs'[i][f].result
    BY <2>2, <2>3 DEF CacheInv, Exists
  <2>8. \A v \in Workers : job'[v] \in Jobs => status'[job'[v]] # "absent"
    BY <2>1, <2>2, <2>3 DEF CacheInv
  <2>9. ASSUME NEW v \in Workers, InSession(v)' PROVE LinkedInv(v)'
    <3>1. job[v] \in Jobs
      BY <2>1, <2>9, HoldsWork DEF InSession
    <3>2. job[v] # j
      BY <2>1, <2>3, <2>9, <3>1 DEF InSession
    <3>3. Exists(job[v]) /\ docs'[job[v]] = docs[job[v]]
      BY <2>1, <2>2, <2>9, <3>1, <3>2 DEF InSession, Exists
    <3> QED
      BY <1>a, <2>1, <2>9, <3>3
  <2> QED
    BY <2>4, <2>5, <2>6, <2>7, <2>8, <2>9 DEF CacheInv, CacheReferencesHold
<1>2. CASE UNCHANGED <<docs, contents, results, pc, job, local>>
           /\ \A j \in Jobs : (status[j] # "absent" => (Exists(j)' <=> Exists(j)))
                              /\ (status'[j] = "absent" => status[j] = "absent")
  <2>1. \A j \in Jobs : ~Exists(j)' => ~Exists(j)
    BY <1>2 DEF Exists, NoRow
  <2>2. \A v \in Workers : job[v] \in Jobs => status[job[v]] # "absent"
    BY DEF CacheInv
  <2>3. ASSUME NEW v \in Workers, InSession(v)' PROVE LinkedInv(v)'
    <3>1. job[v] \in Jobs
      BY <1>2, <2>3, HoldsWork DEF InSession
    <3>2. Exists(job[v])
      BY <1>2, <2>2, <2>3, <3>1 DEF InSession
    <3> QED
      BY <1>2, <1>a, <2>3, <3>2
  <2> QED
    BY <1>2, <2>1, <2>2, <2>3 DEF CacheInv, CacheReferencesHold
<1>3. CASE CreateJob(c)
  BY <1>2, <1>3 DEF CreateJob, TypeOK, Exists, NoRow
<1>4. CASE CancelJob(c)
  <2>1. request[c].seen \in {"queued", "processing"}
    BY <1>4 DEF CancelJob, TypeOK, HoldingOK
  <2> QED
    BY <1>2, <1>4, <2>1 DEF CancelJob, TypeOK, Exists, NoRow
<1>5. CASE UNCHANGED <<database, pc, job, local>>
  BY <1>2, <1>5 DEF database, Exists
<1> QED
  BY <1>1, <1>3, <1>4, <1>5 DEF RequestStep, ReadForCreate, ReadForCancel, ReadForDelete

LEMMA CacheInvariant == Spec => []CacheInv
<1>1. Init => CacheInv
  BY ConstantsAssumption DEF Init, CacheInv, CacheReferencesHold, NewDoc, InSession, Working
<1>2. TypeOK /\ CacheInv /\ [Next]_vars => CacheInv'
  <2> SUFFICES ASSUME TypeOK, CacheInv, [Next]_vars PROVE CacheInv'
    OBVIOUS
  <2>1. CASE UNCHANGED <<status, docs, contents, results, pc, job, local>>
    BY <2>1 DEF CacheInv, CacheReferencesHold, Exists, InSession, LinkedInv
  <2>2. ASSUME NEW j \in Jobs, HeartbeatExpires(j) PROVE CacheInv'
    BY <2>1, <2>2 DEF HeartbeatExpires
  <2>3. CASE UNCHANGED vars
    BY <2>1, <2>3 DEF vars
  <2> QED
    BY <2>2, <2>3, WorkerStepCache, RequestStepCache DEF Next
<1> QED
  BY <1>1, <1>2, TypeCorrect, PTL DEF Spec

\* jobs.py, delete_job counts references first: whatever two workers on one job, stalls, retries and
\* deletions of other jobs do, no document refers to a cache row that is gone.
THEOREM CachesConsistent == Spec => []CacheReferencesHold
<1>1. CacheInv => CacheReferencesHold
  BY DEF CacheInv
<1> QED
  BY <1>1, CacheInvariant, PTL

----------------------------------------------------------------------------
(* The count of processed documents. Two sessions may overwrite each       *)
(* other's count; each of them stays within its own budget, for it counts  *)
(* a document once: those it has still to count are left over.             *)

Preparing == {"next", "lookup", "extract", "link", "chunk", "index"}

BudgetInv(w) ==
  LET me == local[w]
      Left(S) == me.count + Cardinality(S) <= Cardinality(Files)
  IN
  /\ pc[w] \in Preparing /\ (pc[w] = "next" => me.todo # Files)
       => Left(me.todo \cup me.prepared)
  /\ pc[w] \in Preparing => me.todo \cap me.prepared = {}
  /\ pc[w] \in {"batch", "predict"} => Left(me.prepared) /\ me.todo \subseteq me.prepared
  /\ pc[w] \in {"unscored", "attach", "store"} => Left(me.todo)
  /\ pc[w] \in {"lookup", "extract", "link", "chunk", "index", "store"} => me.cur \in me.todo

ProgressInv == ProgressBounded /\ \A w \in Workers : BudgetInv(w)

LEMMA FilesCount ==
  /\ Cardinality(Files) \in Nat
  /\ \A S \in SUBSET Files : /\ IsFiniteSet(S) /\ Cardinality(S) \in Nat
                             /\ Cardinality(S) <= Cardinality(Files)
  /\ \A S \in SUBSET Files : \A T \in SUBSET S : Cardinality(T) <= Cardinality(S)
  /\ \A S \in SUBSET Files : \A f \in S : Cardinality(S \ {f}) = Cardinality(S) - 1
<1>1. \A S \in SUBSET Files : IsFiniteSet(S) /\ Cardinality(S) <= Cardinality(Files)
  BY ConstantsAssumption, FS_Subset
<1>2. \A S \in SUBSET Files : Cardinality(S) \in Nat
  BY <1>1, FS_CardinalityType
<1>3. \A S \in SUBSET Files : \A T \in SUBSET S : Cardinality(T) <= Cardinality(S)
  BY <1>1, FS_Subset
<1>4. \A S \in SUBSET Files : \A f \in S : Cardinality(S \ {f}) = Cardinality(S) - 1
  BY <1>1, FS_RemoveElement
<1> QED
  BY <1>1, <1>2, <1>3, <1>4

\* A session within its budget, before a document is counted and after.
LEMMA CountedWithinBudget ==
  ASSUME NEW S \in SUBSET Files, NEW f, NEW n \in Nat, NEW m,
         f \in S, m \in {n, n + 1}, n + Cardinality(S) <= Cardinality(Files)
  PROVE  m + Cardinality(S \ {f}) <= Cardinality(Files) /\ m <= Cardinality(Files)
<1>1. Cardinality(S \ {f}) = Cardinality(S) - 1 /\ Cardinality(S) \in Nat
      /\ Cardinality(Files) \in Nat /\ Cardinality(S \ {f}) \in Nat
  <2>1. S \ {f} \in SUBSET Files
    OBVIOUS
  <2> QED
    BY <2>1, FilesCount
<1> QED
  BY <1>1

LEMMA ProgressKept ==
  ASSUME TypeOK, ProgressInv, NEW w \in Workers, OthersStay(w), BudgetInv(w)',
         \A j \in Jobs : progress'[j] <= Cardinality(Files)
  PROVE  ProgressInv'
<1>1. ASSUME NEW v \in Workers, v # w PROVE BudgetInv(v)'
  BY <1>1 DEF ProgressInv, OthersStay, BudgetInv
<1> QED
  BY <1>1 DEF ProgressInv, ProgressBounded

LEMMA WorkerStepProgress ==
  ASSUME TypeOK, ProgressInv, NEW w \in Workers, WorkerStep(w) \/ Crash(w)
  PROVE  ProgressInv'
<1> DEFINE me == local[w]
           f == me.cur
           N == Cardinality(Files)
<1>a. /\ me.prepared \subseteq Files /\ me.todo \subseteq Files /\ me.hits \subseteq Files
      /\ me.count \in Nat /\ BudgetInv(w) /\ \A j \in Jobs : progress[j] <= N
  BY SessionType DEF ProgressInv, ProgressBounded
<1>b. ASSUME progress' = progress, OthersStay(w), BudgetInv(w)' PROVE ProgressInv'
  BY <1>a, <1>b, ProgressKept
<1>1. CASE Recover(w)
  <2>1. BudgetInv(w)'
    BY <1>1, RecoverMoves DEF BudgetInv, Preparing
  <2> QED
    BY <1>1, <1>b, <2>1, RecoverMoves
<1>2. CASE Claim(w)
  <2>1. pc'[w] \in {"begin", "recover"} /\ OthersStay(w) /\ progress' = progress
    BY <1>2 DEF Claim, TypeOK, OthersStay
  <2>2. BudgetInv(w)'
    BY <2>1 DEF BudgetInv, Preparing
  <2> QED
    BY <1>b, <2>1, <2>2
<1>3. CASE Release(w) /\ UNCHANGED progress
  <2>1. OthersStay(w) /\ pc'[w] = "recover"
    BY <1>3, ReleaseMoves
  <2>2. BudgetInv(w)'
    BY <2>1 DEF BudgetInv, Preparing
  <2> QED
    BY <1>3, <1>b, <2>1, <2>2
<1>4. CASE Begin(w) /\ pc'[w] # "recover"
  <2>1. BudgetInv(w)'
    BY <1>4, BeginMoves DEF BudgetInv, Preparing
  <2> QED
    BY <1>4, <1>b, <2>1, BeginMoves DEF database
<1>5. CASE NextDocument(w)
  <2>1. /\ pc[w] = "next" /\ OthersStay(w) /\ pc'[w] \in {"lookup", "cancelling"}
        /\ local'[w].count = StartingCount(w) /\ local'[w].cur \in me.todo
        /\ local'[w].todo = me.todo /\ local'[w].prepared = me.prepared
    BY <1>5, NextDocumentMoves
  <2>2. StartingCount(w) + Cardinality(me.todo \cup me.prepared) <= N
    <3>1. CASE me.todo = Files
      <4>1. StartingCount(w) = 0
        BY <3>1 DEF StartingCount
      <4>2. me.todo \cup me.prepared \in SUBSET Files
        BY <1>a
      <4> QED
        BY <4>1, <4>2, FilesCount
    <3>2. CASE me.todo # Files
      BY <1>a, <2>1, <3>2 DEF BudgetInv, Preparing, StartingCount
    <3> QED
      BY <3>1, <3>2
  <2>3. BudgetInv(w)'
    BY <1>a, <2>1, <2>2 DEF BudgetInv, Preparing
  <2>4. \A j \in Jobs : progress'[j] <= N
    <3>1. StartingCount(w) # me.count => StartingCount(w) = 0
      BY DEF StartingCount
    <3>2. \A j \in Jobs : progress'[j] \in {progress[j], 0}
      BY <1>5, <3>1 DEF NextDocument, TypeOK
    <3> QED
      BY <1>a, <3>2, FilesCount
  <2> QED
    BY <2>1, <2>3, <2>4, ProgressKept
<1>6. CASE StartExtraction(w) \/ StartChunking(w)
  <2>1. BudgetInv(w)'
    BY <1>6, <1>a, DocumentMoves DEF BudgetInv, Preparing
  <2> QED
    BY <1>6, <1>b, <2>1, DocumentMoves DEF StartExtraction, StartChunking
<1>7. CASE ReuseContent(w)
  <2>1. /\ pc[w] = "lookup" /\ pc'[w] = "link" /\ OthersStay(w)
        /\ UNCHANGED <<progress, local>>
    BY <1>7 DEF ReuseContent, At, TypeOK, OthersStay, database
  <2>2. BudgetInv(w)'
    BY <1>a, <2>1 DEF BudgetInv, Preparing
  <2> QED
    BY <1>b, <2>1, <2>2
<1>8. CASE LinkContent(w)
  <2>1. BudgetInv(w)'
    BY <1>8, <1>a, LinkContentMoves DEF BudgetInv, Preparing
  <2> QED
    BY <1>8, <1>b, <2>1, LinkContentMoves DEF LinkContent
<1>9. CASE DocumentReady(w)
  <2>1. /\ pc[w] = "index" /\ pc'[w] = "next" /\ local'[w].count = me.count
        /\ local'[w].todo = me.todo \ {f} /\ local'[w].prepared = me.prepared \cup {f}
    BY <1>9, DocumentReadyMoves
  <2>2. (me.todo \ {f}) \cup (me.prepared \cup {f}) = me.todo \cup me.prepared
        /\ (me.todo \ {f}) \cap (me.prepared \cup {f}) = {}
    BY <1>a, <2>1 DEF BudgetInv, Preparing
  <2>3. BudgetInv(w)'
    BY <1>a, <2>1, <2>2 DEF BudgetInv, Preparing
  <2> QED
    BY <1>9, <1>b, <2>3, DocumentReadyMoves DEF DocumentReady
<1>10. CASE PrepareFails(w)
  <2>1. pc[w] \in {"extract", "index"} /\ FailDocument(w, f, "next")
    BY <1>10 DEF PrepareFails, At
  <2>2. f \in me.todo /\ job[w] \in Jobs
    BY <1>a, <2>1, HoldsWork DEF BudgetInv, Working
  <2>3. /\ OthersStay(w) /\ pc'[w] = "next" /\ local'[w].count \in {me.count, me.count + 1}
        /\ local'[w].todo = me.todo \ {f} /\ local'[w].prepared = me.prepared
        /\ progress'[job[w]] = local'[w].count
        /\ \A j \in Jobs \ {job[w]} : progress'[j] = progress[j]
    BY <1>a, <2>1, <2>2, FailDocumentMoves
  <2>4. (me.todo \cup me.prepared) \ {f} = (me.todo \ {f}) \cup me.prepared
        /\ (me.todo \ {f}) \cap me.prepared = {}
    BY <1>a, <2>1, <2>2 DEF BudgetInv, Preparing
  <2>5. local'[w].count + Cardinality((me.todo \cup me.prepared) \ {f}) <= N
        /\ local'[w].count <= N
    <3>1. me.count + Cardinality(me.todo \cup me.prepared) <= N
      BY <1>a, <2>1 DEF BudgetInv, Preparing
    <3> DEFINE S == me.todo \cup me.prepared
               n == me.count
               m == local'[w].count
    <3>2. S \in SUBSET Files /\ f \in S
      BY <1>a, <2>2
    <3>3. n \in Nat /\ m \in Nat /\ m \in {n, n + 1}
      BY <1>a, <2>3
    <3>4. n + Cardinality(S) <= N
      BY <3>1
    <3> HIDE DEF S, n, m
    <3>5. m + Cardinality(S \ {f}) <= N /\ m <= N
      BY <3>2, <3>3, <3>4, CountedWithinBudget
    <3> QED
      BY <3>5 DEF S, m
  <2>6. BudgetInv(w)'
    BY <2>3, <2>4, <2>5 DEF BudgetInv, Preparing
  <2> QED
    BY <1>a, <2>3, <2>5, <2>6, ProgressKept
<1>11. CASE FailUnscored(w)
  <2>1. pc[w] = "unscored"
    BY <1>11 DEF FailUnscored, At
  <2>2. PICK g \in me.todo : FailDocument(w, g, IF me.todo = {g} THEN "finish" ELSE "unscored")
    BY <1>11 DEF FailUnscored
  <2>3. g \in Files /\ job[w] \in Jobs
    BY <1>a, <2>1, HoldsWork DEF Working
  <2>4. /\ OthersStay(w) /\ pc'[w] \in {"finish", "unscored"}
        /\ local'[w].count \in {me.count, me.count + 1}
        /\ local'[w].todo = me.todo \ {g}
        /\ progress'[job[w]] = local'[w].count
        /\ \A j \in Jobs \ {job[w]} : progress'[j] = progress[j]
    BY <2>2, <2>3, FailDocumentMoves
  <2>5. local'[w].count + Cardinality(me.todo \ {g}) <= N /\ local'[w].count <= N
    BY <1>a, <2>1, <2>4, CountedWithinBudget DEF BudgetInv
  <2>6. BudgetInv(w)'
    BY <2>4, <2>5 DEF BudgetInv, Preparing
  <2> QED
    BY <1>a, <2>4, <2>5, <2>6, ProgressKept
<1>12. CASE CancelRemaining(w) \/ Finish(w)
  BY <1>3, <1>12 DEF CancelRemaining, Finish
<1>13. CASE StartRanking(w) \/ InferenceFails(w)
  <2>1. /\ OthersStay(w) /\ UNCHANGED progress /\ local'[w].todo = Uncached(w)
        /\ local'[w].count = me.count /\ local'[w].prepared = me.prepared
        /\ \/ pc[w] = "next" /\ me.todo = {} /\ pc'[w] = "batch"
           \/ pc[w] = "predict" /\ pc'[w] = "unscored"
    BY <1>13, RankingMoves DEF SessionKept, database
  <2>2. Uncached(w) \subseteq me.prepared /\ Uncached(w) \subseteq Files
    BY <1>a DEF Uncached
  <2>3. CASE pc[w] = "next" /\ me.todo = {} /\ pc'[w] = "batch"
    <3>1. me.todo # Files /\ me.todo \cup me.prepared = me.prepared
      BY <2>3, ConstantsAssumption
    <3>2. me.count + Cardinality(me.prepared) <= N
      BY <1>a, <2>3, <3>1 DEF BudgetInv, Preparing
    <3>3. BudgetInv(w)'
      BY <2>1, <2>2, <2>3, <3>2 DEF BudgetInv, Preparing
    <3> QED
      BY <1>b, <2>1, <3>3
  <2>4. CASE pc[w] = "predict" /\ pc'[w] = "unscored"
    <3>1. me.count + Cardinality(me.prepared) <= N
      BY <1>a, <2>4 DEF BudgetInv
    <3>2. /\ Cardinality(Uncached(w)) <= Cardinality(me.prepared)
          /\ Cardinality(Uncached(w)) \in Nat /\ Cardinality(me.prepared) \in Nat /\ N \in Nat
      BY <1>a, <2>2, FilesCount
    <3>3. me.count + Cardinality(Uncached(w)) <= N
      BY <1>a, <3>1, <3>2
    <3>4. BudgetInv(w)'
      BY <2>1, <2>4, <3>3 DEF BudgetInv, Preparing
    <3> QED
      BY <1>b, <2>1, <3>4
  <2> QED
    BY <2>1, <2>3, <2>4
<1>14. CASE CheckBatch(w)
  <2>1. BudgetInv(w)'
    BY <1>14, <1>a, CheckBatchMoves DEF BudgetInv, Preparing, SessionKept
  <2> QED
    BY <1>14, <1>b, <2>1, CheckBatchMoves DEF database
<1>15. CASE PredictBatch(w)
  <2>1. BudgetInv(w)'
    BY <1>15, <1>a, PredictBatchMoves DEF BudgetInv, Preparing, SessionKept
  <2> QED
    BY <1>15, <1>b, <2>1, PredictBatchMoves
<1>16. CASE CheckAttach(w)
  <2>1. BudgetInv(w)'
    BY <1>16, <1>a, CheckAttachMoves DEF BudgetInv, Preparing, SessionKept
  <2> QED
    BY <1>16, <1>b, <2>1, CheckAttachMoves DEF database
<1>17. CASE AttachResult(w)
  <2>1. /\ OthersStay(w) /\ pc[w] = "store" /\ pc'[w] = "attach"
        /\ local'[w].count = me.count + 1 /\ local'[w].todo = me.todo \ {f}
        /\ progress'[job[w]] = local'[w].count
        /\ \A j \in Jobs \ {job[w]} : progress'[j] = progress[j]
    BY <1>17, AttachResultMoves
  <2>2. local'[w].count + Cardinality(me.todo \ {f}) <= N /\ local'[w].count <= N
    <3>1. f \in me.todo /\ me.count + Cardinality(me.todo) <= N
      BY <1>a, <2>1 DEF BudgetInv
    <3>2. PICK g \in me.todo : g = f
      BY <3>1
    <3>3. PICK m \in {me.count, me.count + 1} : m = local'[w].count
      BY <2>1
    <3>4. m + Cardinality(me.todo \ {g}) <= N /\ m <= N
      <4> DEFINE S == me.todo
      <4>1. S \in SUBSET Files /\ g \in S /\ me.count + Cardinality(S) <= N
        BY <1>a, <3>1
      <4> HIDE DEF S
      <4> QED
        BY <1>a, <4>1, CountedWithinBudget DEF S
    <3> QED
      BY <2>1, <3>2, <3>3, <3>4
  <2>3. BudgetInv(w)'
    BY <2>1, <2>2 DEF BudgetInv, Preparing
  <2> QED
    BY <1>a, <2>1, <2>2, <2>3, ProgressKept
<1>18. CASE Begin(w) /\ pc'[w] = "recover"
  BY <1>3, <1>18 DEF Begin, TypeOK, database
<1> QED
  BY <1>1, <1>2, <1>3, <1>4, <1>5, <1>6, <1>7, <1>8, <1>9, <1>10, <1>11, <1>12, <1>13, <1>14,
     <1>15, <1>16, <1>17, <1>18
  DEF WorkerStep, Crash, RowVanished, ContentVanished, ResultVanished, database

LEMMA ProgressInvariant == Spec => []ProgressInv
<1>1. Init => ProgressInv
  BY FilesCount DEF Init, ProgressInv, ProgressBounded, BudgetInv, Preparing
<1>2. TypeOK /\ ProgressInv /\ [Next]_vars => ProgressInv'
  <2> SUFFICES ASSUME TypeOK, ProgressInv, [Next]_vars PROVE ProgressInv'
    OBVIOUS
  <2>1. CASE UNCHANGED <<pc, local>> /\ \A j \in Jobs : progress'[j] \in {progress[j], 0}
    <3>1. \A w \in Workers : BudgetInv(w)'
      BY <2>1 DEF ProgressInv, BudgetInv
    <3>2. \A j \in Jobs : progress'[j] <= Cardinality(Files)
      BY <2>1, FilesCount DEF ProgressInv, ProgressBounded
    <3> QED
      BY <3>1, <3>2 DEF ProgressInv, ProgressBounded
  <2>2. ASSUME NEW j \in Jobs, HeartbeatExpires(j) PROVE ProgressInv'
    BY <2>1, <2>2 DEF HeartbeatExpires
  <2>3. ASSUME NEW c \in Clients, RequestStep(c) PROVE ProgressInv'
    BY <2>1, <2>3 DEF RequestStep, ReadForCreate, ReadForCancel, ReadForDelete, CreateJob,
       CancelJob, DeleteJob, database, TypeOK
  <2>4. CASE UNCHANGED vars
    BY <2>1, <2>4 DEF vars
  <2> QED
    BY <2>2, <2>3, <2>4, WorkerStepProgress DEF Next
<1> QED
  BY <1>1, <1>2, TypeCorrect, PTL DEF Spec

\* processed_files stays within total_files, for any number of files and attempts and even
\* when two sessions that outlived a heartbeat count for one job.
THEOREM ProgressWithinTotal == Spec => []ProgressBounded
<1>1. ProgressInv => ProgressBounded
  BY DEF ProgressInv
<1> QED
  BY <1>1, ProgressInvariant, PTL

----------------------------------------------------------------------------
(* Outcomes. While a live worker keeps its heartbeat the session's copies  *)
(* are what the rows hold, so that what it decides by them is so.          *)

\* Before orders the files: equal scores are told apart by the name.
LEMMA BeforeOrders ==
  /\ \A f, g \in Files : f # g => Before(f, g) \/ Before(g, f)
  /\ \A f \in Files : ~Before(f, f)
  /\ \A f, g, h \in Files : Before(f, g) /\ Before(g, h) => Before(f, h)
<1>1. \A f \in Files : f \in Nat /\ Score[f] \in Nat
  BY ConstantsAssumption
<1> QED
  BY <1>1 DEF Before

\* The ranks that _finish gives are 1, 2, 3 and so on without a gap.
LEMMA RanksWithoutGap ==
  ASSUME NEW S \in SUBSET Files
  PROVE  {RankIn(f, S) : f \in S} = 1 .. Cardinality(S)
<1> DEFINE Ahead(f) == {g \in S : Before(g, f)}
           R == [f \in S |-> RankIn(f, S)]
           n == Cardinality(S)
<1>1. /\ \A f \in S : Ahead(f) \in SUBSET Files /\ Ahead(f) \in SUBSET S
      /\ n \in Nat /\ IsFiniteSet(S)
  BY FilesCount
<1>2. \A f \in S : Cardinality(Ahead(f)) \in Nat /\ RankIn(f, S) = Cardinality(Ahead(f)) + 1
  BY <1>1, FilesCount DEF RankIn
<1>3. ASSUME NEW f \in S PROVE RankIn(f, S) \in 1 .. n
  <2>1. f \notin Ahead(f)
    BY BeforeOrders
  <2>2. Cardinality(Ahead(f)) <= n /\ Cardinality(Ahead(f)) # n
    <3>1. Cardinality(S) = Cardinality(Ahead(f)) => S = Ahead(f)
      BY <1>1, FS_Subset
    <3> QED
      BY <1>1, <2>1, <3>1, FilesCount
  <2> QED
    BY <1>1, <1>2, <2>2
<1>4. ASSUME NEW f \in S, NEW g \in S, Before(f, g) PROVE RankIn(f, S) # RankIn(g, S)
  <2>1. Ahead(f) \in SUBSET Ahead(g)
    BY <1>4, BeforeOrders
  <2>2. f \in Ahead(g) /\ f \notin Ahead(f)
    BY <1>4, BeforeOrders
  <2>3. IsFiniteSet(Ahead(g))
    BY <1>1, FilesCount
  <2>4. Cardinality(Ahead(f)) # Cardinality(Ahead(g))
    BY <2>1, <2>2, <2>3, FS_Subset
  <2> QED
    BY <1>2, <2>4
<1>5. R \in Injection(S, 1 .. n)
  <2>1. R \in [S -> 1 .. n]
    BY <1>3
  <2>2. \A f, g \in S : R[f] = R[g] => f = g
    BY <1>4, BeforeOrders
  <2> HIDE DEF R
  <2> QED
    BY <2>1, <2>2 DEF Injection, IsInjective
<1>6. IsFiniteSet(1 .. n) /\ Cardinality(1 .. n) = n
  BY <1>1, FS_Interval
<1>7. R \in Surjection(S, 1 .. n)
  <2> HIDE DEF R
  <2> QED
    BY <1>5, <1>6, FS_Injection
<1>8. \A k \in 1 .. n : \E f \in S : R[f] = k
  <2> HIDE DEF R
  <2> QED
    BY <1>7 DEF Surjection
<1> QED
  BY <1>3, <1>8

\* What the owner's session knows about its documents, in each phase of process().
\* Its copies are what the rows hold.
InStep(w) ==
  /\ \A f \in Files : local[w].view[f] = docs[job[w]][f].status
  /\ local[w].count = progress[job[w]]

\* What is neither to do nor prepared has failed.
PreparingInv(w) ==
  /\ local[w].todo \cap local[w].prepared = {}
  /\ \A f \in Files \ (local[w].todo \cup local[w].prepared) : local[w].view[f] = "failed"
  /\ \A f \in local[w].prepared : local[w].view[f] # "completed"
  /\ pc[w] # "next" => local[w].cur \in local[w].todo
  /\ local[w].todo \cup local[w].prepared = Files =>
       local[w].count = 0 \/ (pc[w] = "next" /\ local[w].todo = Files)

RankingInv(w) ==
  /\ \A f \in Files \ local[w].prepared : local[w].view[f] = "failed"
  /\ \A f \in local[w].prepared : local[w].view[f] # "completed"
  /\ local[w].prepared = Files => local[w].count = 0
  /\ local[w].todo \subseteq Uncached(w)
  /\ pc[w] = "predict" => local[w].todo # {}

UnscoredInv(w) ==
  /\ local[w].todo # {}
  /\ \A f \in Files : local[w].view[f] # "completed"

\* What is prepared and not to do any more is completed, and counted.
AttachingInv(w) ==
  /\ local[w].todo \subseteq local[w].prepared
  /\ \A f \in Files \ local[w].prepared : local[w].view[f] = "failed"
  /\ \A f \in local[w].prepared \ local[w].todo :
       local[w].view[f] = "completed" /\ docs[job[w]][f].result
  /\ local[w].prepared = Files =>
       local[w].count + Cardinality(local[w].todo) = Cardinality(Files)
  /\ pc[w] = "store" => local[w].cur \in local[w].todo

FinishingInv(w) ==
  /\ \A f \in Files \ local[w].prepared : local[w].view[f] # "completed"
  /\ \/ \E f \in Files : local[w].view[f] = "failed"
     \/ /\ \A f \in Files : local[w].view[f] = "completed" /\ docs[job[w]][f].result
        /\ local[w].count = Cardinality(Files)

PhaseInv(w) ==
  /\ pc[w] \in Preparing => PreparingInv(w)
  /\ pc[w] \in {"batch", "predict"} => RankingInv(w)
  /\ pc[w] = "unscored" => UnscoredInv(w)
  /\ pc[w] \in {"attach", "store"} => AttachingInv(w)
  /\ pc[w] = "finish" => FinishingInv(w)

SessionInv(w) == InStep(w) /\ PhaseInv(w)

\* What an outcome says of the documents of one job.
SoundOutcome(j) ==
  /\ status[j] = "completed" =>
       /\ \A f \in Files : docs[j][f].status = "completed" /\ docs[j][f].result
       /\ progress[j] = Cardinality(Files)
  /\ status[j] = "completed_with_errors" => \E f \in Files : docs[j][f].status = "failed"
  /\ status[j] \in {"completed", "completed_with_errors"} => RanksDense(j)

OutcomeInv ==
  /\ \A j \in Jobs : SoundOutcome(j)
  /\ \A w \in Workers : InSession(w) => SessionInv(w)

\* The rows of a job stay, or it has no outcome.
OutcomeStays(j) ==
  \/ docs'[j] = docs[j] /\ progress'[j] = progress[j] /\ status'[j] = status[j]
  \/ status'[j] \notin {"completed", "completed_with_errors"}

LEMMA SoundKept ==
  ASSUME NEW j \in Jobs, SoundOutcome(j), OutcomeStays(j)
  PROVE  SoundOutcome(j)'
<1>1. CASE docs'[j] = docs[j] /\ progress'[j] = progress[j] /\ status'[j] = status[j]
  <2>1. RanksDense(j)' <=> RanksDense(j)
    BY <1>1 DEF RanksDense
  <2> QED
    BY <1>1, <2>1 DEF SoundOutcome
<1>2. CASE status'[j] \notin {"completed", "completed_with_errors"}
  BY <1>2 DEF SoundOutcome
<1> QED
  BY <1>1, <1>2 DEF OutcomeStays

\* A session whose job another process has not written.
SessionStays(v) ==
  /\ pc'[v] = pc[v] /\ job'[v] = job[v] /\ local'[v] = local[v]
  /\ Exists(job[v])' => /\ docs'[job[v]] = docs[job[v]] /\ progress'[job[v]] = progress[job[v]]
                        /\ Exists(job[v])

LEMMA SessionInvKept ==
  ASSUME TypeOK, NEW v \in Workers, SessionStays(v), InSession(v) => SessionInv(v)
  PROVE  InSession(v)' => SessionInv(v)'
<1> SUFFICES ASSUME InSession(v)' PROVE SessionInv(v)'
  OBVIOUS
<1>1. pc'[v] = pc[v] /\ job'[v] = job[v] /\ local'[v] = local[v]
  BY DEF SessionStays
<1>2. Exists(job[v])'
  BY <1>1 DEF InSession, Exists
<1>3. docs'[job[v]] = docs[job[v]] /\ progress'[job[v]] = progress[job[v]] /\ Exists(job[v])
  BY <1>2 DEF SessionStays
<1>4. SessionInv(v)
  BY <1>1, <1>3 DEF InSession
<1>5. InStep(v)'
  BY <1>1, <1>3, <1>4 DEF SessionInv, InStep
<1>6. /\ PreparingInv(v) => PreparingInv(v)'
      /\ RankingInv(v) => RankingInv(v)'
      /\ UnscoredInv(v) => UnscoredInv(v)'
  BY <1>1 DEF PreparingInv, RankingInv, UnscoredInv, Uncached
<1>7. /\ AttachingInv(v) => AttachingInv(v)'
      /\ FinishingInv(v) => FinishingInv(v)'
  BY <1>1, <1>3 DEF AttachingInv, FinishingInv
<1> QED
  BY <1>1, <1>4, <1>5, <1>6, <1>7 DEF SessionInv, PhaseInv

\* A step of a worker inside process() writes the rows of its own job, where no other
\* session is, and leaves its status, which is no outcome.
LEMMA OwnStep ==
  ASSUME TypeOK, OwnerInv, OutcomeInv, NEW w \in Workers, job[w] \in Jobs, OthersStay(w),
         OtherJobsStay(w), \A j \in Jobs \ {job[w]} : progress'[j] = progress[j],
         UNCHANGED status,
         InSession(w)' => SessionInv(w)'
  PROVE  OutcomeInv'
<1>1. ASSUME NEW j \in Jobs PROVE SoundOutcome(j)'
  <2>1. CASE j = job[w]
    <3>1. status'[j] \in HeldStatus
      BY <2>1 DEF OwnerInv
    <3> QED
      BY <3>1, SoundKept DEF OutcomeStays, OutcomeInv, HeldStatus
  <2>2. CASE j # job[w]
    BY <2>2, SoundKept DEF OutcomeStays, OtherJobsStay, OutcomeInv
  <2> QED
    BY <2>1, <2>2
<1>2. ASSUME NEW v \in Workers PROVE InSession(v)' => SessionInv(v)'
  <2>1. CASE v = w
    BY <2>1
  <2>2. CASE v # w /\ job[v] \in Jobs
    <3>1. job[v] # job[w]
      BY <2>2, ConstantsAssumption DEF OwnerInv, OneWorkerPerJob
    <3>2. SessionStays(v)
      BY <2>2, <3>1 DEF SessionStays, OthersStay, OtherJobsStay, Exists
    <3> QED
      BY <3>2, SessionInvKept DEF OutcomeInv
  <2>3. CASE v # w /\ job[v] \notin Jobs
    <3>1. pc'[v] \notin Working
      BY <2>3 DEF TypeOK, HoldingOK, OthersStay
    <3> QED
      BY <3>1 DEF InSession
  <2> QED
    BY <2>1, <2>2, <2>3
<1> QED
  BY <1>1, <1>2 DEF OutcomeInv

\* The same when the step writes no document and no count either.
LEMMA QuietStep ==
  ASSUME TypeOK, OwnerInv, OutcomeInv, NEW w \in Workers, job[w] \in Jobs, OthersStay(w),
         UNCHANGED <<status, docs, progress>>, InSession(w)' => SessionInv(w)'
  PROVE  OutcomeInv'
BY OwnStep DEF OtherJobsStay

LEMMA EndedSession == ASSUME NEW w \in Workers, pc'[w] \in {"recover", "claim", "begin"}
                      PROVE  InSession(w)' => SessionInv(w)'
BY DEF InSession, Working

\* The document loop keeps its account of the documents.
LEMMA PreparingOutcome ==
  ASSUME TypeOK, OwnerInv, OutcomeInv, NEW w \in Workers,
         \/ NextDocument(w) \/ StartExtraction(w) \/ StartChunking(w) \/ ReuseContent(w)
         \/ LinkContent(w) \/ DocumentReady(w) \/ PrepareFails(w)
  PROVE  OutcomeInv'
<1> DEFINE me == local[w]
           f == me.cur
<1>a. /\ me.prepared \subseteq Files /\ me.todo \subseteq Files /\ me.count \in Nat
      /\ me.view \in [Files -> DocStatus]
  BY SessionType
<1>b. InSession(w) => InStep(w) /\ PhaseInv(w)
  BY DEF OutcomeInv, SessionInv
<1>1. CASE NextDocument(w)
  <2>1. /\ InSession(w) /\ pc[w] = "next" /\ OthersStay(w)
        /\ pc'[w] \in {"lookup", "cancelling"} /\ job'[w] = job[w]
        /\ local'[w].count = StartingCount(w) /\ local'[w].cur \in me.todo
        /\ local'[w].todo = me.todo /\ local'[w].prepared = me.prepared
        /\ local'[w].view = me.view
    BY <1>1, NextDocumentMoves
  <2>2. job[w] \in Jobs
    BY <2>1, HoldsWork DEF Working
  <2>3. UNCHANGED <<status, docs>>
    BY <1>1 DEF NextDocument
  <2>4. progress'[job[w]] = StartingCount(w)
        /\ \A j \in Jobs \ {job[w]} : progress'[j] = progress[j]
    BY <1>1, <1>b, <2>1, <2>2 DEF NextDocument, TypeOK, InStep
  <2>5. InStep(w)'
    BY <1>b, <2>1, <2>3, <2>4 DEF InStep
  <2>6. me.todo \cup me.prepared = Files => StartingCount(w) = 0
    BY <1>b, <2>1 DEF PhaseInv, PreparingInv, Preparing, StartingCount
  <2>7. PreparingInv(w)'
    BY <1>b, <2>1, <2>6 DEF PhaseInv, PreparingInv, Preparing
  <2>8. SessionInv(w)'
    BY <2>1, <2>5, <2>7 DEF SessionInv, PhaseInv, Preparing
  <2> QED
    BY <2>1, <2>2, <2>3, <2>4, <2>8, OwnStep DEF OtherJobsStay
<1>2. CASE StartExtraction(w) \/ StartChunking(w)
  <2>1. /\ InSession(w) /\ OthersStay(w) /\ job'[w] = job[w] /\ f \in Files
        /\ pc[w] \in {"lookup", "chunk"} /\ pc'[w] \in {"extract", "index"}
        /\ local'[w].count = me.count /\ local'[w].cur = f
        /\ local'[w].todo = me.todo /\ local'[w].prepared = me.prepared
        /\ OtherJobsStay(w)
    BY <1>2, DocumentMoves
  <2>2. PICK d \in {"extracting", "chunking"} : StatusPut(w, f, d)
    BY <1>2, DocumentMoves
  <2>3. job[w] \in Jobs /\ UNCHANGED <<status, progress>>
    BY <1>2, <2>1, HoldsWork DEF Working, StartExtraction, StartChunking
  <2>4. InStep(w)'
    BY <1>b, <2>1, <2>2, <2>3 DEF InStep, StatusPut
  <2>5. PreparingInv(w)
    BY <1>b, <2>1 DEF PhaseInv, Preparing
  <2>6. f \in me.todo /\ f \notin me.prepared
    BY <2>1, <2>5 DEF PreparingInv
  <2>7. PreparingInv(w)'
    BY <1>a, <2>1, <2>2, <2>5, <2>6 DEF PreparingInv, StatusPut
  <2>8. SessionInv(w)'
    BY <2>1, <2>4, <2>7 DEF SessionInv, PhaseInv, Preparing
  <2> QED
    BY <2>1, <2>3, <2>8, OwnStep
<1>3. CASE ReuseContent(w)
  <2>1. /\ InSession(w) /\ pc[w] = "lookup" /\ pc'[w] = "link" /\ OthersStay(w)
        /\ UNCHANGED <<status, docs, progress, job, local>>
    BY <1>3 DEF ReuseContent, At, InSession, Working, TypeOK, OthersStay, database
  <2>2. job[w] \in Jobs
    BY <2>1, HoldsWork DEF Working
  <2>3. InStep(w)' /\ PreparingInv(w)'
    BY <1>b, <2>1 DEF InStep, PhaseInv, PreparingInv, Preparing
  <2>4. SessionInv(w)'
    BY <2>1, <2>3 DEF SessionInv, PhaseInv, Preparing
  <2> QED
    BY <2>1, <2>2, <2>4, QuietStep
<1>4. CASE LinkContent(w)
  <2>1. /\ InSession(w) /\ pc[w] \in {"extract", "link"} /\ OthersStay(w)
        /\ job[w] \in Jobs
        /\ pc'[w] \in {"chunk", "cancelling"} /\ job'[w] = job[w]
        /\ local'[w].count = me.count /\ local'[w].cur = f
        /\ local'[w].todo = me.todo /\ local'[w].prepared = me.prepared
        /\ local'[w].view = me.view /\ OtherJobsStay(w)
        /\ \A g \in Files : docs'[job[w]][g].status = docs[job[w]][g].status
    BY <1>4, LinkContentMoves
  <2>2. UNCHANGED <<status, progress>>
    BY <1>4 DEF LinkContent
  <2>3. InStep(w)'
    BY <1>b, <2>1, <2>2 DEF InStep
  <2>4. PreparingInv(w)'
    BY <1>b, <2>1 DEF PhaseInv, PreparingInv, Preparing
  <2>5. SessionInv(w)'
    BY <2>1, <2>3, <2>4 DEF SessionInv, PhaseInv, Preparing
  <2> QED
    BY <2>1, <2>2, <2>5, OwnStep
<1>5. CASE DocumentReady(w)
  <2>1. /\ InSession(w) /\ pc[w] = "index" /\ OthersStay(w) /\ job[w] \in Jobs /\ f \in Files
        /\ pc'[w] = "next" /\ job'[w] = job[w] /\ local'[w].count = me.count
        /\ local'[w].todo = me.todo \ {f} /\ local'[w].prepared = me.prepared \cup {f}
        /\ OtherJobsStay(w) /\ StatusPut(w, f, "ready")
    BY <1>5, DocumentReadyMoves
  <2>2. UNCHANGED <<status, progress>>
    BY <1>5 DEF DocumentReady
  <2>3. InStep(w)'
    BY <1>b, <2>1, <2>2 DEF InStep, StatusPut
  <2>4. PreparingInv(w) /\ f \in me.todo
    BY <1>b, <2>1 DEF PhaseInv, PreparingInv, Preparing
  <2>5. (me.todo \ {f}) \cup (me.prepared \cup {f}) = me.todo \cup me.prepared
        /\ (me.todo \ {f}) \cap (me.prepared \cup {f}) = {}
    BY <2>4 DEF PreparingInv
  <2>6. me.todo \cup me.prepared = Files => me.count = 0
    BY <2>1, <2>4 DEF PreparingInv
  <2>7. PreparingInv(w)'
    BY <1>a, <2>1, <2>4, <2>5, <2>6 DEF PreparingInv, StatusPut
  <2>8. SessionInv(w)'
    BY <2>1, <2>3, <2>7 DEF SessionInv, PhaseInv, Preparing
  <2> QED
    BY <2>1, <2>2, <2>8, OwnStep
<1>6. CASE PrepareFails(w)
  <2>1. pc[w] \in {"extract", "index"} /\ InSession(w) /\ FailDocument(w, f, "next")
    BY <1>6 DEF PrepareFails, At, InSession, Working
  <2>2. f \in Files /\ job[w] \in Jobs
    BY <2>1, HoldsWork DEF Working
  <2>3. /\ OthersStay(w) /\ pc'[w] = "next" /\ job'[w] = job[w]
        /\ local'[w].todo = me.todo \ {f} /\ local'[w].prepared = me.prepared
        /\ progress'[job[w]] = local'[w].count
        /\ \A j \in Jobs \ {job[w]} : progress'[j] = progress[j]
        /\ OtherJobsStay(w) /\ StatusPut(w, f, "failed")
    BY <2>1, <2>2, FailDocumentMoves
  <2>4. UNCHANGED status
    BY <2>1 DEF FailDocument
  <2>5. InStep(w)'
    BY <1>b, <2>1, <2>2, <2>3 DEF InStep, StatusPut
  <2>6. PreparingInv(w) /\ f \in me.todo /\ f \notin me.prepared
    BY <1>b, <2>1 DEF PhaseInv, PreparingInv, Preparing
  <2>7. (me.todo \ {f}) \cup me.prepared # Files
    BY <2>2, <2>6
  <2>8. PreparingInv(w)'
    BY <1>a, <2>2, <2>3, <2>6, <2>7 DEF PreparingInv, StatusPut
  <2>9. SessionInv(w)'
    BY <2>3, <2>5, <2>8 DEF SessionInv, PhaseInv, Preparing
  <2> QED
    BY <2>2, <2>3, <2>4, <2>9, OwnStep
<1> QED
  BY <1>1, <1>2, <1>3, <1>4, <1>5, <1>6

\* Inference and attachment: what is predicted, what fails, what is completed.
LEMMA ScoringOutcome ==
  ASSUME TypeOK, OwnerInv, OutcomeInv, NEW w \in Workers,
         \/ StartRanking(w) \/ InferenceFails(w) \/ CheckBatch(w) \/ PredictBatch(w)
         \/ FailUnscored(w) \/ CheckAttach(w) \/ AttachResult(w)
  PROVE  OutcomeInv'
<1> DEFINE me == local[w]
           f == me.cur
           N == Cardinality(Files)
<1>a. /\ me.prepared \subseteq Files /\ me.todo \subseteq Files /\ me.count \in Nat
      /\ me.view \in [Files -> DocStatus] /\ Uncached(w) \subseteq me.prepared
  BY SessionType DEF Uncached
<1>b. InSession(w) => InStep(w) /\ PhaseInv(w)
  BY DEF OutcomeInv, SessionInv
<1>c. ASSUME InSession(w), OthersStay(w), SessionKept(w), UNCHANGED <<status, docs, progress>>,
             PhaseInv(w)'
      PROVE  OutcomeInv'
  <2>1. InStep(w)'
    BY <1>b, <1>c DEF InStep, SessionKept
  <2>2. job[w] \in Jobs
    BY <1>c, HoldsWork DEF InSession
  <2> QED
    BY <1>c, <2>1, <2>2, QuietStep DEF SessionInv
<1>1. CASE StartRanking(w)
  <2>1. /\ InSession(w) /\ OthersStay(w) /\ SessionKept(w) /\ UNCHANGED database
        /\ pc[w] = "next" /\ pc'[w] = "batch" /\ me.todo = {}
        /\ local'[w].todo = Uncached(w)
    BY <1>1, RankingMoves DEF StartRanking, At
  <2>2. PreparingInv(w) /\ Files # {}
    BY <1>b, <2>1, ConstantsAssumption DEF PhaseInv, Preparing
  <2>3. RankingInv(w)'
    BY <1>a, <2>1, <2>2 DEF PreparingInv, RankingInv, SessionKept, Uncached
  <2>4. PhaseInv(w)'
    BY <2>1, <2>3 DEF PhaseInv, Preparing
  <2> QED
    BY <1>c, <2>1, <2>4 DEF database
<1>2. CASE InferenceFails(w)
  <2>1. /\ InSession(w) /\ OthersStay(w) /\ SessionKept(w) /\ UNCHANGED database
        /\ pc[w] = "predict" /\ pc'[w] = "unscored" /\ local'[w].todo = Uncached(w)
    BY <1>2, RankingMoves DEF InferenceFails, At
  <2>2. RankingInv(w)
    BY <1>b, <2>1 DEF PhaseInv
  <2>3. UnscoredInv(w)'
    BY <1>a, <2>1, <2>2 DEF RankingInv, UnscoredInv, SessionKept
  <2>4. PhaseInv(w)'
    BY <2>1, <2>3 DEF PhaseInv, Preparing
  <2> QED
    BY <1>c, <2>1, <2>4 DEF database
<1>3. CASE CheckBatch(w)
  <2>1. /\ InSession(w) /\ pc[w] = "batch" /\ OthersStay(w) /\ SessionKept(w)
        /\ UNCHANGED database
        /\ \/ /\ me.todo # {} /\ pc'[w] \in {"predict", "cancelling"}
              /\ local'[w].todo = me.todo
           \/ /\ me.todo = {} /\ pc'[w] = "attach"
              /\ local'[w].todo = me.prepared
    BY <1>3, CheckBatchMoves
  <2>2. RankingInv(w)
    BY <1>b, <2>1 DEF PhaseInv
  <2>3. CASE me.todo # {} /\ pc'[w] \in {"predict", "cancelling"} /\ local'[w].todo = me.todo
    <3>1. RankingInv(w)'
      BY <1>a, <2>1, <2>2, <2>3 DEF RankingInv, SessionKept, Uncached
    <3>2. PhaseInv(w)'
      BY <2>3, <3>1 DEF PhaseInv, Preparing
    <3> QED
      BY <1>c, <2>1, <3>2 DEF database
  <2>4. CASE me.todo = {} /\ pc'[w] = "attach" /\ local'[w].todo = me.prepared
    <3>1. me.prepared = Files => me.count + Cardinality(me.prepared) = N
      BY <2>2, FilesCount DEF RankingInv
    <3>2. AttachingInv(w)'
      BY <1>a, <2>1, <2>2, <2>4, <3>1 DEF RankingInv, AttachingInv, SessionKept
    <3>3. PhaseInv(w)'
      BY <2>4, <3>2 DEF PhaseInv, Preparing
    <3> QED
      BY <1>c, <2>1, <3>3 DEF database
  <2> QED
    BY <2>1, <2>3, <2>4
<1>4. CASE PredictBatch(w)
  <2>1. /\ InSession(w) /\ pc[w] = "predict" /\ OthersStay(w) /\ SessionKept(w)
        /\ pc'[w] = "batch" /\ local'[w].todo \subseteq me.todo
        /\ UNCHANGED <<status, progress, docs>>
    BY <1>4, PredictBatchMoves
  <2>2. RankingInv(w)
    BY <1>b, <2>1 DEF PhaseInv
  <2>3. RankingInv(w)'
    BY <1>a, <2>1, <2>2 DEF RankingInv, SessionKept, Uncached
  <2>4. PhaseInv(w)'
    BY <2>1, <2>3 DEF PhaseInv, Preparing
  <2> QED
    BY <1>c, <2>1, <2>4
<1>5. CASE FailUnscored(w)
  <2>1. pc[w] = "unscored" /\ InSession(w)
    BY <1>5 DEF FailUnscored, At, InSession, Working
  <2>2. PICK g \in me.todo : FailDocument(w, g, IF me.todo = {g} THEN "finish" ELSE "unscored")
    BY <1>5 DEF FailUnscored
  <2>3. g \in Files /\ job[w] \in Jobs
    BY <1>a, <2>1, HoldsWork DEF Working
  <2>4. /\ OthersStay(w) /\ pc'[w] = (IF me.todo = {g} THEN "finish" ELSE "unscored")
        /\ job'[w] = job[w]
        /\ local'[w].todo = me.todo \ {g} /\ local'[w].prepared = me.prepared
        /\ progress'[job[w]] = local'[w].count
        /\ \A j \in Jobs \ {job[w]} : progress'[j] = progress[j]
        /\ OtherJobsStay(w) /\ StatusPut(w, g, "failed")
    BY <2>2, <2>3, FailDocumentMoves
  <2>5. UNCHANGED status
    BY <2>2 DEF FailDocument
  <2>6. InStep(w)'
    BY <1>b, <2>1, <2>3, <2>4 DEF InStep, StatusPut
  <2>7. /\ \A h \in Files : local'[w].view[h] # "completed"
        /\ local'[w].view[g] = "failed"
    BY <1>b, <2>1, <2>4 DEF PhaseInv, UnscoredInv, StatusPut
  <2>8. PhaseInv(w)'
    <3>1. CASE me.todo = {g}
      <4>1. pc'[w] = "finish"
        BY <2>4, <3>1
      <4>2. FinishingInv(w)'
        BY <2>3, <2>7 DEF FinishingInv
      <4> QED
        BY <4>1, <4>2 DEF PhaseInv, Preparing
    <3>2. CASE me.todo # {g}
      <4>1. pc'[w] = "unscored"
        BY <2>4, <3>2
      <4>2. UnscoredInv(w)'
        BY <2>4, <2>7, <3>2 DEF UnscoredInv
      <4> QED
        BY <4>1, <4>2 DEF PhaseInv, Preparing
    <3> QED
      BY <3>1, <3>2
  <2> QED
    BY <2>3, <2>4, <2>5, <2>6, <2>8, OwnStep DEF SessionInv
<1>6. CASE CheckAttach(w)
  <2>1. /\ InSession(w) /\ pc[w] = "attach" /\ OthersStay(w) /\ SessionKept(w)
        /\ UNCHANGED database /\ local'[w].todo = me.todo
        /\ \/ pc'[w] \in {"store", "cancelling"} /\ local'[w].cur \in me.todo
           \/ me.todo = {} /\ pc'[w] = "finish"
    BY <1>6, CheckAttachMoves
  <2>2. AttachingInv(w)
    BY <1>b, <2>1 DEF PhaseInv
  <2>3. CASE pc'[w] \in {"store", "cancelling"} /\ local'[w].cur \in me.todo
    <3>1. AttachingInv(w)'
      <4>1. /\ local'[w].prepared = me.prepared /\ local'[w].view = me.view
            /\ local'[w].count = me.count /\ local'[w].todo = me.todo
            /\ job'[w] = job[w] /\ docs' = docs
        BY <2>1 DEF SessionKept, database
      <4> QED
        BY <2>2, <2>3, <4>1 DEF AttachingInv
    <3>2. PhaseInv(w)'
      BY <2>3, <3>1 DEF PhaseInv, Preparing
    <3>3. UNCHANGED <<status, docs, progress>>
      BY <2>1 DEF database
    <3> QED
      BY <1>c, <2>1, <3>2, <3>3
  <2>4. CASE me.todo = {} /\ pc'[w] = "finish"
    <3>1. Cardinality({}) = 0
      BY FS_EmptySet
    <3>2. me.prepared = Files => me.count = N
      BY <1>a, <2>2, <2>4, <3>1 DEF AttachingInv
    <3>3. FinishingInv(w)'
      <4>1. /\ local'[w].prepared = me.prepared /\ local'[w].view = me.view
            /\ local'[w].count = me.count /\ job'[w] = job[w] /\ docs' = docs
        BY <2>1 DEF SessionKept, database
      <4>2. /\ \A g \in Files \ me.prepared : me.view[g] = "failed"
            /\ \A g \in me.prepared : me.view[g] = "completed" /\ docs[job[w]][g].result
        BY <2>2, <2>4 DEF AttachingInv
      <4>3. CASE me.prepared = Files
        BY <3>2, <4>1, <4>2, <4>3 DEF FinishingInv
      <4>4. CASE \E g \in Files : g \notin me.prepared
        BY <4>1, <4>2, <4>4 DEF FinishingInv
      <4> QED
        BY <1>a, <4>3, <4>4
    <3>4. PhaseInv(w)'
      BY <2>4, <3>3 DEF PhaseInv, Preparing
    <3>5. UNCHANGED <<status, docs, progress>>
      BY <2>1 DEF database
    <3> QED
      BY <1>c, <2>1, <3>4, <3>5
  <2> QED
    BY <2>1, <2>3, <2>4
<1>7. CASE AttachResult(w)
  <2>1. /\ InSession(w) /\ pc[w] = "store" /\ OthersStay(w)
        /\ job[w] \in Jobs /\ f \in Files /\ pc'[w] = "attach" /\ job'[w] = job[w]
        /\ local'[w].count = me.count + 1
        /\ local'[w].todo = me.todo \ {f} /\ local'[w].prepared = me.prepared
        /\ progress'[job[w]] = local'[w].count
        /\ \A j \in Jobs \ {job[w]} : progress'[j] = progress[j]
        /\ OtherJobsStay(w) /\ StatusPut(w, f, "completed")
        /\ docs'[job[w]][f].result
    BY <1>7, AttachResultMoves
  <2>2. UNCHANGED status
    BY <1>7 DEF AttachResult
  <2>3. InStep(w)'
    BY <1>b, <2>1 DEF InStep, StatusPut
  <2>4. AttachingInv(w) /\ f \in me.todo
    BY <1>b, <2>1 DEF PhaseInv, AttachingInv
  <2>5. me.prepared = Files => (me.count + 1) + Cardinality(me.todo \ {f}) = N
    <3> DEFINE S == me.todo
    <3>1. S \in SUBSET Files /\ f \in S
      BY <1>a, <2>4
    <3> HIDE DEF S
    <3>2. PICK g \in S : g = f
      BY <3>1
    <3>3. Cardinality(S \ {g}) = Cardinality(S) - 1 /\ Cardinality(S) \in Nat
      BY <3>1, FilesCount
    <3>4. me.prepared = Files => me.count + Cardinality(S) = N
      BY <2>4 DEF AttachingInv, S
    <3>5. me.prepared = Files => (me.count + 1) + Cardinality(S \ {g}) = N
      BY <1>a, <3>3, <3>4
    <3> QED
      BY <3>2, <3>5 DEF S
  <2>6. AttachingInv(w)'
    BY <1>a, <2>1, <2>4, <2>5 DEF AttachingInv, StatusPut
  <2>7. SessionInv(w)'
    BY <2>1, <2>3, <2>6 DEF SessionInv, PhaseInv, Preparing
  <2> QED
    BY <2>1, <2>2, <2>7, OwnStep
<1> QED
  BY <1>1, <1>2, <1>3, <1>4, <1>5, <1>6, <1>7

\* The job's outcome is what the session knows of its documents.
LEMMA FinishOutcome ==
  ASSUME TypeOK, OwnerInv, OutcomeInv, NEW w \in Workers, Finish(w), NEW j \in Jobs, j = job[w]
  PROVE  SoundOutcome(j)'
<1> DEFINE S == CompletedBy(w)
<1>1. /\ InSession(w) /\ pc[w] = "finish" /\ SameResult
      /\ \A g \in Files : docs'[j][g].status = docs[j][g].status
      /\ \A g \in S : docs'[j][g].rank = RankIn(g, S)
  BY FinishMoves
<1>2. InStep(w) /\ FinishingInv(w)
  BY <1>1 DEF OutcomeInv, SessionInv, PhaseInv
<1>3. UNCHANGED progress
  BY DEF Finish
<1>4. /\ (\E g \in Files : local[w].view[g] = "failed") => status'[j] # "completed"
      /\ (\A g \in Files : local[w].view[g] # "failed") => status'[j] # "completed_with_errors"
  <2>1. status[j] \notin {"completed", "completed_with_errors"}
    BY <1>1 DEF OwnerInv, HeldStatus
  <2> QED
    BY <1>1, <2>1 DEF Finish, TypeOK
<1>5. status'[j] = "completed" =>
        /\ \A g \in Files : docs'[j][g].status = "completed" /\ docs'[j][g].result
        /\ progress'[j] = Cardinality(Files)
  BY <1>1, <1>2, <1>3, <1>4 DEF InStep, FinishingInv, SameResult
<1>6. status'[j] = "completed_with_errors" => \E g \in Files : docs'[j][g].status = "failed"
  BY <1>1, <1>2, <1>4 DEF InStep
<1>7. RanksDense(j)'
  <2>1. S \in SUBSET Files
    BY SessionType DEF CompletedBy
  <2>2. {g \in Files : docs'[j][g].status = "completed"} = S
    BY <1>1, <1>2, <2>1 DEF InStep, FinishingInv, CompletedBy
  <2>3. {docs'[j][g].rank : g \in S} = {RankIn(g, S) : g \in S}
    BY <1>1
  <2> HIDE DEF S
  <2>4. {docs'[j][g].rank : g \in S} = 1 .. Cardinality(S)
    BY <2>1, <2>3, RanksWithoutGap
  <2> QED
    BY <2>2, <2>4 DEF RanksDense
<1> QED
  BY <1>5, <1>6, <1>7 DEF SoundOutcome

LEMMA WorkerStepOutcome ==
  ASSUME TypeOK, OwnerInv, OutcomeInv, NEW w \in Workers, WorkerStep(w) \/ Crash(w)
  PROVE  OutcomeInv'
<1>1. CASE Recover(w)
  <2>1. /\ OthersStay(w) /\ pc'[w] = "claim" /\ UNCHANGED <<progress, job, local>>
        /\ \A j \in Jobs : ~Stale(j) => docs'[j] = docs[j] /\ status'[j] = status[j]
        /\ \A j \in Jobs : Stale(j) => status'[j] \in {"cancelled", "failed", "queued"}
    BY <1>1, RecoverMoves
  <2>2. \A j \in Jobs : SoundOutcome(j)'
    BY <2>1, SoundKept DEF OutcomeStays, OutcomeInv
  <2>3. ASSUME NEW v \in Workers, v # w, job[v] \in Jobs PROVE SessionStays(v)
    BY <2>1, <2>3 DEF SessionStays, OthersStay, OwnerInv, Stale, Exists
  <2>4. ASSUME NEW v \in Workers, v # w, job[v] \notin Jobs PROVE ~InSession(v)'
    BY <2>1, <2>4 DEF OthersStay, InSession, TypeOK, HoldingOK
  <2>5. InSession(w)' => SessionInv(w)'
    BY <2>1, EndedSession
  <2> QED
    BY <2>2, <2>3, <2>4, <2>5, SessionInvKept DEF OutcomeInv
<1>2. CASE Claim(w)
  <2>1. /\ OthersStay(w) /\ pc'[w] \in {"begin", "recover"} /\ UNCHANGED <<docs, progress, local>>
    BY <1>2 DEF Claim, OthersStay, TypeOK
  <2>2. \A j \in Jobs : status'[j] = status[j] \/ (status[j] = "queued" /\ status'[j] = "processing")
    BY <1>2 DEF Claim, TypeOK
  <2>3. \A j \in Jobs : SoundOutcome(j)'
    BY <2>1, <2>2, SoundKept DEF OutcomeStays, OutcomeInv
  <2>4. ASSUME NEW v \in Workers, v # w, job[v] \in Jobs PROVE SessionStays(v)
    BY <2>1, <2>2, <2>4 DEF SessionStays, OthersStay, Exists, NoRow
  <2>5. ASSUME NEW v \in Workers, v # w, job[v] \notin Jobs PROVE ~InSession(v)'
    BY <2>1, <2>5 DEF OthersStay, InSession, TypeOK, HoldingOK
  <2>6. InSession(w)' => SessionInv(w)'
    BY <2>1, EndedSession
  <2> QED
    BY <2>3, <2>4, <2>5, <2>6, SessionInvKept DEF OutcomeInv
<1>3. CASE Release(w) /\ UNCHANGED <<status, docs, progress>> /\ pc[w] \in Working
  <2>1. OthersStay(w) /\ (InSession(w)' => SessionInv(w)')
    BY <1>3, ReleaseMoves, EndedSession
  <2> QED
    BY <1>3, <2>1, HoldsWork, QuietStep
<1>4. CASE Begin(w) /\ pc'[w] # "recover"
  <2>1. /\ OthersStay(w) /\ pc'[w] = "next" /\ job'[w] = job[w] /\ job[w] \in Jobs
        /\ UNCHANGED <<status, docs, progress>>
        /\ local'[w].todo = Files /\ local'[w].prepared = {}
        /\ local'[w].count = progress[job[w]]
        /\ \A g \in Files : local'[w].view[g] = docs[job[w]][g].status
    BY <1>4, BeginMoves DEF database
  <2>2. InStep(w)' /\ PreparingInv(w)'
    BY <2>1 DEF InStep, PreparingInv
  <2>3. SessionInv(w)'
    BY <2>1, <2>2 DEF SessionInv, PhaseInv, Preparing
  <2> QED
    BY <2>1, <2>3, QuietStep
<1>5. CASE CancelRemaining(w) \/ Finish(w)
  <2>1. /\ job[w] \in Jobs /\ OthersStay(w) /\ OtherJobsStay(w)
        /\ pc'[w] = "recover" /\ UNCHANGED progress
    BY <1>5, CancelRemainingMoves, FinishMoves DEF CancelRemaining, Finish
  <2>2. \A j \in Jobs \ {job[w]} : status'[j] = status[j]
    BY <1>5, <2>1 DEF CancelRemaining, Finish, TypeOK
  <2>3. ASSUME NEW j \in Jobs PROVE SoundOutcome(j)'
    <3>1. CASE j # job[w]
      BY <2>1, <2>2, <3>1, SoundKept DEF OutcomeStays, OtherJobsStay, OutcomeInv
    <3>2. CASE j = job[w] /\ CancelRemaining(w)
      <4>1. status'[j] = "cancelled"
        BY <3>2 DEF CancelRemaining, TypeOK
      <4> QED
        BY <4>1, SoundKept DEF OutcomeStays, OutcomeInv
    <3>3. CASE j = job[w] /\ Finish(w)
      BY <3>3, FinishOutcome
    <3> QED
      BY <1>5, <3>1, <3>2, <3>3
  <2>4. ASSUME NEW v \in Workers PROVE InSession(v)' => SessionInv(v)'
    <3>1. CASE v = w
      BY <2>1, <3>1, EndedSession
    <3>2. CASE v # w /\ job[v] \in Jobs
      <4>1. job[v] # job[w]
        BY <3>2, ConstantsAssumption DEF OwnerInv, OneWorkerPerJob
      <4>2. SessionStays(v)
        BY <2>1, <2>2, <3>2, <4>1 DEF SessionStays, OthersStay, OtherJobsStay, Exists
      <4> QED
        BY <4>2, SessionInvKept DEF OutcomeInv
    <3>3. CASE v # w /\ job[v] \notin Jobs
      BY <2>1, <3>3 DEF OthersStay, InSession, TypeOK, HoldingOK
    <3> QED
      BY <3>1, <3>2, <3>3
  <2> QED
    BY <2>3, <2>4 DEF OutcomeInv
<1>6. CASE Begin(w) /\ pc'[w] = "recover"
  BY <1>3, <1>6 DEF Begin, TypeOK, Working, database
<1>7. CASE RowVanished(w) \/ ContentVanished(w) \/ ResultVanished(w) \/ Crash(w)
  BY <1>3, <1>7 DEF RowVanished, ContentVanished, ResultVanished, Crash, At, Working, database
<1> QED
  BY <1>1, <1>2, <1>3, <1>4, <1>5, <1>6, <1>7, PreparingOutcome, ScoringOutcome DEF WorkerStep

\* A request writes no outcome, and a row that it deletes ends its session.
LEMMA RequestStepOutcome ==
  ASSUME TypeOK, OwnerInv, OutcomeInv, NEW c \in Clients, RequestStep(c)
  PROVE  OutcomeInv'
<1>1. UNCHANGED <<pc, job, local>>
  BY DEF RequestStep, ReadForCreate, ReadForCancel, ReadForDelete, CreateJob, CancelJob, DeleteJob
<1>2. ASSUME NEW j \in Jobs
      PROVE  /\ OutcomeStays(j)
             /\ Exists(j)' /\ status[j] # "absent" =>
                  docs'[j] = docs[j] /\ progress'[j] = progress[j] /\ Exists(j)
  <2>1. CASE CreateJob(c)
    <3>1. status'[j] = status[j] \/ (status[j] = "absent" /\ status'[j] = "queued")
      BY <2>1 DEF CreateJob, TypeOK
    <3> QED
      BY <2>1, <3>1 DEF CreateJob, OutcomeStays, Exists
  <2>2. CASE CancelJob(c)
    <3>1. request[c].seen \in {"queued", "processing"}
      BY <2>2 DEF CancelJob, TypeOK, HoldingOK
    <3>2. status'[j] = status[j] \/ (Exists(j) /\ status'[j] \in {"cancelled", "cancellation_requested"})
      BY <2>2, <3>1 DEF CancelJob, TypeOK
    <3> QED
      BY <2>2, <3>2 DEF CancelJob, OutcomeStays, Exists
  <2>3. CASE DeleteJob(c)
    <3>1. CASE j = request[c].job
      BY <2>3, <3>1 DEF DeleteJob, TypeOK, OutcomeStays, Exists, NoRow
    <3>2. CASE j # request[c].job
      BY <2>3, <3>2 DEF DeleteJob, TypeOK, OutcomeStays, Exists
    <3> QED
      BY <3>1, <3>2
  <2>4. CASE UNCHANGED database
    BY <2>4 DEF database, OutcomeStays, Exists
  <2> QED
    BY <2>1, <2>2, <2>3, <2>4 DEF RequestStep, ReadForCreate, ReadForCancel, ReadForDelete
<1>3. \A j \in Jobs : SoundOutcome(j)'
  BY <1>2, SoundKept DEF OutcomeInv
<1>4. ASSUME NEW v \in Workers, job[v] \in Jobs PROVE SessionStays(v)
  <2>1. status[job[v]] # "absent"
    BY <1>4 DEF OwnerInv, HeldStatus
  <2> QED
    BY <1>1, <1>2, <1>4, <2>1 DEF SessionStays, Exists
<1>5. ASSUME NEW v \in Workers, job[v] \notin Jobs PROVE ~InSession(v)'
  BY <1>1, <1>5 DEF InSession, TypeOK, HoldingOK
<1> QED
  BY <1>3, <1>4, <1>5, SessionInvKept DEF OutcomeInv

LEMMA OutcomeInvariant == ASSUME ~StallsAllowed PROVE Spec => []OutcomeInv
<1>1. Init => OutcomeInv
  BY DEF Init, OutcomeInv, SoundOutcome, InSession, Working
<1>2. TypeOK /\ OwnerInv /\ OutcomeInv /\ [Next]_vars => OutcomeInv'
  <2> SUFFICES ASSUME TypeOK, OwnerInv, OutcomeInv, [Next]_vars PROVE OutcomeInv'
    OBVIOUS
  <2>1. CASE UNCHANGED <<status, docs, progress, pc, job, local>>
    <3>1. \A j \in Jobs : SoundOutcome(j)'
      BY <2>1, SoundKept DEF OutcomeStays, OutcomeInv
    <3>2. \A v \in Workers : SessionStays(v)
      BY <2>1 DEF SessionStays, Exists
    <3> QED
      BY <3>1, <3>2, SessionInvKept DEF OutcomeInv
  <2>2. ASSUME NEW j \in Jobs, HeartbeatExpires(j) PROVE OutcomeInv'
    BY <2>1, <2>2 DEF HeartbeatExpires
  <2>3. CASE UNCHANGED vars
    BY <2>1, <2>3 DEF vars
  <2> QED
    BY <2>2, <2>3, WorkerStepOutcome, RequestStepOutcome DEF Next
<1> QED
  BY <1>1, <1>2, TypeCorrect, OwnerInvariant, PTL DEF Spec

\* A job reported completed has every document completed, with its result and a rank of its
\* own, and counts all of them; one completed with errors has a failed document: _finish
\* decides by the session's copies, which are the rows while nobody else works on the job.
THEOREM OutcomesHonest == ASSUME ~StallsAllowed PROVE Spec => []OutcomeMatchesDocuments
<1>1. OutcomeInv => OutcomeMatchesDocuments
  BY DEF OutcomeInv, SoundOutcome, OutcomeMatchesDocuments
<1> QED
  BY <1>1, OutcomeInvariant, PTL

----------------------------------------------------------------------------
(* Sessions come to an end. What a worker still has to do for its job is   *)
(* counted in steps; whatever it finds, fails or skips, the count falls.   *)

\* The most steps that a session at a label, with t of n files still to do in the loop
\* it is in, takes until it ends.
StepsLeft(label, n, t) ==
  CASE label = "begin" -> 9 * n + 5
    [] label = "next" -> 5 * t + 4 * n + 4
    [] label = "lookup" -> 5 * t + 4 * n + 3
    [] label \in {"extract", "link"} -> 5 * t + 4 * n + 2
    [] label = "chunk" -> 5 * t + 4 * n + 1
    [] label = "index" -> 5 * t + 4 * n
    [] label = "batch" -> 2 * t + 2 * n + 3
    [] label = "predict" -> 2 * t + 2 * n + 2
    [] label = "unscored" -> t + 1
    [] label = "attach" -> 2 * t + 2
    [] label = "store" -> 2 * t + 1
    [] label \in {"finish", "cancelling"} -> 1
    [] OTHER -> 0

Distance(w) == StepsLeft(pc[w], Cardinality(Files), Cardinality(local[w].todo))

MostSteps == 9 * Cardinality(Files) + 5

\* Worker loop, process(): a step of a worker that has a job ends the session or brings it
\* nearer to its end, and nothing that others do takes it further away.
SessionsEnd ==
  [][\A w \in Workers : pc[w] \in Working =>
       /\ Distance(w) \in 1 .. MostSteps
       /\ \/ pc'[w] = pc[w] /\ job'[w] = job[w] /\ local'[w] = local[w]
          \/ job'[w] = NoJob
          \/ job'[w] = job[w] /\ Distance(w)' < Distance(w)]_vars

\* claim_next_job: who takes a job counts an attempt on its row, within the limit, and
\* nobody takes an attempt back.
SessionsAreAttempts ==
  [][\A j \in Jobs :
       /\ attempts'[j] >= attempts[j]
       /\ \A w \in Workers : job[w] # j /\ job'[w] = j =>
            attempts'[j] = attempts[j] + 1 /\ attempts'[j] <= MaxAttempts]_vars

LEMMA StepsLeftBounded ==
  ASSUME NEW label \in Working, NEW n \in Nat \ {0}, NEW t \in Nat, t <= n
  PROVE  StepsLeft(label, n, t) \in 1 .. 9 * n + 5
<1> DEFINE d == StepsLeft(label, n, t)
<1>1. CASE label \in {"begin", "next", "lookup", "chunk", "finish", "cancelling"}
  <2>1. d \in {9 * n + 5, 5 * t + 4 * n + 4, 5 * t + 4 * n + 3, 5 * t + 4 * n + 1, 1}
    BY <1>1 DEF StepsLeft
  <2> QED
    BY <2>1
<1>2. CASE label \in {"extract", "link"}
  <2>1. d = 5 * t + 4 * n + 2
    BY <1>2 DEF StepsLeft
  <2> QED
    BY <2>1
<1>3. CASE label = "index"
  <2>1. d = 5 * t + 4 * n
    BY <1>3 DEF StepsLeft
  <2> QED
    BY <2>1
<1>4. CASE label \in {"batch", "predict", "unscored", "attach", "store"}
  <2>1. d \in {2 * t + 2 * n + 3, 2 * t + 2 * n + 2, t + 1, 2 * t + 2, 2 * t + 1}
    BY <1>4 DEF StepsLeft
  <2> QED
    BY <2>1
<1> QED
  BY <1>1, <1>2, <1>3, <1>4 DEF Working

LEMMA WorkerStepAlone ==
  ASSUME TypeOK, NEW w \in Workers, WorkerStep(w) \/ Crash(w)
  PROVE  OthersStay(w)
<1>1. CASE Recover(w) \/ Claim(w) \/ ReuseContent(w)
  BY <1>1 DEF Recover, Claim, ReuseContent, TypeOK, OthersStay
<1>2. CASE \/ CancelRemaining(w) \/ Finish(w) \/ RowVanished(w) \/ ContentVanished(w)
           \/ ResultVanished(w) \/ Crash(w) \/ (Begin(w) /\ pc'[w] = "recover")
  <2>1. Release(w)
    BY <1>2 DEF CancelRemaining, Finish, RowVanished, ContentVanished, ResultVanished, Crash,
                Begin, TypeOK
  <2> QED
    BY <2>1, ReleaseMoves
<1>3. CASE FailUnscored(w) \/ PrepareFails(w)
  <2>1. pc[w] \in {"unscored", "extract", "index"}
    BY <1>3 DEF FailUnscored, PrepareFails, At
  <2>2. \E g \in Files, label \in {"finish", "unscored", "next"} : FailDocument(w, g, label)
    <3>1. local[w].todo \subseteq Files
      BY SessionType
    <3>2. CASE FailUnscored(w)
      BY <3>1, <3>2 DEF FailUnscored
    <3>3. CASE PrepareFails(w)
      <4>1. pc[w] \in {"extract", "index"} /\ FailDocument(w, local[w].cur, "next")
        BY <3>3 DEF PrepareFails, At
      <4>2. local[w].cur \in Files
        BY <4>1, HoldsWork DEF Working
      <4> QED
        BY <4>1, <4>2
    <3> QED
      BY <1>3, <3>2, <3>3
  <2>3. job[w] \in Jobs
    BY <2>1, HoldsWork DEF Working
  <2> QED
    BY <2>2, <2>3, FailDocumentMoves
<1>4. CASE Begin(w) /\ pc'[w] # "recover"
  BY <1>4, BeginMoves
<1>5. CASE NextDocument(w) \/ LinkContent(w) \/ DocumentReady(w)
  BY <1>5, NextDocumentMoves, LinkContentMoves, DocumentReadyMoves
<1>6. CASE StartExtraction(w) \/ StartChunking(w)
  BY <1>6, DocumentMoves
<1>7. CASE StartRanking(w) \/ InferenceFails(w) \/ CheckBatch(w) \/ PredictBatch(w)
  BY <1>7, RankingMoves, CheckBatchMoves, PredictBatchMoves
<1>8. CASE CheckAttach(w) \/ AttachResult(w)
  BY <1>8, CheckAttachMoves, AttachResultMoves
<1> QED
  BY <1>1, <1>2, <1>3, <1>4, <1>5, <1>6, <1>7, <1>8 DEF WorkerStep

\* The changes of label within a session, and what they do to the loop it is in.
Onward(from, to, n, t, u) ==
  \/ from = "begin" /\ to = "next"
  \/ u = t /\ <<from, to>> \in {<<"next", "lookup">>, <<"lookup", "extract">>,
                                <<"lookup", "link">>, <<"extract", "chunk">>,
                                <<"link", "chunk">>, <<"chunk", "index">>,
                                <<"batch", "predict">>, <<"attach", "store">>}
  \/ u = t - 1 /\ <<from, to>> \in {<<"extract", "next">>, <<"index", "next">>,
                                    <<"predict", "batch">>, <<"unscored", "unscored">>,
                                    <<"unscored", "finish">>, <<"store", "attach">>}
  \/ <<from, to>> \in {<<"next", "batch">>, <<"batch", "attach">>, <<"predict", "unscored">>,
                       <<"attach", "finish">>}
  \/ from \in {"next", "extract", "link", "batch", "attach"} /\ to = "cancelling"

LEMMA OnwardIsNearer ==
  ASSUME NEW from, NEW to, NEW n \in Nat, NEW t \in Nat, NEW u \in Nat,
         t <= n, u <= n, Onward(from, to, n, t, u)
  PROVE  StepsLeft(to, n, u) < StepsLeft(from, n, t)
<1>1. CASE from = "begin" /\ to = "next"
  BY <1>1 DEF StepsLeft
<1>2. CASE u = t /\ <<from, to>> \in {<<"next", "lookup">>, <<"lookup", "extract">>,
             <<"lookup", "link">>, <<"extract", "chunk">>, <<"link", "chunk">>,
             <<"chunk", "index">>, <<"batch", "predict">>, <<"attach", "store">>}
  BY <1>2 DEF StepsLeft
<1>3. CASE u = t - 1 /\ <<from, to>> \in {<<"extract", "next">>, <<"index", "next">>,
             <<"predict", "batch">>, <<"unscored", "unscored">>,
             <<"unscored", "finish">>, <<"store", "attach">>}
  BY <1>3 DEF StepsLeft
<1>4. CASE <<from, to>> \in {<<"next", "batch">>, <<"batch", "attach">>,
             <<"predict", "unscored">>, <<"attach", "finish">>}
  BY <1>4 DEF StepsLeft
<1>5. CASE from \in {"next", "extract", "link", "batch", "attach"} /\ to = "cancelling"
  BY <1>5 DEF StepsLeft
<1> QED
  BY <1>1, <1>2, <1>3, <1>4, <1>5 DEF Onward

\* A step of a session that ends it, or that is one of the changes above.
Advances(w) ==
  \/ job'[w] = NoJob
  \/ job'[w] = job[w] /\ Onward(pc[w], pc'[w], Cardinality(Files),
                               Cardinality(local[w].todo), Cardinality(local'[w].todo))

LEMMA PreparingAdvances ==
  ASSUME TypeOK, ProgressInv, NEW w \in Workers,
         \/ Begin(w) \/ NextDocument(w) \/ StartExtraction(w) \/ ReuseContent(w)
         \/ LinkContent(w) \/ StartChunking(w) \/ DocumentReady(w) \/ PrepareFails(w)
  PROVE  Advances(w)
<1> DEFINE me == local[w]
           f == me.cur
<1>a. me.todo \subseteq Files /\ BudgetInv(w)
  BY SessionType DEF ProgressInv
<1>b. \A g \in me.todo : Cardinality(me.todo \ {g}) = Cardinality(me.todo) - 1
  BY <1>a, FilesCount
<1>1. CASE Begin(w)
  <2>1. CASE pc'[w] = "recover"
    <3>1. pc[w] = "begin"
      BY <1>1 DEF Begin
    <3>2. job'[w] = NoJob
      BY <1>1, <2>1, <3>1 DEF Begin, Release, TypeOK
    <3> QED
      BY <3>2 DEF Advances
  <2>2. CASE pc'[w] # "recover"
    BY <1>1, <2>2, BeginMoves DEF Advances, Onward
  <2> QED
    BY <2>1, <2>2
<1>2. CASE NextDocument(w)
  BY <1>2, NextDocumentMoves DEF Advances, Onward
<1>3. CASE StartExtraction(w) \/ StartChunking(w)
  BY <1>3, DocumentMoves DEF Advances, Onward
<1>4. CASE ReuseContent(w)
  <2>1. pc[w] = "lookup" /\ pc'[w] = "link" /\ UNCHANGED <<job, local>>
    BY <1>4 DEF ReuseContent, At, TypeOK
  <2> QED
    BY <2>1 DEF Advances, Onward
<1>5. CASE LinkContent(w)
  BY <1>5, LinkContentMoves DEF Advances, Onward
<1>6. CASE DocumentReady(w)
  <2>1. /\ pc[w] = "index" /\ pc'[w] = "next" /\ job'[w] = job[w]
        /\ local'[w].todo = me.todo \ {f}
    BY <1>6, DocumentReadyMoves
  <2>2. f \in me.todo
    BY <1>a, <2>1 DEF BudgetInv
  <2>3. Cardinality(local'[w].todo) = Cardinality(me.todo) - 1
    BY <1>b, <2>1, <2>2
  <2> QED
    BY <2>1, <2>3 DEF Advances, Onward
<1>7. CASE PrepareFails(w)
  <2>1. pc[w] \in {"extract", "index"} /\ FailDocument(w, f, "next")
    BY <1>7 DEF PrepareFails, At
  <2>2. f \in me.todo /\ job[w] \in Jobs
    BY <1>a, <2>1, HoldsWork DEF BudgetInv, Working
  <2>3. pc'[w] = "next" /\ job'[w] = job[w] /\ local'[w].todo = me.todo \ {f}
    BY <1>a, <2>1, <2>2, FailDocumentMoves
  <2>4. Cardinality(local'[w].todo) = Cardinality(me.todo) - 1
    BY <1>b, <2>2, <2>3
  <2> QED
    BY <2>1, <2>3, <2>4 DEF Advances, Onward
<1> QED
  BY <1>1, <1>2, <1>3, <1>4, <1>5, <1>6, <1>7

LEMMA ScoringAdvances ==
  ASSUME TypeOK, ProgressInv, NEW w \in Workers,
         \/ StartRanking(w) \/ InferenceFails(w) \/ CheckBatch(w) \/ PredictBatch(w)
         \/ FailUnscored(w) \/ CheckAttach(w) \/ AttachResult(w)
  PROVE  Advances(w)
<1> DEFINE me == local[w]
           f == me.cur
<1>a. me.todo \subseteq Files /\ BudgetInv(w)
  BY SessionType DEF ProgressInv
<1>b. \A g \in me.todo : Cardinality(me.todo \ {g}) = Cardinality(me.todo) - 1
  BY <1>a, FilesCount
<1>1. CASE StartRanking(w) \/ InferenceFails(w)
  BY <1>1, RankingMoves DEF Advances, Onward, SessionKept
<1>2. CASE CheckBatch(w)
  BY <1>2, CheckBatchMoves DEF Advances, Onward, SessionKept
<1>3. CASE PredictBatch(w)
  <2>1. pc[w] = "predict" /\ pc'[w] = "batch" /\ job'[w] = job[w]
    BY <1>3, PredictBatchMoves DEF SessionKept
  <2>2. PICK g \in me.todo : local'[w].todo = me.todo \ {g}
    BY <1>3, PredictBatchMoves
  <2> QED
    BY <1>b, <2>1, <2>2 DEF Advances, Onward
<1>4. CASE FailUnscored(w)
  <2>1. pc[w] = "unscored"
    BY <1>4 DEF FailUnscored, At
  <2>2. PICK g \in me.todo : FailDocument(w, g, IF me.todo = {g} THEN "finish" ELSE "unscored")
    BY <1>4 DEF FailUnscored
  <2>3. g \in Files /\ job[w] \in Jobs
    BY <1>a, <2>1, HoldsWork DEF Working
  <2>4. /\ pc'[w] \in {"finish", "unscored"} /\ job'[w] = job[w]
        /\ local'[w].todo = me.todo \ {g}
    BY <2>2, <2>3, FailDocumentMoves
  <2> QED
    BY <1>b, <2>1, <2>4 DEF Advances, Onward
<1>5. CASE CheckAttach(w)
  BY <1>5, CheckAttachMoves DEF Advances, Onward, SessionKept
<1>6. CASE AttachResult(w)
  <2>1. /\ pc[w] = "store" /\ pc'[w] = "attach" /\ job'[w] = job[w]
        /\ local'[w].todo = me.todo \ {f}
    BY <1>6, AttachResultMoves
  <2>2. f \in me.todo
    BY <1>a, <2>1 DEF BudgetInv
  <2>3. Cardinality(local'[w].todo) = Cardinality(me.todo) - 1
    BY <1>b, <2>1, <2>2
  <2> QED
    BY <2>1, <2>3 DEF Advances, Onward
<1> QED
  BY <1>1, <1>2, <1>3, <1>4, <1>5, <1>6

LEMMA WorkerAdvances ==
  ASSUME TypeOK, ProgressInv, NEW w \in Workers, WorkerStep(w) \/ Crash(w), pc[w] \in Working
  PROVE  Advances(w)
<1>1. ~Recover(w) /\ ~Claim(w)
  BY DEF Recover, Claim, Working
<1>2. CASE \/ CancelRemaining(w) \/ Finish(w) \/ RowVanished(w) \/ ContentVanished(w)
           \/ ResultVanished(w) \/ Crash(w)
  <2>1. Release(w)
    BY <1>2 DEF CancelRemaining, Finish, RowVanished, ContentVanished, ResultVanished, Crash
  <2> QED
    BY <2>1, ReleaseMoves DEF Advances
<1> QED
  BY <1>1, <1>2, PreparingAdvances, ScoringAdvances DEF WorkerStep

\* Only the claim counts an attempt or takes a job.
LEMMA AttemptsUntouched ==
  ASSUME NEW w \in Workers, WorkerStep(w) \/ Crash(w), ~Claim(w)
  PROVE  UNCHANGED attempts
<1>1. \/ Recover(w) \/ Begin(w) \/ RowVanished(w) \/ NextDocument(w) \/ StartExtraction(w)
         \/ ReuseContent(w) \/ LinkContent(w) \/ ContentVanished(w) \/ StartChunking(w)
         \/ DocumentReady(w) \/ PrepareFails(w)
      => UNCHANGED attempts
  BY DEF Recover, Begin, RowVanished, NextDocument, StartExtraction, ReuseContent, LinkContent,
         ContentVanished, StartChunking, DocumentReady, PrepareFails, FailDocument, database
<1>2. \/ CancelRemaining(w) \/ StartRanking(w) \/ CheckBatch(w) \/ PredictBatch(w)
         \/ InferenceFails(w) \/ FailUnscored(w) \/ CheckAttach(w) \/ AttachResult(w)
         \/ ResultVanished(w) \/ Finish(w) \/ Crash(w)
      => UNCHANGED attempts
  BY DEF CancelRemaining, StartRanking, CheckBatch, PredictBatch, InferenceFails, FailUnscored,
         CheckAttach, AttachResult, ResultVanished, Finish, FailDocument, Crash, database
<1> QED
  BY <1>1, <1>2 DEF WorkerStep

\* Whatever a worker meets, it goes on to the end of its session or loses it: no session goes
\* round in circles, and one that began with a job ends within 9 |Files| + 5 of its steps.
THEOREM EverySessionEnds == Spec => SessionsEnd
<1> DEFINE A(w) == pc[w] \in Working =>
             /\ Distance(w) \in 1 .. MostSteps
             /\ \/ pc'[w] = pc[w] /\ job'[w] = job[w] /\ local'[w] = local[w]
                \/ job'[w] = NoJob
                \/ job'[w] = job[w] /\ Distance(w)' < Distance(w)
<1>1. TypeOK /\ TypeOK' /\ ProgressInv /\ [Next]_vars => \A w \in Workers : A(w)
  <2> SUFFICES ASSUME TypeOK, TypeOK', ProgressInv, [Next]_vars, NEW w \in Workers,
                      pc[w] \in Working
               PROVE  A(w)
    OBVIOUS
  <2>0. Distance(w) \in 1 .. MostSteps
    <3>1. local[w].todo \in SUBSET Files
      BY DEF TypeOK, Session
    <3>2. Cardinality(Files) # 0
      BY ConstantsAssumption, FS_EmptySet
    <3> QED
      BY <3>1, <3>2, FilesCount, StepsLeftBounded DEF Distance, MostSteps
  <2>1. ASSUME Advances(w) PROVE A(w)
    <3> DEFINE t == Cardinality(local[w].todo)
               u == Cardinality(local'[w].todo)
               n == Cardinality(Files)
    <3>1. local[w].todo \in SUBSET Files /\ local'[w].todo \in SUBSET Files
      BY DEF TypeOK, Session
    <3>2. n \in Nat /\ t \in Nat /\ u \in Nat /\ t <= n /\ u <= n
      BY <3>1, FilesCount
    <3>3. CASE Onward(pc[w], pc'[w], n, t, u) /\ job'[w] = job[w]
      <4> HIDE DEF n, t, u
      <4>1. StepsLeft(pc'[w], n, u) < StepsLeft(pc[w], n, t)
        BY <3>2, <3>3, OnwardIsNearer
      <4> QED
        BY <2>0, <3>3, <4>1 DEF Distance, n, t, u
    <3> QED
      BY <2>0, <2>1, <3>3 DEF Advances
  <2>2. ASSUME NEW v \in Workers, WorkerStep(v) \/ Crash(v) PROVE A(w)
    <3>1. CASE v = w
      BY <2>1, <2>2, <3>1, WorkerAdvances
    <3>2. CASE v # w
      <4>1. OthersStay(v)
        BY <2>2, WorkerStepAlone
      <4> QED
        BY <2>0, <3>2, <4>1 DEF OthersStay
    <3> QED
      BY <3>1, <3>2
  <2>3. CASE UNCHANGED <<pc, job, local>>
    BY <2>0, <2>3
  <2>4. ASSUME NEW c \in Clients, RequestStep(c) PROVE A(w)
    BY <2>3, <2>4 DEF RequestStep, ReadForCreate, ReadForCancel, ReadForDelete, CreateJob,
       CancelJob, DeleteJob
  <2>5. ASSUME NEW j \in Jobs, HeartbeatExpires(j) PROVE A(w)
    BY <2>3, <2>5 DEF HeartbeatExpires
  <2>6. CASE UNCHANGED vars
    BY <2>3, <2>6 DEF vars
  <2> HIDE DEF A
  <2> QED
    BY <2>2, <2>4, <2>5, <2>6 DEF Next
<1> QED
  BY <1>1, TypeCorrect, ProgressInvariant, PTL DEF Spec, SessionsEnd

\* No job is worked on without an attempt, and there are no more attempts than the limit: with
\* EverySessionEnds, the workers take finitely many steps for a job, whatever crashes.
THEOREM EverySessionIsAnAttempt == Spec => SessionsAreAttempts
<1> DEFINE A(j) == /\ attempts'[j] >= attempts[j]
                   /\ \A w \in Workers : job[w] # j /\ job'[w] = j =>
                        attempts'[j] = attempts[j] + 1 /\ attempts'[j] <= MaxAttempts
<1>1. TypeOK /\ TypeOK' /\ ProgressInv /\ AttemptsInv' /\ [Next]_vars => \A j \in Jobs : A(j)
  <2> SUFFICES ASSUME TypeOK, TypeOK', ProgressInv, AttemptsInv', [Next]_vars, NEW j \in Jobs
               PROVE  A(j)
    OBVIOUS
  <2>1. attempts[j] \in Nat /\ attempts'[j] <= MaxAttempts
    BY DEF TypeOK, AttemptsInv, AttemptsBounded
  <2>2. CASE UNCHANGED attempts /\ \A w \in Workers : job'[w] \in {job[w], NoJob}
    BY <2>1, <2>2, ConstantsAssumption
  <2>3. ASSUME NEW v \in Workers, Claim(v) PROVE A(j)
    <3>1. CASE UNCHANGED <<attempts, job>>
      BY <2>2, <3>1
    <3>2. CASE \E i \in Jobs : /\ attempts' = [attempts EXCEPT ![i] = @ + 1]
                               /\ job' = [job EXCEPT ![v] = i]
      <4>1. PICK i \in Jobs : /\ attempts' = [attempts EXCEPT ![i] = @ + 1]
                              /\ job' = [job EXCEPT ![v] = i]
        BY <3>2
      <4>2. CASE i = j
        BY <2>1, <4>1, <4>2 DEF TypeOK
      <4>3. CASE i # j
        BY <2>1, <4>1, <4>3 DEF TypeOK
      <4> QED
        BY <4>2, <4>3
    <3> QED
      BY <2>3, <3>1, <3>2 DEF Claim
  <2>4. ASSUME NEW v \in Workers, WorkerStep(v) \/ Crash(v), ~Claim(v) PROVE A(j)
    <3>1. CASE pc[v] \in Working
      <4>1. UNCHANGED attempts
        BY <2>4, AttemptsUntouched
      <4>2. job'[v] \in {job[v], NoJob}
        BY <2>4, <3>1, WorkerAdvances DEF Advances
      <4>3. OthersStay(v)
        BY <2>4, WorkerStepAlone
      <4> QED
        BY <2>2, <4>1, <4>2, <4>3 DEF OthersStay
    <3>2. CASE pc[v] \notin Working
      <4>1. Recover(v)
        BY <2>4, <3>2 DEF WorkerStep, Crash, Working, Begin, RowVanished, NextDocument,
           StartExtraction, ReuseContent, LinkContent, ContentVanished, StartChunking,
           DocumentReady, PrepareFails, CancelRemaining, StartRanking, CheckBatch,
           PredictBatch, InferenceFails, FailUnscored, CheckAttach, AttachResult,
           ResultVanished, Finish, At
      <4> QED
        BY <2>2, <4>1 DEF Recover
    <3> QED
      BY <3>1, <3>2
  <2>5. ASSUME NEW c \in Clients, RequestStep(c) PROVE A(j)
    BY <2>2, <2>5 DEF RequestStep, ReadForCreate, ReadForCancel, ReadForDelete, CreateJob,
       CancelJob, DeleteJob, database
  <2>6. ASSUME NEW i \in Jobs, HeartbeatExpires(i) PROVE A(j)
    BY <2>2, <2>6 DEF HeartbeatExpires
  <2>7. CASE UNCHANGED vars
    BY <2>2, <2>7 DEF vars
  <2> HIDE DEF A
  <2> QED
    BY <2>3, <2>4, <2>5, <2>6, <2>7 DEF Next
<1> QED
  BY <1>1, TypeCorrect, ProgressInvariant, AttemptsInvariant, PTL DEF Spec, SessionsAreAttempts
=============================================================================
