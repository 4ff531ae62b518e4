----------------------- MODULE CalendarTaskSyncProofs -----------------------
(***************************************************************************)
(* Proofs about CalendarTaskSync, for every number of workers, requests,   *)
(* versions, events, rows and attempts: its types, that one live event at  *)
(* most carries the marker of the task, and that a worker removes the task *)
(* after its event only.                                                   *)
(*                                                                         *)
(* The provers treat a variable that is a truth value apart from records   *)
(* and numbers: unsettled has a lemma of its own.                          *)
(***************************************************************************)
EXTENDS CalendarTaskSync, FiniteSetTheorems, SequenceTheorems, TLAPS

LEMMA TaskBounds ==
  /\ MaxVersion \in Nat \ {0} /\ MaxTries \in Nat \ {0}
  /\ MaxCalls \in Nat /\ MaxRemote \in Nat /\ MaxJobRows \in Nat
BY TaskSyncAssumption

USE TaskBounds

----------------------------------------------------------------------------
(* Types.                                                                  *)

Plan == [present : BOOLEAN, version : Versions, status : PlanStatus, linked : BOOLEAN]
Entry == [no : Nat, content : Versions, remote : 0 .. MaxRemote, deleted : BOOLEAN]
Syncer == [step : SyncSteps, no : 0 .. MaxJobRows, op : JobOps, version : Versions,
           tries : 0 .. MaxTries, entry : Nat, content : Versions, remote : 0 .. MaxRemote]
Request == [step : {"idle", "event", "link", "enqueue"}, version : Versions, op : JobOps,
            calls : 0 .. MaxCalls]

\* SyncTypeOK without unsettled; rows and workers name events that exist.
Rows == plan \in Plan /\ entry \in Entry /\ queue \in JobRow /\ request \in Request
Remote ==
  /\ provider \in Seq(0 .. MaxVersion) /\ Len(provider) <= MaxRemote
  /\ marked \subseteq 1 .. Len(provider)
  /\ entry.remote <= Len(provider)
Workers ==
  /\ syncer \in [SyncWorkers -> Syncer]
  /\ \A w \in SyncWorkers : syncer[w].remote <= Len(provider)

Typed == Rows /\ Remote /\ Workers /\ disturbed \subseteq Disturbances

LEMMA TypedParts == Typed /\ unsettled \in BOOLEAN => SyncTypeOK
<1> SUFFICES ASSUME Typed, unsettled \in BOOLEAN PROVE SyncTypeOK
  OBVIOUS
<1>1. marked \subseteq DOMAIN provider
  <2>1. DOMAIN provider = 1 .. Len(provider)
    BY DEF Typed, Remote
  <2> QED
    BY <2>1 DEF Typed, Remote
<1>2. /\ plan \in Plan /\ entry \in Entry /\ queue \in JobRow /\ request \in Request
      /\ provider \in Seq(0 .. MaxVersion) /\ syncer \in [SyncWorkers -> Syncer]
      /\ disturbed \subseteq Disturbances
  BY DEF Typed, Rows, Remote, Workers
<1> QED
  BY <1>1, <1>2, Zenon DEF SyncTypeOK, Plan, Entry, Request, Syncer

LEMMA IdleSyncerTyped == IdleSyncer \in Syncer /\ IdleSyncer.remote = 0 /\ IdleSyncer.step = "idle"
BY DEF Syncer, IdleSyncer, SyncSteps, JobOps, Versions

LEMMA InitTyped == SyncInit => Typed /\ unsettled \in BOOLEAN
<1> SUFFICES ASSUME SyncInit PROVE Typed /\ unsettled \in BOOLEAN
  OBVIOUS
<1>1. Rows
  BY DEF SyncInit, Rows, Plan, Entry, JobRow, Request, NoJobRow, NoOwner, Versions, PlanStatus,
         JobOps, JobStatusSet
<1>2. Remote
  BY EmptySeq DEF SyncInit, Remote
<1>3. Workers
  BY <1>2, IdleSyncerTyped DEF SyncInit, Workers, Remote
<1>4. unsettled \in BOOLEAN
  BY Zenon DEF SyncInit
<1> QED
  BY <1>1, <1>2, <1>3, <1>4 DEF SyncInit, Typed

\* A step of one worker: what it has in its hands afterwards, and nobody else moves.
Moves(w, x) == x \in Syncer /\ syncer' = [syncer EXCEPT ![w] = x]

LEMMA SyncerMoves ==
  ASSUME Workers, NEW w \in SyncWorkers, NEW x, Moves(w, x)
  PROVE  /\ syncer' \in [SyncWorkers -> Syncer] /\ syncer'[w] = x
         /\ \A v \in SyncWorkers : v # w => syncer'[v] = syncer[v]
BY DEF Workers, Moves

LEMMA WorkersKept ==
  ASSUME Workers, NEW w \in SyncWorkers, NEW x, Moves(w, x),
         Len(provider) \in Nat, Len(provider') \in Nat, Len(provider) <= Len(provider'),
         x.remote <= Len(provider')
  PROVE  Workers'
<1>1. /\ syncer' \in [SyncWorkers -> Syncer] /\ syncer'[w] = x
      /\ \A v \in SyncWorkers : v # w => syncer'[v] = syncer[v]
  BY SyncerMoves
<1>2. ASSUME NEW v \in SyncWorkers PROVE syncer'[v].remote <= Len(provider')
  <2>1. syncer[v].remote \in Nat /\ syncer[v].remote <= Len(provider)
    BY DEF Workers, Syncer
  <2> QED
    BY <1>1, <2>1
<1> QED
  BY <1>1, <1>2 DEF Workers

LEMMA StepTyped ==
  ASSUME NEW a \in Syncer, NEW step \in SyncSteps
  PROVE  /\ [a EXCEPT !.step = step] \in Syncer
         /\ [a EXCEPT !.step = step].step = step
         /\ [a EXCEPT !.step = step].no = a.no
         /\ [a EXCEPT !.step = step].remote = a.remote
BY DEF Syncer

LEMMA EndTyped ==
  ASSUME NEW a \in Syncer, NEW step \in SyncSteps, NEW no \in 0 .. MaxJobRows,
         NEW op \in JobOps, NEW tries \in 0 .. MaxTries
  PROVE  [a EXCEPT !.step = step, !.no = no, !.op = op, !.tries = tries] \in Syncer
BY DEF Syncer

LEMMA GoToMoves ==
  ASSUME Workers, NEW w \in SyncWorkers, NEW step \in SyncSteps, GoTo(w, step)
  PROVE  \E x : /\ Moves(w, x) /\ x.step = step /\ x.no = syncer[w].no
                /\ x.remote = syncer[w].remote /\ x.remote <= Len(provider)
<1>1. syncer[w] \in Syncer /\ syncer[w].remote <= Len(provider)
  BY DEF Workers
<1>2. syncer' = [syncer EXCEPT ![w] = [syncer[w] EXCEPT !.step = step]]
  BY DEF GoTo
<1> WITNESS [syncer[w] EXCEPT !.step = step]
<1> QED
  BY <1>1, <1>2, StepTyped DEF Moves

LEMMA GoEndMoves ==
  ASSUME Workers, NEW w \in SyncWorkers, NEW step \in SyncSteps, GoEnd(w, step)
  PROVE  \E x : Moves(w, x) /\ x.step = step /\ x.no = syncer[w].no /\ x.remote = 0
<1> DEFINE x == [IdleSyncer EXCEPT !.step = step, !.no = syncer[w].no, !.op = syncer[w].op,
                                   !.tries = syncer[w].tries]
<1>1. /\ syncer[w].no \in 0 .. MaxJobRows /\ syncer[w].op \in JobOps
      /\ syncer[w].tries \in 0 .. MaxTries
  BY DEF Workers, Syncer
<1>2. x \in Syncer
  BY <1>1, EndTyped, IdleSyncerTyped
<1>3. x.step = step /\ x.no = syncer[w].no /\ x.remote = 0
  BY DEF IdleSyncer
<1>4. syncer' = [syncer EXCEPT ![w] = x]
  BY DEF GoEnd
<1> QED
  BY <1>2, <1>3, <1>4 DEF Moves

LEMMA GoIdleMoves ==
  ASSUME NEW w \in SyncWorkers, GoIdle(w)
  PROVE  Moves(w, IdleSyncer)
BY IdleSyncerTyped DEF GoIdle, Moves

\* Job rows that a step has changed.
LEMMA JobTyped ==
  ASSUME NEW q \in JobRow, NEW status \in JobStatusSet, NEW due \in BOOLEAN
  PROVE  /\ [q EXCEPT !.status = status] \in JobRow
         /\ [q EXCEPT !.due = due] \in JobRow
         /\ [q EXCEPT !.status = status].no = q.no
         /\ [q EXCEPT !.status = status].due = q.due
         /\ [q EXCEPT !.status = status].status = status
         /\ [q EXCEPT !.status = status].tries = q.tries
BY DEF JobRow

LEMMA DueTyped == ASSUME NEW q \in JobRow PROVE [q EXCEPT !.due = TRUE] \in JobRow
BY DEF JobRow

LEMMA FinishedTyped ==
  ASSUME NEW q \in JobRow, NEW status \in JobStatusSet, NEW due \in BOOLEAN
  PROVE  FinishedJob(q, status, due) \in JobRow
<1>1. (status # "failed" \/ q.tries >= MaxTries) \in BOOLEAN
  OBVIOUS
<1>2. ASSUME NEW done \in BOOLEAN
      PROVE  [q EXCEPT !.status = status, !.due = due, !.done = done] \in JobRow
  BY DEF JobRow
<1> QED
  BY <1>1, <1>2 DEF FinishedJob

LEMMA SweptTyped ==
  ASSUME NEW q \in JobRow
  PROVE  /\ SweptJob(q) \in JobRow /\ SweptJob(q).no = q.no /\ SweptJob(q).due = q.due
         /\ q.status = "processing" /\ ~q.due => SweptJob(q) = q
         /\ SweptJob(q).tries = q.tries
<1>1. "failed" \in JobStatusSet
  BY DEF JobStatusSet
<1> QED
  BY <1>1, JobTyped DEF SweptJob, LeaseOver

LEMMA MergedTyped ==
  ASSUME NEW q \in JobRow, NEW op \in JobOps, NEW v \in Versions
  PROVE  /\ MergedJob(q, op, v) \in JobRow
         /\ MergedJob(q, op, v).no = q.no
         /\ q.status = "processing" => /\ MergedJob(q, op, v).status = "processing"
                                       /\ MergedJob(q, op, v).due = q.due
<1> DEFINE version == IF v > q.version THEN v ELSE q.version
<1>2. version \in Versions /\ q.due \in BOOLEAN /\ {"pending", "processing"} \subseteq JobStatusSet
  BY DEF JobRow, JobStatusSet
<1>3. CASE q.status = "processing"
  <2>1. MergedJob(q, op, v) =
          [q EXCEPT !.op = op, !.version = version, !.status = "processing", !.due = q.due]
    BY <1>3 DEF MergedJob, JobRow
  <2> HIDE DEF version
  <2> QED
    BY <1>2, <2>1 DEF JobRow
<1>4. CASE q.status # "processing"
  <2>1. MergedJob(q, op, v) =
          [q EXCEPT !.op = op, !.version = version, !.status = "pending", !.due = TRUE]
    BY <1>4 DEF MergedJob, JobRow
  <2> HIDE DEF version
  <2> QED
    BY <1>2, <1>4, <2>1 DEF JobRow
<1> QED
  BY <1>3, <1>4

\* The row a worker is busy with stays the same row, in processing.
SameRow == queue'.no = queue.no /\ queue'.status = queue.status /\ queue'.due = queue.due

LEMMA EnqueueTyped ==
  ASSUME queue \in JobRow, NEW op \in JobOps, NEW v \in Versions, EnqueueJob(op, v)
  PROVE  queue' \in JobRow /\ (queue.status = "processing" => SameRow)
<1>1. CASE ActiveJob(queue)
  BY <1>1, MergedTyped DEF EnqueueJob, SameRow
<1>2. CASE ~ActiveJob(queue)
  <2>1. queue.no + 1 \in 0 .. MaxJobRows
    BY <1>2 DEF EnqueueJob, JobRow
  <2>2. queue' = [no |-> queue.no + 1, status |-> "pending", op |-> op, version |-> v,
                  tries |-> 0, due |-> TRUE, done |-> FALSE]
    BY <1>2 DEF EnqueueJob
  <2>3. queue' \in JobRow
    BY <2>1, <2>2 DEF JobRow, JobStatusSet
  <2> QED
    BY <1>2, <2>3 DEF ActiveJob
<1> QED
  BY <1>1, <1>2

----------------------------------------------------------------------------
(* The inductive invariant.                                                *)

\* A worker that may still write the row of its job.
Busy(w) == syncer[w].step \notin {"idle", "requeue"}

\* While no lease was outlived, one worker at most is busy, and the row it works on is
\* the present one, in processing, with a lease that runs.
Alone ==
  "lease" \notin disturbed =>
    \A w \in SyncWorkers : Busy(w) =>
      /\ syncer[w].no = queue.no /\ queue.status = "processing" /\ ~queue.due
      /\ \A v \in SyncWorkers : Busy(v) => v = w

\* Every event that is known was marked, a worker that is about to insert one has looked
\* in vain, and there is one at most.
Sole ==
  disturbed = {} =>
    /\ \A r, s \in MarkerMatches : r = s
    /\ entry.remote # 0 => entry.remote \in marked
    /\ \A w \in SyncWorkers :
         /\ syncer[w].remote # 0 => syncer[w].remote \in marked
         /\ syncer[w].step = "push" /\ syncer[w].remote = 0 => MarkerMatches = {}

\* A worker that deletes is about to delete the event of the present row, and has deleted it.
Severed ==
  disturbed \subseteq {"gone"} =>
    \A w \in SyncWorkers :
      /\ syncer[w].step = "delete" => entry.remote \in {0, syncer[w].remote}
      /\ syncer[w].step \in {"tombstone", "complete"} => ~LiveRemote(entry.remote)

TaskInv == Typed /\ Alone /\ Sole /\ Severed

LEMMA InitInv == SyncInit => TaskInv
<1> SUFFICES ASSUME SyncInit PROVE TaskInv
  OBVIOUS
<1>1. Typed
  BY InitTyped
<1>2. \A w \in SyncWorkers : syncer[w].step = "idle" /\ syncer[w].remote = 0
  BY DEF SyncInit, IdleSyncer
<1>3. marked = {} /\ entry.remote = 0
  BY DEF SyncInit
<1>4. Alone
  BY <1>2 DEF Alone, Busy
<1>5. Sole
  BY <1>2, <1>3 DEF Sole, MarkerMatches
<1>6. Severed
  BY <1>2 DEF Severed
<1> QED
  BY <1>1, <1>4, <1>5, <1>6 DEF TaskInv

\* What a change of one worker leaves of each part.
LEMMA AloneMoves ==
  ASSUME Alone, Workers, NEW w \in SyncWorkers, NEW x, Moves(w, x),
         disturbed \subseteq disturbed', Busy(w),
         x.step \in {"idle", "requeue"} \/ (x.no = syncer[w].no /\ SameRow)
  PROVE  Alone'
<1> SUFFICES ASSUME "lease" \notin disturbed', NEW v \in SyncWorkers, Busy(v)'
             PROVE  /\ syncer'[v].no = queue'.no /\ queue'.status = "processing" /\ ~queue'.due
                    /\ \A u \in SyncWorkers : Busy(u)' => u = v
  BY DEF Alone
<1>1. /\ syncer'[w] = x
      /\ \A u \in SyncWorkers : u # w => syncer'[u] = syncer[u]
  BY SyncerMoves
<1>2. /\ syncer[w].no = queue.no /\ queue.status = "processing" /\ ~queue.due
      /\ \A u \in SyncWorkers : Busy(u) => u = w
  BY DEF Alone
<1>3. \A u \in SyncWorkers : Busy(u)' => u = w
  BY <1>1, <1>2 DEF Busy
<1>4. x.no = syncer[w].no /\ SameRow
  BY <1>1, <1>3 DEF Busy
<1> QED
  BY <1>1, <1>2, <1>3, <1>4 DEF SameRow

LEMMA AloneRows ==
  ASSUME Alone, syncer' = syncer, disturbed \subseteq disturbed',
         SameRow \/ queue.status # "processing" \/ queue.due
  PROVE  Alone'
BY DEF Alone, Busy, SameRow

LEMMA SoleMoves ==
  ASSUME Sole, Workers, NEW w \in SyncWorkers, NEW x, Moves(w, x),
         disturbed \subseteq disturbed', UNCHANGED atProvider,
         disturbed = {} => /\ entry'.remote # 0 => entry'.remote \in {entry.remote} \cup marked
                           /\ x.remote # 0 => x.remote \in marked,
         x.step = "push" => x.remote # 0
  PROVE  Sole'
<1> SUFFICES ASSUME disturbed' = {} PROVE Sole'
  BY DEF Sole
<1>1. /\ syncer'[w] = x
      /\ \A u \in SyncWorkers : u # w => syncer'[u] = syncer[u]
  BY SyncerMoves
<1>2. provider' = provider /\ marked' = marked /\ MarkerMatches' = MarkerMatches
  BY DEF atProvider, MarkerMatches, LiveRemote
<1>3. disturbed = {}
  OBVIOUS
<1> QED
  BY <1>1, <1>2, <1>3 DEF Sole

LEMMA SoleRows ==
  ASSUME Sole, syncer' = syncer, disturbed \subseteq disturbed', marked' = marked,
         MarkerMatches' \subseteq MarkerMatches, entry'.remote \in {0, entry.remote}
  PROVE  Sole'
<1> SUFFICES ASSUME disturbed' = {} PROVE Sole'
  BY DEF Sole
<1>1. disturbed = {}
  OBVIOUS
<1> QED
  BY <1>1 DEF Sole

LEMMA SeveredMoves ==
  ASSUME Alone, Workers, NEW w \in SyncWorkers, NEW x, Moves(w, x),
         disturbed \subseteq disturbed', Busy(w), x.step \notin {"delete", "tombstone", "complete"}
  PROVE  Severed'
<1> SUFFICES ASSUME disturbed' \subseteq {"gone"}, NEW v \in SyncWorkers
             PROVE  syncer'[v].step \notin {"delete", "tombstone", "complete"}
  BY DEF Severed
<1>1. /\ syncer'[w] = x
      /\ \A u \in SyncWorkers : u # w => syncer'[u] = syncer[u]
  BY SyncerMoves
<1>2. \A u \in SyncWorkers : Busy(u) => u = w
  BY DEF Alone
<1> QED
  BY <1>1, <1>2 DEF Busy

LEMMA SeveredRows ==
  ASSUME Severed, syncer' = syncer, disturbed \subseteq disturbed',
         entry'.remote \in {0, entry.remote},
         LiveRemote(entry.remote)' => LiveRemote(entry.remote)
  PROVE  Severed'
<1> SUFFICES ASSUME disturbed' \subseteq {"gone"} PROVE Severed'
  BY DEF Severed
<1> QED
  BY DEF Severed, LiveRemote

----------------------------------------------------------------------------
(* The steps of a worker.                                                  *)

LEMMA Parts ==
  ASSUME TaskInv
  PROVE  /\ Rows /\ Remote /\ Workers /\ disturbed \subseteq Disturbances
         /\ Alone /\ Sole /\ Severed
         /\ Len(provider) \in Nat
         /\ \A w \in SyncWorkers : syncer[w] \in Syncer /\ syncer[w].remote <= Len(provider)
  BY LenProperties DEF TaskInv, Typed, Remote, Workers

\* A step of a busy worker that leaves the provider and the event row alone.
LEMMA QuietMove ==
  ASSUME TaskInv, NEW w \in SyncWorkers, NEW x, Moves(w, x), Busy(w),
         x.remote = 0 \/ x.remote = syncer[w].remote, x.step = "push" => x.remote # 0,
         x.step \notin {"delete", "tombstone", "complete"},
         x.step \in {"idle", "requeue"} \/ (x.no = syncer[w].no /\ SameRow),
         plan' \in Plan, queue' \in JobRow, entry' \in Entry, entry'.remote = entry.remote,
         UNCHANGED <<atProvider, request, disturbed>>
  PROVE  TaskInv'
<1> USE Parts DEF atProvider
<1>1. x.remote <= Len(provider)
  <2>1. syncer[w].remote <= Len(provider)
    OBVIOUS
  <2> QED
    BY <2>1
<1>2. Workers'
  BY <1>1, WorkersKept
<1>3. Rows' /\ Remote'
  BY DEF Rows, Remote
<1>4. Alone'
  BY AloneMoves
<1>5. Sole'
  <2>1. disturbed = {} => (x.remote # 0 => x.remote \in marked)
    BY DEF Sole
  <2> QED
    BY <2>1, SoleMoves
<1>6. Severed'
  BY SeveredMoves
<1> QED
  BY <1>2, <1>3, <1>4, <1>5, <1>6 DEF TaskInv, Typed

LEMMA ClaimJobKeeps ==
  ASSUME TaskInv, NEW w \in SyncWorkers, ClaimJob(w)
  PROVE  TaskInv'
<1> USE Parts
<1> DEFINE q == SweptJob(queue)
<1>1. q \in JobRow /\ q.tries < MaxTries /\ q.status \in {"pending", "failed"}
  BY SweptTyped DEF ClaimJob, ClaimableJob, Rows
<1>2. /\ queue' = [q EXCEPT !.status = "processing", !.tries = q.tries + 1, !.due = FALSE]
      /\ syncer' = [syncer EXCEPT ![w] = [IdleSyncer EXCEPT
           !.step = "load", !.no = q.no, !.op = q.op, !.version = q.version, !.tries = q.tries + 1]]
      /\ UNCHANGED <<plan, entry, unsettled, atProvider, request, disturbed>>
  BY DEF ClaimJob
<1>3. queue.status # "processing" \/ queue.due
  BY <1>1, SweptTyped DEF Rows
<1> HIDE DEF q
<1> DEFINE x == [IdleSyncer EXCEPT
             !.step = "load", !.no = q.no, !.op = q.op, !.version = q.version, !.tries = q.tries + 1]
<1>4. /\ q.no \in 0 .. MaxJobRows /\ q.op \in JobOps /\ q.version \in Versions
      /\ q.tries + 1 \in 0 .. MaxTries
  BY <1>1 DEF JobRow
<1>5. Moves(w, x)
  <2>1. ASSUME NEW a \in Syncer, NEW no \in 0 .. MaxJobRows, NEW op \in JobOps,
               NEW version \in Versions, NEW tries \in 0 .. MaxTries
        PROVE  [a EXCEPT !.step = "load", !.no = no, !.op = op, !.version = version,
                         !.tries = tries] \in Syncer
    BY DEF Syncer, SyncSteps
  <2>2. x \in Syncer
    BY <1>4, <2>1, IdleSyncerTyped
  <2> QED
    BY <1>2, <2>2 DEF Moves
<1>6. x.step = "load" /\ x.no = q.no /\ x.remote = 0
  BY DEF IdleSyncer
<1>7. queue' \in JobRow /\ queue'.no = q.no /\ queue'.status = "processing" /\ ~queue'.due
  BY <1>1, <1>2, <1>4 DEF JobRow, JobStatusSet
<1> HIDE DEF x
<1>8. Workers' /\ Rows' /\ Remote'
  BY <1>2, <1>5, <1>6, <1>7, WorkersKept DEF Rows, Remote, atProvider
<1>9. /\ syncer'[w] = x
      /\ \A v \in SyncWorkers : v # w => syncer'[v] = syncer[v]
  BY <1>5, SyncerMoves
<1>10. Alone'
  <2>1. "lease" \notin disturbed => \A v \in SyncWorkers : ~Busy(v)
    BY <1>3 DEF Alone
  <2> QED
    BY <1>2, <1>6, <1>7, <1>9, <2>1 DEF Alone, Busy
<1>11. Sole'
  BY <1>2, <1>5, <1>6, SoleMoves DEF Sole
<1>12. Severed'
  BY <1>2, <1>6, <1>9 DEF Severed, LiveRemote, atProvider
<1> QED
  BY <1>2, <1>8, <1>10, <1>11, <1>12 DEF TaskInv, Typed

LEMMA LoadJobKeeps ==
  ASSUME TaskInv, NEW w \in SyncWorkers, LoadJob(w)
  PROVE  TaskInv'
<1> USE Parts
<1>1. /\ syncer[w].step = "load" /\ Busy(w)
      /\ UNCHANGED <<plan, entry, jobRows, atProvider, request, disturbed>>
  BY DEF LoadJob, Busy
<1>2. syncer[w] \in Syncer
  OBVIOUS
<1>3. CASE ~plan.present \/ ~plan.linked \/ plan.version > syncer[w].version
  <2>0. 1 \in Versions /\ {"fail", "supersede"} \subseteq SyncSteps
    BY DEF Versions, SyncSteps
  <2>1. PICK step \in {"fail", "supersede"} :
          syncer' = [syncer EXCEPT ![w] = [syncer[w] EXCEPT !.step = step, !.version = 1]]
    BY <1>3 DEF LoadJob
  <2> DEFINE x == [syncer[w] EXCEPT !.step = step, !.version = 1]
  <2>2. /\ x \in Syncer /\ x.step = step /\ x.no = syncer[w].no
        /\ x.remote = syncer[w].remote
    BY <1>2, <2>0 DEF Syncer
  <2>3. Moves(w, x)
    BY <2>1, <2>2 DEF Moves
  <2> HIDE DEF x
  <2> QED
    BY <1>1, <2>2, <2>3, QuietMove DEF Rows, jobRows, SameRow
<1>4. CASE ~(~plan.present \/ ~plan.linked \/ plan.version > syncer[w].version)
  <2> DEFINE step == IF syncer[w].op = "delete" THEN "delete"
                     ELSE IF entry.remote = 0 THEN "lookup" ELSE "push"
             x == [syncer[w] EXCEPT !.entry = entry.no, !.content = entry.content,
                                    !.remote = entry.remote, !.step = step]
  <2>1. syncer' = [syncer EXCEPT ![w] = x]
    BY <1>4 DEF LoadJob
  <2>2. step \in {"delete", "lookup", "push"} /\ (step = "push" => entry.remote # 0)
    OBVIOUS
  <2> HIDE DEF step
  <2>3. /\ x \in Syncer /\ x.step = step /\ x.no = syncer[w].no /\ x.remote = entry.remote
    BY <1>2, <2>2 DEF Syncer, SyncSteps, Rows, Entry
  <2>4. Moves(w, x)
    BY <2>1, <2>3 DEF Moves
  <2> HIDE DEF x
  <2>5. Workers' /\ Rows' /\ Remote'
    BY <1>1, <2>3, <2>4, WorkersKept DEF Rows, Remote, atProvider, jobRows
  <2>6. Alone'
    BY <1>1, <2>3, <2>4, AloneMoves DEF SameRow, jobRows
  <2>7. Sole'
    BY <1>1, <2>2, <2>3, <2>4, SoleMoves DEF Sole
  <2>8. Severed'
    <3>1. /\ syncer'[w] = x
          /\ \A v \in SyncWorkers : v # w => syncer'[v] = syncer[v]
      BY <2>4, SyncerMoves
    <3> QED
      BY <1>1, <2>2, <2>3, <3>1 DEF Severed, LiveRemote, atProvider
  <2> QED
    BY <1>1, <2>5, <2>6, <2>7, <2>8 DEF TaskInv, Typed
<1> QED
  BY <1>3, <1>4

LEMMA LookupKeeps ==
  ASSUME TaskInv, NEW w \in SyncWorkers, Lookup(w)
  PROVE  TaskInv'
<1> USE Parts
<1>1. /\ syncer[w].step = "lookup" /\ Busy(w)
      /\ UNCHANGED <<plan, entry, jobRows, atProvider, request, disturbed>>
  BY DEF Lookup, Busy
<1>2. syncer[w] \in Syncer
  OBVIOUS
<1>3. CASE Cardinality(MarkerMatches) > 1
  <2>1. GoTo(w, "reconcile") /\ "reconcile" \in SyncSteps
    BY <1>3 DEF Lookup, GoTo, SyncSteps
  <2>2. PICK x : /\ Moves(w, x) /\ x.step = "reconcile" /\ x.no = syncer[w].no
                 /\ x.remote = syncer[w].remote
    BY <2>1, GoToMoves
  <2> QED
    BY <1>1, <2>2, QuietMove DEF Rows, jobRows, SameRow
<1>4. CASE ~(Cardinality(MarkerMatches) > 1)
  <2> DEFINE found == IF MarkerMatches = {} THEN 0 ELSE CHOOSE r \in MarkerMatches : TRUE
             x == [syncer[w] EXCEPT !.step = "push", !.remote = found]
  <2>1. syncer' = [syncer EXCEPT ![w] = x]
    BY <1>4 DEF Lookup
  <2>2. /\ MarkerMatches = {} => found = 0
        /\ MarkerMatches # {} => found \in MarkerMatches
    OBVIOUS
  <2> HIDE DEF found
  <2>3. /\ found \in 0 .. MaxRemote /\ found <= Len(provider)
        /\ found # 0 => found \in marked
        /\ found = 0 => MarkerMatches = {}
    <3>1. CASE MarkerMatches = {}
      BY <2>2, <3>1
    <3>2. CASE MarkerMatches # {}
      <4>1. found \in marked /\ found # 0
        BY <2>2, <3>2 DEF MarkerMatches, LiveRemote
      <4> QED
        BY <4>1 DEF Remote
    <3> QED
      BY <3>1, <3>2
  <2>4. x \in Syncer /\ x.step = "push" /\ x.no = syncer[w].no /\ x.remote = found
    BY <1>2, <2>3 DEF Syncer, SyncSteps
  <2>5. Moves(w, x)
    BY <2>1, <2>4 DEF Moves
  <2> HIDE DEF x
  <2>6. Workers' /\ Rows' /\ Remote'
    BY <1>1, <2>3, <2>4, <2>5, WorkersKept DEF Rows, Remote, atProvider, jobRows
  <2>7. Alone'
    BY <1>1, <2>4, <2>5, AloneMoves DEF SameRow, jobRows
  <2>8. Sole'
    <3>1. /\ syncer'[w] = x
          /\ \A v \in SyncWorkers : v # w => syncer'[v] = syncer[v]
      BY <2>5, SyncerMoves
    <3>2. MarkerMatches' = MarkerMatches
      BY <1>1 DEF MarkerMatches, LiveRemote, atProvider
    <3> QED
      BY <1>1, <2>3, <2>4, <3>1, <3>2 DEF Sole, atProvider
  <2>9. Severed'
    BY <1>1, <2>4, <2>5, SeveredMoves
  <2> QED
    BY <1>1, <2>6, <2>7, <2>8, <2>9 DEF TaskInv, Typed
<1> QED
  BY <1>3, <1>4

\* An insert makes one more event, a patch changes one that lives.
LEMMA Pushed ==
  ASSUME Remote, NEW content \in 1 .. MaxVersion, NEW r \in 1 .. MaxRemote, Len(provider) \in Nat,
         \/ r \in 1 .. Len(provider) /\ LiveRemote(r) /\ provider' = [provider EXCEPT ![r] = content]
         \/ r = Len(provider) + 1 /\ provider' = Append(provider, content)
  PROVE  /\ provider' \in Seq(0 .. MaxVersion) /\ Len(provider') \in Nat
         /\ Len(provider') <= MaxRemote /\ Len(provider) <= Len(provider')
         /\ r \in 1 .. Len(provider')
         /\ \A s \in 1 .. Len(provider) : s # r => provider'[s] = provider[s]
         /\ \A s \in 1 .. Len(provider) : LiveRemote(s)' <=> LiveRemote(s)
<1>0. content \in 0 .. MaxVersion /\ content # 0 /\ provider \in Seq(0 .. MaxVersion)
  BY DEF Remote
<1>1. CASE r \in 1 .. Len(provider) /\ LiveRemote(r) /\ provider' = [provider EXCEPT ![r] = content]
  <2>1. /\ provider' \in Seq(0 .. MaxVersion) /\ Len(provider') = Len(provider)
        /\ \A s \in 1 .. Len(provider) : provider'[s] = IF s = r THEN content ELSE provider[s]
    BY <1>0, <1>1, ExceptSeq
  <2>2. r \in 1 .. Len(provider) /\ LiveRemote(r)
    BY <1>1
  <2>3. \A s \in 1 .. Len(provider) : LiveRemote(s)' <=> LiveRemote(s)
    BY <1>0, <2>1, <2>2 DEF LiveRemote
  <2> QED
    BY <2>1, <2>2, <2>3 DEF Remote
<1>2. CASE r = Len(provider) + 1 /\ provider' = Append(provider, content)
  <2>1. /\ provider' \in Seq(0 .. MaxVersion) /\ Len(provider') = Len(provider) + 1
        /\ \A s \in 1 .. Len(provider) : provider'[s] = provider[s]
    BY <1>0, <1>2, AppendProperties
  <2> QED
    BY <1>2, <2>1 DEF LiveRemote
<1> QED
  BY <1>1, <1>2

LEMMA PushKeeps ==
  ASSUME TaskInv, NEW w \in SyncWorkers, Push(w)
  PROVE  TaskInv'
<1> USE Parts
<1> DEFINE me == syncer[w]
           patched == LiveRemote(me.remote)
           r == IF patched THEN me.remote ELSE Len(provider) + 1
<1>1. /\ me.step = "push" /\ Busy(w) /\ r <= MaxRemote /\ marked' = marked \cup {r}
      /\ provider' = IF patched THEN [provider EXCEPT ![r] = me.content]
                     ELSE Append(provider, me.content)
      /\ disturbed' = IF me.remote # 0 /\ ~patched THEN disturbed \cup {"gone"} ELSE disturbed
      /\ UNCHANGED <<plan, entry, jobRows, request>>
  BY DEF Push, Busy, Disturb
<1>2. /\ me \in Syncer /\ me.remote \in Nat /\ me.remote <= Len(provider)
      /\ me.content \in 1 .. MaxVersion
  BY DEF Syncer, Versions
<1>3. \/ patched /\ r = me.remote /\ r \in 1 .. Len(provider)
      \/ ~patched /\ r = Len(provider) + 1
  BY <1>2 DEF LiveRemote
<1>4. r \in 1 .. MaxRemote /\ (patched => LiveRemote(r))
  BY <1>1, <1>3
<1>5. PICK x : /\ Moves(w, x) /\ x.remote \in {0, r} /\ x.step \in {"save", "retry"}
               /\ x.no = me.no
  <2>1. CASE syncer' = [syncer EXCEPT ![w] = [me EXCEPT !.remote = r, !.step = "save"]]
    <3>1. ASSUME NEW a \in Syncer, NEW n \in 0 .. MaxRemote
          PROVE  /\ [a EXCEPT !.remote = n, !.step = "save"] \in Syncer
                 /\ [a EXCEPT !.remote = n, !.step = "save"].remote = n
                 /\ [a EXCEPT !.remote = n, !.step = "save"].step = "save"
                 /\ [a EXCEPT !.remote = n, !.step = "save"].no = a.no
      BY DEF Syncer, SyncSteps
    <3>2. r \in 0 .. MaxRemote /\ me \in Syncer
      BY <1>2, <1>4
    <3> HIDE DEF r, me
    <3> QED
      BY <2>1, <3>1, <3>2 DEF Moves
  <2>2. CASE GoEnd(w, "retry")
    BY <2>2, GoEndMoves DEF SyncSteps
  <2> QED
    BY <2>1, <2>2 DEF Push
<1> HIDE DEF r
<1>6. /\ provider' \in Seq(0 .. MaxVersion) /\ Len(provider') \in Nat
      /\ Len(provider') <= MaxRemote /\ Len(provider) <= Len(provider')
      /\ r \in 1 .. Len(provider')
      /\ \A s \in 1 .. Len(provider) : LiveRemote(s)' <=> LiveRemote(s)
  <2>1. \/ r \in 1 .. Len(provider) /\ LiveRemote(r) /\ provider' = [provider EXCEPT ![r] = me.content]
        \/ r = Len(provider) + 1 /\ provider' = Append(provider, me.content)
    BY <1>1, <1>3, <1>4
  <2> QED
    BY <1>2, <1>4, <2>1, Pushed
<1> HIDE DEF me, patched
<1>7. Workers'
  BY <1>5, <1>6, WorkersKept
<1>8. Rows' /\ Remote'
  BY <1>1, <1>6 DEF Rows, Remote, Entry, jobRows
<1>9. disturbed \subseteq disturbed' /\ disturbed' \subseteq Disturbances
  BY <1>1 DEF Disturbances
<1>10. Alone'
  BY <1>1, <1>5, <1>9, AloneMoves DEF SameRow, jobRows, me
<1>11. Sole'
  <2> SUFFICES ASSUME disturbed' = {} PROVE Sole'
    BY DEF Sole
  <2>1. disturbed = {} /\ ~(me.remote # 0 /\ ~patched)
    BY <1>1, <1>9
  <2>2. /\ syncer'[w] = x
        /\ \A v \in SyncWorkers : v # w => syncer'[v] = syncer[v]
    BY <1>5, SyncerMoves
  <2>3. \A v \in SyncWorkers : syncer[v].step = "push" => v = w
    BY <1>1, <2>1 DEF Alone, Busy
  <2>4. \A s, t \in MarkerMatches' : s = t
    <3>1. CASE patched
      <4>1. r \in marked
        BY <1>1, <1>3, <2>1, <3>1 DEF Sole, me, LiveRemote, patched
      <4>2. MarkerMatches' = MarkerMatches
        BY <1>1, <1>6, <4>1 DEF MarkerMatches, Remote
      <4> QED
        BY <2>1, <4>2 DEF Sole
    <3>2. CASE ~patched
      <4>1. MarkerMatches = {}
        BY <1>1, <2>1, <3>2 DEF Sole, me
      <4>2. \A s \in MarkerMatches' : s = r
        BY <1>1, <1>6, <4>1 DEF MarkerMatches, Remote
      <4> QED
        BY <4>2
    <3> QED
      BY <3>1, <3>2
  <2> QED
    BY <1>1, <1>5, <2>1, <2>2, <2>3, <2>4 DEF Sole
<1>12. Severed'
  BY <1>1, <1>5, <1>9, SeveredMoves
<1> QED
  BY <1>7, <1>8, <1>9, <1>10, <1>11, <1>12 DEF TaskInv, Typed

LEMMA SaveEventKeeps ==
  ASSUME TaskInv, NEW w \in SyncWorkers, SaveEvent(w)
  PROVE  TaskInv'
<1> USE Parts
<1>1. /\ syncer[w].step = "save" /\ Busy(w)
      /\ entry' = IF entry.no = syncer[w].entry THEN [entry EXCEPT !.remote = syncer[w].remote]
                  ELSE entry
      /\ UNCHANGED <<plan, jobRows, atProvider, request, disturbed>>
  BY DEF SaveEvent, Busy
<1>2. PICK x : Moves(w, x) /\ x.step = "mark" /\ x.no = syncer[w].no /\ x.remote = 0
  BY GoEndMoves DEF SaveEvent, SyncSteps
<1>3. /\ entry' \in Entry /\ entry'.remote \in {entry.remote, syncer[w].remote}
      /\ entry'.remote <= Len(provider)
  BY <1>1 DEF Rows, Entry, Syncer, Remote
<1>4. Workers' /\ Rows' /\ Remote'
  BY <1>1, <1>2, <1>3, WorkersKept DEF Rows, Remote, atProvider, jobRows
<1>5. Alone'
  BY <1>1, <1>2, AloneMoves DEF SameRow, jobRows
<1>6. Sole'
  BY <1>1, <1>2, <1>3, SoleMoves DEF Sole
<1>7. Severed'
  BY <1>1, <1>2, SeveredMoves
<1> QED
  BY <1>1, <1>4, <1>5, <1>6, <1>7 DEF TaskInv, Typed

LEMMA PlanStatusTyped ==
  ASSUME plan \in Plan, NEW status \in PlanStatus, SetPlanStatus(status)
  PROVE  plan' \in Plan
BY DEF SetPlanStatus, Plan

LEMMA FinishedRow ==
  ASSUME queue \in JobRow, NEW status \in JobStatusSet
  PROVE  /\ FinishedJob(queue, status, queue.due) \in JobRow
         /\ FinishedJob(queue, status, TRUE) \in JobRow
         /\ FinishedJob(queue, status, FALSE) \in JobRow
<1>1. queue.due \in BOOLEAN
  BY DEF JobRow
<1> QED
  BY <1>1, FinishedTyped

\* The steps that report.
LEMMA ReportKeeps ==
  ASSUME TaskInv, NEW w \in SyncWorkers,
         \/ MarkSynced(w) \/ CallFails(w) \/ Reconcile(w) \/ FinishSucceeded(w)
         \/ FinishRetry(w) \/ SetTaskFailure(w) \/ FinishFailed(w) \/ FinishSuperseded(w)
  PROVE  TaskInv'
<1> USE Parts DEF Rows
<1>1. IdleSyncer.remote = 0 /\ IdleSyncer.step = "idle"
  BY IdleSyncerTyped
<1>2. /\ {"synced", "reconciliation_required", "failed"} \subseteq PlanStatus
      /\ {"succeeded", "reconciliation_required", "failed", "superseded"} \subseteq JobStatusSet
      /\ {"finish", "retry", "fail", "failed", "requeue"} \subseteq SyncSteps
  BY DEF PlanStatus, JobStatusSet, SyncSteps
<1>3. CASE MarkSynced(w)
  <2>1. Busy(w) /\ plan' \in Plan /\ UNCHANGED <<entry, jobRows, atProvider, request, disturbed>>
    BY <1>2, <1>3, PlanStatusTyped DEF MarkSynced, Busy
  <2>2. PICK x : Moves(w, x) /\ x.step = "finish" /\ x.no = syncer[w].no /\ x.remote = 0
    BY <1>2, <1>3, GoEndMoves DEF MarkSynced
  <2> QED
    BY <2>1, <2>2, QuietMove DEF jobRows, SameRow
<1>4. CASE CallFails(w)
  <2>1. Busy(w) /\ UNCHANGED <<plan, entry, jobRows, atProvider, request, disturbed>>
    BY <1>4 DEF CallFails, Busy
  <2>2. PICK x : /\ Moves(w, x) /\ x.step \in {"retry", "fail"} /\ x.no = syncer[w].no
                 /\ x.remote = 0
    BY <1>2, <1>4, GoEndMoves DEF CallFails
  <2> QED
    BY <2>1, <2>2, QuietMove DEF jobRows, SameRow
<1>5. CASE Reconcile(w)
  <2>1. Busy(w) /\ plan' \in Plan /\ UNCHANGED <<entry, unsettled, atProvider, request, disturbed>>
    BY <1>2, <1>5, PlanStatusTyped DEF Reconcile, Busy
  <2>2. CASE Finishable(w)
    <3>1. queue' \in JobRow /\ Moves(w, IdleSyncer)
      BY <1>2, <1>5, <2>2, FinishedRow, GoIdleMoves DEF Reconcile
    <3> QED
      BY <1>1, <2>1, <3>1, QuietMove
  <2>3. CASE ~Finishable(w)
    <3>1. PICK x : Moves(w, x) /\ x.step = "retry" /\ x.no = syncer[w].no /\ x.remote = 0
      BY <1>2, <1>5, <2>3, GoEndMoves DEF Reconcile
    <3>2. queue' = queue
      BY <1>5, <2>3 DEF Reconcile
    <3> QED
      BY <2>1, <3>1, <3>2, QuietMove DEF SameRow
  <2> QED
    BY <2>2, <2>3
<1>6. CASE FinishSucceeded(w)
  <2>1. Busy(w) /\ UNCHANGED <<plan, entry, unsettled, atProvider, request, disturbed>>
    BY <1>6 DEF FinishSucceeded, Busy
  <2>2. CASE Finishable(w)
    <3>1. queue' \in JobRow /\ Moves(w, IdleSyncer)
      BY <1>2, <1>6, <2>2, FinishedRow, GoIdleMoves DEF FinishSucceeded
    <3> QED
      BY <1>1, <2>1, <3>1, QuietMove
  <2>3. CASE ~Finishable(w)
    <3>1. PICK x : Moves(w, x) /\ x.step = "retry" /\ x.no = syncer[w].no /\ x.remote = 0
      BY <1>2, <1>6, <2>3, GoEndMoves DEF FinishSucceeded
    <3>2. queue' = queue
      BY <1>6, <2>3 DEF FinishSucceeded
    <3> QED
      BY <2>1, <3>1, <3>2, QuietMove DEF SameRow
  <2> QED
    BY <2>2, <2>3
<1>7. CASE FinishRetry(w)
  <2>1. Busy(w) /\ UNCHANGED <<plan, entry, unsettled, atProvider, request, disturbed>>
    BY <1>7 DEF FinishRetry, Busy
  <2>2. CASE syncer[w].tries < MaxTries
    <3>1. queue' \in JobRow /\ Moves(w, IdleSyncer)
      BY <1>2, <1>7, <2>2, FinishedRow, GoIdleMoves DEF FinishRetry
    <3> QED
      BY <1>1, <2>1, <3>1, QuietMove
  <2>3. CASE ~(syncer[w].tries < MaxTries)
    <3>1. PICK x : Moves(w, x) /\ x.step = "fail" /\ x.no = syncer[w].no /\ x.remote = 0
      BY <1>2, <1>7, <2>3, GoEndMoves DEF FinishRetry
    <3>2. queue' = queue
      BY <1>7, <2>3 DEF FinishRetry
    <3> QED
      BY <2>1, <3>1, <3>2, QuietMove DEF SameRow
  <2> QED
    BY <2>2, <2>3
<1>8. CASE SetTaskFailure(w)
  <2>1. Busy(w) /\ plan' \in Plan /\ UNCHANGED <<entry, jobRows, atProvider, request, disturbed>>
    BY <1>2, <1>8, PlanStatusTyped DEF SetTaskFailure, Busy
  <2>2. PICK x : Moves(w, x) /\ x.step = "failed" /\ x.no = syncer[w].no /\ x.remote = 0
    BY <1>2, <1>8, GoEndMoves DEF SetTaskFailure
  <2> QED
    BY <2>1, <2>2, QuietMove DEF jobRows, SameRow
<1>9. CASE FinishFailed(w)
  <2>1. Busy(w) /\ UNCHANGED <<plan, entry, unsettled, atProvider, request, disturbed>>
    BY <1>9 DEF FinishFailed, Busy
  <2>2. queue' \in JobRow /\ Moves(w, IdleSyncer)
    BY <1>2, <1>9, FinishedRow, GoIdleMoves DEF FinishFailed
  <2> QED
    BY <1>1, <2>1, <2>2, QuietMove
<1>10. CASE FinishSuperseded(w)
  <2>1. Busy(w) /\ UNCHANGED <<plan, entry, unsettled, atProvider, request, disturbed>>
    BY <1>10 DEF FinishSuperseded, Busy
  <2>2. CASE Finishable(w)
    <3>1. PICK x : Moves(w, x) /\ x.step = "requeue" /\ x.no = syncer[w].no /\ x.remote = 0
      BY <1>2, <1>10, <2>2, GoEndMoves DEF FinishSuperseded
    <3>2. queue' \in JobRow
      BY <1>2, <1>10, <2>2, FinishedRow DEF FinishSuperseded
    <3> QED
      BY <2>1, <3>1, <3>2, QuietMove
  <2>3. CASE ~Finishable(w)
    <3>1. queue' = queue /\ Moves(w, IdleSyncer)
      BY <1>10, <2>3, GoIdleMoves DEF FinishSuperseded
    <3> QED
      BY <1>1, <2>1, <3>1, QuietMove
  <2> QED
    BY <2>2, <2>3
<1> QED
  BY <1>3, <1>4, <1>5, <1>6, <1>7, <1>8, <1>9, <1>10

\* Nobody else is busy while a worker deletes: what it does to the event stands.
LEMMA SeveredByOne ==
  ASSUME Alone, Workers, NEW w \in SyncWorkers, NEW x, Moves(w, x), Busy(w),
         disturbed' = disturbed,
         disturbed \subseteq {"gone"} =>
           /\ x.step = "delete" => entry'.remote \in {0, x.remote}
           /\ x.step \in {"tombstone", "complete"} => ~LiveRemote(entry.remote)'
  PROVE  Severed'
<1> SUFFICES ASSUME disturbed' \subseteq {"gone"}, NEW v \in SyncWorkers
             PROVE  /\ syncer'[v].step = "delete" => entry'.remote \in {0, syncer'[v].remote}
                    /\ syncer'[v].step \in {"tombstone", "complete"} => ~LiveRemote(entry.remote)'
  BY DEF Severed
<1>1. /\ syncer'[w] = x
      /\ \A u \in SyncWorkers : u # w => syncer'[u] = syncer[u]
  BY SyncerMoves
<1>2. \A u \in SyncWorkers : Busy(u) => u = w
  BY DEF Alone
<1> QED
  BY <1>1, <1>2 DEF Busy

LEMMA DeleteRemoteKeeps ==
  ASSUME TaskInv, NEW w \in SyncWorkers, DeleteRemote(w)
  PROVE  TaskInv'
<1> USE Parts
<1> DEFINE n == syncer[w].remote
<1>1. /\ syncer[w].step = "delete" /\ Busy(w)
      /\ provider' = IF n = 0 THEN provider ELSE [provider EXCEPT ![n] = 0]
      /\ UNCHANGED <<plan, entry, jobRows, marked, request, disturbed>>
  BY DEF DeleteRemote, Busy
<1>2. PICK x : /\ Moves(w, x) /\ x.step \in {"tombstone", "retry"} /\ x.no = syncer[w].no
               /\ x.remote \in {0, n} /\ x.remote <= Len(provider)
  <2>1. {"tombstone", "retry"} \subseteq SyncSteps
    BY DEF SyncSteps
  <2>2. CASE GoTo(w, "tombstone")
    BY <2>1, <2>2, GoToMoves
  <2>3. CASE GoEnd(w, "retry")
    BY <2>1, <2>3, GoEndMoves
  <2> QED
    BY <2>2, <2>3 DEF DeleteRemote
<1>3. n = 0 \/ n \in 1 .. Len(provider)
  BY DEF Syncer
<1>4. /\ provider' \in Seq(0 .. MaxVersion) /\ Len(provider') = Len(provider)
      /\ n # 0 => provider'[n] = 0
      /\ \A s \in 1 .. Len(provider) : LiveRemote(s)' => LiveRemote(s)
  <2>1. CASE n = 0
    BY <1>1, <2>1 DEF Remote, LiveRemote
  <2>2. CASE n \in 1 .. Len(provider)
    <3>1. /\ provider' \in Seq(0 .. MaxVersion) /\ Len(provider') = Len(provider)
          /\ \A s \in 1 .. Len(provider) : provider'[s] = IF s = n THEN 0 ELSE provider[s]
      BY <1>1, <2>2, ExceptSeq DEF Remote
    <3> HIDE DEF n
    <3> QED
      BY <2>2, <3>1 DEF LiveRemote
  <2> QED
    BY <1>3, <2>1, <2>2
<1>5. Workers' /\ Rows' /\ Remote'
  BY <1>1, <1>2, <1>4, WorkersKept DEF Rows, Remote, jobRows
<1>6. Alone'
  BY <1>1, <1>2, AloneMoves DEF SameRow, jobRows
<1>7. Sole'
  <2> SUFFICES ASSUME disturbed' = {} PROVE Sole'
    BY DEF Sole
  <2>1. /\ syncer'[w] = x
        /\ \A v \in SyncWorkers : v # w => syncer'[v] = syncer[v]
    BY <1>2, SyncerMoves
  <2>2. MarkerMatches' \subseteq MarkerMatches
    BY <1>1, <1>4 DEF MarkerMatches, Remote
  <2> QED
    BY <1>1, <1>2, <2>1, <2>2 DEF Sole
<1>8. Severed'
  <2>1. ASSUME disturbed \subseteq {"gone"} PROVE ~LiveRemote(entry.remote)'
    <3>1. entry.remote \in {0, n}
      BY <1>1, <2>1 DEF Severed
    <3> QED
      BY <1>1, <1>4, <3>1 DEF LiveRemote
  <2> QED
    BY <1>1, <1>2, <2>1, SeveredByOne
<1> QED
  BY <1>1, <1>5, <1>6, <1>7, <1>8 DEF TaskInv, Typed

LEMMA TombstoneKeeps ==
  ASSUME TaskInv, NEW w \in SyncWorkers, Tombstone(w)
  PROVE  TaskInv'
<1> USE Parts
<1>1. /\ syncer[w].step = "tombstone" /\ Busy(w)
      /\ entry' = IF entry.no = syncer[w].entry THEN [entry EXCEPT !.deleted = TRUE] ELSE entry
      /\ UNCHANGED <<plan, jobRows, atProvider, request, disturbed>>
  BY DEF Tombstone, Busy
<1>2. PICK x : Moves(w, x) /\ x.step = "complete" /\ x.no = syncer[w].no /\ x.remote = 0
  BY GoEndMoves DEF Tombstone, SyncSteps
<1>3. entry' \in Entry /\ entry'.remote = entry.remote
  BY <1>1 DEF Rows, Entry
<1>4. Workers' /\ Rows' /\ Remote'
  BY <1>1, <1>2, <1>3, WorkersKept DEF Rows, Remote, atProvider, jobRows
<1>5. Alone'
  BY <1>1, <1>2, AloneMoves DEF SameRow, jobRows
<1>6. Sole'
  BY <1>1, <1>2, <1>3, SoleMoves DEF Sole
<1>7. Severed'
  <2>1. disturbed \subseteq {"gone"} => ~LiveRemote(entry.remote)'
    BY <1>1, <1>3 DEF Severed, LiveRemote, atProvider
  <2> QED
    BY <1>1, <1>2, <2>1, SeveredByOne
<1> QED
  BY <1>1, <1>4, <1>5, <1>6, <1>7 DEF TaskInv, Typed

LEMMA CompleteDeleteKeeps ==
  ASSUME TaskInv, NEW w \in SyncWorkers, CompleteDelete(w)
  PROVE  TaskInv'
<1> USE Parts DEF Rows
<1>1. IdleSyncer.remote = 0 /\ IdleSyncer.step = "idle" /\ "retry" \in SyncSteps
      /\ "succeeded" \in JobStatusSet
  BY IdleSyncerTyped DEF SyncSteps, JobStatusSet
<1>2. Busy(w) /\ UNCHANGED <<entry, atProvider, request, disturbed>>
  BY DEF CompleteDelete, Busy
<1>3. CASE GoIdle(w) /\ queue' = FinishedJob(queue, "succeeded", queue.due)
           /\ plan' = [plan EXCEPT !.present = FALSE]
  <2>1. queue' \in JobRow /\ Moves(w, IdleSyncer)
    BY <1>1, <1>3, FinishedRow, GoIdleMoves
  <2>2. plan' \in Plan
    BY <1>3 DEF Plan
  <2> QED
    BY <1>1, <1>2, <2>1, <2>2, QuietMove
<1>4. CASE GoEnd(w, "retry") /\ UNCHANGED <<plan, queue>>
  <2>1. PICK x : Moves(w, x) /\ x.step = "retry" /\ x.no = syncer[w].no /\ x.remote = 0
    BY <1>1, <1>4, GoEndMoves
  <2> QED
    BY <1>2, <1>4, <2>1, QuietMove DEF SameRow
<1> QED
  BY <1>3, <1>4 DEF CompleteDelete

LEMMA SyncerDiesKeeps ==
  ASSUME TaskInv, NEW w \in SyncWorkers, SyncerDies(w)
  PROVE  TaskInv'
<1> USE Parts
<1>1. /\ Moves(w, IdleSyncer) /\ IdleSyncer.remote = 0 /\ IdleSyncer.step = "idle"
      /\ UNCHANGED <<plan, entry, jobRows, atProvider, request, disturbed>>
  BY IdleSyncerTyped, GoIdleMoves DEF SyncerDies
<1>2. /\ syncer'[w] = IdleSyncer
      /\ \A v \in SyncWorkers : v # w => syncer'[v] = syncer[v]
  BY <1>1, SyncerMoves
<1>3. Workers' /\ Rows' /\ Remote'
  BY <1>1, WorkersKept DEF Rows, Remote, atProvider, jobRows
<1>4. Alone'
  BY <1>1, <1>2 DEF Alone, Busy, jobRows
<1>5. Sole'
  BY <1>1, SoleMoves
<1>6. Severed'
  BY <1>1, <1>2 DEF Severed, LiveRemote, atProvider
<1> QED
  BY <1>1, <1>3, <1>4, <1>5, <1>6 DEF TaskInv, Typed

LEMMA RequeueKeeps ==
  ASSUME TaskInv, NEW w \in SyncWorkers, Requeue(w)
  PROVE  TaskInv'
<1> USE Parts
<1>1. /\ syncer[w].step = "requeue"
      /\ Moves(w, IdleSyncer) /\ IdleSyncer.remote = 0 /\ IdleSyncer.step = "idle"
      /\ UNCHANGED <<plan, entry, atProvider, request, disturbed>>
  BY IdleSyncerTyped, GoIdleMoves DEF Requeue
<1>2. /\ syncer'[w] = IdleSyncer
      /\ \A v \in SyncWorkers : v # w => syncer'[v] = syncer[v]
  BY <1>1, SyncerMoves
<1>3. queue' \in JobRow /\ (queue.status = "processing" => SameRow)
  <2>1. syncer[w].op \in JobOps /\ plan.version \in Versions
    BY DEF Syncer, Rows, Plan
  <2> QED
    BY <2>1, EnqueueTyped DEF Requeue, Rows, jobRows, SameRow
<1>4. Workers' /\ Rows' /\ Remote'
  BY <1>1, <1>3, WorkersKept DEF Rows, Remote, atProvider
<1>5. Alone'
  BY <1>1, <1>2, <1>3 DEF Alone, Busy, SameRow
<1>6. Sole'
  BY <1>1, SoleMoves
<1>7. Severed'
  BY <1>1, <1>2 DEF Severed, LiveRemote, atProvider
<1> QED
  BY <1>1, <1>4, <1>5, <1>6, <1>7 DEF TaskInv, Typed

----------------------------------------------------------------------------
(* The owner's requests, the provider and time.                            *)

\* The owner changes rows, and a new event row has no event yet.
LEMMA OwnerMove ==
  ASSUME TaskInv, Rows', entry'.remote \in {0, entry.remote},
         SameRow \/ queue.status # "processing",
         UNCHANGED <<atProvider, syncer, disturbed>>
  PROVE  TaskInv'
<1> USE Parts
<1>1. Workers' /\ Remote'
  BY DEF Workers, Remote, atProvider
<1>2. Alone'
  BY AloneRows
<1>3. Sole'
  BY SoleRows DEF MarkerMatches, LiveRemote, atProvider
<1>4. Severed'
  BY SeveredRows DEF LiveRemote, atProvider
<1> QED
  BY <1>1, <1>2, <1>3, <1>4 DEF TaskInv, Typed

LEMMA RequestTyped ==
  ASSUME request \in Request
  PROVE  /\ Answered => request' \in Request
         /\ NewCall /\ CallsOnce => request' \in Request
         /\ \A step \in {"idle", "event", "link", "enqueue"}, v \in Versions, op \in JobOps :
              NewCall /\ Calls(step, v, op) => request' \in Request
<1>1. request.calls \in 0 .. MaxCalls
  BY DEF Request
<1>2. Answered => request' \in Request
  BY <1>1 DEF Answered, NoOwner, Request, JobOps, Versions
<1>3. NewCall => request.calls + 1 \in 0 .. MaxCalls
  BY <1>1 DEF NewCall
<1>4. NewCall /\ CallsOnce => request' \in Request
  BY <1>3 DEF CallsOnce, Request
<1>5. ASSUME NEW step \in {"idle", "event", "link", "enqueue"}, NEW v \in Versions,
             NEW op \in JobOps, NewCall, Calls(step, v, op)
      PROVE  request' \in Request
  BY <1>3, <1>5 DEF Calls, Request
<1> QED
  BY <1>2, <1>4, <1>5

LEMMA PlanTyped ==
  ASSUME NEW a \in Plan
  PROVE  /\ a.version < MaxVersion => /\ [a EXCEPT !.version = a.version + 1] \in Plan
                                      /\ a.version + 1 \in Versions
         /\ \A linked \in BOOLEAN, status \in PlanStatus :
              [a EXCEPT !.linked = linked, !.status = status] \in Plan
         /\ \A status \in PlanStatus : [a EXCEPT !.status = status] \in Plan
         /\ \A linked \in BOOLEAN : [a EXCEPT !.present = FALSE, !.linked = linked] \in Plan
         /\ a.version \in Versions
<1>1. a.version \in Versions
  BY DEF Plan
<1>2. a.version < MaxVersion => a.version + 1 \in Versions
  BY <1>1 DEF Versions
<1>3. a.version < MaxVersion => [a EXCEPT !.version = a.version + 1] \in Plan
  BY <1>2 DEF Plan
<1>4. ASSUME NEW linked \in BOOLEAN, NEW status \in PlanStatus
      PROVE  /\ [a EXCEPT !.linked = linked, !.status = status] \in Plan
             /\ [a EXCEPT !.status = status] \in Plan
             /\ [a EXCEPT !.present = FALSE, !.linked = linked] \in Plan
  BY DEF Plan
<1>5. PlanStatus # {}
  BY DEF PlanStatus
<1> QED
  BY <1>1, <1>2, <1>3, <1>4, <1>5

LEMMA OwnerKeeps ==
  ASSUME TaskInv, OwnerStep
  PROVE  TaskInv'
<1> USE Parts
<1>0. /\ plan \in Plan /\ entry \in Entry /\ queue \in JobRow /\ request \in Request
      /\ plan.version \in Versions /\ {"create", "update", "delete"} \subseteq JobOps
      /\ {"not_synced", "pending"} \subseteq PlanStatus
  BY PlanTyped DEF Rows, JobOps, PlanStatus
<1>1. CASE EditTask
  <2>1. plan' \in Plan /\ plan.version + 1 \in Versions
    BY <1>0, <1>1, PlanTyped DEF EditTask
  <2>2. request' \in Request
    BY <1>0, <1>1, <2>1, RequestTyped DEF EditTask
  <2> QED
    BY <1>0, <1>1, <2>1, <2>2, OwnerMove DEF EditTask, Rows, jobRows, SameRow
<1>2. CASE SyncNow
  BY <1>0, <1>2, RequestTyped, OwnerMove DEF SyncNow, Rows, jobRows, SameRow
<1>3. CASE WriteEvent
  <2>1. request' \in Request
    BY <1>0, <1>3 DEF WriteEvent, Request
  <2>2. request.version \in Versions
    BY <1>0 DEF Request
  <2>3. entry' \in Entry /\ entry'.remote \in {0, entry.remote}
    <3>1. CASE plan.linked /\ ~entry.deleted
      BY <1>0, <1>3, <2>2, <3>1 DEF WriteEvent, Entry
    <3>2. CASE ~(plan.linked /\ ~entry.deleted)
      <4>1. entry' = [no |-> entry.no + 1, content |-> request.version, remote |-> 0,
                      deleted |-> FALSE]
        BY <1>3, <3>2 DEF WriteEvent
      <4> QED
        BY <1>0, <2>2, <4>1 DEF Entry
    <3> QED
      BY <3>1, <3>2
  <2> QED
    BY <1>0, <1>3, <2>1, <2>3, OwnerMove DEF WriteEvent, Rows, jobRows, SameRow
<1>4. CASE LinkTask
  <2>1. plan' \in Plan
    BY <1>0, <1>4, PlanTyped DEF LinkTask
  <2>2. request' \in Request
    BY <1>0, <1>4 DEF LinkTask, Request
  <2> QED
    BY <1>0, <1>4, <2>1, <2>2, OwnerMove DEF LinkTask, Rows, jobRows, SameRow
<1>5. CASE EnqueueRequest
  <2>1. queue' \in JobRow /\ (queue.status = "processing" => SameRow)
    <3>1. request.op \in JobOps /\ request.version \in Versions
      BY <1>0 DEF Request
    <3> QED
      BY <1>0, <1>5, <3>1, EnqueueTyped DEF EnqueueRequest, jobRows, SameRow
  <2>2. request' \in Request
    BY <1>0, <1>5, RequestTyped DEF EnqueueRequest
  <2> QED
    BY <1>0, <1>5, <2>1, <2>2, OwnerMove DEF EnqueueRequest, Rows
<1>6. CASE RequestFails
  BY <1>0, <1>6, RequestTyped, OwnerMove DEF RequestFails, Rows, jobRows, SameRow
<1>7. CASE Archive
  BY <1>0, <1>7, PlanTyped, RequestTyped, OwnerMove DEF Archive, Rows, jobRows, SameRow
<1>8. CASE Unlink
  BY <1>0, <1>8, PlanTyped, RequestTyped, OwnerMove DEF Unlink, Rows, jobRows, SameRow
<1>9. CASE DeleteBoth
  BY <1>0, <1>9, PlanTyped, RequestTyped, OwnerMove DEF DeleteBoth, Rows, jobRows, SameRow
<1>10. CASE DeleteLocal
  BY <1>0, <1>10, PlanTyped, RequestTyped, OwnerMove DEF DeleteLocal, Rows, jobRows, SameRow
<1> QED
  BY <1>1, <1>2, <1>3, <1>4, <1>5, <1>6, <1>7, <1>8, <1>9, <1>10 DEF OwnerStep

\* The event with number n gets another content, or goes.
LEMMA RemoteMoves ==
  ASSUME Remote, Len(provider) \in Nat, NEW n \in 1 .. Len(provider), LiveRemote(n),
         NEW content \in 0 .. MaxVersion, provider' = [provider EXCEPT ![n] = content]
  PROVE  /\ provider' \in Seq(0 .. MaxVersion) /\ Len(provider') = Len(provider)
         /\ \A s \in 1 .. Len(provider) : LiveRemote(s)' => LiveRemote(s)
<1>1. /\ provider' \in Seq(0 .. MaxVersion) /\ Len(provider') = Len(provider)
      /\ \A s \in 1 .. Len(provider) : provider'[s] = IF s = n THEN content ELSE provider[s]
  BY ExceptSeq DEF Remote
<1>2. \A s \in 1 .. Len(provider) : LiveRemote(s)' => LiveRemote(s)
  BY <1>1 DEF LiveRemote
<1> QED
  BY <1>1, <1>2

LEMMA ProviderMove ==
  ASSUME TaskInv, NEW n \in 1 .. Len(provider), LiveRemote(n), NEW content \in 0 .. MaxVersion,
         provider' = [provider EXCEPT ![n] = content],
         UNCHANGED <<plan, entry, jobRows, marked, syncer, request, disturbed>>
  PROVE  TaskInv'
<1> USE Parts
<1>1. /\ provider' \in Seq(0 .. MaxVersion) /\ Len(provider') = Len(provider)
      /\ \A s \in 1 .. Len(provider) : LiveRemote(s)' => LiveRemote(s)
  BY RemoteMoves
<1>2. Workers' /\ Rows' /\ Remote'
  BY <1>1 DEF Rows, Remote, Workers, jobRows
<1>3. Alone'
  BY AloneRows DEF SameRow, jobRows
<1>4. Sole'
  BY <1>1, SoleRows DEF MarkerMatches, Remote
<1>5. Severed'
  <2>1. LiveRemote(entry.remote)' => LiveRemote(entry.remote)
    <3>1. entry.remote \in 0 .. Len(provider)
      BY DEF Rows, Entry, Remote
    <3>2. CASE entry.remote = 0
      BY <3>2 DEF LiveRemote
    <3>3. CASE entry.remote \in 1 .. Len(provider)
      BY <1>1, <3>3 DEF LiveRemote
    <3> QED
      BY <3>1, <3>2, <3>3
  <2> QED
    BY <2>1, SeveredRows
<1> QED
  BY <1>2, <1>3, <1>4, <1>5 DEF TaskInv, Typed

LEMMA InboundKeeps ==
  ASSUME TaskInv, InboundPush
  PROVE  TaskInv'
<1> USE Parts
<1>1. UNCHANGED <<plan, jobRows, marked, syncer, request>>
  BY DEF InboundPush
<1>2. entry.content \in 0 .. MaxVersion /\ 0 \in 0 .. MaxVersion
  BY DEF Rows, Entry, Versions
<1>3. CASE ~entry.deleted /\ entry.remote = 0
  <2>1. /\ provider' = Append(provider, entry.content) /\ Len(provider) < MaxRemote
        /\ entry' = [entry EXCEPT !.remote = Len(provider) + 1]
        /\ disturbed' = disturbed \cup {"inbound"}
    BY <1>3 DEF InboundPush, Disturb
  <2>2. provider' \in Seq(0 .. MaxVersion) /\ Len(provider') = Len(provider) + 1
    BY <1>2, <2>1, AppendProperties DEF Remote
  <2>3. entry' \in Entry /\ entry'.remote = Len(provider')
    <3>1. Len(provider) + 1 \in 0 .. MaxRemote
      BY <2>1
    <3>2. entry \in Entry
      BY DEF Rows
    <3> QED
      BY <2>1, <2>2, <3>1, <3>2 DEF Entry
  <2>4. Workers'
    <3>1. \A w \in SyncWorkers : syncer[w].remote \in Nat /\ syncer[w].remote <= Len(provider)
      BY DEF Syncer
    <3> QED
      BY <1>1, <2>2, <3>1 DEF Workers
  <2>5. Rows' /\ Remote'
    BY <1>1, <2>1, <2>2, <2>3 DEF Rows, Remote, jobRows
  <2>6. Alone'
    BY <1>1, <2>1, AloneRows DEF SameRow, jobRows
  <2>7. Sole' /\ Severed' /\ disturbed' \subseteq Disturbances
    BY <2>1 DEF Sole, Severed, Disturbances
  <2> QED
    BY <2>4, <2>5, <2>6, <2>7 DEF TaskInv, Typed
<1>4. CASE ~(~entry.deleted /\ entry.remote = 0)
  <2>1. /\ disturbed' = disturbed /\ entry' = entry /\ LiveRemote(entry.remote)
        /\ \E content \in {entry.content, 0} :
             provider' = [provider EXCEPT ![entry.remote] = content]
    BY <1>4 DEF InboundPush, Disturb
  <2>2. entry.remote \in 1 .. Len(provider)
    BY <2>1 DEF Rows, Entry, Remote, LiveRemote
  <2> QED
    BY <1>1, <1>2, <2>1, <2>2, ProviderMove
<1> QED
  BY <1>3, <1>4

LEMMA EnvironmentKeeps ==
  ASSUME TaskInv,
         \/ \E r \in DOMAIN provider : RemoteDeletion(r)
         \/ InboundPush \/ InboundPull \/ SweepJob \/ LeaseEnds \/ RetryFallsDue
  PROVE  TaskInv'
<1> USE Parts
<1>1. CASE \E r \in DOMAIN provider : RemoteDeletion(r)
  <2>1. PICK r \in 1 .. Len(provider) : RemoteDeletion(r)
    BY <1>1 DEF Remote
  <2>2. 0 \in 0 .. MaxVersion
    OBVIOUS
  <2> QED
    BY <2>1, <2>2, ProviderMove DEF RemoteDeletion
<1>2. CASE InboundPush
  BY <1>2, InboundKeeps
<1>3. CASE InboundPull
  <2>1. entry' \in Entry /\ entry'.remote = entry.remote
    BY <1>3 DEF InboundPull, Rows, Entry
  <2> QED
    BY <1>3, <2>1, OwnerMove DEF InboundPull, Rows, jobRows, SameRow
<1>4. ASSUME queue' \in JobRow, SameRow \/ queue.status # "processing" \/ queue.due,
             UNCHANGED <<plan, entry, atProvider, syncer, request, disturbed>>
      PROVE  TaskInv'
  <2>1. Workers' /\ Rows' /\ Remote'
    BY <1>4 DEF Workers, Rows, Remote, atProvider
  <2>2. Alone'
    BY <1>4, AloneRows
  <2>3. Sole' /\ Severed'
    BY <1>4, SoleRows, SeveredRows DEF MarkerMatches, LiveRemote, atProvider
  <2> QED
    BY <1>4, <2>1, <2>2, <2>3 DEF TaskInv, Typed
<1>5. CASE SweepJob
  BY <1>4, <1>5, SweptTyped DEF SweepJob, LeaseOver, Rows
<1>6. CASE RetryFallsDue
  <2>1. queue' \in JobRow
    BY <1>6, DueTyped DEF RetryFallsDue, Rows
  <2> QED
    BY <1>4, <1>6, <2>1 DEF RetryFallsDue
<1>7. CASE LeaseEnds
  <2>1. /\ queue' \in JobRow /\ UNCHANGED <<plan, entry, atProvider, syncer, request>>
        /\ disturbed \subseteq disturbed' /\ disturbed' \subseteq Disturbances
    BY <1>7, DueTyped DEF LeaseEnds, Rows, Disturb, Disturbances
  <2>2. Workers' /\ Rows' /\ Remote'
    BY <2>1 DEF Workers, Rows, Remote, atProvider
  <2>3. Alone'
    <3> SUFFICES ASSUME "lease" \notin disturbed' PROVE \A w \in SyncWorkers : ~Busy(w)
      BY <2>1 DEF Alone, Busy
    <3>1. \A w \in SyncWorkers : ~HoldsJob(w)
      BY <1>7 DEF LeaseEnds, Disturb
    <3> QED
      BY <2>1, <3>1 DEF HoldsJob, Alone, Busy
  <2>4. Sole' /\ Severed'
    BY <2>1, SoleRows, SeveredRows DEF MarkerMatches, LiveRemote, atProvider
  <2> QED
    BY <2>1, <2>2, <2>3, <2>4 DEF TaskInv, Typed
<1> QED
  BY <1>1, <1>2, <1>3, <1>5, <1>6, <1>7

----------------------------------------------------------------------------
(* Theorems.                                                               *)

LEMMA NextInv == TaskInv /\ [SyncNext]_syncVars => TaskInv'
<1> SUFFICES ASSUME TaskInv, [SyncNext]_syncVars PROVE TaskInv'
  OBVIOUS
<1>1. ASSUME NEW w \in SyncWorkers, SyncerStep(w) \/ SyncerDies(w) PROVE TaskInv'
  BY <1>1, ClaimJobKeeps, LoadJobKeeps, LookupKeeps, PushKeeps, SaveEventKeeps, ReportKeeps,
     DeleteRemoteKeeps, TombstoneKeeps, CompleteDeleteKeeps, RequeueKeeps, SyncerDiesKeeps
     DEF SyncerStep
<1>2. CASE OwnerStep
  BY <1>2, OwnerKeeps
<1>3. CASE \/ \E r \in DOMAIN provider : RemoteDeletion(r)
           \/ InboundPush \/ InboundPull \/ SweepJob \/ LeaseEnds \/ RetryFallsDue
  BY <1>3, EnvironmentKeeps
<1>4. CASE UNCHANGED syncVars
  BY <1>4, Parts, OwnerMove DEF syncVars, Rows, SameRow, jobRows, atProvider
<1> QED
  BY <1>1, <1>2, <1>3, <1>4 DEF SyncNext

\* The parts of the inductive invariant hold in every state: one worker at most is busy with
\* the task while no lease is outlived, and what it has in its hands is what it may rely on.
THEOREM TaskInvariant == SyncSpec => []TaskInv
BY InitInv, NextInv, PTL DEF SyncSpec

\* No step leaves unsettled without a truth value.
LEMMA UnsettledTyped ==
  ASSUME unsettled \in BOOLEAN, [SyncNext]_syncVars
  PROVE  unsettled' \in BOOLEAN
<1> USE DEF jobRows
<1>1. ASSUME NEW op, NEW v, EnqueueJob(op, v) PROVE unsettled' \in BOOLEAN
  BY <1>1, Zenon DEF EnqueueJob
<1>2. ASSUME NEW w \in SyncWorkers, SyncerStep(w) \/ SyncerDies(w) PROVE unsettled' \in BOOLEAN
  <2>1. CASE Requeue(w)
    BY <1>1, <2>1, Zenon DEF Requeue
  <2>2. CASE ~Requeue(w)
    BY <1>2, <2>2, Zenon DEF SyncerStep, ClaimJob, LoadJob, Lookup, Push, SaveEvent, MarkSynced,
       DeleteRemote, Tombstone, CompleteDelete, CallFails, Reconcile, FinishSucceeded, FinishRetry,
       SetTaskFailure, FinishFailed, FinishSuperseded, SyncerDies
  <2> QED
    BY <2>1, <2>2, Zenon
<1>3. CASE OwnerStep
  <2>1. CASE EnqueueRequest
    BY <1>1, <2>1, Zenon DEF EnqueueRequest
  <2>2. CASE ~EnqueueRequest
    BY <1>3, <2>2, Zenon DEF OwnerStep, EditTask, SyncNow, WriteEvent, LinkTask, RequestFails,
       Archive, Unlink, DeleteBoth, DeleteLocal
  <2> QED
    BY <2>1, <2>2, Zenon
<1>4. CASE \/ \E r \in DOMAIN provider : RemoteDeletion(r)
           \/ InboundPush \/ InboundPull \/ SweepJob \/ LeaseEnds \/ RetryFallsDue
  BY <1>4, Zenon DEF RemoteDeletion, InboundPush, InboundPull, SweepJob, LeaseEnds, RetryFallsDue
<1>5. CASE UNCHANGED syncVars
  BY <1>5, Zenon DEF syncVars
<1> QED
  BY <1>2, <1>3, <1>4, <1>5, Zenon DEF SyncNext

\* The rows of a task, its jobs and its events, and what workers and requests hold, have
\* their types.
THEOREM TaskTypeCorrect == SyncSpec => []SyncTypeOK
<1>1. SyncInit => unsettled \in BOOLEAN
  BY InitTyped
<1>2. unsettled \in BOOLEAN /\ [SyncNext]_syncVars => (unsettled \in BOOLEAN)'
  BY UnsettledTyped, Zenon
<1>3. TaskInv /\ unsettled \in BOOLEAN => SyncTypeOK
  BY TypedParts DEF TaskInv
<1> QED
  BY <1>1, <1>2, <1>3, TaskInvariant, PTL DEF SyncSpec

LEMMA InvMarksOnce == TaskInv => MarkedEventOnce
<1> SUFFICES ASSUME TaskInv, disturbed = {} PROVE Cardinality(MarkerMatches) <= 1
  BY DEF MarkedEventOnce
<1>1. \A r, s \in MarkerMatches : r = s
  BY DEF TaskInv, Sole
<1>2. CASE MarkerMatches = {}
  BY <1>2, FS_EmptySet
<1>3. CASE MarkerMatches # {}
  <2>1. PICK r : MarkerMatches = {r}
    BY <1>1, <1>3
  <2> QED
    BY <2>1, FS_Singleton
<1> QED
  BY <1>2, <1>3

\* However often jobs are retried, answers lost and the task linked anew, at most one live
\* event at the provider carries its marker (_lookup_marker).
THEOREM EventMarkedOnce == SyncSpec => []MarkedEventOnce
BY TaskInvariant, InvMarksOnce, PTL

LEMMA InvRemoves ==
  TaskInv /\ [SyncNext]_syncVars =>
    [plan.present /\ ~plan'.present /\ syncer' # syncer /\ disturbed \subseteq {"gone"}
       => ~LiveRemote(entry.remote)]_syncVars
<1> SUFFICES ASSUME TaskInv, SyncNext, plan.present, ~plan'.present, syncer' # syncer,
                    disturbed \subseteq {"gone"}
             PROVE  ~LiveRemote(entry.remote)
  BY DEF syncVars
<1> USE Parts
<1>1. ASSUME NEW w \in SyncWorkers, SyncerStep(w) \/ SyncerDies(w)
      PROVE  CompleteDelete(w)
  <2>1. plan' # plan
    OBVIOUS
  <2>2. ASSUME NEW status, SetPlanStatus(status) PROVE plan'.present
    BY <2>2 DEF SetPlanStatus, Rows, Plan
  <2> QED
    BY <1>1, <2>1, <2>2 DEF SyncerStep, ClaimJob, LoadJob, Lookup, Push, SaveEvent, MarkSynced,
       DeleteRemote, Tombstone, CallFails, Reconcile, FinishSucceeded, FinishRetry,
       SetTaskFailure, FinishFailed, FinishSuperseded, Requeue, SyncerDies
<1>2. PICK w \in SyncWorkers : CompleteDelete(w)
  <2>1. ~OwnerStep
    BY DEF OwnerStep, EditTask, SyncNow, WriteEvent, LinkTask, EnqueueRequest, RequestFails,
       Archive, Unlink, DeleteBoth, DeleteLocal
  <2>2. ~ (\/ \E r \in DOMAIN provider : RemoteDeletion(r)
           \/ InboundPush \/ InboundPull \/ SweepJob \/ LeaseEnds \/ RetryFallsDue)
    BY DEF RemoteDeletion, InboundPush, InboundPull, SweepJob, LeaseEnds, RetryFallsDue
  <2> QED
    BY <1>1, <2>1, <2>2 DEF SyncNext
<1> QED
  BY <1>2 DEF CompleteDelete, Severed

\* The worker removes a task only after the event it is linked to has gone.
THEOREM TaskOutlivesEvent == SyncSpec => RemovedWithItsEvent
<1>1. SyncSpec => [][SyncNext]_syncVars
  BY DEF SyncSpec
<1> QED
  BY <1>1, TaskInvariant, InvRemoves, PTL DEF RemovedWithItsEvent
============================================================================
