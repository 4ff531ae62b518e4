------------------------ MODULE ConnectionSyncProofs ------------------------
(***************************************************************************)
(* Proofs about ConnectionSync, for every number of workers, changes, job  *)
(* rows and attempts: its types, and that no change is skipped.            *)
(*                                                                         *)
(* The provers treat a variable that is a truth value apart from records   *)
(* and numbers: overtaken has lemmas of its own.                           *)
(***************************************************************************)
EXTENDS ConnectionSync, TLAPS

LEMMA BoundsAreNatural ==
  MaxChanges \in Nat /\ MaxConnJobs \in Nat /\ MaxConnTries \in Nat \ {0} /\ MaxDue \in Nat
BY ConnectionAssumption

USE BoundsAreNatural

----------------------------------------------------------------------------
(* Types.                                                                  *)

Connection == [enabled : BOOLEAN, status : InboundStatus, due : BOOLEAN,
               cursor : 0 .. MaxChanges, copy : 0 .. MaxChanges]
ConnRow == [no : 0 .. MaxConnJobs, status : {"pending", "processing", "succeeded", "failed"},
            tries : 0 .. MaxConnTries, due : BOOLEAN, done : BOOLEAN]
Agent == [step : AgentSteps, no : 0 .. MaxConnJobs, tries : 0 .. MaxConnTries,
          cursor : 0 .. MaxChanges, seen : 0 .. MaxChanges, terminal : BOOLEAN]

\* ConnectionTypeOK without overtaken.
Typed ==
  /\ conn \in Connection /\ connJob \in ConnRow /\ agent \in [ConnWorkers -> Agent]
  /\ head \in 0 .. MaxChanges /\ intervals \in 0 .. MaxDue
  /\ caller \in [Callers -> {"idle", "enqueue", "pending"}]
  /\ former \in InboundStatus \cup {"none"}

LEMMA TypedParts == ConnectionTypeOK <=> Typed /\ overtaken \in BOOLEAN
BY Zenon DEF ConnectionTypeOK, Typed, Connection, ConnRow, Agent

LEMMA InitTyped == ConnInit => ConnectionTypeOK
<1> SUFFICES ASSUME ConnInit PROVE ConnectionTypeOK
  OBVIOUS
<1>1. Typed
  BY DEF ConnInit, Typed, Connection, ConnRow, Agent, NoConnJob, IdleAgent, InboundStatus,
         AgentSteps, Callers
<1>2. overtaken \in BOOLEAN
  BY Zenon DEF ConnInit
<1> QED
  BY <1>1, <1>2, TypedParts

\* No step leaves overtaken without a truth value, and none makes it false again.
LEMMA OvertakenTyped ==
  ASSUME overtaken \in BOOLEAN, [ConnNext]_connVars
  PROVE  overtaken' \in BOOLEAN /\ (~overtaken' => ~overtaken)
<1>1. CASE ConnJobFallsDue
  BY <1>1, Zenon DEF ConnJobFallsDue
<1>2. ASSUME NEW w \in ConnWorkers, AgentStep(w) \/ AgentDies(w) PROVE UNCHANGED overtaken
  BY <1>2, Zenon DEF AgentStep, ClaimConnJob, ReadConnection, MarkSyncing, ListChanges, ApplyChanges,
     SaveCursor, MarkConnSynced, FinishConnJob, AgentCallFails, MarkConnFailed, FinishConnFailed,
     AgentDies
<1>3. ASSUME NEW c \in Callers, CallerStep(c) PROVE UNCHANGED overtaken
  BY <1>3, Zenon DEF CallerStep, EnqueueConnJob, MarkPending, CallerFails
<1>4. CASE \/ ScheduleConnection \/ RequestSync \/ SetInbound \/ EnableRefused \/ SweepConnJob
           \/ RemoteChange \/ IntervalEnds
  BY <1>4, Zenon DEF ScheduleConnection, RequestSync, SetInbound, EnableRefused, SweepConnJob,
     RemoteChange, IntervalEnds
<1>5. CASE UNCHANGED connVars
  BY <1>5, Zenon DEF connVars
<1> QED
  BY <1>1, <1>2, <1>3, <1>4, <1>5, Zenon DEF ConnNext

\* Rows and workers that a step has changed.
LEMMA RowTyped ==
  ASSUME NEW j \in ConnRow, NEW s \in {"pending", "processing", "succeeded", "failed"},
         NEW due \in BOOLEAN, NEW done \in BOOLEAN
  PROVE  /\ [j EXCEPT !.status = s, !.done = done] \in ConnRow
         /\ [j EXCEPT !.status = s, !.due = due] \in ConnRow
         /\ [j EXCEPT !.status = s, !.due = due, !.done = done] \in ConnRow
         /\ [j EXCEPT !.due = due] \in ConnRow
BY DEF ConnRow

LEMMA OutOfTries ==
  ASSUME NEW n \in 0 .. MaxConnTries
  PROVE  (n >= MaxConnTries) \in BOOLEAN
OBVIOUS

LEMMA SweptTyped ==
  ASSUME NEW j \in ConnRow
  PROVE  /\ SweptConnJob(j) \in ConnRow
         /\ SweptConnJob(j).no = j.no
         /\ j.status = "processing" /\ ~j.due => SweptConnJob(j) = j
         /\ j.status # "processing" => SweptConnJob(j) = j
<1>1. [j EXCEPT !.status = "failed", !.done = j.tries >= MaxConnTries] \in ConnRow
  <2>1. (j.tries >= MaxConnTries) \in BOOLEAN
    BY OutOfTries DEF ConnRow
  <2> QED
    BY <2>1, RowTyped
<1>2. [j EXCEPT !.status = "failed", !.done = j.tries >= MaxConnTries].no = j.no
  BY DEF ConnRow
<1> QED
  BY <1>1, <1>2 DEF SweptConnJob

LEMMA AgentFailed ==
  ASSUME NEW a \in Agent, NEW step \in AgentSteps, NEW no \in 0 .. MaxConnJobs,
         NEW tries \in 0 .. MaxConnTries, NEW terminal \in BOOLEAN
  PROVE  [a EXCEPT !.step = step, !.no = no, !.tries = tries, !.terminal = terminal] \in Agent
BY DEF Agent

LEMMA AgentClaimed ==
  ASSUME NEW a \in Agent, NEW step \in AgentSteps, NEW no \in 0 .. MaxConnJobs,
         NEW tries \in 0 .. MaxConnTries
  PROVE  [a EXCEPT !.step = step, !.no = no, !.tries = tries] \in Agent
BY DEF Agent

LEMMA AgentListed ==
  ASSUME NEW a \in Agent, NEW step \in AgentSteps,
         NEW cursor \in 0 .. MaxChanges, NEW seen \in 0 .. MaxChanges
  PROVE  [a EXCEPT !.step = step, !.cursor = cursor, !.seen = seen] \in Agent
BY DEF Agent

LEMMA IdleAgentTyped == IdleAgent \in Agent
BY DEF Agent, IdleAgent, AgentSteps

LEMMA AgentFailsTyped ==
  ASSUME agent \in [ConnWorkers -> Agent], NEW w \in ConnWorkers, NEW terminal \in BOOLEAN,
         AgentFails(w, terminal)
  PROVE  agent' \in [ConnWorkers -> Agent]
<1> DEFINE left == [IdleAgent EXCEPT !.step = "fail", !.no = agent[w].no,
                                     !.tries = agent[w].tries, !.terminal = terminal]
<1>1. agent[w].no \in 0 .. MaxConnJobs /\ agent[w].tries \in 0 .. MaxConnTries
  BY DEF Agent
<1>2. left \in Agent
  <2>1. "fail" \in AgentSteps
    BY DEF AgentSteps
  <2> QED
    BY <1>1, <2>1, IdleAgentTyped, AgentFailed, Zenon
<1>3. agent' = [agent EXCEPT ![w] = left]
  BY DEF AgentFails
<1> QED
  BY <1>2, <1>3

LEMMA AgentGoesTyped ==
  ASSUME agent \in [ConnWorkers -> Agent], NEW w \in ConnWorkers, NEW step \in AgentSteps,
         AgentGoes(w, step) \/ agent' = [agent EXCEPT ![w] = IdleAgent]
  PROVE  agent' \in [ConnWorkers -> Agent]
<1>1. IdleAgent \in Agent /\ [agent[w] EXCEPT !.step = step] \in Agent
  BY DEF Agent, AgentSteps, IdleAgent
<1> QED
  BY <1>1 DEF AgentGoes

LEMMA AgentFailsEffect ==
  ASSUME agent \in [ConnWorkers -> Agent], NEW w \in ConnWorkers, NEW terminal,
         AgentFails(w, terminal)
  PROVE  /\ agent' = [agent EXCEPT ![w] = agent'[w]]
         /\ agent'[w].no = agent[w].no /\ agent'[w].step = "fail"
BY DEF AgentFails, IdleAgent

\* The steps of the callers, the provider and time keep the types.
LEMMA CallersTyped ==
  ASSUME Typed,
         \/ ScheduleConnection \/ RequestSync \/ SetInbound \/ EnableRefused
         \/ \E c \in Callers : CallerStep(c)
         \/ RemoteChange \/ ConnJobFallsDue \/ IntervalEnds
  PROVE  Typed'
<1>1. CASE ScheduleConnection
  BY <1>1 DEF Typed, ScheduleConnection, Callers
<1>2. CASE RequestSync
  BY <1>2 DEF Typed, RequestSync, Callers
<1>3. CASE SetInbound
  BY <1>3 DEF Typed, SetInbound, Callers, Connection, InboundStatus, callers
<1>4. CASE EnableRefused
  BY <1>4 DEF Typed, EnableRefused, Callers, Connection
<1>5. ASSUME NEW c \in Callers, EnqueueConnJob(c) PROVE Typed'
  <2>1. connJob' \in ConnRow
    <3>1. CASE ~ActiveConnJob(connJob)
      <4>1. connJob.no + 1 \in 0 .. MaxConnJobs
        BY <1>5, <3>1 DEF Typed, EnqueueConnJob, ConnRow
      <4> QED
        <5>1. connJob' = [no |-> connJob.no + 1, status |-> "pending", tries |-> 0,
                          due |-> TRUE, done |-> FALSE]
          BY <1>5, <3>1 DEF EnqueueConnJob
        <5> QED
          BY <4>1, <5>1 DEF ConnRow
    <3>2. CASE ActiveConnJob(connJob)
      BY <1>5, <3>2, RowTyped DEF Typed, EnqueueConnJob
    <3> QED
      BY <3>1, <3>2
  <2> QED
    BY <1>5, <2>1 DEF Typed, EnqueueConnJob
<1>6. ASSUME NEW c \in Callers, MarkPending(c) PROVE Typed'
  BY <1>6 DEF Typed, MarkPending, Connection, InboundStatus
<1>7. ASSUME NEW c \in Callers, CallerFails(c) PROVE Typed'
  BY <1>7 DEF Typed, CallerFails
<1>8. CASE RemoteChange
  BY <1>8 DEF Typed, RemoteChange, callers
<1>9. CASE ConnJobFallsDue
  BY <1>9, RowTyped DEF Typed, ConnJobFallsDue, callers
<1>10. CASE IntervalEnds
  <2>1. conn' \in Connection
    BY <1>10 DEF Typed, IntervalEnds, Connection
  <2>2. intervals' \in 0 .. MaxDue
    BY <1>10 DEF Typed, IntervalEnds
  <2> QED
    BY <1>10, <2>1, <2>2 DEF Typed, IntervalEnds, callers
<1>11. ASSUME NEW c \in Callers, CallerStep(c) PROVE Typed'
  BY <1>5, <1>6, <1>7, <1>11 DEF CallerStep
<1> QED
  BY <1>1, <1>2, <1>3, <1>4, <1>8, <1>9, <1>10, <1>11

\* The steps of a worker keep the types.
LEMMA WorkersTyped ==
  ASSUME Typed,
         SweepConnJob \/ \E w \in ConnWorkers : AgentStep(w) \/ AgentDies(w)
  PROVE  Typed'
<1>1. CASE SweepConnJob
  BY <1>1, SweptTyped DEF Typed, SweepConnJob, callers
<1>2. ASSUME NEW w \in ConnWorkers, AgentStep(w) \/ AgentDies(w) PROVE Typed'
  <2> USE DEF callers
  <2>0. agent[w] \in Agent /\ (agent[w].tries >= MaxConnTries) \in BOOLEAN
    BY OutOfTries DEF Typed, Agent
  <2>1. CASE ClaimConnJob(w)
    <3> DEFINE j == SweptConnJob(connJob)
    <3>1. j \in ConnRow /\ j.tries < MaxConnTries
      BY <2>1, SweptTyped DEF Typed, ClaimConnJob, ClaimableConnJob
    <3>2. /\ connJob' = [j EXCEPT !.status = "processing", !.tries = j.tries + 1, !.due = FALSE]
          /\ agent' = [agent EXCEPT ![w] = [IdleAgent EXCEPT !.step = "read", !.no = j.no,
                                                             !.tries = j.tries + 1]]
      BY <2>1 DEF ClaimConnJob
    <3> HIDE DEF j
    <3>3. j.tries + 1 \in 0 .. MaxConnTries /\ j.no \in 0 .. MaxConnJobs
      BY <3>1 DEF ConnRow
    <3>4. connJob' \in ConnRow
      BY <3>1, <3>2, <3>3 DEF ConnRow
    <3>5. agent' \in [ConnWorkers -> Agent]
      <4>1. [IdleAgent EXCEPT !.step = "read", !.no = j.no, !.tries = j.tries + 1] \in Agent
        <5>1. "read" \in AgentSteps
          BY DEF AgentSteps
        <5> QED
          BY <3>3, <5>1, IdleAgentTyped, AgentClaimed, Zenon
      <4> QED
        BY <3>2, <4>1 DEF Typed
    <3> QED
      BY <2>1, <3>4, <3>5 DEF Typed, ClaimConnJob
  <2>2. CASE ReadConnection(w)
    <3>1. agent' \in [ConnWorkers -> Agent]
      <4>1. CASE conn.enabled
        BY <2>2, <4>1 DEF Typed, ReadConnection, Connection, Agent, AgentSteps
      <4>2. CASE ~conn.enabled
        BY <2>2, <4>2, AgentFailsTyped DEF Typed, ReadConnection
      <4> QED
        BY <4>1, <4>2
    <3> QED
      BY <2>2, <3>1 DEF Typed, ReadConnection
  <2>3. CASE MarkSyncing(w)
    BY <2>3, AgentGoesTyped DEF Typed, MarkSyncing, AgentSteps, Connection, InboundStatus
  <2>4. CASE ListChanges(w)
    <3>1. PICK from \in {agent[w].cursor, 0} :
            agent' = [agent EXCEPT ![w].step = "apply", ![w].cursor = from, ![w].seen = head]
      BY <2>4 DEF ListChanges
    <3>2. [agent[w] EXCEPT !.step = "apply", !.cursor = from, !.seen = head] \in Agent
      <4>1. from \in 0 .. MaxChanges
        BY <2>0, <3>1 DEF Agent
      <4>2. head \in 0 .. MaxChanges
        BY DEF Typed
      <4> QED
        <5>1. "apply" \in AgentSteps
          BY DEF AgentSteps
        <5> QED
          BY <2>0, <4>1, <4>2, <5>1, AgentListed, Zenon
    <3>3. agent' \in [ConnWorkers -> Agent]
      BY <3>1, <3>2 DEF Typed
    <3> QED
      BY <2>4, <3>3 DEF Typed, ListChanges
  <2>5. CASE ApplyChanges(w)
    <3>1. conn' \in Connection
      BY <2>0, <2>5 DEF Typed, ApplyChanges, Agent, Connection
    <3> QED
      BY <2>5, <3>1, AgentGoesTyped DEF Typed, ApplyChanges, AgentSteps
  <2>6. CASE SaveCursor(w)
    <3>1. conn' \in Connection
      BY <2>0, <2>6 DEF Typed, SaveCursor, Agent, Connection
    <3> QED
      BY <2>6, <3>1, AgentGoesTyped DEF Typed, SaveCursor, AgentSteps
  <2>7. CASE MarkConnSynced(w)
    BY <2>7, AgentGoesTyped DEF Typed, MarkConnSynced, AgentSteps, Connection, InboundStatus
  <2>8. CASE FinishConnJob(w)
    <3>1. connJob' \in ConnRow
      BY <2>8, RowTyped DEF Typed, FinishConnJob
    <3>2. agent' \in [ConnWorkers -> Agent]
      BY <2>0, <2>8, AgentFailsTyped, AgentGoesTyped DEF Typed, FinishConnJob, AgentSteps
    <3> QED
      BY <2>8, <3>1, <3>2 DEF Typed, FinishConnJob
  <2>9. CASE AgentCallFails(w)
    <3>1. agent' \in [ConnWorkers -> Agent]
      BY <2>0, <2>9, AgentFailsTyped DEF Typed, AgentCallFails
    <3> QED
      BY <2>9, <3>1 DEF Typed, AgentCallFails
  <2>10. CASE MarkConnFailed(w)
    <3>1. conn' \in Connection
      BY <2>10 DEF Typed, MarkConnFailed, Connection, InboundStatus
    <3> QED
      BY <2>10, <3>1, AgentGoesTyped DEF Typed, MarkConnFailed, AgentSteps
  <2>11. CASE FinishConnFailed(w)
    <3>1. agent[w].terminal \in BOOLEAN /\ (connJob.tries >= MaxConnTries) \in BOOLEAN
      BY <2>0, OutOfTries DEF Typed, Agent, ConnRow
    <3>2. connJob' \in ConnRow
      BY <2>11, <3>1, RowTyped DEF Typed, FinishConnFailed
    <3> QED
      BY <2>11, <3>2, AgentGoesTyped DEF Typed, FinishConnFailed, AgentSteps
  <2>12. CASE AgentDies(w)
    BY <2>12, AgentGoesTyped DEF Typed, AgentDies, AgentSteps
  <2> QED
    BY <1>2, <2>1, <2>2, <2>3, <2>4, <2>5, <2>6, <2>7, <2>8, <2>9, <2>10, <2>11, <2>12, Zenon DEF AgentStep
<1> QED
  BY <1>1, <1>2

LEMMA StepTyped == ConnectionTypeOK /\ [ConnNext]_connVars => ConnectionTypeOK'
<1> SUFFICES ASSUME ConnectionTypeOK, [ConnNext]_connVars PROVE Typed' /\ overtaken' \in BOOLEAN
  BY Zenon DEF ConnectionTypeOK, Typed, Connection, ConnRow, Agent
<1>1. Typed /\ overtaken \in BOOLEAN
  BY TypedParts
<1>2. CASE UNCHANGED connVars
  BY <1>1, <1>2 DEF connVars, callers, Typed
<1>3. CASE ConnNext
  <2>1. CASE \/ ScheduleConnection \/ RequestSync \/ SetInbound \/ EnableRefused
             \/ \E c \in Callers : CallerStep(c)
             \/ RemoteChange \/ ConnJobFallsDue \/ IntervalEnds
    BY <1>1, <2>1, CallersTyped, OvertakenTyped
  <2>2. CASE SweepConnJob \/ \E w \in ConnWorkers : AgentStep(w) \/ AgentDies(w)
    BY <1>1, <2>2, WorkersTyped, OvertakenTyped
  <2> QED
    BY <1>3, <2>1, <2>2, Zenon DEF ConnNext
<1> QED
  BY <1>1, <1>2, <1>3, OvertakenTyped

\* Every variable of the connection, its job, the workers and the requests keeps its type
\* (calendar_sync_connections, calendar_connection_sync_jobs).
THEOREM ConnectionTypeCorrect == ConnSpec => []ConnectionTypeOK
BY InitTyped, StepTyped, PTL DEF ConnSpec
----------------------------------------------------------------------------
(* No change is skipped.                                                   *)

Busy(w) == agent[w].step # "idle"

\* While no worker has outlived its lease, one at most is busy, and the processing job is
\* leased to it.
OneAgent ==
  /\ \A w \in ConnWorkers :
       Busy(w) => agent[w].no = connJob.no /\ connJob.status = "processing" /\ ~connJob.due
  /\ \A v, w \in ConnWorkers : Busy(v) /\ Busy(w) => v = w

\* What the busy worker has read and listed agrees with the row and the local copy.
ListingHeld(w) ==
  /\ agent[w].step \in {"mark", "list", "apply"} => agent[w].cursor <= conn.cursor
  /\ agent[w].step \in {"apply", "save"} => agent[w].seen <= head
  /\ agent[w].step = "apply" => conn.cursor <= agent[w].seen
  /\ agent[w].step = "save" => agent[w].seen <= conn.copy

Held ==
  /\ OneAgent
  /\ conn.cursor <= conn.copy /\ conn.cursor <= head
  /\ \A w \in ConnWorkers : ListingHeld(w)

LEMMA InitHeld == ConnInit => Held
BY DEF ConnInit, Held, OneAgent, Busy, ListingHeld, IdleAgent, NoConnJob

\* The step of a worker beside which no other one is busy.
LEMMA OneMoves ==
  ASSUME Typed, Held, NEW w \in ConnWorkers, NEW new \in Agent,
         agent' = [agent EXCEPT ![w] = new],
         \A v \in ConnWorkers : v # w => ~Busy(v),
         new.step # "idle" => new.no = connJob'.no /\ connJob'.status = "processing" /\ ~connJob'.due,
         conn'.cursor <= conn'.copy, conn'.cursor <= head',
         new.step \in {"mark", "list", "apply"} => new.cursor <= conn'.cursor,
         new.step \in {"apply", "save"} => new.seen <= head',
         new.step = "apply" => conn'.cursor <= new.seen,
         new.step = "save" => new.seen <= conn'.copy
  PROVE  Held'
<1>1. agent'[w] = new /\ \A v \in ConnWorkers : v # w => agent'[v].step = "idle"
  BY DEF Busy, Typed
<1>2. OneAgent'
  BY <1>1 DEF OneAgent, Busy
<1>3. \A v \in ConnWorkers : ListingHeld(v)'
  BY <1>1 DEF ListingHeld
<1> QED
  BY <1>2, <1>3 DEF Held

\* A step that leaves the workers and the cursor alone, and a leased job to its worker.
LEMMA NoneMoves ==
  ASSUME Typed, Held, UNCHANGED agent, conn'.cursor = conn.cursor, conn'.copy = conn.copy,
         head <= head', head' \in Nat,
         connJob.status = "processing" /\ ~connJob.due /\ (\E w \in ConnWorkers : Busy(w))
           => connJob' = connJob
  PROVE  Held'
<1>1. OneAgent'
  <2>1. ASSUME NEW w \in ConnWorkers, Busy(w) PROVE connJob' = connJob
    BY <2>1 DEF Held, OneAgent
  <2> QED
    BY <2>1 DEF Held, OneAgent, Busy
<1>2. conn.cursor \in Nat /\ conn.copy \in Nat /\ head \in Nat
  BY DEF Typed, Connection
<1>3. conn'.cursor <= conn'.copy /\ conn'.cursor <= head'
  BY <1>2 DEF Held
<1>4. ASSUME NEW w \in ConnWorkers PROVE ListingHeld(w)'
  <2>1. agent[w].seen \in Nat /\ agent[w].cursor \in Nat
    BY DEF Typed, Agent
  <2>2. ListingHeld(w)
    BY DEF Held
  <2> QED
    BY <1>2, <2>1, <2>2 DEF ListingHeld
<1> QED
  BY <1>1, <1>3, <1>4 DEF Held

LEMMA CallersHeld ==
  ASSUME Typed, Held,
         \/ ScheduleConnection \/ RequestSync \/ SetInbound \/ EnableRefused
         \/ \E c \in Callers : CallerStep(c)
         \/ SweepConnJob \/ RemoteChange \/ IntervalEnds \/ UNCHANGED connVars
         \/ ConnJobFallsDue /\ ~(connJob.status = "processing" /\ \E w \in ConnWorkers : HoldsConnJob(w))
  PROVE  Held'
<1>0. conn \in Connection /\ head \in Nat
  BY DEF Typed
<1>1. CASE ScheduleConnection \/ RequestSync \/ IntervalEnds \/ UNCHANGED connVars
  <2>1. UNCHANGED <<agent, connJob, head>> /\ conn'.cursor = conn.cursor /\ conn'.copy = conn.copy
    BY <1>0, <1>1 DEF ScheduleConnection, RequestSync, IntervalEnds, connVars, Connection
  <2> QED
    BY <1>0, <2>1, NoneMoves
<1>2. CASE SetInbound \/ EnableRefused
  <2>1. UNCHANGED <<agent, connJob, head>> /\ conn'.cursor = conn.cursor /\ conn'.copy = conn.copy
    BY <1>0, <1>2 DEF SetInbound, EnableRefused, Connection
  <2> QED
    BY <1>0, <2>1, NoneMoves
<1>3. ASSUME NEW c \in Callers, CallerStep(c) PROVE Held'
  <2>1. UNCHANGED <<agent, head>> /\ conn'.cursor = conn.cursor /\ conn'.copy = conn.copy
    BY <1>0, <1>3 DEF CallerStep, EnqueueConnJob, MarkPending, CallerFails, Connection
  <2>2. connJob.status = "processing" => connJob' = connJob
    BY <1>3 DEF CallerStep, EnqueueConnJob, MarkPending, CallerFails, ActiveConnJob
  <2> QED
    BY <1>0, <2>1, <2>2, NoneMoves
<1>4. CASE SweepConnJob
  <2>1. UNCHANGED <<agent, conn, head>> /\ connJob' = SweptConnJob(connJob)
    BY <1>4 DEF SweepConnJob
  <2> QED
    BY <1>0, <2>1, SweptTyped, NoneMoves DEF Typed
<1>5. CASE RemoteChange
  <2>1. UNCHANGED <<agent, conn, connJob>> /\ head' = head + 1
    BY <1>5 DEF RemoteChange
  <2> QED
    BY <1>0, <2>1, NoneMoves
<1>6. CASE ConnJobFallsDue /\ ~(connJob.status = "processing" /\ \E w \in ConnWorkers : HoldsConnJob(w))
  <2>1. UNCHANGED <<agent, conn, head>>
    BY <1>6 DEF ConnJobFallsDue
  <2>2. ~(connJob.status = "processing" /\ \E w \in ConnWorkers : Busy(w))
    BY <1>6 DEF Held, OneAgent, Busy, HoldsConnJob
  <2> QED
    BY <1>0, <2>1, <2>2, NoneMoves
<1> QED
  BY <1>1, <1>2, <1>3, <1>4, <1>5, <1>6

LEMMA AgentHeld ==
  ASSUME Typed, Typed', Held, NEW w \in ConnWorkers, AgentStep(w) \/ AgentDies(w)
  PROVE  Held'
<1> DEFINE new == agent'[w]
<1>0. /\ conn \in Connection /\ head \in Nat /\ agent[w] \in Agent /\ new \in Agent
      /\ conn.cursor \in Nat /\ conn.copy \in Nat /\ conn.cursor <= conn.copy /\ conn.cursor <= head
      /\ agent[w].cursor \in Nat /\ agent[w].seen \in Nat /\ ListingHeld(w)
  BY DEF Typed, Held, Connection, Agent
<1>1. CASE ClaimConnJob(w)
  <2>1. \A v \in ConnWorkers : ~Busy(v)
    <3>1. SUFFICES ASSUME NEW v \in ConnWorkers, Busy(v) PROVE FALSE
      OBVIOUS
    <3>2. SweptConnJob(connJob) = connJob /\ connJob.status = "processing"
      BY <3>1, SweptTyped DEF Held, OneAgent, Typed
    <3> QED
      BY <1>1, <3>2 DEF ClaimConnJob, ClaimableConnJob
  <2> DEFINE j == SweptConnJob(connJob)
             read == [IdleAgent EXCEPT !.step = "read", !.no = j.no, !.tries = j.tries + 1]
  <2>2. /\ connJob' = [j EXCEPT !.status = "processing", !.tries = j.tries + 1, !.due = FALSE]
        /\ agent' = [agent EXCEPT ![w] = read] /\ UNCHANGED <<conn, head>>
    BY <1>1 DEF ClaimConnJob
  <2>3. j \in ConnRow
    BY SweptTyped DEF Typed
  <2> HIDE DEF j
  <2>4. connJob'.no = j.no /\ connJob'.status = "processing" /\ ~connJob'.due
    BY <2>2, <2>3 DEF ConnRow
  <2>5. read.step = "read" /\ read.no = j.no
    BY DEF IdleAgent
  <2>6. new = read
    BY <2>2 DEF Typed
  <2> HIDE DEF read
  <2> QED
    BY <1>0, <2>1, <2>2, <2>4, <2>5, <2>6, OneMoves
<1>2. CASE Busy(w)
  <2>1. \A v \in ConnWorkers : v # w => ~Busy(v)
    BY <1>2 DEF Held, OneAgent
  <2>2. agent[w].no = connJob.no /\ connJob.status = "processing" /\ ~connJob.due
    BY <1>2 DEF Held, OneAgent
  <2>3. CASE ReadConnection(w)
    <3>1. /\ agent' = [agent EXCEPT ![w] = new] /\ UNCHANGED <<conn, connJob, head>>
          /\ new.no = agent[w].no
          /\ new.step = "fail" \/ (new.step = "mark" /\ new.cursor = conn.cursor)
      <4>1. CASE conn.enabled
        BY <1>0, <2>3, <4>1 DEF ReadConnection, Typed, Agent
      <4>2. CASE ~conn.enabled
        BY <2>3, <4>2, AgentFailsEffect DEF ReadConnection, Typed
      <4> QED
        BY <4>1, <4>2
    <3>2. /\ new.no = connJob'.no /\ connJob'.status = "processing" /\ ~connJob'.due
          /\ conn'.cursor <= conn'.copy /\ conn'.cursor <= head'
          /\ new.step = "mark" => new.cursor <= conn'.cursor
      BY <1>0, <2>2, <3>1
    <3>3. new \in Agent /\ agent' = [agent EXCEPT ![w] = new] /\ new.step \in {"fail", "mark"}
      BY <1>0, <3>1
    <3> HIDE DEF new
    <3> QED
      BY <2>1, <3>2, <3>3, OneMoves
  <2>4. CASE MarkSyncing(w)
    <3>1. /\ agent' = [agent EXCEPT ![w] = new] /\ UNCHANGED <<connJob, head>>
          /\ conn'.cursor = conn.cursor /\ conn'.copy = conn.copy
          /\ new.no = agent[w].no /\ new.cursor = agent[w].cursor /\ new.step = "list"
          /\ agent[w].step = "mark"
      BY <1>0, <2>4 DEF MarkSyncing, AgentGoes, Typed, Agent, Connection
    <3> QED
      BY <1>0, <2>1, <2>2, <3>1, OneMoves DEF ListingHeld
  <2>5. CASE ListChanges(w)
    <3>1. PICK from \in {agent[w].cursor, 0} :
            agent' = [agent EXCEPT ![w].step = "apply", ![w].cursor = from, ![w].seen = head]
      BY <2>5 DEF ListChanges
    <3>2. new = [agent[w] EXCEPT !.step = "apply", !.cursor = from, !.seen = head]
      BY <3>1 DEF Typed
    <3>3. new.no = agent[w].no /\ new.step = "apply" /\ new.cursor = from /\ new.seen = head
      BY <1>0, <3>2 DEF Agent
    <3>4. agent' = [agent EXCEPT ![w] = new]
      BY <3>1, <3>2 DEF Typed
    <3>5. agent[w].step = "list" /\ UNCHANGED <<conn, connJob, head>>
      BY <2>5 DEF ListChanges
    <3>6. new.cursor <= conn.cursor
      BY <1>0, <3>1, <3>3, <3>5 DEF ListingHeld
    <3>7. /\ new.no = connJob'.no /\ connJob'.status = "processing" /\ ~connJob'.due
          /\ conn'.cursor <= conn'.copy /\ conn'.cursor <= head' /\ new.cursor <= conn'.cursor
          /\ new.seen <= head' /\ conn'.cursor <= new.seen
      BY <1>0, <2>2, <3>3, <3>5, <3>6
    <3>8. new \in Agent /\ new.step = "apply"
      BY <1>0, <3>3
    <3> HIDE DEF new
    <3> QED
      BY <2>1, <3>4, <3>7, <3>8, OneMoves
  <2>6. CASE ApplyChanges(w)
    <3>1. /\ agent' = [agent EXCEPT ![w] = new] /\ UNCHANGED <<connJob, head>>
          /\ new.no = agent[w].no /\ new.seen = agent[w].seen /\ new.step = "save"
          /\ agent[w].step = "apply"
      BY <1>0, <2>6 DEF ApplyChanges, AgentGoes, Typed, Agent
    <3>2. /\ conn'.cursor = conn.cursor
          /\ conn'.copy = IF agent[w].seen > agent[w].cursor THEN agent[w].seen ELSE conn.copy
      BY <1>0, <2>6 DEF ApplyChanges, Connection
    <3>3. conn'.cursor <= conn'.copy /\ agent[w].seen <= conn'.copy
      BY <1>0, <3>1, <3>2 DEF ListingHeld
    <3> HIDE DEF new
    <3> QED
      BY <1>0, <2>1, <2>2, <3>1, <3>2, <3>3, OneMoves DEF ListingHeld
  <2>7. CASE SaveCursor(w)
    <3>1. /\ agent' = [agent EXCEPT ![w] = new] /\ UNCHANGED <<connJob, head>>
          /\ new.no = agent[w].no /\ new.step = "synced" /\ agent[w].step = "save"
      BY <1>0, <2>7 DEF SaveCursor, AgentGoes, Typed, Agent
    <3>2. conn'.cursor = agent[w].seen /\ conn'.copy = conn.copy
      BY <1>0, <2>7 DEF SaveCursor, Connection
    <3> HIDE DEF new
    <3> QED
      BY <1>0, <2>1, <2>2, <3>1, <3>2, OneMoves DEF ListingHeld
  <2>8. CASE MarkConnSynced(w) \/ MarkConnFailed(w)
    <3>1. /\ agent' = [agent EXCEPT ![w] = new] /\ UNCHANGED <<connJob, head>>
          /\ new.no = agent[w].no /\ new.step \in {"finish", "failed"}
      BY <1>0, <2>8 DEF MarkConnSynced, MarkConnFailed, AgentGoes, Typed, Agent
    <3>2. conn'.cursor = conn.cursor /\ conn'.copy = conn.copy
      BY <1>0, <2>8 DEF MarkConnSynced, MarkConnFailed, Connection
    <3> HIDE DEF new
    <3> QED
      BY <1>0, <2>1, <2>2, <3>1, <3>2, OneMoves
  <2>9. CASE AgentCallFails(w)
    <3>1. /\ agent' = [agent EXCEPT ![w] = new] /\ UNCHANGED <<conn, connJob, head>>
          /\ new.no = agent[w].no /\ new.step = "fail"
      BY <2>9, AgentFailsEffect DEF AgentCallFails, Typed
    <3> HIDE DEF new
    <3> QED
      BY <1>0, <2>1, <2>2, <3>1, OneMoves
  <2>10. CASE FinishConnJob(w) \/ FinishConnFailed(w) \/ AgentDies(w)
    <3>1. /\ agent' = [agent EXCEPT ![w] = IdleAgent] /\ UNCHANGED <<conn, head>>
      BY <2>2, <2>10 DEF FinishConnJob, FinishConnFailed, AgentDies, ConnFinishable
    <3>2. IdleAgent.step = "idle"
      BY DEF IdleAgent
    <3> QED
      BY <1>0, <2>1, <3>1, <3>2, IdleAgentTyped, OneMoves
  <2> QED
    BY <1>1, <1>2, <2>3, <2>4, <2>5, <2>6, <2>7, <2>8, <2>9, <2>10 DEF AgentStep
<1>3. CASE ~Busy(w)
  BY <1>1, <1>3 DEF Busy, AgentStep, ReadConnection, MarkSyncing, ListChanges, ApplyChanges,
     SaveCursor, MarkConnSynced, FinishConnJob, AgentCallFails, MarkConnFailed, FinishConnFailed,
     AgentDies
<1> QED
  BY <1>2, <1>3

ConnInv == ConnectionTypeOK /\ (~overtaken => Held)

LEMMA StepHeld == ConnInv /\ [ConnNext]_connVars => ConnInv'
<1> SUFFICES ASSUME ConnInv, [ConnNext]_connVars, ~overtaken' PROVE Held'
  BY StepTyped, Zenon DEF ConnInv
<1>1. Typed /\ ~overtaken
  BY OvertakenTyped, TypedParts, Zenon DEF ConnInv
<1>2. Held
  BY <1>1, Zenon DEF ConnInv
<1>3. Typed'
  BY StepTyped, Zenon DEF ConnInv, ConnectionTypeOK, Typed, Connection, ConnRow, Agent
<1>4. ConnJobFallsDue => ~(connJob.status = "processing" /\ \E w \in ConnWorkers : HoldsConnJob(w))
  BY Zenon DEF ConnJobFallsDue
<1>5. CASE \E w \in ConnWorkers : AgentStep(w) \/ AgentDies(w)
  BY <1>1, <1>2, <1>3, <1>5, AgentHeld
<1>6. CASE ~\E w \in ConnWorkers : AgentStep(w) \/ AgentDies(w)
  <2>1. \/ ScheduleConnection \/ RequestSync \/ SetInbound \/ EnableRefused
        \/ \E c \in Callers : CallerStep(c)
        \/ SweepConnJob \/ RemoteChange \/ IntervalEnds \/ UNCHANGED connVars
        \/ ConnJobFallsDue /\ ~(connJob.status = "processing" /\ \E w \in ConnWorkers : HoldsConnJob(w))
    BY <1>4, <1>6, Zenon DEF ConnNext
  <2> QED
    BY <1>1, <1>2, <2>1, CallersHeld, Zenon
<1> QED
  BY <1>5, <1>6

\* No change of the provider is skipped: what lies behind the stored cursor has been
\* applied (_sync_connection_with_client).
THEOREM NoChangeSkipped == ConnSpec => []NothingSkipped
<1>1. ConnInit => ConnInv
  BY InitTyped, InitHeld, Zenon DEF ConnInv
<1>2. ConnInv => NothingSkipped
  BY Zenon DEF ConnInv, Held, NothingSkipped
<1> QED
  BY <1>1, <1>2, StepHeld, PTL DEF ConnSpec
=============================================================================
