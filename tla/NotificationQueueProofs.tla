---------------------- MODULE NotificationQueueProofs ----------------------
(***************************************************************************)
(* Proofs about NotificationQueue, for every number of messages,           *)
(* endpoints, workers and attempts, and about the reminders that           *)
(* CalendarReminders runs on it.                                           *)
(*                                                                         *)
(* A row moves by few kinds of steps, whatever the action: Quiet lists     *)
(* those that neither create a row nor complete it.  The lemmas on rows    *)
(* say what each kind keeps; the lemmas on actions say which kind an       *)
(* action is, for every row of both tables; the invariants follow, and so  *)
(* does that every write of a row lowers WritesLeft.                       *)
(*                                                                         *)
(* The reminders' half uses these: a step of theirs is one of the queues   *)
(* or leaves them alone, and a row at its end stays there, so that what a  *)
(* worker read of the deliveries still holds when it writes the outcome.   *)
(***************************************************************************)
EXTENDS CalendarReminders, FiniteSetTheorems, TLAPS

LEMMA AttemptsAreFinite == MaxAttempts \in Nat \ {0}
BY QueueAssumption

USE AttemptsAreFinite

----------------------------------------------------------------------------
(* Rows.                                                                   *)

\* The claim number counts the attempts, until the account fence adds one to
\* the number of a row it stops.
Numbered(row) ==
  /\ row.status \in Live \cup {"absent", "sent"} => row.gen = row.attempts
  /\ row.status = "absent" => row.attempts = 0

GoodRow(row) == row \in Row /\ Numbered(row)

Quiet(old, new) ==
  \/ new = old
  \/ Claimable(old) /\ new = Lent(old)
  \/ old.status \in Live /\ new = Finished(old, "dead")
  \/ old.status = "processing" /\ ~ old.due /\ \E s \in Waiting : new = Finished(old, s)
  \/ old.status \in Live /\ ~ old.due /\ new = [old EXCEPT !.due = TRUE]
  \/ old.status \in Live /\ new = Stopped(old)
  \/ old.status \in Settled /\ new = [old EXCEPT !.status = "purged"]

\* A row as the abstract queue sees it.
AbstractStep(old, new) ==
  \/ PhaseOf(new) = PhaseOf(old) /\ new.attempts = old.attempts
  \/ /\ PhaseOf(old) = "open" /\ PhaseOf(new) = "open"
     /\ old.attempts < MaxAttempts /\ new.attempts = old.attempts + 1
  \/ PhaseOf(old) = "open" /\ PhaseOf(new) = "dropped" /\ new.attempts = old.attempts
  \/ PhaseOf(old) \in {"done", "dropped"} /\ PhaseOf(new) = "forgotten" /\ new.attempts = old.attempts

\* What a quiet step keeps.
Kept(old, new) ==
  /\ GoodRow(new)
  /\ new.attempts >= old.attempts
  /\ new.status \in Live => old.status \in Live
  /\ new.status = "absent" <=> old.status = "absent"
  /\ new.status = "sent" => new = old
  /\ old.status \in {"sent", "purged"} => new.status \in {"sent", "purged"}
  /\ AbstractStep(old, new)

\* A finished row, a row fallen due and a purged row differ from the row in
\* the fields named, a lent or stopped row also in its numbers.
LEMMA FinishedRow ==
  ASSUME NEW row \in Row, NEW s \in RowStatus
  PROVE  /\ Finished(row, s) \in Row
         /\ Finished(row, s).status = s /\ Finished(row, s).due = FALSE
         /\ Finished(row, s).attempts = row.attempts /\ Finished(row, s).gen = row.gen
BY DEF Finished, Row

LEMMA DueRow ==
  ASSUME NEW row \in Row
  PROVE  LET r == [row EXCEPT !.due = TRUE] IN
           r \in Row /\ r.status = row.status /\ r.attempts = row.attempts /\ r.gen = row.gen
BY DEF Row

LEMMA PurgedRow ==
  ASSUME NEW row \in Row
  PROVE  LET r == [row EXCEPT !.status = "purged"] IN
           r \in Row /\ r.status = "purged" /\ r.attempts = row.attempts /\ r.gen = row.gen
BY DEF Row, RowStatus

LEMMA StoppedRow ==
  ASSUME NEW row \in Row, row.gen <= MaxAttempts
  PROVE  /\ Stopped(row) \in Row
         /\ Stopped(row).status = "dead" /\ Stopped(row).attempts = row.attempts
<1> DEFINE dead == Finished(row, "dead")
<1>1. /\ dead \in Row /\ dead.status = "dead"
      /\ dead.attempts = row.attempts /\ dead.gen = row.gen
  BY FinishedRow DEF RowStatus, Settled
<1>2. row.gen \in 0 .. MaxAttempts
  BY DEF Row
<1> HIDE DEF dead
<1>3. dead.gen + 1 \in 0 .. MaxAttempts + 1
  BY <1>1, <1>2
<1>4. /\ [dead EXCEPT !.gen = dead.gen + 1] \in Row
      /\ [dead EXCEPT !.gen = dead.gen + 1].status = dead.status
      /\ [dead EXCEPT !.gen = dead.gen + 1].attempts = dead.attempts
  BY <1>1, <1>3 DEF Row
<1> QED BY <1>1, <1>4 DEF Stopped, dead

LEMMA LentRow ==
  ASSUME NEW row \in Row, row.attempts < MaxAttempts, row.gen = row.attempts
  PROVE  /\ Lent(row) \in Row
         /\ Lent(row).status = "processing" /\ Lent(row).due = FALSE
         /\ Lent(row).attempts = row.attempts + 1 /\ Lent(row).gen = row.gen + 1
BY DEF Lent, Row, RowStatus, Live, Waiting

LEMMA NewRowIsGood ==
  ASSUME NEW now \in BOOLEAN
  PROVE  GoodRow(NewRow(now)) /\ NewRow(now).status = "pending" /\ NewRow(now).attempts = 0
BY DEF NewRow, GoodRow, Numbered, Row, RowStatus, Live, Waiting

LEMMA QuietKeeps ==
  ASSUME NEW old, NEW new, GoodRow(old), Quiet(old, new)
  PROVE  Kept(old, new)
<1> USE DEF GoodRow, Numbered
<1>0. old \in Row /\ old.attempts \in 0 .. MaxAttempts /\ old.gen \in 0 .. MaxAttempts + 1
      /\ old.status \in RowStatus
  BY DEF Row
<1>1. CASE new = old
  BY <1>0, <1>1 DEF Kept, AbstractStep
<1>2. CASE Claimable(old) /\ new = Lent(old)
  <2>1. old.status \in Live /\ old.gen = old.attempts /\ old.attempts < MaxAttempts
    BY <1>2 DEF Claimable, Due
  <2>2. /\ new \in Row /\ new.status = "processing"
        /\ new.attempts = old.attempts + 1 /\ new.gen = old.gen + 1
    BY <1>0, <1>2, <2>1, LentRow
  <2>3. PhaseOf(old) = "open" /\ PhaseOf(new) = "open"
    BY <2>1, <2>2 DEF PhaseOf, Live, Waiting
  <2> QED BY <1>0, <2>1, <2>2, <2>3 DEF Kept, AbstractStep, Live, Waiting
<1>3. ASSUME old.status \in Live, NEW s \in Waiting \cup {"dead"}, new = Finished(old, s)
      PROVE  Kept(old, new)
  <2>1. s \in {"pending", "failed", "dead"}
    BY <1>3 DEF Waiting
  <2>2. new \in Row /\ new.status = s /\ new.attempts = old.attempts /\ new.gen = old.gen
    BY <1>0, <1>3, <2>1, FinishedRow DEF RowStatus, Live, Waiting, Settled
  <2>3. PhaseOf(old) = "open" /\ PhaseOf(new) = IF s = "dead" THEN "dropped" ELSE "open"
    BY <1>3, <2>1, <2>2 DEF PhaseOf, Live, Waiting
  <2> QED BY <1>0, <1>3, <2>1, <2>2, <2>3 DEF Kept, AbstractStep, Live, Waiting
<1>4. CASE old.status \in Live /\ ~ old.due /\ new = [old EXCEPT !.due = TRUE]
  <2>1. /\ new \in Row /\ new.status = old.status
        /\ new.attempts = old.attempts /\ new.gen = old.gen
    BY <1>0, <1>4, DueRow
  <2> QED BY <1>0, <1>4, <2>1 DEF Kept, AbstractStep, PhaseOf, Live, Waiting
<1>5. CASE old.status \in Live /\ new = Stopped(old)
  <2>1. new \in Row /\ new.status = "dead" /\ new.attempts = old.attempts
    BY <1>0, <1>5, StoppedRow
  <2>2. PhaseOf(old) = "open" /\ PhaseOf(new) = "dropped"
    BY <1>5, <2>1 DEF PhaseOf, Live, Waiting
  <2> QED BY <1>0, <1>5, <2>1, <2>2 DEF Kept, AbstractStep, Live, Waiting
<1>6. CASE old.status \in Settled /\ new = [old EXCEPT !.status = "purged"]
  <2>1. new \in Row /\ new.status = "purged" /\ new.attempts = old.attempts
    BY <1>0, <1>6, PurgedRow
  <2>2. PhaseOf(old) \in {"done", "dropped"} /\ PhaseOf(new) = "forgotten"
    BY <1>6, <2>1 DEF PhaseOf, Live, Waiting, Settled
  <2> QED BY <1>0, <1>6, <2>1, <2>2 DEF Kept, AbstractStep, Live, Waiting, Settled
<1>7. CASE old.status \in Live /\ new = Finished(old, "dead")
  BY <1>3, <1>7
<1>8. CASE old.status = "processing" /\ ~ old.due /\ \E s \in Waiting : new = Finished(old, s)
  <2>1. old.status \in Live
    BY <1>8 DEF Live
  <2> QED BY <1>3, <1>8, <2>1
<1> QED BY <1>1, <1>2, <1>4, <1>5, <1>6, <1>7, <1>8 DEF Quiet

\* Completing a row that is with a worker.
LEMMA SentRow ==
  ASSUME NEW row, GoodRow(row), row.status = "processing"
  PROVE  /\ GoodRow(Finished(row, "sent"))
         /\ Finished(row, "sent").status = "sent"
         /\ Finished(row, "sent").attempts = row.attempts /\ Finished(row, "sent").gen = row.gen
BY FinishedRow DEF GoodRow, Numbered, RowStatus, Settled, Live, Waiting

----------------------------------------------------------------------------
(* Tables and actions.                                                     *)

Table(T, S) == T \in [S -> Row] /\ \A x \in S : Numbered(T[x])

Moves(T, U, S) == U = [x \in S |-> U[x]] /\ \A x \in S : Quiet(T[x], U[x])

\* A table stays one when each of its rows moves quietly.
LEMMA TableMoves ==
  ASSUME NEW S, NEW T, NEW U, Table(T, S), Moves(T, U, S)
  PROVE  Table(U, S) /\ \A x \in S : Kept(T[x], U[x])
<1>1. \A x \in S : Kept(T[x], U[x])
  <2> TAKE x \in S
  <2>1. GoodRow(T[x]) /\ Quiet(T[x], U[x])
    BY DEF Table, Moves, GoodRow
  <2> QED BY <2>1, QuietKeeps
<1>2. \A x \in S : U[x] \in Row /\ Numbered(U[x])
  BY <1>1 DEF Kept, GoodRow
<1> QED BY <1>1, <1>2 DEF Table, Moves

\* An untouched table, an update of one row, a sweep, and a sweep with a claim.
LEMMA MovesNone ==
  ASSUME NEW S, NEW T \in [S -> Row]
  PROVE  Moves(T, T, S)
BY DEF Moves, Quiet

LEMMA MovesOne ==
  ASSUME NEW S, NEW T \in [S -> Row], NEW y \in S, NEW r, Quiet(T[y], r)
  PROVE  Moves(T, [T EXCEPT ![y] = r], S)
<1> DEFINE U == [T EXCEPT ![y] = r]
<1>1. U = [x \in S |-> U[x]] /\ U[y] = r /\ \A x \in S : x # y => U[x] = T[x]
  OBVIOUS
<1>2. \A x \in S : Quiet(T[x], T[x])
  BY DEF Quiet
<1> HIDE DEF U
<1>3. \A x \in S : Quiet(T[x], U[x])
  BY <1>1, <1>2
<1>4. Moves(T, U, S)
  BY <1>1, <1>3 DEF Moves
<1> QED BY <1>4 DEF U

LEMMA QuietDead ==
  ASSUME NEW row, row.status \in Live
  PROVE  Quiet(row, Finished(row, "dead"))
BY DEF Quiet

LEMMA MovesSwept ==
  ASSUME NEW S, NEW T \in [S -> Row]
  PROVE  Moves(T, Swept(T), S)
<1> DEFINE U == Swept(T)
<1>1. U = [x \in S |-> IF Exhausted(T[x]) THEN Finished(T[x], "dead") ELSE T[x]]
  BY DEF Swept
<1>2. \A x \in S : Quiet(T[x], U[x])
  <2> TAKE x \in S
  <2>1. CASE Exhausted(T[x])
    <3>1. T[x].status \in Live
      BY <2>1 DEF Exhausted, Due
    <3>2. U[x] = Finished(T[x], "dead")
      BY <1>1, <2>1
    <3> QED BY <3>1, <3>2, QuietDead
  <2>2. CASE ~ Exhausted(T[x])
    BY <1>1, <2>2 DEF Quiet
  <2> QED BY <2>1, <2>2
<1> QED BY <1>1, <1>2 DEF Moves

LEMMA MovesLent ==
  ASSUME NEW S, NEW T \in [S -> Row], NEW y \in S, Claimable(T[y])
  PROVE  Moves(T, SweptAndLent(T, y), S) /\ SweptAndLent(T, y)[y] = Lent(T[y])
<1> DEFINE U == SweptAndLent(T, y)
<1>1. U = [x \in S |-> IF x = y THEN Lent(T[x])
                       ELSE IF Exhausted(T[x]) THEN Finished(T[x], "dead") ELSE T[x]]
  BY DEF SweptAndLent
<1>2. \A x \in S : Quiet(T[x], U[x])
  <2> TAKE x \in S
  <2>1. CASE x = y
    BY <1>1, <2>1 DEF Quiet
  <2>2. CASE x # y /\ Exhausted(T[x])
    <3>1. T[x].status \in Live
      BY <2>2 DEF Exhausted, Due
    <3>2. U[x] = Finished(T[x], "dead")
      BY <1>1, <2>2
    <3> QED BY <3>1, <3>2, QuietDead
  <2>3. CASE x # y /\ ~ Exhausted(T[x])
    BY <1>1, <2>3 DEF Quiet
  <2> QED BY <2>1, <2>2, <2>3
<1> QED BY <1>1, <1>2 DEF Moves

\* The rows the workers hold are rows.
HeldRows ==
  /\ \A w \in Resolvers : resolver[w].step # "idle" => resolver[w].message \in Messages
  /\ \A w \in Senders : sender[w].step # "idle" => sender[w].delivery \in Deliveries

TypeInv ==
  /\ TypeOK
  /\ Table(outbox, Messages) /\ Table(delivery, Deliveries)
  /\ HeldRows

\* Steps that neither create a row nor complete one.
QuietNext ==
  \/ \E m \in Messages : OutboxFallsDue(m) \/ CleanupMessage(m)
  \/ \E w \in Resolvers : \/ \E m \in Messages : ClaimOutbox(w, m)
                          \/ ResolveLost(w) \/ ResolveRaises(w) \/ GiveUp(w)
  \/ SweepOutbox \/ SweepDeliveries
  \/ \E w \in Senders : Send(w) \/ \E d \in Deliveries : ClaimDelivery(w, d)
  \/ \E d \in Deliveries : DeliveryFallsDue(d) \/ CleanupDelivery(d)
  \/ \E u \in Users : Freeze(u) \/ Reactivate(u)
  \/ \E r \in Recipients : Subscribe(r)
  \/ Crash
  \/ UNCHANGED vars

LEMMA NextCases ==
  ASSUME [Next]_vars
  PROVE  \/ QuietNext
         \/ \E m \in Messages : Enqueue(m)
         \/ \E w \in Resolvers : Resolve(w)
         \/ \E w \in Senders : Acknowledge(w)
BY DEF Next, QuietNext

\* Every row of both tables moves quietly in them.
LEMMA QuietTables ==
  ASSUME TypeInv, QuietNext
  PROVE  Moves(outbox, outbox', Messages) /\ Moves(delivery, delivery', Deliveries)
<1>0. /\ outbox \in [Messages -> Row] /\ delivery \in [Deliveries -> Row]
      /\ Moves(outbox, outbox, Messages) /\ Moves(delivery, delivery, Deliveries)
  BY MovesNone DEF TypeInv, Table
<1>1. ASSUME NEW m \in Messages, OutboxFallsDue(m) \/ CleanupMessage(m)
      PROVE  Moves(outbox, outbox', Messages) /\ delivery' = delivery
  <2>1. CASE OutboxFallsDue(m)
    <3>1. Quiet(outbox[m], [outbox[m] EXCEPT !.due = TRUE])
      BY <2>1 DEF OutboxFallsDue, Quiet
    <3> QED BY <1>0, <2>1, <3>1, MovesOne DEF OutboxFallsDue
  <2>2. CASE CleanupMessage(m)
    <3>1. Quiet(outbox[m], [outbox[m] EXCEPT !.status = "purged"])
      BY <2>2 DEF CleanupMessage, Quiet
    <3> QED BY <1>0, <2>2, <3>1, MovesOne DEF CleanupMessage
  <2> QED BY <1>1, <2>1, <2>2
<1>2. ASSUME NEW w \in Resolvers, NEW m \in Messages, ClaimOutbox(w, m)
      PROVE  Moves(outbox, outbox', Messages) /\ delivery' = delivery
  BY <1>0, <1>2, MovesLent DEF ClaimOutbox
<1>3. ASSUME NEW w \in Resolvers, ResolveLost(w) \/ ResolveRaises(w)
      PROVE  UNCHANGED <<outbox, delivery>>
  BY <1>3 DEF ResolveLost, ResolveRaises
<1>4. ASSUME NEW w \in Resolvers, GiveUp(w)
      PROVE  Moves(outbox, outbox', Messages) /\ delivery' = delivery
  <2> DEFINE m == resolver[w].message
  <2>1. m \in Messages /\ delivery' = delivery
    BY <1>4 DEF GiveUp, TypeInv, HeldRows
  <2>2. CASE Held(outbox[m], resolver[w].gen) /\ ~ OutboxGuarded(m)
    <3> DEFINE s == IF outbox[m].attempts >= MaxAttempts THEN "dead" ELSE "failed"
    <3>1. outbox' = [outbox EXCEPT ![m] = Finished(outbox[m], s)]
      BY <1>4, <2>2 DEF GiveUp
    <3>2. Quiet(outbox[m], Finished(outbox[m], s))
      BY <2>2 DEF Held, Quiet, Live, Waiting
    <3> HIDE DEF s
    <3> QED BY <1>0, <2>1, <3>1, <3>2, MovesOne
  <2>3. CASE ~ (Held(outbox[m], resolver[w].gen) /\ ~ OutboxGuarded(m))
    BY <1>0, <1>4, <2>3 DEF GiveUp
  <2> QED BY <2>1, <2>2, <2>3
<1>5. CASE SweepOutbox
  BY <1>0, <1>5, MovesSwept DEF SweepOutbox
<1>6. CASE SweepDeliveries
  BY <1>0, <1>6, MovesSwept DEF SweepDeliveries
<1>7. ASSUME NEW w \in Senders, NEW d \in Deliveries, ClaimDelivery(w, d)
      PROVE  Moves(delivery, delivery', Deliveries) /\ outbox' = outbox
  BY <1>0, <1>7, MovesLent DEF ClaimDelivery
<1>8. ASSUME NEW w \in Senders, Send(w)
      PROVE  UNCHANGED <<outbox, delivery>>
  BY <1>8 DEF Send
<1>9. ASSUME NEW d \in Deliveries, DeliveryFallsDue(d) \/ CleanupDelivery(d)
      PROVE  Moves(delivery, delivery', Deliveries) /\ outbox' = outbox
  <2>1. CASE DeliveryFallsDue(d)
    <3>1. Quiet(delivery[d], [delivery[d] EXCEPT !.due = TRUE])
      BY <2>1 DEF DeliveryFallsDue, Quiet
    <3> QED BY <1>0, <2>1, <3>1, MovesOne DEF DeliveryFallsDue
  <2>2. CASE CleanupDelivery(d)
    <3>1. Quiet(delivery[d], [delivery[d] EXCEPT !.status = "purged"])
      BY <2>2 DEF CleanupDelivery, Quiet
    <3> QED BY <1>0, <2>2, <3>1, MovesOne DEF CleanupDelivery
  <2> QED BY <1>9, <2>1, <2>2
<1>10. ASSUME NEW u \in Users, Freeze(u)
       PROVE  Moves(outbox, outbox', Messages) /\ Moves(delivery, delivery', Deliveries)
  <2>1. \A m \in Messages : Quiet(outbox[m], outbox'[m])
    BY <1>10 DEF Freeze, Quiet
  <2>2. \A d \in Deliveries : Quiet(delivery[d], delivery'[d])
    BY <1>10 DEF Freeze, Quiet
  <2>3. /\ outbox' = [m \in Messages |-> outbox'[m]]
        /\ delivery' = [d \in Deliveries |-> delivery'[d]]
    BY <1>10 DEF Freeze
  <2> QED BY <2>1, <2>2, <2>3 DEF Moves
<1>11. ASSUME \/ \E u \in Users : Reactivate(u)
              \/ \E r \in Recipients : Subscribe(r)
              \/ Crash \/ UNCHANGED vars
       PROVE  UNCHANGED <<outbox, delivery>>
  BY <1>11 DEF Reactivate, Subscribe, Crash, vars
<1> QED
  BY <1>0, <1>1, <1>2, <1>3, <1>4, <1>5, <1>6, <1>7, <1>8, <1>9, <1>10, <1>11 DEF QuietNext

\* The three actions that do create or complete rows.
LEMMA EnqueueTable ==
  ASSUME TypeInv, NEW m \in Messages, Enqueue(m)
  PROVE  /\ Table(outbox', Messages) /\ delivery' = delivery
         /\ ~ OutboxGuarded(m)
         /\ \A n \in Messages : n # m => outbox'[n] = outbox[n]
         /\ outbox[m].status = "absent"
<1>1. PICK now \in BOOLEAN : outbox' = [outbox EXCEPT ![m] = NewRow(now)]
  BY DEF Enqueue
<1>2. GoodRow(NewRow(now))
  BY NewRowIsGood
<1> QED BY <1>1, <1>2 DEF Enqueue, TypeInv, Table, GoodRow

LEMMA ResolveTables ==
  ASSUME TypeInv, NEW w \in Resolvers, Resolve(w)
  PROVE  LET m == resolver[w].message IN
         /\ m \in Messages /\ ~ OutboxGuarded(m)
         /\ \A r \in Targets(m) : ~ DeliveryGuarded(<<m, r>>)
         /\ outbox[m].status = "processing"
         /\ Table(outbox', Messages) /\ outbox'[m].status = "sent"
         /\ \A n \in Messages : n # m => outbox'[n] = outbox[n]
         /\ Table(delivery', Deliveries)
         /\ \A d \in Deliveries :
              \/ delivery'[d] = delivery[d]
              \/ /\ delivery[d].status = "absent" /\ delivery'[d] = NewRow(TRUE)
                 /\ d[1] = m /\ d[2] \in Targets(m)
<1> DEFINE m == resolver[w].message
<1>1. m \in Messages /\ ResolveRow(w, m)
  BY DEF Resolve, TypeInv, HeldRows
<1>2. outbox[m].status = "processing" /\ GoodRow(outbox[m])
  BY <1>1 DEF ResolveRow, Held, TypeInv, Table, GoodRow
<1>3. GoodRow(Finished(outbox[m], "sent")) /\ Finished(outbox[m], "sent").status = "sent"
  BY <1>2, SentRow
<1>4. outbox' = [outbox EXCEPT ![m] = Finished(outbox[m], "sent")] /\ delivery' = Materialized(m)
  BY <1>1 DEF ResolveRow
<1>5. Table(outbox', Messages) /\ outbox'[m].status = "sent"
      /\ \A n \in Messages : n # m => outbox'[n] = outbox[n]
  <2> DEFINE r == Finished(outbox[m], "sent")
  <2>1. outbox' = [outbox EXCEPT ![m] = r] /\ r \in Row /\ Numbered(r) /\ r.status = "sent"
    BY <1>3, <1>4 DEF GoodRow
  <2> HIDE DEF r
  <2> QED BY <1>1, <2>1 DEF TypeInv, Table
<1>6. \A d \in Deliveries :
        \/ delivery'[d] = delivery[d]
        \/ /\ delivery[d].status = "absent" /\ delivery'[d] = NewRow(TRUE)
           /\ d[1] = m /\ d[2] \in Targets(m)
  BY <1>4 DEF Materialized
<1>7. Table(delivery', Deliveries)
  <2>1. NewRow(TRUE) \in Row /\ Numbered(NewRow(TRUE))
    BY NewRowIsGood DEF GoodRow
  <2>2. \A d \in Deliveries : delivery'[d] \in Row /\ Numbered(delivery'[d])
    BY <1>6, <2>1 DEF TypeInv, Table
  <2>3. delivery' = [d \in Deliveries |-> delivery'[d]]
    BY <1>4 DEF Materialized
  <2> QED BY <2>2, <2>3 DEF Table
<1>8. ~ OutboxGuarded(m) /\ \A r \in Targets(m) : ~ DeliveryGuarded(<<m, r>>)
  BY <1>1 DEF ResolveRow
<1> QED BY <1>1, <1>2, <1>5, <1>6, <1>7, <1>8

LEMMA AcknowledgeTables ==
  ASSUME TypeInv, NEW w \in Senders, Acknowledge(w)
  PROVE  LET d == sender[w].delivery IN
         /\ d \in Deliveries /\ outbox' = outbox
         /\ Table(delivery', Deliveries)
         /\ \/ Moves(delivery, delivery', Deliveries)
            \/ /\ Held(delivery[d], sender[w].gen) /\ sender[w].outcome = "sent"
               /\ ~ DeliveryGuarded(d)
               /\ delivery' = [delivery EXCEPT ![d] = Finished(delivery[d], "sent")]
<1> DEFINE d == sender[w].delivery
           s == Outcome(delivery[d], sender[w].outcome)
<1>1. d \in Deliveries /\ outbox' = outbox
  BY DEF Acknowledge, TypeInv, HeldRows
<1>2. CASE ~ (Held(delivery[d], sender[w].gen) /\ ~ DeliveryGuarded(d))
  <2>1. delivery' = delivery
    BY <1>2 DEF Acknowledge
  <2> QED BY <1>1, <2>1, MovesNone DEF TypeInv, Table
<1>3. CASE Held(delivery[d], sender[w].gen) /\ ~ DeliveryGuarded(d)
  <2>1. delivery' = [delivery EXCEPT ![d] = Finished(delivery[d], s)]
    BY <1>3 DEF Acknowledge
  <2>2. delivery[d].status = "processing" /\ GoodRow(delivery[d])
    BY <1>1, <1>3 DEF Held, TypeInv, Table, GoodRow
  <2>3. CASE sender[w].outcome = "sent"
    <3>1. s = "sent"
      BY <2>3 DEF Outcome
    <3> DEFINE r == Finished(delivery[d], "sent")
    <3>2. r \in Row /\ Numbered(r)
      BY <2>2, SentRow DEF GoodRow
    <3>3. delivery' = [delivery EXCEPT ![d] = r]
      BY <2>1, <3>1
    <3> HIDE DEF r
    <3>4. Table(delivery', Deliveries)
      BY <1>1, <3>2, <3>3 DEF TypeInv, Table
    <3> QED BY <1>1, <1>3, <2>3, <3>3, <3>4 DEF r
  <2>4. CASE sender[w].outcome # "sent"
    <3>1. s \in {"dead", "pending"}
      BY <2>4 DEF Outcome
    <3>2. Quiet(delivery[d], Finished(delivery[d], s))
      BY <1>3, <2>2, <3>1 DEF Held, Quiet, Live, Waiting
    <3> HIDE DEF s
    <3>3. Moves(delivery, delivery', Deliveries)
      BY <1>1, <2>1, <3>2, MovesOne DEF TypeInv, Table
    <3> QED BY <1>1, <3>3, TableMoves DEF TypeInv
  <2> QED BY <2>3, <2>4
<1> QED BY <1>2, <1>3

\* Both tables stay tables, and no delivery loses an attempt.
LEMMA TablesStay ==
  ASSUME TypeInv, [Next]_vars
  PROVE  /\ Table(outbox', Messages) /\ Table(delivery', Deliveries)
         /\ \A d \in Deliveries : delivery'[d].attempts >= delivery[d].attempts
<1>0. \A d \in Deliveries : delivery[d].attempts \in Nat
  BY DEF TypeInv, Table, Row
<1>1. CASE QuietNext
  BY <1>1, QuietTables, TableMoves DEF TypeInv, Kept
<1>2. ASSUME NEW m \in Messages, Enqueue(m)
      PROVE  Table(outbox', Messages) /\ delivery' = delivery
  BY <1>2, EnqueueTable
<1>3. ASSUME NEW w \in Resolvers, Resolve(w)
      PROVE  /\ Table(outbox', Messages) /\ Table(delivery', Deliveries)
             /\ \A d \in Deliveries : delivery'[d].attempts >= delivery[d].attempts
  <2>1. /\ Table(outbox', Messages) /\ Table(delivery', Deliveries)
        /\ \A d \in Deliveries :
             \/ delivery'[d] = delivery[d]
             \/ delivery[d].status = "absent" /\ delivery'[d] = NewRow(TRUE)
    BY <1>3, ResolveTables
  <2>2. \A d \in Deliveries : delivery[d].status = "absent" => delivery[d].attempts = 0
    BY DEF TypeInv, Table, Numbered
  <2>3. NewRow(TRUE).attempts = 0
    BY NewRowIsGood
  <2>4. ASSUME NEW d \in Deliveries
        PROVE  delivery'[d].attempts = delivery[d].attempts
    <3>1. CASE delivery'[d] = delivery[d]
      BY <3>1
    <3>2. CASE delivery[d].status = "absent" /\ delivery'[d] = NewRow(TRUE)
      BY <2>2, <2>3, <3>2
    <3> QED BY <2>1, <3>1, <3>2
  <2>5. \A d \in Deliveries : delivery'[d].attempts >= delivery[d].attempts
    <3> TAKE d \in Deliveries
    <3>1. delivery'[d].attempts = delivery[d].attempts /\ delivery[d].attempts \in Nat
      BY <1>0, <2>4
    <3> QED BY <3>1
  <2> QED BY <2>1, <2>5
<1>4. ASSUME NEW w \in Senders, Acknowledge(w)
      PROVE  /\ outbox' = outbox /\ Table(delivery', Deliveries)
             /\ \A d \in Deliveries : delivery'[d].attempts >= delivery[d].attempts
  <2> DEFINE d == sender[w].delivery
  <2>1. outbox' = outbox /\ Table(delivery', Deliveries) /\ d \in Deliveries
    BY <1>4, AcknowledgeTables
  <2>2. CASE Moves(delivery, delivery', Deliveries)
    BY <2>1, <2>2, TableMoves DEF TypeInv, Kept
  <2>3. CASE /\ Held(delivery[d], sender[w].gen)
             /\ delivery' = [delivery EXCEPT ![d] = Finished(delivery[d], "sent")]
    <3>1. GoodRow(delivery[d]) /\ delivery[d].status = "processing"
      BY <2>1, <2>3 DEF Held, TypeInv, Table, GoodRow
    <3>2. Finished(delivery[d], "sent").attempts = delivery[d].attempts
      BY <3>1, SentRow
    <3>3. \A e \in Deliveries : delivery'[e].attempts = delivery[e].attempts
      BY <2>1, <2>3, <3>2 DEF TypeInv, Table
    <3> QED BY <1>0, <2>1, <3>3
  <2> QED BY <1>4, <2>2, <2>3, AcknowledgeTables
<1> QED BY <1>0, <1>1, <1>2, <1>3, <1>4, NextCases DEF TypeInv

----------------------------------------------------------------------------
(* The workers.                                                            *)

Lease == [step : {"idle", "resolve", "giveUp"}, message : Messages \cup {None}, gen : Nat]
Loan == [step : {"idle", "send", "acknowledge"}, delivery : Deliveries \cup {None},
         gen : Nat, outcome : {"none", "sent", "retry", "dead"}]

\* A step of the senders: none, a claim, a send, or one of them is free again.
LEMMA SenderCases ==
  ASSUME [Next]_vars
  PROVE  \/ UNCHANGED <<sender, accepted>>
         \/ \E w \in Senders, d \in Deliveries : ClaimDelivery(w, d)
         \/ \E w \in Senders : Send(w)
         \/ \E w \in Senders : sender' = [sender EXCEPT ![w] = FreeSender] /\ accepted' = accepted
<1>1. CASE QuietNext
  <2>1. ASSUME \/ \E m \in Messages : OutboxFallsDue(m) \/ CleanupMessage(m)
               \/ \E w \in Resolvers, m \in Messages : ClaimOutbox(w, m)
               \/ SweepOutbox \/ SweepDeliveries
        PROVE  UNCHANGED <<sender, accepted>>
    BY <2>1 DEF OutboxFallsDue, CleanupMessage, ClaimOutbox, SweepOutbox, SweepDeliveries
  <2>2. ASSUME \E w \in Resolvers : ResolveLost(w) \/ ResolveRaises(w) \/ GiveUp(w)
        PROVE  UNCHANGED <<sender, accepted>>
    BY <2>2 DEF ResolveLost, ResolveRaises, GiveUp
  <2>3. ASSUME \/ \E d \in Deliveries : DeliveryFallsDue(d) \/ CleanupDelivery(d)
               \/ \E u \in Users : Freeze(u) \/ Reactivate(u)
               \/ \E r \in Recipients : Subscribe(r)
               \/ UNCHANGED vars
        PROVE  UNCHANGED <<sender, accepted>>
    BY <2>3 DEF DeliveryFallsDue, CleanupDelivery, Freeze, Reactivate, Subscribe, vars
  <2>4. CASE Crash
    BY <2>4 DEF Crash
  <2> QED BY <1>1, <2>1, <2>2, <2>3, <2>4 DEF QuietNext
<1>2. ASSUME (\E m \in Messages : Enqueue(m)) \/ (\E w \in Resolvers : Resolve(w))
      PROVE  UNCHANGED <<sender, accepted>>
  BY <1>2 DEF Enqueue, Resolve
<1>3. ASSUME NEW w \in Senders, Acknowledge(w)
      PROVE  sender' = [sender EXCEPT ![w] = FreeSender] /\ accepted' = accepted
  BY <1>3 DEF Acknowledge
<1> QED BY <1>1, <1>2, <1>3, NextCases

\* A step of the resolvers: none, or one of them claims, gives up or is free.
LEMMA ResolverCases ==
  ASSUME [Next]_vars
  PROVE  \/ resolver' = resolver
         \/ \E w \in Resolvers, m \in Messages : ClaimOutbox(w, m)
         \/ \E w \in Resolvers : /\ resolver[w].step # "idle"
                                /\ resolver' = [resolver EXCEPT ![w] = [@ EXCEPT !.step = "giveUp"]]
         \/ \E w \in Resolvers : resolver' = [resolver EXCEPT ![w] = FreeResolver]
<1>1. CASE QuietNext
  <2>1. ASSUME \/ \E m \in Messages : OutboxFallsDue(m) \/ CleanupMessage(m)
               \/ \E w \in Senders, d \in Deliveries : ClaimDelivery(w, d)
               \/ \E w \in Senders : Send(w)
               \/ SweepOutbox \/ SweepDeliveries
        PROVE  resolver' = resolver
    BY <2>1 DEF OutboxFallsDue, CleanupMessage, ClaimDelivery, Send, SweepOutbox, SweepDeliveries
  <2>2. ASSUME NEW w \in Resolvers, ResolveLost(w) \/ GiveUp(w)
        PROVE  resolver' = [resolver EXCEPT ![w] = FreeResolver]
    BY <2>2 DEF ResolveLost, GiveUp
  <2>3. ASSUME NEW w \in Resolvers, ResolveRaises(w)
        PROVE  /\ resolver[w].step # "idle"
               /\ resolver' = [resolver EXCEPT ![w] = [@ EXCEPT !.step = "giveUp"]]
    BY <2>3 DEF ResolveRaises
  <2>4. ASSUME \/ \E d \in Deliveries : DeliveryFallsDue(d) \/ CleanupDelivery(d)
               \/ \E u \in Users : Freeze(u) \/ Reactivate(u)
               \/ \E r \in Recipients : Subscribe(r)
               \/ UNCHANGED vars
        PROVE  resolver' = resolver
    BY <2>4 DEF DeliveryFallsDue, CleanupDelivery, Freeze, Reactivate, Subscribe, vars
  <2>5. CASE Crash
    BY <2>5 DEF Crash
  <2> QED BY <1>1, <2>1, <2>2, <2>3, <2>4, <2>5 DEF QuietNext
<1>2. ASSUME (\E m \in Messages : Enqueue(m)) \/ (\E w \in Senders : Acknowledge(w))
      PROVE  resolver' = resolver
  BY <1>2 DEF Enqueue, Acknowledge
<1>3. ASSUME NEW w \in Resolvers, Resolve(w)
      PROVE  \/ /\ resolver[w].step # "idle"
                /\ resolver' = [resolver EXCEPT ![w] = [@ EXCEPT !.step = "giveUp"]]
             \/ resolver' = [resolver EXCEPT ![w] = FreeResolver]
  BY <1>3 DEF Resolve
<1> QED BY <1>1, <1>2, <1>3, NextCases

\* What a sender reports leaves the claim it holds alone.
LEMMA ReportedLoan ==
  ASSUME NEW loan \in Loan, NEW outcome \in {"sent", "retry", "dead"}
  PROVE  LET r == [loan EXCEPT !.step = "acknowledge", !.outcome = outcome] IN
           /\ r \in Loan /\ r.step = "acknowledge" /\ r.outcome = outcome
           /\ r.delivery = loan.delivery /\ r.gen = loan.gen
BY DEF Loan

\* Sending touches the sender's own record and the effects of its claim only.
LEMMA SendEffect ==
  ASSUME TypeInv, NEW w \in Senders, Send(w)
  PROVE  \E outcome \in {"sent", "retry", "dead"} :
           /\ sender' = [sender EXCEPT
                ![w] = [sender[w] EXCEPT !.step = "acknowledge", !.outcome = outcome]]
           /\ sender[w].step = "send" /\ sender[w].delivery \in Deliveries
           /\ \/ accepted' = [accepted EXCEPT
                     ![sender[w].delivery] = accepted[sender[w].delivery] \cup {sender[w].gen}]
              \/ accepted' = accepted /\ outcome # "sent"
           /\ delivery' = delivery
<1>0. sender[w].step = "send" /\ sender[w].delivery \in Deliveries /\ delivery' = delivery
  BY DEF Send, TypeInv, HeldRows
<1>1. CASE SendAccepted(w, sender[w].delivery)
  BY <1>0, <1>1 DEF SendAccepted, Report
<1>2. CASE SendRefused(w, sender[w].delivery)
  BY <1>0, <1>2 DEF SendRefused, Report
<1> QED BY <1>1, <1>2 DEF Send

LEMMA TypeOKParts ==
  TypeOK <=> /\ outbox \in [Messages -> Row] /\ delivery \in [Deliveries -> Row]
             /\ active \subseteq Recipients /\ frozen \subseteq Users
             /\ resolver \in [Resolvers -> Lease] /\ sender \in [Senders -> Loan]
             /\ accepted \in [Deliveries -> SUBSET Nat]
BY DEF TypeOK, Lease, Loan

\* What a send adds to the memory of the provider.
LEMMA SendAccepts ==
  ASSUME TypeInv, NEW w \in Senders, Send(w)
  PROVE  \/ accepted' = accepted
         \/ accepted' = [accepted EXCEPT
              ![sender[w].delivery] = accepted[sender[w].delivery] \cup {sender[w].gen}]
BY SendEffect

LEMMA AcceptedGrows ==
  ASSUME accepted \in [Deliveries -> SUBSET Nat], NEW e, NEW n \in Nat,
         accepted' = [accepted EXCEPT ![e] = accepted[e] \cup {n}]
  PROVE  /\ accepted' \in [Deliveries -> SUBSET Nat]
         /\ \A d \in Deliveries : accepted[d] \subseteq accepted'[d]
<1>1. ASSUME NEW d \in Deliveries
      PROVE  accepted'[d] = accepted[d] \/ accepted'[d] = accepted[d] \cup {n}
  OBVIOUS
<1> QED BY <1>1

\* Steps of the senders keep their types and the rows they hold.
LEMMA SendersStay ==
  ASSUME TypeInv, [Next]_vars
  PROVE  /\ sender' \in [Senders -> Loan] /\ accepted' \in [Deliveries -> SUBSET Nat]
         /\ \A w \in Senders : sender'[w].step # "idle" => sender'[w].delivery \in Deliveries
<1>0. /\ sender \in [Senders -> Loan] /\ accepted \in [Deliveries -> SUBSET Nat]
      /\ delivery \in [Deliveries -> Row]
      /\ \A w \in Senders : sender[w].step # "idle" => sender[w].delivery \in Deliveries
  BY TypeOKParts DEF TypeInv, HeldRows
<1>1. CASE UNCHANGED <<sender, accepted>>
  BY <1>0, <1>1
<1>2. ASSUME NEW w \in Senders, NEW d \in Deliveries, ClaimDelivery(w, d)
      PROVE  /\ sender' \in [Senders -> Loan] /\ accepted' \in [Deliveries -> SUBSET Nat]
             /\ \A v \in Senders : sender'[v].step # "idle" => sender'[v].delivery \in Deliveries
  <2> DEFINE loan == [step |-> "send", delivery |-> d, gen |-> delivery[d].gen + 1,
                      outcome |-> "none"]
  <2>1. delivery[d].gen + 1 \in Nat
    BY <1>0 DEF Row
  <2>2. loan \in Loan /\ loan.delivery = d
    BY <2>1 DEF Loan
  <2>3. sender' = [sender EXCEPT ![w] = loan] /\ accepted' = accepted
    BY <1>2 DEF ClaimDelivery, Lent
  <2> HIDE DEF loan
  <2> QED BY <1>0, <2>2, <2>3
<1>3. ASSUME NEW w \in Senders, Send(w)
      PROVE  /\ sender' \in [Senders -> Loan] /\ accepted' \in [Deliveries -> SUBSET Nat]
             /\ \A v \in Senders : sender'[v].step # "idle" => sender'[v].delivery \in Deliveries
  <2>1. PICK outcome \in {"sent", "retry", "dead"} :
          /\ sender' = [sender EXCEPT
               ![w] = [sender[w] EXCEPT !.step = "acknowledge", !.outcome = outcome]]
          /\ sender[w].step = "send" /\ sender[w].delivery \in Deliveries
          /\ \/ accepted' = [accepted EXCEPT
                    ![sender[w].delivery] = accepted[sender[w].delivery] \cup {sender[w].gen}]
             \/ accepted' = accepted
    BY <1>3, SendEffect
  <2> DEFINE loan == [sender[w] EXCEPT !.step = "acknowledge", !.outcome = outcome]
  <2>2. loan \in Loan /\ loan.delivery = sender[w].delivery
    <3>1. sender[w] \in Loan
      BY <1>0
    <3> QED BY <3>1, ReportedLoan
  <2>3. sender[w].gen \in Nat
    BY <1>0 DEF Loan
  <2>4. accepted' \in [Deliveries -> SUBSET Nat]
    BY <1>0, <1>3, <2>3, SendAccepts, AcceptedGrows
  <2>5. sender' = [sender EXCEPT ![w] = loan]
    BY <2>1
  <2> HIDE DEF loan
  <2> QED BY <1>0, <2>1, <2>2, <2>4, <2>5
<1>4. ASSUME NEW w \in Senders, sender' = [sender EXCEPT ![w] = FreeSender], accepted' = accepted
      PROVE  /\ sender' \in [Senders -> Loan] /\ accepted' \in [Deliveries -> SUBSET Nat]
             /\ \A v \in Senders : sender'[v].step # "idle" => sender'[v].delivery \in Deliveries
  <2>1. FreeSender \in Loan /\ FreeSender.step = "idle"
    BY DEF FreeSender, Loan
  <2> QED BY <1>0, <1>4, <2>1
<1> QED BY <1>1, <1>2, <1>3, <1>4, SenderCases

LEMMA ResolversStay ==
  ASSUME TypeInv, [Next]_vars
  PROVE  /\ resolver' \in [Resolvers -> Lease]
         /\ \A w \in Resolvers : resolver'[w].step # "idle" => resolver'[w].message \in Messages
<1>0. /\ resolver \in [Resolvers -> Lease] /\ outbox \in [Messages -> Row]
      /\ \A w \in Resolvers : resolver[w].step # "idle" => resolver[w].message \in Messages
  BY TypeOKParts DEF TypeInv, HeldRows
<1>1. CASE resolver' = resolver
  BY <1>0, <1>1
<1>2. ASSUME NEW w \in Resolvers, NEW lease \in Lease, lease.message \in Messages \/ lease.step = "idle",
             resolver' = [resolver EXCEPT ![w] = lease]
      PROVE  /\ resolver' \in [Resolvers -> Lease]
             /\ \A v \in Resolvers : resolver'[v].step # "idle" => resolver'[v].message \in Messages
  BY <1>0, <1>2
<1>3. ASSUME NEW w \in Resolvers, NEW m \in Messages, ClaimOutbox(w, m)
      PROVE  \E lease \in Lease : lease.message \in Messages /\ resolver' = [resolver EXCEPT ![w] = lease]
  <2> DEFINE lease == [step |-> "resolve", message |-> m, gen |-> outbox[m].gen + 1]
  <2>1. outbox[m].gen + 1 \in Nat
    BY <1>0 DEF Row
  <2>2. lease \in Lease /\ lease.message = m
    BY <2>1 DEF Lease
  <2>3. resolver' = [resolver EXCEPT ![w] = lease]
    BY <1>3 DEF ClaimOutbox, Lent
  <2> QED BY <2>2, <2>3
<1>4. ASSUME NEW w \in Resolvers, resolver[w].step # "idle",
             resolver' = [resolver EXCEPT ![w] = [resolver[w] EXCEPT !.step = "giveUp"]]
      PROVE  \E lease \in Lease : lease.message \in Messages /\ resolver' = [resolver EXCEPT ![w] = lease]
  <2> DEFINE lease == [resolver[w] EXCEPT !.step = "giveUp"]
  <2>1. lease \in Lease /\ lease.message = resolver[w].message
    BY <1>0 DEF Lease
  <2> QED BY <1>0, <1>4, <2>1
<1>5. FreeResolver \in Lease /\ FreeResolver.step = "idle"
  BY DEF FreeResolver, Lease
<1> QED BY <1>1, <1>2, <1>3, <1>4, <1>5, ResolverCases

\* Accounts and endpoints.
LEMMA PeopleStay ==
  ASSUME TypeInv, [Next]_vars
  PROVE  active' \subseteq Recipients /\ frozen' \subseteq Users
<1>0. active \subseteq Recipients /\ frozen \subseteq Users
  BY TypeOKParts DEF TypeInv
<1>1. ASSUME NEW w \in Senders, Send(w)
      PROVE  active' \subseteq active /\ frozen' = frozen
  <2>1. CASE SendAccepted(w, sender[w].delivery)
    BY <1>1, <2>1 DEF Send, SendAccepted
  <2>2. CASE SendRefused(w, sender[w].delivery)
    BY <1>1, <2>2 DEF Send, SendRefused
  <2> QED BY <1>1, <2>1, <2>2 DEF Send
<1>2. ASSUME \/ \E u \in Users : Freeze(u) \/ Reactivate(u)
             \/ \E r \in Recipients : Subscribe(r)
      PROVE  active' \subseteq Recipients /\ frozen' \subseteq Users
  BY <1>0, <1>2 DEF Freeze, Reactivate, Subscribe
<1>3. ASSUME \/ \E m \in Messages : OutboxFallsDue(m) \/ CleanupMessage(m) \/ Enqueue(m)
             \/ \E w \in Resolvers, m \in Messages : ClaimOutbox(w, m)
             \/ \E w \in Senders, d \in Deliveries : ClaimDelivery(w, d)
             \/ \E d \in Deliveries : DeliveryFallsDue(d) \/ CleanupDelivery(d)
             \/ SweepOutbox \/ SweepDeliveries \/ Crash \/ UNCHANGED vars
      PROVE  UNCHANGED <<active, frozen>>
  BY <1>3 DEF OutboxFallsDue, CleanupMessage, Enqueue, ClaimOutbox, ClaimDelivery,
              DeliveryFallsDue, CleanupDelivery, SweepOutbox, SweepDeliveries, Crash, vars
<1>4. ASSUME \/ \E w \in Resolvers : ResolveLost(w) \/ ResolveRaises(w) \/ GiveUp(w) \/ Resolve(w)
             \/ \E w \in Senders : Acknowledge(w)
      PROVE  UNCHANGED <<active, frozen>>
  BY <1>4 DEF ResolveLost, ResolveRaises, GiveUp, Resolve, Acknowledge
<1> QED BY <1>0, <1>1, <1>2, <1>3, <1>4, NextCases DEF QuietNext

LEMMA TypeInvInit == ASSUME Init PROVE TypeInv
<1>1. NoRow \in Row /\ Numbered(NoRow)
  BY DEF NoRow, Row, RowStatus, Live, Settled, Waiting, Numbered
<1>2. /\ FreeResolver \in Lease /\ FreeResolver.step = "idle"
      /\ FreeSender \in Loan /\ FreeSender.step = "idle"
  BY DEF FreeResolver, FreeSender, Lease, Loan
<1>3. Table(outbox, Messages) /\ Table(delivery, Deliveries)
  BY <1>1 DEF Init, Table
<1> QED BY <1>2, <1>3, TypeOKParts DEF Init, TypeInv, Table, HeldRows

LEMMA TypeInvNext == ASSUME TypeInv, [Next]_vars PROVE TypeInv'
<1>1. TypeOK'
  BY TablesStay, SendersStay, ResolversStay, PeopleStay DEF TypeOK, Table, Lease, Loan
<1>2. Table(outbox, Messages)' /\ Table(delivery, Deliveries)'
  BY TablesStay DEF Table, Numbered, Row, RowStatus, Live, Settled, Waiting, Deliveries
<1> QED BY <1>1, <1>2, SendersStay, ResolversStay DEF TypeInv, HeldRows

\* Every variable keeps its type: a claim number never exceeds the attempts by
\* more than one, and attempts never exceed max_attempts.
THEOREM TypeCorrect == Spec => []TypeOK
<1>1. Init => TypeInv
  BY TypeInvInit
<1>2. TypeInv /\ [Next]_vars => TypeInv'
  BY TypeInvNext
<1>3. TypeInv => TypeOK
  BY DEF TypeInv
<1> QED BY <1>1, <1>2, <1>3, PTL DEF Spec

----------------------------------------------------------------------------
(* Claims.                                                                 *)

\* A sender holds a claim that was made; it has not sent under it before it
\* sends, and has when it reports so.
LoanOK(loan) ==
  loan.step # "idle" =>
    /\ loan.gen \in 1 .. delivery[loan.delivery].attempts
    /\ loan.step = "send" => loan.gen \notin accepted[loan.delivery]
    /\ loan.outcome = "sent" => loan.gen \in accepted[loan.delivery]

ClaimsInv ==
  /\ \A w \in Senders : LoanOK(sender[w])
  /\ \A d \in Deliveries : accepted[d] \subseteq 1 .. delivery[d].attempts
  /\ OneHolderPerClaim

LEMMA ClaimsInit == ASSUME Init PROVE ClaimsInv
BY DEF Init, ClaimsInv, LoanOK, OneHolderPerClaim, FreeSender

\* A claim that stays in the same hands stays good while attempts only grow.
LEMMA ClaimsKept ==
  ASSUME TypeInv, ClaimsInv, [Next]_vars, accepted' = accepted,
         NEW w \in Senders, sender'[w] = sender[w]
  PROVE  LoanOK(sender[w])'
<1>1. CASE sender[w].step = "idle"
  BY <1>1 DEF LoanOK
<1>2. CASE sender[w].step # "idle"
  <2> DEFINE d == sender[w].delivery
  <2>1. d \in Deliveries /\ LoanOK(sender[w])
    BY <1>2 DEF TypeInv, HeldRows, ClaimsInv
  <2>2. delivery'[d].attempts >= delivery[d].attempts
    BY <2>1, TablesStay
  <2>3. delivery[d].attempts \in Nat /\ delivery'[d].attempts \in Nat
    BY <2>1, TablesStay DEF TypeInv, Table, Row
  <2>4. sender[w].gen \in 1 .. delivery'[d].attempts
    BY <1>2, <2>1, <2>2, <2>3 DEF LoanOK
  <2> QED BY <1>2, <2>1, <2>4 DEF LoanOK
<1> QED BY <1>1, <1>2

LEMMA AcceptedKept ==
  ASSUME TypeInv, ClaimsInv, [Next]_vars
  PROVE  \A d \in Deliveries : accepted[d] \subseteq 1 .. delivery'[d].attempts
<1> TAKE d \in Deliveries
<1>1. accepted[d] \subseteq 1 .. delivery[d].attempts
  BY DEF ClaimsInv
<1>2. /\ delivery'[d].attempts >= delivery[d].attempts
      /\ delivery[d].attempts \in Nat /\ delivery'[d].attempts \in Nat
  BY TablesStay DEF TypeInv, Table, Row
<1> QED BY <1>1, <1>2

LEMMA ClaimsNext ==
  ASSUME TypeInv, ClaimsInv, [Next]_vars
  PROVE  ClaimsInv'
<1>0. /\ sender \in [Senders -> Loan] /\ accepted \in [Deliveries -> SUBSET Nat]
      /\ delivery \in [Deliveries -> Row]
      /\ \A w \in Senders : sender[w].step # "idle" => sender[w].delivery \in Deliveries
  BY TypeOKParts DEF TypeInv, HeldRows
<1>1. CASE UNCHANGED <<sender, accepted>>
  <2>1. \A w \in Senders : LoanOK(sender[w])'
    BY <1>1, ClaimsKept
  <2>2. (\A d \in Deliveries : accepted[d] \subseteq 1 .. delivery[d].attempts)'
    BY <1>1, AcceptedKept
  <2> QED BY <1>1, <2>1, <2>2 DEF ClaimsInv, OneHolderPerClaim
<1>2. ASSUME NEW w \in Senders, NEW d \in Deliveries, ClaimDelivery(w, d)
      PROVE  ClaimsInv'
  <2> DEFINE loan == [step |-> "send", delivery |-> d, gen |-> delivery[d].gen + 1,
                      outcome |-> "none"]
  <2>1. sender' = [sender EXCEPT ![w] = loan] /\ accepted' = accepted
    BY <1>2 DEF ClaimDelivery, Lent
  <2>2. /\ loan.step = "send" /\ loan.delivery = d /\ loan.gen = delivery[d].gen + 1
        /\ loan.outcome = "none"
    OBVIOUS
  <2> HIDE DEF loan
  <2>3. delivery[d].gen = delivery[d].attempts /\ Claimable(delivery[d])
    BY <1>2 DEF ClaimDelivery, Claimable, Due, TypeInv, Table, Numbered
  <2>4. /\ delivery[d].attempts \in Nat /\ delivery[d].attempts < MaxAttempts
        /\ delivery'[d] = Lent(delivery[d])
    <3>1. delivery[d].attempts \in Nat
      BY <1>0 DEF Row
    <3>2. delivery[d].attempts < MaxAttempts
      BY <2>3 DEF Claimable
    <3>3. delivery'[d] = Lent(delivery[d])
      BY <1>0, <1>2, MovesLent DEF ClaimDelivery
    <3> QED BY <3>1, <3>2, <3>3
  <2>5. delivery'[d].attempts = delivery[d].attempts + 1
    BY <1>0, <2>3, <2>4, LentRow
  <2>6. loan.gen = delivery[d].attempts + 1 /\ loan.gen \notin accepted[d]
    BY <2>2, <2>3, <2>4 DEF ClaimsInv
  <2>7. LoanOK(sender[w])'
    BY <1>0, <2>1, <2>2, <2>4, <2>5, <2>6 DEF LoanOK
  <2>8. \A v \in Senders : v # w => sender'[v] = sender[v]
    BY <1>0, <2>1
  <2>9. \A v \in Senders : LoanOK(sender[v])'
    BY <2>1, <2>7, <2>8, ClaimsKept
  <2>10. \A v \in Senders : v # w /\ sender[v].step # "idle" /\ sender[v].delivery = d
                             => sender[v].gen # loan.gen
    BY <2>4, <2>6 DEF ClaimsInv, LoanOK
  <2>11. OneHolderPerClaim'
    BY <1>0, <2>1, <2>2, <2>8, <2>10 DEF ClaimsInv, OneHolderPerClaim
  <2> QED BY <2>1, <2>9, <2>11, AcceptedKept DEF ClaimsInv
<1>3. ASSUME NEW w \in Senders, Send(w)
      PROVE  ClaimsInv'
  <2>1. PICK outcome \in {"sent", "retry", "dead"} :
          /\ sender' = [sender EXCEPT
               ![w] = [sender[w] EXCEPT !.step = "acknowledge", !.outcome = outcome]]
          /\ sender[w].step = "send" /\ sender[w].delivery \in Deliveries
          /\ \/ accepted' = [accepted EXCEPT
                    ![sender[w].delivery] = accepted[sender[w].delivery] \cup {sender[w].gen}]
             \/ accepted' = accepted /\ outcome # "sent"
          /\ delivery' = delivery
    BY <1>3, SendEffect
  <2> DEFINE d == sender[w].delivery
             loan == [sender[w] EXCEPT !.step = "acknowledge", !.outcome = outcome]
  <2>2. /\ loan.step = "acknowledge" /\ loan.outcome = outcome
        /\ loan.delivery = d /\ loan.gen = sender[w].gen
    <3>1. sender[w] \in Loan
      BY <1>0
    <3>2. LET r == [sender[w] EXCEPT !.step = "acknowledge", !.outcome = outcome] IN
            /\ r.step = "acknowledge" /\ r.outcome = outcome
            /\ r.delivery = sender[w].delivery /\ r.gen = sender[w].gen
      BY <3>1, ReportedLoan
    <3> QED BY <3>2
  <2>3. sender' = [sender EXCEPT ![w] = loan]
    BY <2>1
  <2> HIDE DEF loan
  <2>4. \A v \in Senders : v # w => sender'[v] = sender[v]
    BY <1>0, <2>3
  <2>5. sender[w].gen \in 1 .. delivery[d].attempts
    BY <2>1 DEF ClaimsInv, LoanOK
  <2>6. \A e \in Deliveries : accepted'[e] \subseteq 1 .. delivery'[e].attempts
    BY <1>0, <2>1, <2>5 DEF ClaimsInv
  <2>7. LoanOK(sender[w])'
    BY <1>0, <2>1, <2>2, <2>3, <2>5 DEF LoanOK
  <2>8. \A v \in Senders : v # w => LoanOK(sender[v])'
    <3> TAKE v \in Senders
    <3> HAVE v # w
    <3>1. CASE sender[v].step = "idle"
      BY <2>4, <3>1 DEF LoanOK
    <3>2. CASE sender[v].step # "idle"
      <4> DEFINE e == sender[v].delivery
      <4>1. e \in Deliveries /\ LoanOK(sender[v])
        BY <1>0, <3>2 DEF ClaimsInv
      <4>2. e = d => sender[v].gen # sender[w].gen
        BY <2>1, <3>2 DEF ClaimsInv, OneHolderPerClaim
      <4>3. sender[v].gen \in accepted'[e] <=> sender[v].gen \in accepted[e]
        BY <1>0, <2>1, <4>1, <4>2
      <4> QED BY <2>1, <2>4, <3>2, <4>1, <4>3 DEF LoanOK
    <3> QED BY <3>1, <3>2
  <2>9. OneHolderPerClaim'
    BY <1>0, <2>1, <2>2, <2>3, <2>4 DEF ClaimsInv, OneHolderPerClaim
  <2> QED BY <2>6, <2>7, <2>8, <2>9 DEF ClaimsInv
<1>4. ASSUME NEW w \in Senders, sender' = [sender EXCEPT ![w] = FreeSender], accepted' = accepted
      PROVE  ClaimsInv'
  <2>1. sender'[w].step = "idle" /\ \A v \in Senders : v # w => sender'[v] = sender[v]
    BY <1>0, <1>4 DEF FreeSender
  <2>2. \A v \in Senders : LoanOK(sender[v])'
    BY <1>4, <2>1, ClaimsKept DEF LoanOK
  <2>3. OneHolderPerClaim'
    BY <2>1 DEF ClaimsInv, OneHolderPerClaim
  <2> QED BY <1>4, <2>2, <2>3, AcceptedKept DEF ClaimsInv
<1> QED BY <1>1, <1>2, <1>3, <1>4, SenderCases

\* A row becomes "sent" in one way only: its present holder reports a send.
LEMMA SentNext ==
  ASSUME TypeInv, ClaimsInv, SentByPresentClaim, [Next]_vars
  PROVE  SentByPresentClaim'
<1>0. \A d \in Deliveries : accepted[d] \subseteq accepted'[d]
  <2>1. CASE accepted' = accepted
    BY <2>1
  <2>2. ASSUME NEW w \in Senders, Send(w)
        PROVE  \A d \in Deliveries : accepted[d] \subseteq accepted'[d]
    <3>1. accepted \in [Deliveries -> SUBSET Nat] /\ sender[w].gen \in Nat
      BY TypeOKParts DEF TypeInv, Loan
    <3> QED BY <2>2, <3>1, SendAccepts, AcceptedGrows
  <2>3. ASSUME NEW w \in Senders, NEW d \in Deliveries, ClaimDelivery(w, d)
        PROVE  accepted' = accepted
    BY <2>3 DEF ClaimDelivery
  <2> QED BY <2>1, <2>2, <2>3, SenderCases
<1> SUFFICES ASSUME NEW d \in Deliveries, delivery'[d].status = "sent"
             PROVE  delivery'[d].gen \in accepted'[d]
  BY DEF SentByPresentClaim
<1>1. ASSUME delivery'[d] = delivery[d]
      PROVE  delivery'[d].gen \in accepted'[d]
  BY <1>0, <1>1 DEF SentByPresentClaim
<1>2. ASSUME Moves(delivery, delivery', Deliveries)
      PROVE  delivery'[d].gen \in accepted'[d]
  BY <1>1, <1>2, TableMoves DEF TypeInv, Kept
<1>3. CASE QuietNext
  BY <1>2, <1>3, QuietTables
<1>4. ASSUME NEW m \in Messages, Enqueue(m)
      PROVE  delivery'[d] = delivery[d]
  BY <1>4 DEF Enqueue
<1>5. ASSUME NEW w \in Resolvers, Resolve(w)
      PROVE  delivery'[d] = delivery[d]
  <2>1. delivery'[d] = delivery[d] \/ delivery'[d] = NewRow(TRUE)
    BY <1>5, ResolveTables
  <2>2. NewRow(TRUE).status # "sent"
    BY NewRowIsGood
  <2> QED BY <2>1, <2>2
<1>6. ASSUME NEW w \in Senders, Acknowledge(w)
      PROVE  delivery'[d].gen \in accepted'[d]
  <2> DEFINE e == sender[w].delivery
  <2>1. e \in Deliveries
    BY <1>6, AcknowledgeTables
  <2>2. CASE /\ Held(delivery[e], sender[w].gen) /\ sender[w].outcome = "sent"
             /\ delivery' = [delivery EXCEPT ![e] = Finished(delivery[e], "sent")]
    <3>1. CASE d # e
      BY <1>1, <2>2, <3>1 DEF TypeInv, Table
    <3>2. CASE d = e
      <4>1. GoodRow(delivery[d]) /\ delivery[d].status = "processing"
            /\ delivery[d].gen = sender[w].gen
        BY <2>1, <2>2, <3>2 DEF Held, TypeInv, Table, GoodRow
      <4>2. delivery'[d] = Finished(delivery[d], "sent")
        BY <2>1, <2>2, <3>2 DEF TypeInv, Table
      <4>3. delivery'[d].gen = sender[w].gen
        BY <4>1, <4>2, SentRow
      <4>4. sender[w].step # "idle"
        BY <1>6 DEF Acknowledge
      <4>5. sender[w].gen \in accepted[d]
        BY <2>2, <3>2, <4>4 DEF ClaimsInv, LoanOK
      <4> QED BY <1>0, <4>3, <4>5
    <3> QED BY <3>1, <3>2
  <2> QED BY <1>2, <1>6, <2>2, AcknowledgeTables
<1> QED BY <1>1, <1>3, <1>4, <1>5, <1>6, NextCases

ClaimedInv == TypeInv /\ ClaimsInv /\ SentByPresentClaim

LEMMA ClaimedInit == Init => ClaimedInv
BY TypeInvInit, ClaimsInit DEF ClaimedInv, Init, NoRow, SentByPresentClaim

LEMMA ClaimedNext == ClaimedInv /\ [Next]_vars => ClaimedInv'
BY TypeInvNext, ClaimsNext, SentNext DEF ClaimedInv

LEMMA ClaimedAlways == Spec => []ClaimedInv
BY ClaimedInit, ClaimedNext, PTL DEF Spec

\* A delivery recorded as sent was accepted by the provider under its present
\* claim, whatever late senders do.
THEOREM FencedResults == Spec => []SentByPresentClaim
<1>1. ClaimedInv => SentByPresentClaim
  BY DEF ClaimedInv
<1> QED BY <1>1, ClaimedAlways, PTL

\* No two senders hold the same claim of a delivery.
THEOREM SingleHolder == Spec => []OneHolderPerClaim
<1>1. ClaimedInv => OneHolderPerClaim
  BY DEF ClaimedInv, ClaimsInv
<1> QED BY <1>1, ClaimedAlways, PTL

----------------------------------------------------------------------------
(* Frozen accounts, and the deliveries of a resolution.                    *)

\* Only a freeze adds to the frozen users.
LEMMA FreezeOnly ==
  ASSUME [Next]_vars, ~ \E u \in Users : Freeze(u)
  PROVE  frozen' \subseteq frozen
<1>1. ASSUME \/ \E u \in Users : Reactivate(u)
             \/ \E r \in Recipients : Subscribe(r)
             \/ \E w \in Senders : Send(w)
      PROVE  frozen' \subseteq frozen
  BY <1>1 DEF Reactivate, Subscribe, Send
<1>2. ASSUME \/ \E m \in Messages : OutboxFallsDue(m) \/ CleanupMessage(m) \/ Enqueue(m)
             \/ \E w \in Resolvers, m \in Messages : ClaimOutbox(w, m)
             \/ \E w \in Senders, d \in Deliveries : ClaimDelivery(w, d)
             \/ \E d \in Deliveries : DeliveryFallsDue(d) \/ CleanupDelivery(d)
             \/ SweepOutbox \/ SweepDeliveries \/ Crash \/ UNCHANGED vars
      PROVE  frozen' = frozen
  BY <1>2 DEF OutboxFallsDue, CleanupMessage, Enqueue, ClaimOutbox, ClaimDelivery,
              DeliveryFallsDue, CleanupDelivery, SweepOutbox, SweepDeliveries, Crash, vars
<1>3. ASSUME \/ \E w \in Resolvers : ResolveLost(w) \/ ResolveRaises(w) \/ GiveUp(w) \/ Resolve(w)
             \/ \E w \in Senders : Acknowledge(w)
      PROVE  frozen' = frozen
  BY <1>3 DEF ResolveLost, ResolveRaises, GiveUp, Resolve, Acknowledge
<1> QED BY <1>1, <1>2, <1>3, NextCases DEF QuietNext

\* A row in either table that is live after a step was live before, or is new
\* and of nobody frozen.
LEMMA LiveRows ==
  ASSUME TypeInv, [Next]_vars
  PROVE  /\ \A m \in Messages : outbox'[m].status \in Live =>
              outbox[m].status \in Live \/ ~ OutboxGuarded(m)
         /\ \A d \in Deliveries : delivery'[d].status \in Live =>
              delivery[d].status \in Live \/ ~ DeliveryGuarded(d)
<1>0. "sent" \notin Live
  BY DEF Live, Waiting
<1>1. CASE QuietNext
  BY <1>1, QuietTables, TableMoves DEF TypeInv, Kept
<1>2. ASSUME NEW m \in Messages, Enqueue(m)
      PROVE  /\ delivery' = delivery /\ ~ OutboxGuarded(m)
             /\ \A n \in Messages : n # m => outbox'[n] = outbox[n]
  BY <1>2, EnqueueTable
<1>3. ASSUME NEW w \in Resolvers, Resolve(w)
      PROVE  /\ \A m \in Messages : outbox'[m].status \in Live => outbox[m].status \in Live
             /\ \A d \in Deliveries : delivery'[d].status \in Live =>
                  delivery[d].status \in Live \/ ~ DeliveryGuarded(d)
  <2> DEFINE m == resolver[w].message
  <2>1. /\ m \in Messages /\ outbox'[m].status = "sent"
        /\ \A n \in Messages : n # m => outbox'[n] = outbox[n]
        /\ \A r \in Targets(m) : ~ DeliveryGuarded(<<m, r>>)
        /\ \A d \in Deliveries : delivery'[d] = delivery[d] \/ d[2] \in Targets(m)
    BY <1>3, ResolveTables
  <2>2. ASSUME NEW d \in Deliveries, d[2] \in Targets(m)
        PROVE  ~ DeliveryGuarded(d)
    BY <2>1, <2>2 DEF DeliveryGuarded
  <2> QED BY <1>0, <2>1, <2>2
<1>4. ASSUME NEW w \in Senders, Acknowledge(w)
      PROVE  /\ outbox' = outbox
             /\ \A d \in Deliveries : delivery'[d].status \in Live => delivery[d].status \in Live
  <2> DEFINE e == sender[w].delivery
  <2>1. e \in Deliveries /\ outbox' = outbox
    BY <1>4, AcknowledgeTables
  <2>2. CASE Moves(delivery, delivery', Deliveries)
    BY <2>1, <2>2, TableMoves DEF TypeInv, Kept
  <2>3. CASE /\ Held(delivery[e], sender[w].gen)
             /\ delivery' = [delivery EXCEPT ![e] = Finished(delivery[e], "sent")]
    <3>1. delivery[e].status = "processing"
      BY <2>3 DEF Held
    <3> QED BY <2>1, <2>3, <3>1 DEF TypeInv, Table, Live
  <2> QED BY <1>4, <2>1, <2>2, <2>3, AcknowledgeTables
<1> QED BY <1>1, <1>2, <1>3, <1>4, NextCases

LEMMA FrozenNext ==
  ASSUME TypeInv, NoWorkForFrozen, [Next]_vars
  PROVE  NoWorkForFrozen'
<1>1. CASE ~ \E u \in Users : Freeze(u)
  <2>1. frozen' \subseteq frozen
    BY <1>1, FreezeOnly
  <2> QED BY <2>1, LiveRows DEF NoWorkForFrozen, OutboxGuarded, DeliveryGuarded
<1>2. ASSUME NEW u \in Users, Freeze(u)
      PROVE  NoWorkForFrozen'
  <2>0. \A row \in Row : Numbered(row) /\ row.status \in Live => Stopped(row).status \notin Live
    <3> SUFFICES ASSUME NEW row \in Row, Numbered(row), row.status \in Live
                 PROVE  Stopped(row).status \notin Live
      OBVIOUS
    <3>1. row.gen <= MaxAttempts
      BY DEF Numbered, Row
    <3> QED BY <3>1, StoppedRow DEF Live, Waiting
  <2>1. /\ frozen' = frozen \cup {u}
        /\ outbox' = [m \in Messages |-> IF Addressee[m] = u /\ outbox[m].status \in Live
                                         THEN Stopped(outbox[m]) ELSE outbox[m]]
        /\ delivery' = [d \in Deliveries |-> IF Owner[d[2]] = u /\ delivery[d].status \in Live
                                             THEN Stopped(delivery[d]) ELSE delivery[d]]
    BY <1>2 DEF Freeze
  <2>2. ASSUME NEW m \in Messages, Addressee[m] \in frozen'
        PROVE  outbox'[m].status \notin Live
    <3>1. CASE Addressee[m] = u /\ outbox[m].status \in Live
      BY <2>0, <2>1, <3>1 DEF TypeInv, Table
    <3>2. CASE ~ (Addressee[m] = u /\ outbox[m].status \in Live)
      BY <2>1, <2>2, <3>2 DEF NoWorkForFrozen, OutboxGuarded
    <3> QED BY <3>1, <3>2
  <2>3. ASSUME NEW d \in Deliveries, Owner[d[2]] \in frozen'
        PROVE  delivery'[d].status \notin Live
    <3>1. CASE Owner[d[2]] = u /\ delivery[d].status \in Live
      BY <2>0, <2>1, <3>1 DEF TypeInv, Table
    <3>2. CASE ~ (Owner[d[2]] = u /\ delivery[d].status \in Live)
      BY <2>1, <2>3, <3>2 DEF NoWorkForFrozen, DeliveryGuarded
    <3> QED BY <3>1, <3>2
  <2> QED BY <2>2, <2>3 DEF NoWorkForFrozen, OutboxGuarded, DeliveryGuarded
<1> QED BY <1>1, <1>2

\* No row of a frozen account waits for a worker or is with one.
THEOREM FrozenStaysQuiet == Spec => []NoWorkForFrozen
<1>1. Init => TypeInv /\ NoWorkForFrozen
  BY TypeInvInit DEF Init, NoWorkForFrozen, NoRow, Live, Waiting
<1>2. (TypeInv /\ NoWorkForFrozen) /\ [Next]_vars => (TypeInv /\ NoWorkForFrozen)'
  BY TypeInvNext, FrozenNext
<1> QED BY <1>1, <1>2, PTL DEF Spec

\* A message that was resolved stays so, and its deliveries appear with it.
LEMMA ResolvedNext ==
  ASSUME TypeInv, DeliveriesOfResolved, [Next]_vars
  PROVE  DeliveriesOfResolved'
<1>0. \A d \in Deliveries : d[1] \in Messages
  BY DEF Deliveries
<1>1. CASE QuietNext
  <2>1. /\ \A m \in Messages : outbox[m].status \in {"sent", "purged"} =>
                                outbox'[m].status \in {"sent", "purged"}
        /\ \A d \in Deliveries : delivery'[d].status = "absent" <=> delivery[d].status = "absent"
    BY <1>1, QuietTables, TableMoves DEF TypeInv, Kept
  <2> QED BY <1>0, <2>1 DEF DeliveriesOfResolved
<1>2. ASSUME NEW m \in Messages, Enqueue(m)
      PROVE  DeliveriesOfResolved'
  <2>1. /\ delivery' = delivery /\ outbox[m].status = "absent"
        /\ \A n \in Messages : n # m => outbox'[n] = outbox[n]
    BY <1>2, EnqueueTable
  <2> QED BY <1>0, <2>1 DEF DeliveriesOfResolved
<1>3. ASSUME NEW w \in Resolvers, Resolve(w)
      PROVE  DeliveriesOfResolved'
  <2> DEFINE m == resolver[w].message
  <2>1. /\ outbox'[m].status = "sent"
        /\ \A n \in Messages : n # m => outbox'[n] = outbox[n]
        /\ \A d \in Deliveries : delivery'[d] = delivery[d] \/ d[1] = m
    BY <1>3, ResolveTables
  <2> QED BY <1>0, <2>1 DEF DeliveriesOfResolved
<1>4. ASSUME NEW w \in Senders, Acknowledge(w)
      PROVE  DeliveriesOfResolved'
  <2> DEFINE e == sender[w].delivery
  <2>1. e \in Deliveries /\ outbox' = outbox
    BY <1>4, AcknowledgeTables
  <2>2. CASE Moves(delivery, delivery', Deliveries)
    <3>1. \A d \in Deliveries : delivery'[d].status = "absent" <=> delivery[d].status = "absent"
      BY <2>2, TableMoves DEF TypeInv, Kept
    <3> QED BY <2>1, <3>1 DEF DeliveriesOfResolved
  <2>3. CASE /\ Held(delivery[e], sender[w].gen)
             /\ delivery' = [delivery EXCEPT ![e] = Finished(delivery[e], "sent")]
    <3>1. delivery[e].status = "processing"
      BY <2>3 DEF Held
    <3>2. \A d \in Deliveries : delivery[d].status = "absent" => delivery'[d] = delivery[d]
      BY <2>1, <2>3, <3>1 DEF TypeInv, Table
    <3> QED BY <2>1, <3>2 DEF DeliveriesOfResolved
  <2> QED BY <1>4, <2>2, <2>3, AcknowledgeTables
<1> QED BY <1>1, <1>2, <1>3, <1>4, NextCases

\* A delivery exists only for a message whose resolution committed.
THEOREM ResolvedAtOnce == Spec => []DeliveriesOfResolved
<1>1. Init => TypeInv /\ DeliveriesOfResolved
  BY TypeInvInit DEF Init, DeliveriesOfResolved, NoRow
<1>2. (TypeInv /\ DeliveriesOfResolved) /\ [Next]_vars => (TypeInv /\ DeliveriesOfResolved)'
  BY TypeInvNext, ResolvedNext
<1> QED BY <1>1, <1>2, PTL DEF Spec

----------------------------------------------------------------------------
(* Rows run down: each is written a bounded number of times.               *)

\* How many more times a row may be written: an attempt is a claim, a result or a lease
\* that runs out, and a retry that falls due.
WritesLeft(row) ==
  CASE row.status = "absent" -> 4 * MaxAttempts + 4
    [] row.status = "processing" /\ ~ row.due -> 4 * (MaxAttempts - row.attempts) + 4
    [] row.status \in Waiting /\ ~ row.due -> 4 * (MaxAttempts - row.attempts) + 3
    [] row.status \in Live /\ row.due -> 4 * (MaxAttempts - row.attempts) + 2
    [] row.status \in Settled -> 1
    [] row.status = "purged" -> 0

MostWrites == 4 * MaxAttempts + 4

RunsDown(old, new) ==
  WritesLeft(old) \in 0 .. MostWrites /\ (new = old \/ WritesLeft(new) < WritesLeft(old))

\* Claims, results, sweeps, leases, the account fence and the cleanup: every write of a row
\* brings it nearer to its end; no sequence of them writes it for ever or opens it again.
RowsRunDown ==
  [][/\ \A m \in Messages : RunsDown(outbox[m], outbox'[m])
     /\ \A d \in Deliveries : RunsDown(delivery[d], delivery'[d])]_vars

\* What is left for a row, by its status.
LEMMA WritesLeftOf ==
  ASSUME NEW row \in Row
  PROVE  /\ row.status = "absent" => WritesLeft(row) = MostWrites
         /\ row.status = "processing" /\ ~ row.due
              => WritesLeft(row) = 4 * (MaxAttempts - row.attempts) + 4
         /\ row.status \in Waiting /\ ~ row.due
              => WritesLeft(row) = 4 * (MaxAttempts - row.attempts) + 3
         /\ row.status \in Live /\ row.due
              => WritesLeft(row) = 4 * (MaxAttempts - row.attempts) + 2
         /\ row.status \in Settled => WritesLeft(row) = 1
         /\ row.status = "purged" => WritesLeft(row) = 0
BY DEF WritesLeft, MostWrites, Live, Waiting, Settled

\* A live row has a write left for each attempt and one to end it.
LEMMA LiveWrites ==
  ASSUME NEW row \in Row, row.status \in Live
  PROVE  /\ WritesLeft(row) \in Nat
         /\ WritesLeft(row) >= 4 * (MaxAttempts - row.attempts) + 2
         /\ WritesLeft(row) <= 4 * (MaxAttempts - row.attempts) + 4
         /\ row.attempts \in 0 .. MaxAttempts
<1>1. row.attempts \in 0 .. MaxAttempts /\ row.due \in BOOLEAN
  BY DEF Row
<1>2. WritesLeft(row) \in {4 * (MaxAttempts - row.attempts) + 2,
                           4 * (MaxAttempts - row.attempts) + 3,
                           4 * (MaxAttempts - row.attempts) + 4}
  BY <1>1, WritesLeftOf DEF Live
<1> HIDE DEF MostWrites
<1> QED BY <1>1, <1>2

LEMMA WritesBounded ==
  ASSUME NEW row \in Row
  PROVE  WritesLeft(row) \in 0 .. MostWrites
<1>1. CASE row.status \in Live
  BY <1>1, LiveWrites DEF MostWrites
<1>2. CASE row.status \in {"absent", "sent", "dead", "purged"}
  <2>1. WritesLeft(row) \in {0, 1, MostWrites}
    BY <1>2, WritesLeftOf DEF Settled
  <2> QED BY <2>1 DEF MostWrites
<1> QED BY <1>1, <1>2 DEF Row, RowStatus, Settled

\* Ending a live row leaves one write at most.
LEMMA EndLowers ==
  ASSUME NEW old \in Row, old.status \in Live, NEW new \in Row, new.status \in Settled
  PROVE  WritesLeft(new) < WritesLeft(old)
<1>1. WritesLeft(new) = 1
  BY WritesLeftOf
<1> QED BY <1>1, LiveWrites

LEMMA QuietLowers ==
  ASSUME NEW old, NEW new, GoodRow(old), Quiet(old, new)
  PROVE  RunsDown(old, new)
<1>0. /\ old \in Row /\ new \in Row /\ WritesLeft(old) \in 0 .. MostWrites
  BY QuietKeeps, WritesBounded DEF GoodRow, Kept
<1>1. CASE Claimable(old) /\ new = Lent(old)
  <2>1. old.status \in Live /\ old.attempts < MaxAttempts /\ old.gen = old.attempts
    BY <1>1 DEF Claimable, Due, GoodRow, Numbered
  <2>2. new.status = "processing" /\ ~ new.due /\ new.attempts = old.attempts + 1
    BY <1>0, <1>1, <2>1, LentRow
  <2>3. WritesLeft(new) = 4 * (MaxAttempts - (old.attempts + 1)) + 4
    BY <1>0, <2>2, WritesLeftOf
  <2>4. WritesLeft(old) >= 4 * (MaxAttempts - old.attempts) + 2 /\ old.attempts \in 0 .. MaxAttempts
        /\ WritesLeft(old) \in Nat
    BY <1>0, <2>1, LiveWrites
  <2>5. WritesLeft(new) < WritesLeft(old)
    BY <2>3, <2>4
  <2> QED BY <1>0, <2>5 DEF RunsDown
<1>2. CASE old.status \in Live /\ new = Finished(old, "dead")
  <2>1. new.status \in Settled
    <3>1. "dead" \in RowStatus /\ "dead" \in Settled
      BY DEF RowStatus, Settled
    <3>2. Finished(old, "dead").status = "dead"
      BY <1>0, <3>1, FinishedRow
    <3> QED BY <1>2, <3>1, <3>2
  <2> QED BY <1>0, <1>2, <2>1, EndLowers DEF RunsDown
<1>3. ASSUME old.status = "processing", ~ old.due, NEW s \in Waiting, new = Finished(old, s)
      PROVE  RunsDown(old, new)
  <2>1. new.status \in Waiting /\ ~ new.due /\ new.attempts = old.attempts
    <3>1. s \in RowStatus
      BY <1>3 DEF RowStatus, Live
    <3>2. /\ Finished(old, s).status = s /\ Finished(old, s).due = FALSE
          /\ Finished(old, s).attempts = old.attempts
      BY <1>0, <3>1, FinishedRow
    <3> QED BY <1>3, <3>2
  <2>2. /\ WritesLeft(new) = 4 * (MaxAttempts - old.attempts) + 3
        /\ WritesLeft(old) = 4 * (MaxAttempts - old.attempts) + 4
    BY <1>0, <1>3, <2>1, WritesLeftOf
  <2>3. old.attempts \in Nat
    BY <1>0 DEF Row
  <2>4. WritesLeft(new) < WritesLeft(old)
    BY <2>2, <2>3
  <2> QED BY <1>0, <2>4 DEF RunsDown
<1>4. CASE old.status \in Live /\ ~ old.due /\ new = [old EXCEPT !.due = TRUE]
  <2>1. new.status = old.status /\ new.attempts = old.attempts
    BY <1>0, <1>4, DueRow
  <2>2. new.due = TRUE
    BY <1>0, <1>4 DEF Row
  <2>3. WritesLeft(new) = 4 * (MaxAttempts - old.attempts) + 2
    BY <1>0, <1>4, <2>1, <2>2, WritesLeftOf
  <2>4. WritesLeft(old) \in {4 * (MaxAttempts - old.attempts) + 3, 4 * (MaxAttempts - old.attempts) + 4}
    BY <1>0, <1>4, WritesLeftOf DEF Live
  <2>5. old.attempts \in Nat
    BY <1>0 DEF Row
  <2>6. WritesLeft(new) < WritesLeft(old)
    BY <2>3, <2>4, <2>5
  <2> QED BY <1>0, <2>6 DEF RunsDown
<1>5. CASE old.status \in Live /\ new = Stopped(old)
  <2>1. new.status \in Settled
    <3>1. old.gen <= MaxAttempts
      BY <1>0, <1>5 DEF GoodRow, Numbered, Row
    <3> QED BY <1>0, <1>5, <3>1, StoppedRow DEF Settled
  <2> QED BY <1>0, <1>5, <2>1, EndLowers DEF RunsDown
<1>6. CASE old.status \in Settled /\ new = [old EXCEPT !.status = "purged"]
  <2>1. new.status = "purged"
    BY <1>0, <1>6, PurgedRow
  <2>2. WritesLeft(old) = 1 /\ WritesLeft(new) = 0
    BY <1>0, <1>6, <2>1, WritesLeftOf
  <2> QED BY <1>0, <2>2 DEF RunsDown
<1>7. CASE new = old
  BY <1>0, <1>7 DEF RunsDown
<1>8. CASE old.status = "processing" /\ ~ old.due /\ \E s \in Waiting : new = Finished(old, s)
  BY <1>3, <1>8
<1> QED BY <1>1, <1>2, <1>4, <1>5, <1>6, <1>7, <1>8 DEF Quiet

\* A new row, and a row whose work is done.
LEMMA NewRowLowers ==
  ASSUME NEW old, GoodRow(old), old.status = "absent", NEW now \in BOOLEAN
  PROVE  RunsDown(old, NewRow(now))
<1> DEFINE new == NewRow(now)
<1>1. new \in Row /\ new.status = "pending" /\ new.attempts = 0 /\ new.due = now
  BY NewRowIsGood DEF GoodRow, NewRow
<1>2. new.status \in Waiting /\ new.status \in Live
  BY <1>1 DEF Live, Waiting
<1> HIDE DEF new
<1>3. WritesLeft(new) \in {4 * (MaxAttempts - 0) + 3, 4 * (MaxAttempts - 0) + 2}
  BY <1>1, <1>2, WritesLeftOf
<1>4. WritesLeft(old) = MostWrites /\ MostWrites \in 0 .. MostWrites
  BY WritesLeftOf DEF GoodRow, MostWrites
<1>5. WritesLeft(new) < MostWrites
  BY <1>3 DEF MostWrites
<1>6. RunsDown(old, new)
  BY <1>4, <1>5 DEF RunsDown
<1> QED BY <1>6 DEF new

LEMMA SentLowers ==
  ASSUME NEW row, GoodRow(row), row.status = "processing"
  PROVE  RunsDown(row, Finished(row, "sent"))
<1> DEFINE new == Finished(row, "sent")
<1>1. row \in Row /\ row.status \in Live /\ new \in Row /\ new.status \in Settled
  BY SentRow DEF GoodRow, Live, Settled
<1>2. WritesLeft(row) \in 0 .. MostWrites /\ WritesLeft(new) < WritesLeft(row)
  BY <1>1, EndLowers, WritesBounded
<1> QED BY <1>2 DEF RunsDown

\* A table whose rows move quietly, or stay.
LEMMA TableRunsDown ==
  ASSUME NEW S, NEW T, NEW U, Table(T, S), Moves(T, U, S)
  PROVE  \A x \in S : RunsDown(T[x], U[x])
<1> TAKE x \in S
<1>1. GoodRow(T[x]) /\ Quiet(T[x], U[x])
  BY DEF Table, Moves, GoodRow
<1> QED BY <1>1, QuietLowers

LEMMA RowsNext ==
  ASSUME TypeInv, [Next]_vars
  PROVE  /\ \A m \in Messages : RunsDown(outbox[m], outbox'[m])
         /\ \A d \in Deliveries : RunsDown(delivery[d], delivery'[d])
<1>0. /\ Table(outbox, Messages) /\ Table(delivery, Deliveries)
      /\ \A m \in Messages : GoodRow(outbox[m]) /\ RunsDown(outbox[m], outbox[m])
      /\ \A d \in Deliveries : GoodRow(delivery[d]) /\ RunsDown(delivery[d], delivery[d])
  BY WritesBounded DEF TypeInv, Table, GoodRow, RunsDown
<1>1. CASE QuietNext
  BY <1>0, <1>1, QuietTables, TableRunsDown
<1>2. ASSUME NEW m \in Messages, Enqueue(m)
      PROVE  delivery' = delivery /\ \A n \in Messages : RunsDown(outbox[n], outbox'[n])
  <2>1. PICK now \in BOOLEAN : outbox' = [outbox EXCEPT ![m] = NewRow(now)]
    BY <1>2 DEF Enqueue
  <2>2. /\ delivery' = delivery /\ outbox[m].status = "absent"
        /\ \A n \in Messages : n # m => outbox'[n] = outbox[n]
    BY <1>2, EnqueueTable
  <2>3. outbox'[m] = NewRow(now)
    BY <1>0, <2>1 DEF Table
  <2>4. RunsDown(outbox[m], outbox'[m])
    <3>1. GoodRow(outbox[m])
      BY <1>0
    <3> QED BY <2>2, <2>3, <3>1, NewRowLowers
  <2> QED BY <1>0, <2>2, <2>4
<1>3. ASSUME NEW w \in Resolvers, Resolve(w)
      PROVE  /\ \A m \in Messages : RunsDown(outbox[m], outbox'[m])
             /\ \A d \in Deliveries : RunsDown(delivery[d], delivery'[d])
  <2> DEFINE m == resolver[w].message
  <2>1. /\ m \in Messages /\ outbox[m].status = "processing"
        /\ \A n \in Messages : n # m => outbox'[n] = outbox[n]
        /\ \A d \in Deliveries : \/ delivery'[d] = delivery[d]
                                 \/ delivery[d].status = "absent" /\ delivery'[d] = NewRow(TRUE)
    BY <1>3, ResolveTables
  <2>2. outbox'[m] = Finished(outbox[m], "sent")
    <3>1. outbox' = [outbox EXCEPT ![m] = Finished(outbox[m], "sent")]
      BY <1>3 DEF Resolve, ResolveRow
    <3> QED BY <1>0, <2>1, <3>1 DEF Table
  <2> HIDE DEF m
  <2>3. RunsDown(outbox[m], outbox'[m])
    BY <1>0, <2>1, <2>2, SentLowers
  <2>4. \A d \in Deliveries : RunsDown(delivery[d], delivery'[d])
    BY <1>0, <2>1, NewRowLowers
  <2> QED BY <1>0, <2>1, <2>3, <2>4
<1>4. ASSUME NEW w \in Senders, Acknowledge(w)
      PROVE  outbox' = outbox /\ \A d \in Deliveries : RunsDown(delivery[d], delivery'[d])
  <2> DEFINE e == sender[w].delivery
  <2>1. outbox' = outbox /\ e \in Deliveries
    BY <1>4, AcknowledgeTables
  <2>2. CASE Moves(delivery, delivery', Deliveries)
    BY <1>0, <2>1, <2>2, TableRunsDown
  <2>3. CASE /\ Held(delivery[e], sender[w].gen)
             /\ delivery' = [delivery EXCEPT ![e] = Finished(delivery[e], "sent")]
    <3>1. /\ delivery'[e] = Finished(delivery[e], "sent")
          /\ \A d \in Deliveries : d # e => delivery'[d] = delivery[d]
      BY <1>0, <2>1, <2>3 DEF Table
    <3>2. delivery[e].status = "processing"
      BY <2>3 DEF Held
    <3> HIDE DEF e
    <3>3. RunsDown(delivery[e], delivery'[e])
      BY <1>0, <2>1, <3>1, <3>2, SentLowers
    <3> QED BY <1>0, <2>1, <3>1, <3>3
  <2> QED BY <1>4, <2>2, <2>3, AcknowledgeTables
<1> QED BY <1>0, <1>1, <1>2, <1>3, <1>4, NextCases

\* Each message and each delivery is written at most MostWrites times in its life, counting
\* its creation and its removal, whatever crashes, is lost, frozen or retried.
THEOREM RowsAreFinite == Spec => RowsRunDown
<1>1. TypeInv /\ [Next]_vars
        => [/\ \A m \in Messages : RunsDown(outbox[m], outbox'[m])
            /\ \A d \in Deliveries : RunsDown(delivery[d], delivery'[d])]_vars
  BY RowsNext
<1>2. Spec => []TypeInv
  BY TypeInvInit, TypeInvNext, PTL DEF Spec
<1> QED BY <1>1, <1>2, PTL DEF Spec, RowsRunDown

----------------------------------------------------------------------------
(* The deliveries implement the abstract queue.                            *)

\* What a transaction does to one delivery, seen from the abstract queue.
AbstractMove(d) ==
  \/ AbstractStep(delivery[d], delivery'[d])
  \/ /\ PhaseOf(delivery[d]) = "none" /\ PhaseOf(delivery'[d]) = "open"
     /\ delivery'[d].attempts = delivery[d].attempts
  \/ /\ PhaseOf(delivery[d]) = "open" /\ PhaseOf(delivery'[d]) = "done"
     /\ delivery[d].attempts \in accepted[d]
     /\ delivery'[d].attempts = delivery[d].attempts

LEMMA PhaseTyped == \A row \in Row : PhaseOf(row) \in Promise!Phases
BY DEF Row, PhaseOf, Promise!Phases, RowStatus, Live, Settled, Waiting

LEMMA DeliveriesMove ==
  ASSUME ClaimedInv, [Next]_vars, NEW d \in Deliveries
  PROVE  AbstractMove(d)
<1>0. TypeInv /\ ClaimsInv
  BY DEF ClaimedInv
<1>1. ASSUME Moves(delivery, delivery', Deliveries)
      PROVE  AbstractMove(d)
  BY <1>0, <1>1, TableMoves DEF TypeInv, Kept, AbstractMove
<1>2. ASSUME delivery'[d] = delivery[d]
      PROVE  AbstractMove(d)
  BY <1>2 DEF AbstractMove, AbstractStep
<1>3. CASE QuietNext
  BY <1>0, <1>1, <1>3, QuietTables
<1>4. ASSUME NEW m \in Messages, Enqueue(m)
      PROVE  AbstractMove(d)
  BY <1>2, <1>4 DEF Enqueue
<1>5. ASSUME NEW w \in Resolvers, Resolve(w)
      PROVE  AbstractMove(d)
  <2>1. \/ delivery'[d] = delivery[d]
        \/ delivery[d].status = "absent" /\ delivery'[d] = NewRow(TRUE)
    BY <1>0, <1>5, ResolveTables
  <2>2. NewRow(TRUE).status = "pending" /\ NewRow(TRUE).attempts = 0
    BY NewRowIsGood
  <2>3. CASE delivery[d].status = "absent" /\ delivery'[d] = NewRow(TRUE)
    <3>1. delivery[d].attempts = 0
      BY <1>0, <2>3 DEF TypeInv, Table, Numbered
    <3>2. PhaseOf(delivery[d]) = "none" /\ PhaseOf(delivery'[d]) = "open"
      BY <2>2, <2>3 DEF PhaseOf, Live, Waiting
    <3> QED BY <2>2, <2>3, <3>1, <3>2 DEF AbstractMove
  <2> QED BY <1>2, <2>1, <2>3
<1>6. ASSUME NEW w \in Senders, Acknowledge(w)
      PROVE  AbstractMove(d)
  <2> DEFINE e == sender[w].delivery
  <2>1. e \in Deliveries
    BY <1>0, <1>6, AcknowledgeTables
  <2>2. CASE /\ Held(delivery[e], sender[w].gen) /\ sender[w].outcome = "sent"
             /\ delivery' = [delivery EXCEPT ![e] = Finished(delivery[e], "sent")]
    <3>1. CASE d # e
      BY <1>0, <1>2, <2>2, <3>1 DEF TypeInv, Table
    <3>2. CASE d = e
      <4>1. /\ GoodRow(delivery[d]) /\ delivery[d].status = "processing"
            /\ delivery[d].gen = sender[w].gen
        BY <1>0, <2>1, <2>2, <3>2 DEF Held, TypeInv, Table, GoodRow
      <4>2. delivery'[d] = Finished(delivery[d], "sent")
        BY <1>0, <2>1, <2>2, <3>2 DEF TypeInv, Table
      <4>3. delivery'[d].status = "sent" /\ delivery'[d].attempts = delivery[d].attempts
        BY <4>1, <4>2, SentRow
      <4>4. PhaseOf(delivery[d]) = "open" /\ PhaseOf(delivery'[d]) = "done"
        BY <4>1, <4>3 DEF PhaseOf, Live, Waiting
      <4>5. delivery[d].gen = delivery[d].attempts
        BY <4>1 DEF GoodRow, Numbered, Live
      <4>6. sender[w].step # "idle"
        BY <1>6 DEF Acknowledge
      <4>7. sender[w].gen \in accepted[d]
        BY <1>0, <2>2, <3>2, <4>6 DEF ClaimsInv, LoanOK
      <4> QED BY <4>1, <4>3, <4>4, <4>5, <4>7 DEF AbstractMove
    <3> QED BY <3>1, <3>2
  <2> QED BY <1>0, <1>1, <1>6, <2>2, AcknowledgeTables
<1> QED BY <1>3, <1>4, <1>5, <1>6, NextCases

LEMMA ImplementsInit == Init => Promise!Init
<1>1. NoRow.status = "absent" /\ NoRow.attempts = 0
  BY DEF NoRow
<1>2. PhaseOf(NoRow) = "none"
  BY <1>1 DEF PhaseOf, Live, Waiting
<1> QED BY <1>1, <1>2 DEF Init, Promise!Init

\* A step that makes no send moves the deliveries as the abstract queue may.
LEMMA ImplementsMove ==
  ASSUME ClaimedInv, [Next]_vars, accepted' = accepted
  PROVE  Promise!Move
<1>1. delivery' \in [Deliveries -> Row]
  BY TablesStay DEF ClaimedInv, Table
<1>2. \A d \in Deliveries : PhaseOf(delivery'[d]) \in Promise!Phases
  BY <1>1, PhaseTyped
<1>3. ASSUME NEW d \in Deliveries
      PROVE  \/ Promise!Idle(d) \/ Promise!Open(d) \/ Promise!Claim(d)
             \/ Promise!Complete(d) \/ Promise!Drop(d) \/ Promise!Forget(d)
  <2>1. AbstractMove(d)
    BY DeliveriesMove
  <2> QED BY <2>1 DEF AbstractMove, AbstractStep, Promise!Idle, Promise!Open, Promise!Claim,
                      Promise!Complete, Promise!Drop, Promise!Forget
<1> QED BY <1>2, <1>3 DEF Promise!Move

\* A send has the effect of a claim that was made and had none yet, or no effect.
LEMMA ImplementsSend ==
  ASSUME ClaimedInv, NEW w \in Senders, Send(w)
  PROVE  \/ \E d \in Deliveries : Promise!Effect(d)
         \/ UNCHANGED <<delivery, accepted>>
<1> DEFINE d == sender[w].delivery
<1>0. TypeInv /\ ClaimsInv
  BY DEF ClaimedInv
<1>1. /\ sender[w].step = "send" /\ d \in Deliveries /\ delivery' = delivery
      /\ \/ accepted' = [accepted EXCEPT ![d] = accepted[d] \cup {sender[w].gen}]
         \/ accepted' = accepted
  BY <1>0, SendEffect
<1>2. CASE accepted' = [accepted EXCEPT ![d] = accepted[d] \cup {sender[w].gen}]
  <2>1. /\ sender[w].gen \in 1 .. delivery[d].attempts
        /\ sender[w].gen \notin accepted[d]
    BY <1>0, <1>1 DEF ClaimsInv, LoanOK
  <2> QED BY <1>1, <1>2, <2>1 DEF Promise!Effect
<1> QED BY <1>1, <1>2

LEMMA ImplementsNext ==
  ClaimedInv /\ [Next]_vars
    => [Promise!Next]_<<[d \in Deliveries |-> PhaseOf(delivery[d])],
                       [d \in Deliveries |-> delivery[d].attempts], accepted>>
<1> SUFFICES ASSUME ClaimedInv, [Next]_vars
             PROVE  [Promise!Next]_<<[d \in Deliveries |-> PhaseOf(delivery[d])],
                                    [d \in Deliveries |-> delivery[d].attempts], accepted>>
  OBVIOUS
<1>1. CASE accepted' = accepted
  BY <1>1, ImplementsMove DEF Promise!Next
<1>2. ASSUME NEW w \in Senders, Send(w), accepted' # accepted
      PROVE  Promise!Next
  BY <1>2, ImplementsSend DEF Promise!Next
<1>3. ASSUME NEW w \in Senders, NEW d \in Deliveries, ClaimDelivery(w, d)
      PROVE  accepted' = accepted
  BY <1>3 DEF ClaimDelivery
<1> QED BY <1>1, <1>2, <1>3, SenderCases

\* Whatever the workers do, each delivery is made at most once for each of a
\* bounded number of claims, and is recorded as made only after its last claim
\* made it.
THEOREM QueueImplementsPromise == Spec => DeliveredAtLeastOnce
<1>1. Spec => []ClaimedInv
  BY ClaimedAlways
<1> QED BY <1>1, ImplementsInit, ImplementsNext, PTL DEF Spec, DeliveredAtLeastOnce, Promise!Spec


----------------------------------------------------------------------------
(* The reminders: what they keep of the queues.                            *)

LEMMA OccurrencesAreNumbers ==
  /\ Messages = Occurrences /\ Occurrences \subseteq Nat /\ 1 \in Occurrences
  /\ EditsAllowed \subseteq Edits /\ ListAnswers \in BOOLEAN
<1>1. Cardinality(Occurrences) \in Nat
  BY ReminderAssumption, FS_CardinalityType
<1> QED
  BY <1>1, ReminderAssumption

Reminder == [status : ReminderStatus, occurrence : Occurrences]
Scheduler == [step : {"idle", "task", "rpc", "cancel", "follow"}, occurrence : Occurrences]
Editor == [step : {"idle", "read", "write"}, changed : BOOLEAN, seen : ReminderStatus]
Closing == [step : {"none", "read", "write"}, message : Messages \cup {None},
            outcome : {"none", "sent", "failed"}]

RemindersTyped ==
  /\ reminder \in Reminder /\ task \in [start : Occurrences, closed : BOOLEAN]
  /\ scheduler \in [Schedulers -> Scheduler] /\ editor \in Editor
  /\ closing \in [Threads -> Closing]

LEMMA ReminderTypes == TypeOK /\ RemindersTyped <=> ReminderTypeOK
BY Zenon DEF ReminderTypeOK, RemindersTyped, Reminder, Scheduler, Editor, Closing

Resolved(m) == outbox[m].status \in {"sent", "purged"}

\* The outcome that a thread is about to write is the one of the deliveries, and final.
Conclusive(m, outcome) ==
  /\ m \in Messages /\ Resolved(m)
  /\ \A r \in Recipients : delivery[<<m, r>>].status \notin Live
  /\ outcome = IF \E r \in Recipients : delivery[<<m, r>>].status = "sent" THEN "sent" ELSE "failed"

ClosingOK(row) ==
  /\ row.step = "read" => row.message \in Messages
  /\ row.step = "write" => Conclusive(row.message, row.outcome)

\* Nobody's account is frozen, so that a reminder's message is enqueued as any other.
ReminderInv ==
  /\ TypeInv /\ DeliveriesOfResolved /\ frozen = {}
  /\ RemindersTyped
  /\ \A w \in Threads : ClosingOK(closing[w])

LEMMA ReminderInitInv == ReminderInit => ReminderInv
<1> SUFFICES ASSUME ReminderInit PROVE ReminderInv
  OBVIOUS
<1>1. TypeInv /\ DeliveriesOfResolved /\ frozen = {}
  BY TypeInvInit DEF ReminderInit, Init, DeliveriesOfResolved, NoRow
<1>2. Free \in Scheduler /\ NoEdit \in Editor /\ Open \in Closing /\ Open.step = "none"
  BY OccurrencesAreNumbers DEF Free, NoEdit, Open, Scheduler, Editor, Closing, ReminderStatus
<1>3. RemindersTyped
  BY <1>2, OccurrencesAreNumbers DEF ReminderInit, RemindersTyped, Reminder, ReminderStatus
<1> QED
  BY <1>1, <1>2, <1>3 DEF ReminderInit, ReminderInv, ClosingOK

\* The steps of the reminders beside the queues.
LEMMA BesideQueues ==
  ASSUME \/ \E p \in Schedulers : ReadDue(p) \/ ReadTask(p) \/ CancelClosed(p) \/ FollowUp(p)
         \/ \E w \in Threads : FinalizeRead(w) \/ MarkReminder(w)
         \/ \E edit \in Edits : UpdateTask(edit)
         \/ ReadReminder \/ WriteReminder
  PROVE  UNCHANGED vars
<1>1. ASSUME NEW p \in Schedulers, ReadDue(p) \/ ReadTask(p) \/ CancelClosed(p) \/ FollowUp(p)
      PROVE  UNCHANGED vars
  BY <1>1 DEF ReadDue, ReadTask, CancelClosed, FollowUp
<1>2. ASSUME NEW w \in Threads, FinalizeRead(w) \/ MarkReminder(w) PROVE UNCHANGED vars
  BY <1>2 DEF FinalizeRead, MarkReminder
<1>3. CASE \/ \E edit \in Edits : UpdateTask(edit)
           \/ ReadReminder \/ WriteReminder
  BY <1>3 DEF UpdateTask, ReadReminder, WriteReminder
<1> QED
  BY <1>1, <1>2, <1>3

\* A step of the reminders is one of the queues, or leaves them alone.
LEMMA QueueOfReminders ==
  ASSUME ReminderInv, ReminderNext
  PROVE  [Next]_vars
<1>1. CASE QueueStep
  BY <1>1 DEF QueueStep, Next
<1>2. CASE ReminderCrash
  BY <1>2 DEF ReminderCrash, Next
<1>3. ASSUME NEW p \in Schedulers, EnqueueReminder(p) PROVE [Next]_vars
  <2> DEFINE k == scheduler[p].occurrence
  <2>1. k \in Messages
    BY OccurrencesAreNumbers DEF ReminderInv, RemindersTyped, Scheduler
  <2>2. UNCHANGED <<delivery, active, frozen, resolver, sender, accepted>>
    BY <1>3 DEF EnqueueReminder
  <2>3. \/ outbox' = outbox
        \/ outbox[k].status = "absent" /\ outbox' = [outbox EXCEPT ![k] = NewRow(TRUE)]
    BY <1>3 DEF EnqueueReminder
  <2>4. ~ OutboxGuarded(k)
    BY DEF ReminderInv, OutboxGuarded
  <2> HIDE DEF k
  <2>5. CASE outbox[k].status = "absent" /\ outbox' = [outbox EXCEPT ![k] = NewRow(TRUE)]
    <3>1. Enqueue(k)
      BY <2>2, <2>4, <2>5 DEF Enqueue
    <3> QED
      BY <2>1, <3>1 DEF Next
  <2> QED
    BY <2>2, <2>3, <2>5 DEF vars
<1>4. ASSUME NEW w \in Resolvers, ResolveReminder(w) PROVE Next
  BY <1>4 DEF ResolveReminder, Next
<1>5. ASSUME NEW w \in Senders, AcknowledgeReminder(w) PROVE Next
  BY <1>5 DEF AcknowledgeReminder, Next
<1> QED
  BY <1>1, <1>2, <1>3, <1>4, <1>5, BesideQueues DEF ReminderNext, Threads

\* None of the reminders' steps freezes an account, or changes a row that is at its end
\* once its message was resolved.
LEMMA EndedRowsStay ==
  ASSUME ReminderInv, ReminderNext
  PROVE  /\ frozen' = {}
         /\ \A m \in Messages : Resolved(m) => Resolved(m)'
         /\ \A d \in Deliveries : Resolved(d[1]) /\ delivery[d].status \notin Live => delivery'[d] = delivery[d]
<1>0. TypeInv /\ frozen = {} /\ delivery \in [Deliveries -> Row]
  BY TypeOKParts DEF ReminderInv, TypeInv
<1> DEFINE Stay == \A d \in Deliveries :
                     Resolved(d[1]) /\ delivery[d].status \notin Live => delivery'[d] = delivery[d]
<1>1. ASSUME QuietNext PROVE \A m \in Messages : Resolved(m) => Resolved(m)'
  BY <1>0, <1>1, QuietTables, TableMoves DEF TypeInv, Kept, Resolved
<1>2. CASE UNCHANGED vars
  BY <1>0, <1>2 DEF vars, Resolved
<1>3. CASE QueueStep
  <2>1. QuietNext
    BY <1>3 DEF QueueStep, QuietNext
  <2>2. frozen' = frozen
    BY <1>3 DEF QueueStep, ResolveLost, ResolveRaises, GiveUp, ClaimOutbox, Send, ClaimDelivery,
       SweepOutbox, SweepDeliveries, OutboxFallsDue, DeliveryFallsDue
  <2>3. CASE UNCHANGED delivery
    BY <1>0, <1>1, <2>1, <2>2, <2>3
  <2>4. ASSUME NEW w \in Senders, NEW e \in Deliveries, ClaimDelivery(w, e) PROVE Stay
    BY <1>0, <2>4 DEF ClaimDelivery, SweptAndLent, Claimable, Exhausted, Due
  <2>5. ASSUME SweepDeliveries PROVE Stay
    BY <1>0, <2>5 DEF SweepDeliveries, Swept, Exhausted, Due
  <2>6. ASSUME NEW e \in Deliveries, DeliveryFallsDue(e) PROVE Stay
    BY <1>0, <2>6 DEF DeliveryFallsDue
  <2>7. \/ UNCHANGED delivery \/ SweepDeliveries
        \/ \E w \in Senders, e \in Deliveries : ClaimDelivery(w, e)
        \/ \E e \in Deliveries : DeliveryFallsDue(e)
    BY <1>3 DEF QueueStep, ResolveLost, ResolveRaises, GiveUp, ClaimOutbox, Send,
       SweepOutbox, OutboxFallsDue
  <2> QED
    BY <1>0, <1>1, <2>1, <2>2, <2>3, <2>4, <2>5, <2>6, <2>7
<1>4. CASE ReminderCrash
  <2>1. UNCHANGED <<outbox, delivery, frozen>>
    BY <1>4 DEF ReminderCrash, Crash, vars
  <2> QED
    BY <1>0, <2>1 DEF Resolved
<1>5. ASSUME NEW p \in Schedulers, EnqueueReminder(p)
      PROVE  /\ UNCHANGED <<delivery, frozen>>
             /\ \A m \in Messages : Resolved(m) => Resolved(m)'
  <2> DEFINE k == scheduler[p].occurrence
  <2>1. \/ outbox' = outbox
        \/ outbox[k].status = "absent" /\ outbox' = [outbox EXCEPT ![k] = NewRow(TRUE)]
    BY <1>5 DEF EnqueueReminder
  <2>2. UNCHANGED <<delivery, frozen>>
    BY <1>5 DEF EnqueueReminder
  <2> HIDE DEF k
  <2> QED
    BY <1>0, <2>1, <2>2, TypeOKParts DEF Resolved, TypeInv
<1>6. ASSUME NEW w \in Resolvers, Resolve(w)
      PROVE  frozen' = frozen /\ (\A m \in Messages : Resolved(m) => Resolved(m)') /\ Stay
  <2> DEFINE m == resolver[w].message
  <2>1. /\ m \in Messages /\ outbox[m].status = "processing" /\ outbox'[m].status = "sent"
        /\ \A n \in Messages : n # m => outbox'[n] = outbox[n]
        /\ \A d \in Deliveries : delivery'[d] = delivery[d] \/ d[1] = m
    BY <1>0, <1>6, ResolveTables
  <2>2. frozen' = frozen
    BY <1>6 DEF Resolve
  <2> QED
    BY <2>1, <2>2 DEF Resolved
<1>7. ASSUME NEW w \in Senders, Acknowledge(w)
      PROVE  UNCHANGED <<outbox, frozen>> /\ Stay
  <2> DEFINE e == sender[w].delivery
             s == Outcome(delivery[e], sender[w].outcome)
  <2>1. UNCHANGED <<outbox, frozen>>
    BY <1>7 DEF Acknowledge
  <2>2. \/ delivery' = delivery
        \/ delivery[e].status = "processing" /\ delivery' = [delivery EXCEPT ![e] = Finished(delivery[e], s)]
    BY <1>7 DEF Acknowledge, Held
  <2> HIDE DEF e, s
  <2> QED
    BY <1>0, <2>1, <2>2 DEF Live, Waiting
<1> HIDE DEF Stay
<1>8. frozen' = {} /\ (\A m \in Messages : Resolved(m) => Resolved(m)') /\ Stay
  <2>1. ASSUME NEW p \in Schedulers, EnqueueReminder(p) PROVE Stay
    BY <1>5, <2>1 DEF Stay
  <2>2. ASSUME UNCHANGED outbox PROVE \A m \in Messages : Resolved(m) => Resolved(m)'
    BY <2>2 DEF Resolved
  <2>3. ASSUME QueueStep \/ ReminderCrash \/ UNCHANGED vars
        PROVE  frozen' = {} /\ (\A m \in Messages : Resolved(m) => Resolved(m)') /\ Stay
    BY <1>2, <1>3, <1>4, <2>3 DEF Stay
  <2>4. ASSUME NEW w \in Resolvers, ResolveReminder(w) PROVE Resolve(w)
    BY <2>4 DEF ResolveReminder
  <2>5. ASSUME NEW w \in Senders, AcknowledgeReminder(w) PROVE Acknowledge(w)
    BY <2>5 DEF AcknowledgeReminder
  <2> QED
    BY <1>0, <1>5, <1>6, <1>7, <2>1, <2>2, <2>3, <2>4, <2>5, BesideQueues DEF ReminderNext, Threads
<1> QED
  BY <1>8 DEF Stay

LEMMA ConclusiveStays ==
  ASSUME ReminderInv, ReminderNext, NEW m, NEW outcome, Conclusive(m, outcome)
  PROVE  Conclusive(m, outcome)'
<1>1. m \in Messages /\ Resolved(m)'
  BY EndedRowsStay DEF Conclusive
<1>2. \A r \in Recipients : delivery'[<<m, r>>] = delivery[<<m, r>>]
  BY EndedRowsStay DEF Conclusive, Deliveries
<1> QED
  BY <1>1, <1>2 DEF Conclusive

\* What a step does to the record of one thread.
LEMMA ClosingMoves ==
  ASSUME ReminderInv, ReminderNext, NEW w \in Threads, NEW row, row \in Closing,
         closing' = [closing EXCEPT ![w] = row], ClosingOK(row)'
  PROVE  closing' \in [Threads -> Closing] /\ \A v \in Threads : ClosingOK(closing[v])'
<1>1. closing \in [Threads -> Closing]
  BY DEF ReminderInv, RemindersTyped
<1>2. \A v \in Threads : v # w => closing'[v] = closing[v]
  BY <1>1
<1>3. \A v \in Threads : ClosingOK(closing[v]) /\ closing'[v] = closing[v] => ClosingOK(closing[v])'
  BY ConclusiveStays DEF ClosingOK
<1>4. ClosingOK(closing[w])'
  BY <1>1
<1> QED
  BY <1>1, <1>2, <1>3, <1>4 DEF ReminderInv

LEMMA ClosingStays ==
  ASSUME ReminderInv, ReminderNext, UNCHANGED closing
  PROVE  closing' \in [Threads -> Closing] /\ \A v \in Threads : ClosingOK(closing[v])'
BY ConclusiveStays DEF ReminderInv, RemindersTyped, ClosingOK

\* A thread that is done, or gone.
LEMMA ClosingOpen ==
  ASSUME ReminderInv, ReminderNext, NEW w \in Threads, closing' = [closing EXCEPT ![w] = Open]
  PROVE  closing' \in [Threads -> Closing] /\ \A v \in Threads : ClosingOK(closing[v])'
<1>1. Open \in Closing /\ ClosingOK(Open)'
  BY DEF Open, Closing, ClosingOK
<1> QED
  BY <1>1, ClosingMoves

\* A message that resolves to no delivery has failed.
LEMMA ResolveCloses ==
  ASSUME ReminderInv, ReminderNext, NEW w \in Resolvers, ResolveReminder(w)
  PROVE  closing' \in [Threads -> Closing] /\ \A v \in Threads : ClosingOK(closing[v])'
<1> PICK m : m = resolver[w].message
  OBVIOUS
<1>1. Resolve(w) /\ TypeInv /\ DeliveriesOfResolved
  BY DEF ResolveReminder, ReminderInv
<1>2. /\ m \in Messages /\ outbox[m].status = "processing" /\ outbox'[m].status = "sent"
      /\ \A d \in Deliveries : delivery'[d] = delivery[d] \/ d[2] \in Targets(m)
  BY <1>1, ResolveTables
<1>3. CASE UNCHANGED closing
  BY <1>3, ClosingStays
<1>4. CASE /\ Targets(m) = {}
           /\ closing' = [closing EXCEPT ![w] = [step |-> "write", message |-> m, outcome |-> "failed"]]
  <2> DEFINE row == [step |-> "write", message |-> m, outcome |-> "failed"]
  <2>1. \A d \in Deliveries : d[1] = m => delivery'[d].status = "absent"
    BY <1>1, <1>2, <1>4 DEF DeliveriesOfResolved
  <2>2. \A r \in Recipients : delivery'[<<m, r>>].status = "absent"
    BY <1>2, <2>1 DEF Deliveries
  <2>3. Conclusive(m, "failed")'
    BY <1>2, <2>2 DEF Conclusive, Resolved, Live, Waiting
  <2>4. row \in Closing /\ row.step = "write" /\ row.message = m /\ row.outcome = "failed"
    BY <1>2 DEF Closing
  <2>5. closing' = [closing EXCEPT ![w] = row] /\ w \in Threads
    BY <1>4 DEF Threads
  <2> HIDE DEF row
  <2>6. ClosingOK(row)'
    BY <2>3, <2>4 DEF ClosingOK
  <2> QED
    BY <2>4, <2>5, <2>6, ClosingMoves
<1> QED
  BY <1>3, <1>4 DEF ResolveReminder

\* The sender of a delivery that has ended goes on to read the others.
LEMMA AcknowledgeCloses ==
  ASSUME ReminderInv, ReminderNext, NEW w \in Senders, AcknowledgeReminder(w)
  PROVE  closing' \in [Threads -> Closing] /\ \A v \in Threads : ClosingOK(closing[v])'
<1> PICK d : d = sender[w].delivery
  OBVIOUS
<1>1. d \in Deliveries
  BY DEF AcknowledgeReminder, Acknowledge, ReminderInv, TypeInv, HeldRows
<1>2. CASE UNCHANGED closing
  BY <1>2, ClosingStays
<1>3. CASE closing' = [closing EXCEPT ![w] = [step |-> "read", message |-> d[1], outcome |-> "none"]]
  <2> DEFINE row == [step |-> "read", message |-> d[1], outcome |-> "none"]
  <2>1. row \in Closing /\ ClosingOK(row)' /\ w \in Threads
    BY <1>1 DEF Closing, ClosingOK, Deliveries, Threads
  <2> HIDE DEF row
  <2> QED
    BY <1>3, <2>1, ClosingMoves DEF row
<1> QED
  BY <1>2, <1>3 DEF AcknowledgeReminder

\* When all of them have ended, the outcome is read off them.
LEMMA FinalizeCloses ==
  ASSUME ReminderInv, ReminderNext, NEW w \in Threads, FinalizeRead(w)
  PROVE  closing' \in [Threads -> Closing] /\ \A v \in Threads : ClosingOK(closing[v])'
<1> PICK m : m = closing[w].message
  OBVIOUS
<1> PICK outcome : outcome = IF "sent" \in Outcomes(m) THEN "sent" ELSE "failed"
  OBVIOUS
<1> PICK row : row = [closing[w] EXCEPT !.step = "write", !.outcome = outcome]
  OBVIOUS
<1>1. closing[w] \in Closing /\ m \in Messages
  BY DEF ReminderInv, RemindersTyped, ClosingOK, FinalizeRead
<1>2. CASE ~ AllSettled(m)
  BY <1>2, ClosingOpen DEF FinalizeRead
<1>3. CASE AllSettled(m)
  <2>1. PICK r \in Recipients : delivery[<<m, r>>].status \in Settled
    BY <1>3 DEF AllSettled, Outcomes
  <2>2. Resolved(m)
    <3>1. <<m, r>> \in Deliveries /\ delivery[<<m, r>>].status # "absent"
      BY <1>1, <2>1 DEF Deliveries, Settled
    <3>2. <<m, r>>[1] = m
      OBVIOUS
    <3> QED
      BY <3>1, <3>2 DEF ReminderInv, DeliveriesOfResolved, Resolved
  <2>3. \A s \in Recipients : delivery[<<m, s>>].status \notin Live
    BY <1>3 DEF AllSettled, Outcomes
  <2>4. Conclusive(m, outcome)
    <3>1. "sent" \in Outcomes(m) <=> \E s \in Recipients : delivery[<<m, s>>].status = "sent"
      BY DEF Outcomes
    <3> QED
      BY <1>1, <2>2, <2>3, <3>1 DEF Conclusive
  <2>5. outcome \in {"sent", "failed"}
    OBVIOUS
  <2>6. Conclusive(m, outcome)'
    BY <2>4, ConclusiveStays
  <2>7. row \in Closing /\ row.step = "write" /\ row.message = m /\ row.outcome = outcome
    BY <1>1, <2>5 DEF Closing
  <2>8. closing' = [closing EXCEPT ![w] = row]
    BY <1>3 DEF FinalizeRead
  <2>9. ClosingOK(row)'
    BY <2>6, <2>7 DEF ClosingOK
  <2> QED
    BY <2>7, <2>8, <2>9, ClosingMoves
<1> QED
  BY <1>2, <1>3

LEMMA ClosingsKept ==
  ASSUME ReminderInv, ReminderNext
  PROVE  closing' \in [Threads -> Closing] /\ \A v \in Threads : ClosingOK(closing[v])'
<1>1. ASSUME \/ QueueStep
             \/ \E p \in Schedulers : ReadDue(p) \/ ReadTask(p) \/ CancelClosed(p)
                                      \/ EnqueueReminder(p) \/ FollowUp(p)
             \/ \E edit \in Edits : UpdateTask(edit)
             \/ ReadReminder \/ WriteReminder
      PROVE  UNCHANGED closing
  BY <1>1 DEF QueueStep, rvars, ReadDue, ReadTask, CancelClosed, EnqueueReminder, FollowUp, UpdateTask,
     ReadReminder, WriteReminder
<1>2. CASE ReminderCrash
  <2>1. UNCHANGED closing \/ \E w \in Threads : closing' = [closing EXCEPT ![w] = Open]
    BY <1>2 DEF ReminderCrash, rvars
  <2> QED
    BY <2>1, ClosingOpen, ClosingStays
<1>3. ASSUME NEW w \in Threads, MarkReminder(w)
      PROVE  closing' = [closing EXCEPT ![w] = Open]
  BY <1>3 DEF MarkReminder
<1> QED
  BY <1>1, <1>2, <1>3, ClosingStays, ClosingOpen, ResolveCloses, AcknowledgeCloses, FinalizeCloses
     DEF ReminderNext, Threads

----------------------------------------------------------------------------
(* The reminder, its task, the schedulers and the owner's request.         *)

\* Nothing but a scheduler, a worker's outcome and the owner's request writes them.
LEMMA ReminderIdle ==
  ASSUME \/ QueueStep
         \/ \E w \in Resolvers : ResolveReminder(w)
         \/ \E w \in Senders : AcknowledgeReminder(w) \/ FinalizeRead(w)
  PROVE  UNCHANGED <<reminder, task, scheduler, editor>>
<1>1. ASSUME NEW w \in Resolvers, ResolveReminder(w)
      PROVE  UNCHANGED <<reminder, task, scheduler, editor>>
  BY <1>1 DEF ResolveReminder
<1>2. ASSUME NEW w \in Senders, AcknowledgeReminder(w) \/ FinalizeRead(w)
      PROVE  UNCHANGED <<reminder, task, scheduler, editor>>
  BY <1>2 DEF AcknowledgeReminder, FinalizeRead
<1>3. CASE QueueStep
  BY <1>3 DEF QueueStep, rvars
<1> QED
  BY <1>1, <1>2, <1>3

LEMMA CrashTypes ==
  ASSUME RemindersTyped, ReminderCrash
  PROVE  UNCHANGED <<reminder, task, editor>> /\ scheduler' \in [Schedulers -> Scheduler]
<1>1. Free \in Scheduler
  BY OccurrencesAreNumbers DEF Free, Scheduler
<1> QED
  BY <1>1 DEF ReminderCrash, rvars, RemindersTyped

LEMMA SchedulerTypes ==
  ASSUME RemindersTyped, NEW p \in Schedulers,
         ReadDue(p) \/ ReadTask(p) \/ CancelClosed(p) \/ EnqueueReminder(p) \/ FollowUp(p)
  PROVE  UNCHANGED <<task, editor>> /\ reminder' \in Reminder /\ scheduler' \in [Schedulers -> Scheduler]
<1>1. /\ Free \in Scheduler /\ scheduler[p] \in Scheduler /\ reminder \in Reminder
      /\ \A row \in Scheduler : scheduler' = [scheduler EXCEPT ![p] = row]
                                => scheduler' \in [Schedulers -> Scheduler]
  BY OccurrencesAreNumbers DEF Free, Scheduler, RemindersTyped
<1>2. \A k \in {"cancel", "rpc", "follow"} : [scheduler[p] EXCEPT !.step = k] \in Scheduler
  BY <1>1 DEF Scheduler
<1>3. \A s \in ReminderStatus : [reminder EXCEPT !.status = s] \in Reminder
  BY <1>1 DEF Reminder
<1>4. CASE ReadDue(p)
  BY <1>1, <1>4 DEF ReadDue, Scheduler, Reminder
<1>5. CASE ReadTask(p)
  <2>1. \E k \in {"cancel", "rpc"} : scheduler' = [scheduler EXCEPT ![p] = [scheduler[p] EXCEPT !.step = k]]
    BY <1>5 DEF ReadTask
  <2>2. UNCHANGED <<task, editor, reminder>>
    BY <1>5 DEF ReadTask
  <2> QED
    BY <1>1, <1>2, <2>1, <2>2
<1>6. CASE CancelClosed(p)
  BY <1>1, <1>3, <1>6 DEF CancelClosed, ReminderStatus
<1>7. CASE EnqueueReminder(p)
  <2>1. UNCHANGED <<task, editor>> /\ (reminder' = reminder \/ reminder' = [reminder EXCEPT !.status = "queued"])
    BY <1>7 DEF EnqueueReminder
  <2>2. \/ scheduler' = [scheduler EXCEPT ![p] = Free]
        \/ scheduler' = [scheduler EXCEPT ![p] = [scheduler[p] EXCEPT !.step = "follow"]]
    BY <1>7 DEF EnqueueReminder
  <2> QED
    BY <1>1, <1>2, <1>3, <2>1, <2>2 DEF ReminderStatus
<1>8. CASE FollowUp(p)
  <2>1. UNCHANGED <<task, editor>> /\ (reminder' = reminder \/ reminder' = [reminder EXCEPT !.status = "queued"])
    BY <1>8 DEF FollowUp
  <2> QED
    BY <1>1, <1>3, <1>8, <2>1 DEF FollowUp, ReminderStatus
<1> QED
  BY <1>4, <1>5, <1>6, <1>7, <1>8

\* A worker's outcome moves the reminder on, ends it, or comes too late.
LEMMA MarkTypes ==
  ASSUME RemindersTyped, NEW w \in Threads, MarkReminder(w)
  PROVE  UNCHANGED <<task, scheduler, editor>> /\ reminder' \in Reminder
<1>1. UNCHANGED <<task, scheduler, editor>>
  BY DEF MarkReminder
<1>2. reminder \in Reminder
  BY DEF RemindersTyped
<1>3. AfterSent(reminder.occurrence) \in Reminder /\ [reminder EXCEPT !.status = "failed"] \in Reminder
  BY <1>2 DEF AfterSent, Reminder, ReminderStatus
<1>4. \/ reminder' = reminder \/ reminder' = AfterSent(reminder.occurrence)
      \/ reminder' = [reminder EXCEPT !.status = "failed"]
  BY DEF MarkReminder
<1> QED
  BY <1>1, <1>2, <1>3, <1>4

LEMMA OwnerTypes ==
  ASSUME RemindersTyped, (\E edit \in Edits : UpdateTask(edit)) \/ ReadReminder \/ WriteReminder
  PROVE  /\ UNCHANGED scheduler /\ reminder' \in Reminder
         /\ task' \in [start : Occurrences, closed : BOOLEAN] /\ editor' \in Editor
<1>1. /\ reminder \in Reminder /\ task \in [start : Occurrences, closed : BOOLEAN] /\ editor \in Editor
  BY DEF RemindersTyped
<1>2. ASSUME NEW edit \in Edits, UpdateTask(edit)
      PROVE  /\ UNCHANGED <<scheduler, reminder>>
             /\ task' \in [start : Occurrences, closed : BOOLEAN] /\ editor' \in Editor
  <2>1. UNCHANGED <<scheduler, reminder>> /\ editor' \in Editor
    BY <1>2 DEF UpdateTask, Editor, ReminderStatus
  <2>2. /\ \A k \in Occurrences : [task EXCEPT !.start = k] \in [start : Occurrences, closed : BOOLEAN]
        /\ \A c \in BOOLEAN : [task EXCEPT !.closed = c] \in [start : Occurrences, closed : BOOLEAN]
    BY <1>1
  <2>3. edit \in {"touch", "move", "close", "reopen"}
    BY DEF Edits
  <2>4. \/ task' = task
        \/ \E k \in Occurrences : task' = [task EXCEPT !.start = k]
        \/ \E c \in BOOLEAN : task' = [task EXCEPT !.closed = c]
    BY <1>2, <2>3 DEF UpdateTask
  <2> QED
    BY <1>1, <2>1, <2>2, <2>4
<1>3. CASE ReadReminder
  BY <1>1, <1>3 DEF ReadReminder, Editor, Reminder
<1>4. CASE WriteReminder
  BY <1>1, <1>4 DEF WriteReminder, Editor, NoEdit, Reminder, ReminderStatus
<1> QED
  BY <1>1, <1>2, <1>3, <1>4

LEMMA ReminderTypesKept ==
  ASSUME RemindersTyped, ReminderNext
  PROVE  /\ reminder' \in Reminder /\ task' \in [start : Occurrences, closed : BOOLEAN]
         /\ scheduler' \in [Schedulers -> Scheduler] /\ editor' \in Editor
<1>1. CASE UNCHANGED <<reminder, task, scheduler, editor>>
  BY <1>1 DEF RemindersTyped
<1>2. CASE ReminderCrash
  BY <1>2, CrashTypes DEF RemindersTyped
<1>3. ASSUME NEW p \in Schedulers,
             ReadDue(p) \/ ReadTask(p) \/ CancelClosed(p) \/ EnqueueReminder(p) \/ FollowUp(p)
      PROVE  /\ reminder' \in Reminder /\ task' \in [start : Occurrences, closed : BOOLEAN]
             /\ scheduler' \in [Schedulers -> Scheduler] /\ editor' \in Editor
  BY <1>3, SchedulerTypes DEF RemindersTyped
<1>4. ASSUME NEW w \in Threads, MarkReminder(w)
      PROVE  /\ reminder' \in Reminder /\ task' \in [start : Occurrences, closed : BOOLEAN]
             /\ scheduler' \in [Schedulers -> Scheduler] /\ editor' \in Editor
  BY <1>4, MarkTypes DEF RemindersTyped
<1>5. CASE (\E edit \in Edits : UpdateTask(edit)) \/ ReadReminder \/ WriteReminder
  BY <1>5, OwnerTypes DEF RemindersTyped
<1> QED
  BY <1>1, <1>2, <1>3, <1>4, <1>5, ReminderIdle DEF ReminderNext

LEMMA ReminderInvNext == ReminderInv /\ [ReminderNext]_allvars => ReminderInv'
<1>1. ASSUME ReminderInv, ReminderNext PROVE ReminderInv'
  <2>1. TypeInv'
    BY <1>1, QueueOfReminders, TypeInvNext DEF ReminderInv
  <2>2. DeliveriesOfResolved'
    BY <1>1, QueueOfReminders, ResolvedNext DEF ReminderInv
  <2>3. frozen' = {}
    BY <1>1, EndedRowsStay
  <2> QED
    BY <1>1, <2>1, <2>2, <2>3, ReminderTypesKept, ClosingsKept DEF ReminderInv, RemindersTyped
<1>2. ASSUME ReminderInv, UNCHANGED allvars PROVE ReminderInv'
  <2>1. UNCHANGED vars /\ UNCHANGED rvars
    BY <1>2 DEF allvars
  <2>2. TypeInv'
    BY <1>2, <2>1, TypeInvNext DEF ReminderInv
  <2>3. DeliveriesOfResolved'
    BY <1>2, <2>1, ResolvedNext DEF ReminderInv
  <2> QED
    BY <1>2, <2>1, <2>2, <2>3 DEF ReminderInv, RemindersTyped, ClosingOK, Conclusive, Resolved, vars, rvars
<1> QED
  BY <1>1, <1>2

LEMMA ReminderAlways == ReminderSpec => []ReminderInv
<1> QED
  BY ReminderInitInv, ReminderInvNext, PTL DEF ReminderSpec

----------------------------------------------------------------------------
(* What follows for every number of occurrences, workers and edits.        *)

\* The queues' rows, and the reminder, its task and who works on them, keep
\* their form; the message that is enqueued is the reminder's occurrence.
THEOREM ReminderTypeCorrect == ReminderSpec => []ReminderTypeOK
<1>1. ASSUME ReminderInv PROVE ReminderTypeOK
  <2>1. TypeOK
    BY <1>1, TypeOKParts DEF ReminderInv, TypeInv
  <2>2. RemindersTyped
    BY <1>1 DEF ReminderInv
  <2> QED
    BY <2>1, <2>2, ReminderTypes
<1> QED
  BY <1>1, ReminderAlways, PTL

\* The reminders use the queues as they are: whatever the scheduler, the
\* workers that write an outcome back and the owner do, each of their steps
\* is one of the queues or does not touch them.  What is proved of the queues
\* (whose result is recorded, how often a provider is called, what a
\* delivery may become) holds for a reminder's messages.
THEOREM RemindersRunTheQueue == ReminderSpec => Spec
<1>1. ReminderInit => Init
  BY DEF ReminderInit
<1>2. ReminderInv /\ [ReminderNext]_allvars => [Next]_vars
  BY QueueOfReminders DEF allvars
<1> QED
  BY <1>1, <1>2, ReminderAlways, PTL DEF ReminderSpec, Spec

\* A reminder's deliveries appear with the resolution that commits.
THEOREM ReminderDeliveriesResolved == ReminderSpec => []DeliveriesOfResolved
BY RemindersRunTheQueue, ResolvedAtOnce, PTL

\* Who changes a reminder: the owner's request, which ends with it; a worker
\* that writes an outcome; or a scheduler, for the occurrence it finds.
LEMMA ReminderMoves ==
  ASSUME ReminderInv, ReminderNext
  PROVE  \/ \E w \in Threads : MarkReminder(w)
         \/ reminder' = reminder
         \/ closing' = closing /\ (reminder'.occurrence = reminder.occurrence \/ editor' # editor)
<1>1. reminder \in Reminder
  BY DEF ReminderInv, RemindersTyped
<1>2. ASSUME NEW p \in Schedulers,
             ReadDue(p) \/ ReadTask(p) \/ CancelClosed(p) \/ EnqueueReminder(p) \/ FollowUp(p)
      PROVE  closing' = closing /\ reminder'.occurrence = reminder.occurrence
  <2>1. closing' = closing
    BY <1>2 DEF ReadDue, ReadTask, CancelClosed, EnqueueReminder, FollowUp
  <2>2. \/ reminder' = reminder \/ reminder' = [reminder EXCEPT !.status = "queued"]
        \/ reminder' = [reminder EXCEPT !.status = "cancelled"]
    BY <1>2 DEF ReadDue, ReadTask, CancelClosed, EnqueueReminder, FollowUp
  <2> QED
    BY <1>1, <2>1, <2>2 DEF Reminder
<1>3. CASE WriteReminder
  BY <1>3 DEF WriteReminder, NoEdit
<1>4. CASE (\E edit \in Edits : UpdateTask(edit)) \/ ReadReminder
  BY <1>4 DEF UpdateTask, ReadReminder
<1>5. CASE ReminderCrash
  BY <1>5 DEF ReminderCrash, rvars
<1> QED
  BY <1>2, <1>3, <1>4, <1>5, ReminderIdle DEF ReminderNext

\* The outcome a worker writes is that of the occurrence's deliveries.
LEMMA MarkedHonestly ==
  ASSUME ReminderInv, NEW w \in Threads, MarkReminder(w), reminder' # reminder
  PROVE  LET m == reminder.occurrence IN
           /\ Outcomes(m) \cap Live = {}
           /\ reminder'.status = "failed" <=> "sent" \notin Outcomes(m)
           /\ reminder'.occurrence > m => "sent" \in Outcomes(m)
<1> PICK m : m = reminder.occurrence
  OBVIOUS
<1> PICK outcome : outcome = closing[w].outcome
  OBVIOUS
<1>1. closing[w].message = m
  BY DEF MarkReminder
<1>2. Conclusive(m, outcome)
  BY <1>1 DEF MarkReminder, ReminderInv, ClosingOK
<1>3. Outcomes(m) \cap Live = {}
  BY <1>2 DEF Conclusive, Outcomes
<1>4. outcome = "sent" <=> "sent" \in Outcomes(m)
  BY <1>2 DEF Conclusive, Outcomes
<1>5. m \in Nat /\ reminder \in Reminder
  BY <1>2, OccurrencesAreNumbers DEF Conclusive, ReminderInv, RemindersTyped
<1>6. CASE outcome = "sent"
  <2>1. reminder' = AfterSent(m)
    BY <1>1, <1>6 DEF MarkReminder
  <2> QED
    BY <1>3, <1>4, <1>6, <2>1 DEF AfterSent
<1>7. CASE outcome # "sent"
  <2>1. reminder' = [reminder EXCEPT !.status = "failed"]
    BY <1>1, <1>7 DEF MarkReminder
  <2>2. reminder'.status = "failed" /\ reminder'.occurrence = m
    BY <1>5, <2>1 DEF Reminder
  <2> QED
    BY <1>3, <1>4, <1>5, <1>7, <2>2
<1> QED
  BY <1>6, <1>7

\* A worker records an outcome only when every delivery of that occurrence
\* has ended: success if one was sent, failure if none was.  Between reading
\* the deliveries and writing the reminder nothing about them can change, for
\* they are at their end and the message cannot be resolved again.
THEOREM HonestOutcomes == ReminderSpec => OutcomesAreHonest
<1> DEFINE Honest == WorkerMarks /\ reminder' # reminder =>
                       LET m == reminder.occurrence IN
                         /\ Outcomes(m) \cap Live = {}
                         /\ reminder'.status = "failed" <=> "sent" \notin Outcomes(m)
<1>1. ASSUME ReminderInv, ReminderNext, WorkerMarks, reminder' # reminder PROVE Honest
  <2>1. ~ (closing' = closing)
    BY <1>1 DEF WorkerMarks
  <2>2. PICK w \in Threads : MarkReminder(w)
    BY <1>1, <2>1, ReminderMoves
  <2> QED
    BY <1>1, <2>2, MarkedHonestly
<1>2. ReminderInv /\ [ReminderNext]_allvars => [Honest]_allvars
  BY <1>1
<1> QED
  BY <1>2, ReminderAlways, PTL DEF ReminderSpec, OutcomesAreHonest

\* The reminder moves to a later occurrence only after the one before was
\* notified, or because the owner moved the task.
THEOREM RollsForwardOnceSent == ReminderSpec => RollsForwardAfterSending
<1> DEFINE Rolls == reminder'.occurrence > reminder.occurrence /\ editor' = editor =>
                      "sent" \in Outcomes(reminder.occurrence)
<1>1. ASSUME ReminderInv, ReminderNext, reminder'.occurrence > reminder.occurrence, editor' = editor
      PROVE  "sent" \in Outcomes(reminder.occurrence)
  <2>1. reminder.occurrence \in Nat
    BY <1>1, OccurrencesAreNumbers DEF ReminderInv, RemindersTyped, Reminder
  <2>2. PICK w \in Threads : MarkReminder(w)
    BY <1>1, <2>1, ReminderMoves
  <2> QED
    BY <1>1, <2>1, <2>2, MarkedHonestly
<1>2. ReminderInv /\ [ReminderNext]_allvars => [Rolls]_allvars
  BY <1>1
<1> QED
  BY <1>2, ReminderAlways, PTL DEF ReminderSpec, RollsForwardAfterSending
=============================================================================
