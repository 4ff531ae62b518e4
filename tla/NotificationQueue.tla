------------------------- MODULE NotificationQueue -------------------------
(***************************************************************************)
(* The two durable notification queues of the web backend: the outbox, one *)
(* row for each message, which a resolver turns into deliveries, and the   *)
(* deliveries, one row for each message and endpoint, which a sender hands *)
(* to a provider (in-app, e-mail, web push).                               *)
(*                                                                         *)
(* Both queues lend a row to a worker under a lease and number every       *)
(* lending (claim_generation).  A worker that comes back must show the     *)
(* number: the row accepts a result from its present holder only, while    *)
(* the lease runs.  The provider knows nothing of this, and keeps what it  *)
(* was given by whoever gave it.                                           *)
(*                                                                         *)
(* One action is one database transaction or one provider call.  A batch   *)
(* of claimed rows is as many consecutive claims of one row, so a Resolver *)
(* or a Sender is one claimed row in the hands of a worker process.        *)
(***************************************************************************)
EXTENDS Naturals, FiniteSets

CONSTANTS
  Messages,    \* outbox rows by deduplication key
  Recipients,  \* endpoints: a member's inbox or mailbox, or a browser subscription
  Browsers,    \* the endpoints that are browser subscriptions
  Users,
  Everyone,    \* addressee of a message with no user_id
  Addressee,   \* notification_outbox.user_id of each message
  Owner,       \* the user an endpoint belongs to
  Resolvers, Senders,
  None,
  MaxAttempts, \* max_attempts of both tables
  Failures     \* may workers crash and calls fail?

ASSUME QueueAssumption ==
  /\ MaxAttempts \in Nat \ {0}
  /\ Browsers \subseteq Recipients
  /\ Owner \in [Recipients -> Users]
  /\ Addressee \in [Messages -> Users \cup {Everyone}]
  /\ Everyone \notin Users
  /\ None \notin Messages
  /\ None \notin Messages \X Recipients
  /\ Failures \in BOOLEAN

VARIABLES
  outbox,    \* notification_outbox, by message
  delivery,  \* notification_deliveries, by message and endpoint
  active,    \* endpoints of an active member, for a browser not revoked
  frozen,    \* users with account_status = deletion_pending
  resolver,  \* the outbox row each resolver thread holds
  sender,    \* the delivery row each sender thread holds
  accepted   \* generations of each delivery whose send the provider accepted

vars == <<outbox, delivery, active, frozen, resolver, sender, accepted>>

Deliveries == Messages \X Recipients

Waiting == {"pending", "failed"}
Live    == Waiting \cup {"processing"}
Settled == {"sent", "dead"}
RowStatus == Live \cup Settled \cup {"absent", "purged"}

\* due: available_at has passed for a waiting row, the lease for a row in processing.
Row == [status : RowStatus, attempts : 0 .. MaxAttempts, gen : 0 .. MaxAttempts + 1,
        due : BOOLEAN]
NoRow == [status |-> "absent", attempts |-> 0, gen |-> 0, due |-> FALSE]
NewRow(now) == [status |-> "pending", attempts |-> 0, gen |-> 0, due |-> now]

FreeResolver == [step |-> "idle", message |-> None, gen |-> 0]
FreeSender == [step |-> "idle", delivery |-> None, gen |-> 0, outcome |-> "none"]

TypeOK ==
  /\ outbox \in [Messages -> Row]
  /\ delivery \in [Deliveries -> Row]
  /\ active \subseteq Recipients
  /\ frozen \subseteq Users
  /\ resolver \in [Resolvers -> [step : {"idle", "resolve", "giveUp"},
                                 message : Messages \cup {None}, gen : Nat]]
  /\ sender \in [Senders -> [step : {"idle", "send", "acknowledge"},
                             delivery : Deliveries \cup {None}, gen : Nat,
                             outcome : {"none", "sent", "retry", "dead"}]]
  /\ accepted \in [Deliveries -> SUBSET Nat]

Init ==
  /\ outbox = [m \in Messages |-> NoRow]
  /\ delivery = [d \in Deliveries |-> NoRow]
  /\ active \in SUBSET Recipients
  /\ frozen = {}
  /\ resolver = [w \in Resolvers |-> FreeResolver]
  /\ sender = [w \in Senders |-> FreeSender]
  /\ accepted = [d \in Deliveries |-> {}]

----------------------------------------------------------------------------
(* What the two tables have in common: claiming and finishing a row.       *)

Due(row) == row.status \in Live /\ row.due

\* Mutant of Claimable: a row is claimed once more than max_attempts.
ClaimableOnceMore(row) == Due(row) /\ row.attempts <= MaxAttempts

Claimable(row) == Due(row) /\ row.attempts < MaxAttempts

\* Mutant of Exhausted: the last attempt is not swept, and never claimed either.
ExhaustedBeyond(row) == Due(row) /\ row.attempts > MaxAttempts

Exhausted(row) == Due(row) /\ row.attempts >= MaxAttempts

Lent(row) ==
  [status |-> "processing", attempts |-> row.attempts + 1, gen |-> row.gen + 1, due |-> FALSE]

Finished(row, status) == [row EXCEPT !.status = status, !.due = FALSE]

\* Mutants of Held: any holder may finish, a finished row may be finished again.
HeldByAnyone(row, g) == row.status = "processing" /\ ~ row.due
HeldForEver(row, g) == row.gen = g /\ ~ row.due

\* The row is lent to the claim numbered g and its lease has not run out.
Held(row, g) == row.status = "processing" /\ row.gen = g /\ ~ row.due

\* A claim call: the sweep of exhausted rows, then the claim of the row x.
SweptAndLent(table, x) ==
  [y \in DOMAIN table |-> IF y = x THEN Lent(table[y])
                          ELSE IF Exhausted(table[y]) THEN Finished(table[y], "dead") ELSE table[y]]
Swept(table) ==
  [y \in DOMAIN table |-> IF Exhausted(table[y]) THEN Finished(table[y], "dead") ELSE table[y]]

\* Rows of a frozen user: guard_account_work167 aborts a transaction that writes one.
OutboxGuarded(m) == Addressee[m] \in frozen
DeliveryGuarded(d) == Owner[d[2]] \in frozen

----------------------------------------------------------------------------
(* The outbox.                                                             *)

Enqueue(m) ==
  /\ outbox[m].status = "absent"
  /\ ~ OutboxGuarded(m)
  /\ \E now \in BOOLEAN : outbox' = [outbox EXCEPT ![m] = NewRow(now)]
  /\ UNCHANGED <<delivery, active, frozen, resolver, sender, accepted>>

\* claim_notification_outbox_v2.
ClaimOutbox(w, m) ==
  /\ resolver[w].step = "idle"
  /\ Claimable(outbox[m])
  /\ \A n \in Messages : Due(outbox[n]) => ~ OutboxGuarded(n)
  /\ outbox' = SweptAndLent(outbox, m)
  /\ resolver' = [resolver EXCEPT
       ![w] = [step |-> "resolve", message |-> m, gen |-> Lent(outbox[m]).gen]]
  /\ UNCHANGED <<delivery, active, frozen, sender, accepted>>

\* The same call when it finds nothing to claim.
SweepOutbox ==
  /\ \E m \in Messages : Exhausted(outbox[m])
  /\ \A m \in Messages : Due(outbox[m]) => ~ OutboxGuarded(m) /\ ~ Claimable(outbox[m])
  /\ outbox' = Swept(outbox)
  /\ UNCHANGED <<delivery, active, frozen, resolver, sender, accepted>>

\* Endpoints the message is for now.
Targets(m) == {r \in active : Addressee[m] \in {Everyone, Owner[r]}}

Materialized(m) ==
  [d \in Deliveries |-> IF d[1] = m /\ d[2] \in Targets(m) /\ delivery[d].status = "absent"
                        THEN NewRow(TRUE) ELSE delivery[d]]

\* Mutant of ResolveRow: the guard on rows of a frozen user is missing.
ResolveRowUnguarded(w, m) ==
  /\ Held(outbox[m], resolver[w].gen)
  /\ outbox' = [outbox EXCEPT ![m] = Finished(@, "sent")]
  /\ delivery' = Materialized(m)

\* resolve_notification_outbox_v3 commits: the deliveries and "sent", together.
ResolveRow(w, m) ==
  /\ Held(outbox[m], resolver[w].gen)
  /\ \A r \in Targets(m) : ~ DeliveryGuarded(<<m, r>>)
  /\ ~ OutboxGuarded(m)
  /\ outbox' = [outbox EXCEPT ![m] = Finished(@, "sent")]
  /\ delivery' = Materialized(m)

\* The call answers, or it commits and the answer is lost.
Resolve(w) ==
  /\ resolver[w].step = "resolve"
  /\ ResolveRow(w, resolver[w].message)
  /\ \/ resolver' = [resolver EXCEPT ![w] = FreeResolver]
     \/ Failures /\ resolver' = [resolver EXCEPT ![w] = [@ EXCEPT !.step = "giveUp"]]
  /\ UNCHANGED <<active, frozen, sender, accepted>>

\* OutboxOwnershipLost: the row is left to its present holder.
ResolveLost(w) ==
  /\ resolver[w].step = "resolve"
  /\ ~ Held(outbox[resolver[w].message], resolver[w].gen)
  /\ resolver' = [resolver EXCEPT ![w] = FreeResolver]
  /\ UNCHANGED <<outbox, delivery, active, frozen, sender, accepted>>

\* Mutant of ResolveRaises: the deliveries of a resolution that fails are kept.
ResolveRaisesHalfway(w) ==
  /\ resolver[w].step = "resolve"
  /\ Failures /\ Held(outbox[resolver[w].message], resolver[w].gen)
  /\ resolver' = [resolver EXCEPT ![w] = [@ EXCEPT !.step = "giveUp"]]
  /\ delivery' = Materialized(resolver[w].message)
  /\ UNCHANGED <<outbox, active, frozen, sender, accepted>>

\* Any other exception: the call fails, or the transaction writes a guarded row.
ResolveRaises(w) ==
  /\ resolver[w].step = "resolve"
  /\ \/ Failures
     \/ OutboxGuarded(resolver[w].message)
     \/ /\ Held(outbox[resolver[w].message], resolver[w].gen)
        /\ \E r \in Targets(resolver[w].message) : DeliveryGuarded(<<resolver[w].message, r>>)
  /\ resolver' = [resolver EXCEPT ![w] = [@ EXCEPT !.step = "giveUp"]]
  /\ UNCHANGED <<outbox, delivery, active, frozen, sender, accepted>>

\* finish_notification_outbox_v2 with outcome "retry", or its claim is lost.
GiveUp(w) ==
  /\ resolver[w].step = "giveUp"
  /\ LET m == resolver[w].message IN
       IF Held(outbox[m], resolver[w].gen) /\ ~ OutboxGuarded(m)
       THEN outbox' = [outbox EXCEPT
              ![m] = Finished(@, IF @.attempts >= MaxAttempts THEN "dead" ELSE "failed")]
       ELSE outbox' = outbox
  /\ resolver' = [resolver EXCEPT ![w] = FreeResolver]
  /\ UNCHANGED <<delivery, active, frozen, sender, accepted>>

----------------------------------------------------------------------------
(* The deliveries.                                                         *)

\* claim_notification_deliveries_v2.
ClaimDelivery(w, d) ==
  /\ sender[w].step = "idle"
  /\ Claimable(delivery[d])
  /\ \A e \in Deliveries : Due(delivery[e]) => ~ DeliveryGuarded(e)
  /\ delivery' = SweptAndLent(delivery, d)
  /\ sender' = [sender EXCEPT
       ![w] = [step |-> "send", delivery |-> d, gen |-> Lent(delivery[d]).gen, outcome |-> "none"]]
  /\ UNCHANGED <<outbox, active, frozen, resolver, accepted>>

SweepDeliveries ==
  /\ \E d \in Deliveries : Exhausted(delivery[d])
  /\ \A d \in Deliveries : Due(delivery[d]) => ~ DeliveryGuarded(d) /\ ~ Claimable(delivery[d])
  /\ delivery' = Swept(delivery)
  /\ UNCHANGED <<outbox, active, frozen, resolver, sender, accepted>>

Report(w, outcome) ==
  sender' = [sender EXCEPT ![w] = [@ EXCEPT !.step = "acknowledge", !.outcome = outcome]]

\* The provider takes the notification; the sender may not learn of it.
SendAccepted(w, d) ==
  /\ d[2] \in active /\ ~ DeliveryGuarded(d)
  /\ accepted' = [accepted EXCEPT ![d] = @ \cup {sender[w].gen}]
  /\ Report(w, "sent") \/ (Failures /\ Report(w, "retry"))
  /\ active' = active

\* It is refused for good (a browser's provider may say the endpoint is gone),
\* or fails, or the account fence refuses the work.
SendRefused(w, d) ==
  /\ \/ d[2] \notin active /\ Report(w, "dead") /\ active' = active
     \/ Failures /\ Report(w, "dead") /\ active' = active
     \/ d[2] \in Browsers /\ ~ DeliveryGuarded(d) /\ Report(w, "dead") /\ active' = active \ {d[2]}
     \/ (Failures \/ DeliveryGuarded(d)) /\ Report(w, "retry") /\ active' = active
  /\ UNCHANGED accepted

\* deliver_notification, without looking at the lease: a late sender still sends.
Send(w) ==
  /\ sender[w].step = "send"
  /\ SendAccepted(w, sender[w].delivery) \/ SendRefused(w, sender[w].delivery)
  /\ UNCHANGED <<outbox, delivery, frozen, resolver>>

Outcome(row, outcome) ==
  IF outcome = "sent" THEN "sent"
  ELSE IF outcome = "dead" \/ row.attempts >= MaxAttempts THEN "dead"
  ELSE "pending"

\* finish_notification_delivery_v2, or its claim is lost.
Acknowledge(w) ==
  /\ sender[w].step = "acknowledge"
  /\ LET d == sender[w].delivery IN
       IF Held(delivery[d], sender[w].gen) /\ ~ DeliveryGuarded(d)
       THEN delivery' = [delivery EXCEPT
              ![d] = Finished(@, Outcome(@, sender[w].outcome))]
       ELSE delivery' = delivery
  /\ sender' = [sender EXCEPT ![w] = FreeSender]
  /\ UNCHANGED <<outbox, active, frozen, resolver, accepted>>

----------------------------------------------------------------------------
(* Everything around the workers.                                          *)

\* A process dies, or a finish call fails and is given up.
Crash ==
  /\ Failures
  /\ \/ \E w \in Resolvers :
          /\ resolver[w].step # "idle"
          /\ resolver' = [resolver EXCEPT ![w] = FreeResolver]
          /\ UNCHANGED sender
     \/ \E w \in Senders :
          /\ sender[w].step # "idle"
          /\ sender' = [sender EXCEPT ![w] = FreeSender]
          /\ UNCHANGED resolver
  /\ UNCHANGED <<outbox, delivery, active, frozen, accepted>>

\* A lease runs out or a retry falls due.
OutboxFallsDue(m) ==
  /\ outbox[m].status \in Live /\ ~ outbox[m].due
  /\ outbox' = [outbox EXCEPT ![m] = [@ EXCEPT !.due = TRUE]]
  /\ UNCHANGED <<delivery, active, frozen, resolver, sender, accepted>>

DeliveryFallsDue(d) ==
  /\ delivery[d].status \in Live /\ ~ delivery[d].due
  /\ delivery' = [delivery EXCEPT ![d] = [@ EXCEPT !.due = TRUE]]
  /\ UNCHANGED <<outbox, active, frozen, resolver, sender, accepted>>

Stopped(row) == [Finished(row, "dead") EXCEPT !.gen = @ + 1]

\* fence_account_jobs167, then account_status = deletion_pending, in one transaction.
Freeze(u) ==
  /\ u \notin frozen
  /\ outbox' = [m \in Messages |-> IF Addressee[m] = u /\ outbox[m].status \in Live
                                   THEN Stopped(outbox[m]) ELSE outbox[m]]
  /\ delivery' = [d \in Deliveries |-> IF Owner[d[2]] = u /\ delivery[d].status \in Live
                                       THEN Stopped(delivery[d]) ELSE delivery[d]]
  /\ frozen' = frozen \cup {u}
  /\ UNCHANGED <<active, resolver, sender, accepted>>

\* reactivate_account167 before the recovery deadline.
Reactivate(u) ==
  /\ u \in frozen
  /\ frozen' = frozen \ {u}
  /\ UNCHANGED <<outbox, delivery, active, resolver, sender, accepted>>

\* A membership or a subscription comes or goes.
Subscribe(r) ==
  /\ Owner[r] \notin frozen
  /\ active' = IF r \in active THEN active \ {r} ELSE active \cup {r}
  /\ UNCHANGED <<outbox, delivery, frozen, resolver, sender, accepted>>

\* cleanup_notification_delivery_data, one expired row at a time.
CleanupDelivery(d) ==
  /\ delivery[d].status \in Settled /\ ~ DeliveryGuarded(d)
  /\ delivery' = [delivery EXCEPT ![d] = [@ EXCEPT !.status = "purged"]]
  /\ UNCHANGED <<outbox, active, frozen, resolver, sender, accepted>>

CleanupMessage(m) ==
  /\ outbox[m].status \in Settled /\ ~ OutboxGuarded(m)
  /\ \A r \in Recipients : delivery[<<m, r>>].status \notin Live
  /\ outbox' = [outbox EXCEPT ![m] = [@ EXCEPT !.status = "purged"]]
  /\ UNCHANGED <<delivery, active, frozen, resolver, sender, accepted>>

----------------------------------------------------------------------------
Next ==
  \/ \E m \in Messages : Enqueue(m) \/ OutboxFallsDue(m) \/ CleanupMessage(m)
  \/ \E w \in Resolvers : \/ \E m \in Messages : ClaimOutbox(w, m)
                          \/ Resolve(w) \/ ResolveLost(w) \/ ResolveRaises(w) \/ GiveUp(w)
  \/ SweepOutbox \/ SweepDeliveries
  \/ \E w \in Senders : \/ \E d \in Deliveries : ClaimDelivery(w, d)
                        \/ Send(w) \/ Acknowledge(w)
  \/ \E d \in Deliveries : DeliveryFallsDue(d) \/ CleanupDelivery(d)
  \/ \E u \in Users : Freeze(u) \/ Reactivate(u)
  \/ \E r \in Recipients : Subscribe(r)
  \/ Crash

Spec == Init /\ [][Next]_vars

\* Time passes, the worker processes keep polling, and a call that was begun ends.
Fairness ==
  /\ \A m \in Messages : /\ WF_vars(OutboxFallsDue(m))
                         /\ WF_vars(\E w \in Resolvers : ClaimOutbox(w, m))
  /\ \A d \in Deliveries : /\ WF_vars(DeliveryFallsDue(d))
                           /\ WF_vars(\E w \in Senders : ClaimDelivery(w, d))
  /\ WF_vars(SweepOutbox) /\ WF_vars(SweepDeliveries)
  /\ \A w \in Resolvers : WF_vars(Resolve(w) \/ ResolveLost(w) \/ ResolveRaises(w) \/ GiveUp(w))
  /\ \A w \in Senders : WF_vars(Send(w) \/ Acknowledge(w))

FairSpec == Spec /\ Fairness

----------------------------------------------------------------------------
(* Properties.                                                             *)

\* A delivery recorded as sent was accepted by the provider under its present
\* claim: no late worker writes its result over another worker's claim.
SentByPresentClaim ==
  \A d \in Deliveries : delivery[d].status = "sent" => delivery[d].gen \in accepted[d]

\* Two workers may hold the same delivery, never the same claim of it.
OneHolderPerClaim ==
  \A v, w \in Senders :
    /\ v # w /\ sender[v].step # "idle" /\ sender[w].step # "idle"
    /\ sender[v].delivery = sender[w].delivery
    => sender[v].gen # sender[w].gen

\* Deliveries exist only for a message whose resolution committed: a resolution
\* that fails or loses its lease leaves none behind.
DeliveriesOfResolved ==
  \A d \in Deliveries :
    delivery[d].status # "absent" => outbox[d[1]].status \in {"sent", "purged"}

\* No row of a user whose account is frozen waits for a worker or is with one,
\* also when a message for everyone is resolved after the freeze.
NoWorkForFrozen ==
  /\ \A m \in Messages : OutboxGuarded(m) => outbox[m].status \notin Live
  /\ \A d \in Deliveries : DeliveryGuarded(d) => delivery[d].status \notin Live

\* Every message is resolved or given up, and every delivery sent or given up,
\* whatever crashes: each crash costs an attempt, and attempts are bounded.
EveryRowSettles ==
  /\ \A m \in Messages : outbox[m].status \in Live ~> outbox[m].status \notin Live
  /\ \A d \in Deliveries : delivery[d].status \in Live ~> delivery[d].status \notin Live

\* One member's frozen account does not keep a message from the other members:
\* where nothing else fails, a resolution that holds its claim does not raise
\* while someone who is not frozen is to be notified.
OthersStillNotified ==
  [][\A w \in Resolvers :
       (/\ resolver[w].step = "resolve" /\ resolver'[w].step = "giveUp"
        /\ Held(outbox[resolver[w].message], resolver[w].gen))
       => \A r \in Targets(resolver[w].message) : Owner[r] \in frozen]_vars

\* What the queue promises for each delivery, whatever becomes of its workers.
PhaseOf(row) ==
  CASE row.status = "absent" -> "none"
    [] row.status \in Live -> "open"
    [] row.status = "sent" -> "done"
    [] row.status = "dead" -> "dropped"
    [] row.status = "purged" -> "forgotten"

Promise == INSTANCE AtLeastOnce WITH
  Items <- Deliveries,
  phase <- [d \in Deliveries |-> PhaseOf(delivery[d])],
  claims <- [d \in Deliveries |-> delivery[d].attempts],
  effects <- accepted

\* Deliveries are made at least once if they are recorded as made, at most once
\* for each claim, and MaxAttempts times at most.
DeliveredAtLeastOnce == Promise!Spec
=============================================================================
