------------------------- MODULE CalendarReminders -------------------------
(***************************************************************************)
(* The in-app reminder of a recurring calendar task, on top of the         *)
(* notification queues: the scheduler turns a due reminder into a message, *)
(* the workers that resolve and send it write the outcome back into the    *)
(* reminder, which then moves to the next occurrence, and the owner edits  *)
(* the task meanwhile.                                                     *)
(*                                                                         *)
(* A message is an occurrence: the deduplication key of a task reminder is *)
(* the reminder and its scheduled_for.  Nothing ties the statements below  *)
(* together but the conditions in their WHERE clauses: every read and      *)
(* every write of the data API is an action.                               *)
(***************************************************************************)
EXTENDS NotificationQueue

CONSTANTS
  Occurrences,  \* 1 .. n: the start times the recurrence rule yields
  Schedulers,   \* worker processes running enqueue_due_calendar_reminders
  EditsAllowed, \* the changes the owner makes: a subset of Edits
  ListAnswers   \* does the data API wrap the row an RPC returns in a list?

Edits == {"touch", "move", "close", "reopen"}

ASSUME ReminderAssumption ==
  /\ IsFiniteSet(Occurrences) /\ Occurrences # {}
  /\ Occurrences = 1 .. Cardinality(Occurrences)
  /\ Messages = Occurrences
  /\ EditsAllowed \subseteq Edits
  /\ ListAnswers \in BOOLEAN

VARIABLES
  reminder,  \* the calendar_task_reminders row: delivery_status and scheduled_for
  task,      \* the calendar_tasks row: the start of the recurrence, closed or not
  scheduler, \* what each scheduler has read
  editor,    \* the owner's request
  closing    \* the message whose reminder each worker thread is to update

rvars == <<reminder, task, scheduler, editor, closing>>
allvars == <<vars, rvars>>

Threads == Resolvers \cup Senders
ReminderStatus == {"scheduled", "queued", "delivered", "failed", "cancelled"}
Free == [step |-> "idle", occurrence |-> 1]
NoEdit == [step |-> "idle", changed |-> FALSE, seen |-> "scheduled"]
Open == [step |-> "none", message |-> None, outcome |-> "none"]

ReminderTypeOK ==
  /\ TypeOK
  /\ reminder \in [status : ReminderStatus, occurrence : Occurrences]
  /\ task \in [start : Occurrences, closed : BOOLEAN]
  /\ scheduler \in [Schedulers -> [step : {"idle", "task", "rpc", "cancel", "follow"},
                                   occurrence : Occurrences]]
  /\ editor \in [step : {"idle", "read", "write"}, changed : BOOLEAN, seen : ReminderStatus]
  /\ closing \in [Threads -> [step : {"none", "read", "write"}, message : Messages \cup {None},
                              outcome : {"none", "sent", "failed"}]]

ReminderInit ==
  /\ Init
  /\ reminder = [status |-> "scheduled", occurrence |-> 1]
  /\ task = [start |-> 1, closed |-> FALSE]
  /\ scheduler = [p \in Schedulers |-> Free]
  /\ editor = NoEdit
  /\ closing = [w \in Threads |-> Open]

----------------------------------------------------------------------------
(* enqueue_due_calendar_reminders.                                         *)

ReadDue(p) ==
  /\ scheduler[p].step = "idle"
  /\ reminder.status = "scheduled"
  /\ scheduler' = [scheduler EXCEPT ![p] = [step |-> "task", occurrence |-> reminder.occurrence]]
  /\ UNCHANGED <<vars, reminder, task, editor, closing>>

ReadTask(p) ==
  /\ scheduler[p].step = "task"
  /\ scheduler' = [scheduler EXCEPT ![p].step = IF task.closed THEN "cancel" ELSE "rpc"]
  /\ UNCHANGED <<vars, reminder, task, editor, closing>>

\* The update names the row only: whatever its status is by now.
CancelClosed(p) ==
  /\ scheduler[p].step = "cancel"
  /\ reminder' = [reminder EXCEPT !.status = "cancelled"]
  /\ scheduler' = [scheduler EXCEPT ![p] = Free]
  /\ UNCHANGED <<vars, task, editor, closing>>

StillDue(k) == reminder.status = "scheduled" /\ reminder.occurrence = k

\* enqueue_calendar_reminder_notification: a message already there is taken for it.
EnqueueReminder(p) ==
  /\ scheduler[p].step = "rpc"
  /\ LET k == scheduler[p].occurrence IN
       IF StillDue(k)
       THEN /\ reminder' = [reminder EXCEPT !.status = "queued"]
            /\ outbox' = IF outbox[k].status = "absent"
                         THEN [outbox EXCEPT ![k] = NewRow(TRUE)] ELSE outbox
            /\ scheduler' = [scheduler EXCEPT
                 ![p] = IF ListAnswers THEN [@ EXCEPT !.step = "follow"] ELSE Free]
       ELSE /\ UNCHANGED <<reminder, outbox>>
            /\ scheduler' = [scheduler EXCEPT ![p] = Free]
  /\ UNCHANGED <<delivery, active, frozen, resolver, sender, accepted, task, editor, closing>>

\* The second transition to "queued", by the row and its status only.
FollowUp(p) ==
  /\ scheduler[p].step = "follow"
  /\ reminder' = IF reminder.status = "scheduled" THEN [reminder EXCEPT !.status = "queued"]
                 ELSE reminder
  /\ scheduler' = [scheduler EXCEPT ![p] = Free]
  /\ UNCHANGED <<vars, task, editor, closing>>

----------------------------------------------------------------------------
(* The workers write the outcome back.                                     *)

Outcomes(m) == {delivery[<<m, r>>].status : r \in Recipients}

\* process_resolution_batch: a message with no delivery fails its reminder.
ResolveReminder(w) ==
  /\ closing[w].step = "none"
  /\ Resolve(w)
  /\ LET m == resolver[w].message IN
       closing' = IF resolver'[w].step = "idle" /\ Targets(m) = {}
                  THEN [closing EXCEPT
                          ![w] = [step |-> "write", message |-> m, outcome |-> "failed"]]
                  ELSE closing
  /\ UNCHANGED <<reminder, task, scheduler, editor>>

\* process_batch: a terminal result that is recorded, and whose answer arrives,
\* leads to finalize_calendar_reminder_deliveries.
AcknowledgeReminder(w) ==
  /\ Acknowledge(w)
  /\ LET d == sender[w].delivery IN
       IF Held(delivery[d], sender[w].gen) /\ delivery'[d].status \in Settled
       THEN \/ closing' = [closing EXCEPT
                             ![w] = [step |-> "read", message |-> d[1], outcome |-> "none"]]
            \/ Failures /\ closing' = closing
       ELSE closing' = closing
  /\ UNCHANGED <<reminder, task, scheduler, editor>>

\* Mutant of AllSettled: the first delivery that ends decides.
SomeSettled(m) == Outcomes(m) \cap Settled # {}

AllSettled(m) == Outcomes(m) \cap Settled # {} /\ Outcomes(m) \cap Live = {}

FinalizeRead(w) ==
  /\ closing[w].step = "read"
  /\ closing' = [closing EXCEPT
       ![w] = IF AllSettled(closing[w].message)
              THEN [@ EXCEPT !.step = "write",
                             !.outcome = IF "sent" \in Outcomes(closing[w].message)
                                         THEN "sent" ELSE "failed"]
              ELSE Open]
  /\ UNCHANGED <<vars, reminder, task, scheduler, editor>>

\* next_task_reminder_time, and the row after a delivery of occurrence k.
AfterSent(k) ==
  IF (k + 1) \in Occurrences
  THEN [status |-> "scheduled", occurrence |-> (k + 1)]
  ELSE [status |-> "delivered", occurrence |-> k]

\* Mutant of MarkReminder: the next occurrence is scheduled whatever the outcome.
MarkAndMoveOn(w) ==
  /\ closing[w].step = "write"
  /\ LET k == closing[w].message IN
       reminder' = IF reminder.occurrence = k THEN AfterSent(k) ELSE reminder
  /\ closing' = [closing EXCEPT ![w] = Open]
  /\ UNCHANGED <<vars, task, scheduler, editor>>

\* mark_calendar_reminder_delivery, where scheduled_for is still the message's.
MarkReminder(w) ==
  /\ closing[w].step = "write"
  /\ LET k == closing[w].message IN
       reminder' = IF reminder.occurrence # k THEN reminder
                   ELSE IF closing[w].outcome = "sent" THEN AfterSent(k)
                   ELSE [reminder EXCEPT !.status = "failed"]
  /\ closing' = [closing EXCEPT ![w] = Open]
  /\ UNCHANGED <<vars, task, scheduler, editor>>

----------------------------------------------------------------------------
(* The owner: update_task, then sync_task_reminder.                        *)

UpdateTask(edit) ==
  /\ edit \in EditsAllowed
  /\ editor.step = "idle"
  /\ CASE edit = "touch"  -> task' = task
       [] edit = "move"   -> \E k \in Occurrences \ {task.start} : task' = [task EXCEPT !.start = k]
       [] edit = "close"  -> ~ task.closed /\ task' = [task EXCEPT !.closed = TRUE]
       [] edit = "reopen" -> task.closed /\ task' = [task EXCEPT !.closed = FALSE]
  /\ editor' = [step |-> "read", changed |-> edit = "move", seen |-> "scheduled"]
  /\ UNCHANGED <<vars, reminder, scheduler, closing>>

ReadReminder ==
  /\ editor.step = "read"
  /\ editor' = [editor EXCEPT !.step = "write", !.seen = reminder.status]
  /\ UNCHANGED <<vars, reminder, task, scheduler, closing>>

\* scheduled_for is always written, from the start of the recurrence.
WriteReminder ==
  /\ editor.step = "write"
  /\ reminder' = [occurrence |-> task.start,
                  status |-> IF task.closed THEN "cancelled"
                             ELSE IF editor.changed \/ editor.seen \in {"cancelled", "failed"}
                             THEN "scheduled" ELSE reminder.status]
  /\ editor' = NoEdit
  /\ UNCHANGED <<vars, task, scheduler, closing>>

----------------------------------------------------------------------------
(* The queues, with nobody's account frozen, no retention cleanup, and no   *)
(* endpoint added while the reminder is on its way.                         *)

ReminderCrash ==
  /\ Failures
  /\ \/ Crash /\ UNCHANGED rvars
     \/ \E w \in Threads :
          /\ closing[w].step # "none"
          /\ closing' = [closing EXCEPT ![w] = Open]
          /\ UNCHANGED <<vars, reminder, task, scheduler, editor>>
     \/ \E p \in Schedulers :
          /\ scheduler[p].step # "idle"
          /\ scheduler' = [scheduler EXCEPT ![p] = Free]
          /\ UNCHANGED <<vars, reminder, task, editor, closing>>

QueueStep ==
  /\ \/ \E w \in Resolvers : \/ ResolveLost(w) \/ ResolveRaises(w) \/ GiveUp(w)
                             \/ closing[w].step = "none" /\ \E m \in Messages : ClaimOutbox(w, m)
     \/ \E w \in Senders : \/ Send(w)
                           \/ closing[w].step = "none" /\ \E d \in Deliveries : ClaimDelivery(w, d)
     \/ SweepOutbox \/ SweepDeliveries
     \/ \E m \in Messages : OutboxFallsDue(m)
     \/ \E d \in Deliveries : DeliveryFallsDue(d)
  /\ UNCHANGED rvars

ReminderNext ==
  \/ QueueStep \/ ReminderCrash
  \/ \E p \in Schedulers : \/ ReadDue(p) \/ ReadTask(p) \/ CancelClosed(p)
                           \/ EnqueueReminder(p) \/ FollowUp(p)
  \/ \E w \in Resolvers : ResolveReminder(w)
  \/ \E w \in Senders : AcknowledgeReminder(w) \/ FinalizeRead(w)
  \/ \E w \in Threads : MarkReminder(w)
  \/ \E edit \in Edits : UpdateTask(edit)
  \/ ReadReminder \/ WriteReminder

ReminderSpec == ReminderInit /\ [][ReminderNext]_allvars

----------------------------------------------------------------------------
(* Properties.                                                             *)

WorkerMarks == \E w \in Threads : closing[w].step = "write" /\ closing'[w].step = "none"

\* A worker records an outcome only when every delivery of that occurrence has
\* ended: success if one was sent, failure if none was.
OutcomesAreHonest ==
  [][WorkerMarks /\ reminder' # reminder =>
       LET m == reminder.occurrence IN
         /\ Outcomes(m) \cap Live = {}
         /\ reminder'.status = "failed" <=> "sent" \notin Outcomes(m)]_allvars

\* The reminder moves to an occurrence only after the one before was notified,
\* or because the owner moved the task.
RollsForwardAfterSending ==
  [][reminder'.occurrence > reminder.occurrence /\ editor' = editor =>
       "sent" \in Outcomes(reminder.occurrence)]_allvars

\* A reminder that was delivered for an occurrence has rolled forward: it is not
\* scheduled for that occurrence again.
ScheduledAnew == reminder.status = "scheduled" => "sent" \notin Outcomes(reminder.occurrence)

\* A queued reminder ends up with an outcome.
QueuedGetsOutcome == reminder.status = "queued" ~> reminder.status # "queued"

\* Polling goes on, begun work ends, time passes.
ReminderFairness ==
  /\ \A m \in Messages : /\ WF_allvars(OutboxFallsDue(m) /\ UNCHANGED rvars)
                         /\ WF_allvars(\E w \in Resolvers : /\ closing[w].step = "none"
                                                            /\ ClaimOutbox(w, m)
                                                            /\ UNCHANGED rvars)
  /\ \A d \in Deliveries : /\ WF_allvars(DeliveryFallsDue(d) /\ UNCHANGED rvars)
                           /\ WF_allvars(\E w \in Senders : /\ closing[w].step = "none"
                                                            /\ ClaimDelivery(w, d)
                                                            /\ UNCHANGED rvars)
  /\ WF_allvars((SweepOutbox \/ SweepDeliveries) /\ UNCHANGED rvars)
  /\ \A w \in Resolvers :
       WF_allvars(\/ ResolveReminder(w) \/ MarkReminder(w)
                  \/ (ResolveLost(w) \/ ResolveRaises(w) \/ GiveUp(w)) /\ UNCHANGED rvars)
  /\ \A w \in Senders :
       WF_allvars(\/ AcknowledgeReminder(w) \/ FinalizeRead(w) \/ MarkReminder(w)
                  \/ Send(w) /\ UNCHANGED rvars)
  /\ \A p \in Schedulers :
       WF_allvars(ReadDue(p) \/ ReadTask(p) \/ CancelClosed(p) \/ EnqueueReminder(p) \/ FollowUp(p))
  /\ WF_allvars(ReadReminder \/ WriteReminder)

FairReminderSpec == ReminderSpec /\ ReminderFairness
=============================================================================
