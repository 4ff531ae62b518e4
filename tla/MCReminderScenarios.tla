------------------------ MODULE MCReminderScenarios ------------------------
(* CalendarReminders for TLC, looked at in one of two ways that together stay *)
(* within its reach: two endpoints without changes, or changes with one.      *)
EXTENDS MCCalendarReminders

VARIABLE scenario \* what this behaviour looks at, chosen once

\* "endpoints": two endpoints and two senders, the owner saves without changing.
\* "edits": one endpoint and one sender at a time, the owner changes the task.
Within ==
  \/ scenario = "endpoints" /\ task = [start |-> 1, closed |-> FALSE]
  \/ /\ scenario = "edits" /\ Cardinality(active) < 2
     /\ \A v, w \in Senders : sender[v].step = "idle" \/ sender[w].step = "idle" \/ v = w

ScenarioInit == ReminderInit /\ scenario \in {"endpoints", "edits"} /\ Within
ScenarioNext == ReminderNext /\ UNCHANGED scenario /\ Within'
ScenarioSpec == ScenarioInit /\ [][ScenarioNext]_<<allvars, scenario>>
=============================================================================
