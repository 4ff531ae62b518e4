SPECIFICATION ScenarioSpec
CONSTANTS
  Messages = {1, 2}
  Occurrences = {1, 2}
  Recipients = {1, 2}
  Browsers = {2}
  Users <- MCUsers
  Everyone = "all"
  Addressee <- MCAddressee
  Owner <- MCOwnerTwo
  Resolvers = {p1}
  Senders = {s1, s2}
  None = None
  MaxAttempts = 1
  Failures = TRUE
  Schedulers = {c1}
  EditsAllowed = {"touch", "move", "close", "reopen"}
  ListAnswers = TRUE
INVARIANTS ReminderTypeOK DeliveriesOfResolved
PROPERTY OutcomesAreHonest RollsForwardAfterSending
SYMMETRY Symmetry
CHECK_DEADLOCK FALSE
