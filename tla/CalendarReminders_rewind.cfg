SPECIFICATION ReminderSpec
CONSTANTS
  Messages = {1, 2}
  Occurrences = {1, 2}
  Recipients = {1}
  Browsers = {}
  Users <- MCUsers
  Everyone = "all"
  Addressee <- MCAddressee
  Owner <- MCOwnerOne
  Resolvers = {p1}
  Senders = {s1}
  None = None
  MaxAttempts = 1
  Failures = FALSE
  Schedulers = {c1}
  EditsAllowed = {"touch"}
  ListAnswers = FALSE
INVARIANT ScheduledAnew
CHECK_DEADLOCK FALSE
