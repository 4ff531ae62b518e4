SPECIFICATION FairReminderSpec
CONSTANTS
  Messages = {1, 2}
  Occurrences = {1, 2}
  Recipients = {1}
  Browsers = {}
  Users <- MCUsers
  Everyone = "all"
  Addressee <- MCAddressee
  Owner <- MCOwnerOne
  Resolvers = {p1}
  Senders = {s1}
  None = None
  MaxAttempts = 2
  Failures = TRUE
  Schedulers = {c1}
  EditsAllowed = {}
  ListAnswers = FALSE
PROPERTY QueuedGetsOutcome
CHECK_DEADLOCK FALSE
