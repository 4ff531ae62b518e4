SPECIFICATION Spec
CONSTANTS
  Messages = {"m1"}
  Recipients = {1, 2}
  Browsers = {2}
  Users <- MCUsers
  Everyone = "all"
  Addressee <- MCOneForAll
  Owner <- MCOwner
  Resolvers = {p1}
  Senders = {s1}
  None = None
  MaxAttempts = 2
  Failures = FALSE
PROPERTY OthersStillNotified
CHECK_DEADLOCK FALSE
