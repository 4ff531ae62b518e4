SPECIFICATION FairAutomaticSpec
CONSTANTS
  Runs = {1, 2, 3}
  Unattended = {1, 2}
  MaxRemoteChanges = 1
  MaxFaults = 2
INVARIANTS
  CommittedObjectKept NoStorageLeft CursorStaysPut SuccessIsCommitted
PROPERTIES
  RunsSettle ClaimsSettle
CHECK_DEADLOCK FALSE
