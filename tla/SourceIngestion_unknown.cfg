SPECIFICATION FairIngestionSpec
CONSTANTS
  Runs = {1}
  Unattended = {}
  MaxRemoteChanges = 1
  MaxFaults = 1
PROPERTY OutcomeReconciled
CHECK_DEADLOCK FALSE
