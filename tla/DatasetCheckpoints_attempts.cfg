SPECIFICATION FairCheckpointSpec
CONSTANTS
  Revisions = {1, 2}
  Builders = {b1, b2}
  NoBuilder = NoBuilder
  MaxMaterializations = 2
  MaxBreaks = 2
INVARIANTS
  PublishedObjectKept LatestIsNewest
PROPERTIES
  CheckpointsSettle
CHECK_DEADLOCK FALSE
