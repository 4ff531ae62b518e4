SPECIFICATION FairReleaseSpec
CONSTANTS
  Shas = {r1, r2}
  NoSha = NoSha
  FirstSha = r1
  MaxDeploys = 1
  MaxFaults = 1
PROPERTIES
  TrafficIsRestored
CHECK_DEADLOCK FALSE
