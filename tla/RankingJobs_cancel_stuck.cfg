SPECIFICATION FairSpec
CONSTANTS
  Jobs = {j1}
  Workers = {w1}
  Clients = {c1}
  NFiles = 1
  Files <- MCFiles
  Score <- MCScore
  NoJob = NoJob
  NoFile = NoFile
  MaxAttempts = 2
  MaxActive = 1
  MaxStored = 2
  StallsAllowed = FALSE
PROPERTIES
  CancellationSettles
