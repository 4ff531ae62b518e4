SPECIFICATION Spec
CONSTANTS
  Jobs = {j1, j2}
  Workers = {w1, w2}
  Clients = {c1}
  NFiles = 1
  Files <- MCFiles
  Score <- MCScore
  NoJob = NoJob
  NoFile = NoFile
  MaxAttempts = 2
  MaxActive = 2
  MaxStored = 2
  StallsAllowed = TRUE
SYMMETRY Symmetric
INVARIANTS
   ProgressBounded
CONSTRAINT OneJobWhenStalled
