SPECIFICATION FairSpec
CONSTANTS
  Jobs = {j1}
  Workers = {w1, w2}
  Clients = {c1, c2}
  NFiles = 2
  Files <- MCFiles
  Score <- MCScore
  NoJob = NoJob
  NoFile = NoFile
  MaxAttempts = 2
  MaxActive = 1
  MaxStored = 2
  StallsAllowed = FALSE
INVARIANTS
  TypeOK
  AttemptsBounded
  OneWorkerPerJob
  OutcomeMatchesDocuments
PROPERTIES
  OutcomeIsFinal EveryJobSettles
