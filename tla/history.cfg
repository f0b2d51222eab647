SPECIFICATION Spec
CONSTANTS
  a1 = a1
  a2 = a2
  a3 = a3
  Apps = {a1, a2, a3}
  Ours = {zde}
  PerSenderMax = 2
  SendersMax = 2
  SnapshotMax = 2
  Files <- Logouts
  MaxId = 4
  MaxRev = 3
  Failing = TRUE
INVARIANTS
  TypeOK
  PrivateStaysInMemory
  SkippedIsCurrent
PROPERTIES
  EvictsCheapest
  SavedOrEnded
