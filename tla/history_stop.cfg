SPECIFICATION Spec
CONSTANTS
  a1 = a1
  a2 = a2
  a3 = a3
  Apps = {a1}
  Ours = {zde}
  PerSenderMax = 2
  SendersMax = 2
  SnapshotMax = 2
  Files <- Logins
  MaxId = 2
  MaxRev = 3
  Failing = FALSE
PROPERTY SavedThroughClose
