SPECIFICATION Spec
CONSTANTS
  Clients = {c1}
  Person = person
  Self = zde
  Handlers = {h1, h2}
  Apps = {a1}
  Ours = {person, zde}
  PerSenderMax = 3
  SendersMax = 1
  SnapshotMax = 1
  QueueMax = 4
  QueuePerSenderMax = 4
  Reserved = 0
  Asked = {9}
  Breaks = FALSE
  MaxId = 2
INVARIANT OneItemPerDownload
CHECK_DEADLOCK FALSE
