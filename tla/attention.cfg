SPECIFICATION Spec
CONSTANTS
  Clients = {c1, c2}
  Person = person
  Self = zde
  Handlers = {h1, h2}
  Apps = {a1}
  Ours = {person, zde}
  PerSenderMax = 1
  SendersMax = 1
  SnapshotMax = 1
  QueueMax = 2
  QueuePerSenderMax = 1
  Reserved = 1
  Asked = {1, 2}
  Breaks = TRUE
  MaxId = 2
SYMMETRY Symmetry
INVARIANTS
  TypeOK
  NamesAgree
  OnlyOwnClosed
  DismissedIsNotWaiting
CHECK_DEADLOCK FALSE
