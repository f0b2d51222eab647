SPECIFICATION Spec
CONSTANTS
  Places = {p1}
  Slots = {s1, s2}
  Registers = {mode}
  Values = {v1}
  Apps = {a1, a2}
  Ours = {person}
  None = None
  QueueMax = 3
  PerSenderMax = 1
  Reserved = 1
  CompactAt = 3
  Faults = {"short_write", "failed_sync", "torn_crash"}
  MaxFaults = 1
  MaxId = 3
  MaxEntries = 4
INVARIANTS
  TypeOK
  QueueOrdered
  RestartForgetsNothing
  FinishedStaysFinished
  IdGivenOnceWhileWhole
  QueueShares
CHECK_DEADLOCK TRUE
SYMMETRY Symmetry
