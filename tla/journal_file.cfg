SPECIFICATION Spec
CONSTANTS
  Places = {p1}
  Slots = {s1}
  Registers = {mode}
  Values = {v1}
  Apps = {}
  Ours = {person}
  None = None
  QueueMax = 2
  PerSenderMax = 1
  Reserved = 1
  CompactAt = 1
  Faults = {"short_write", "failed_sync", "torn_crash"}
  MaxFaults = 1
  MaxId = 2
  MaxEntries = 3
PROPERTY
  ImplementsJournal
