SPECIFICATION Spec
CONSTANTS
  Places = {p1}
  Slots = {s1}
  Registers = {mode}
  Values = {v1}
  Apps = {a1, a2}
  Ours = {person}
  None = None
  QueueMax = 3
  PerSenderMax = 1
  Reserved = 1
  CompactAt = 3
  Faults = {"torn_crash"}
  MaxFaults = 1
  MaxId = 3
  MaxEntries = 4
INVARIANT IdGivenOnce
