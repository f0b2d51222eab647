SPECIFICATION Spec
CONSTANTS
  None = None
  Conn = {1, 2, 3}
  PidOf <- Pids
  ConnectionsMax = 2
  ListenersMax = 1
  AsksMax = 1
  PopupBacklog = 1
  Copies <- Offered
  Callers = {k1, k2}
  ClipMax = 2
  TTL = 3
  ExpectWindow = 1
  SweepEvery = 2
  Calls = {c1, c2}
  Devices = {d1, d2}
  Keys = {key}
  Asker = {t1, t2}
  Dials = 3
  Joiner = {j1, j2}
  Networks = {n1, n2}
  SavedNetwork = n1
  Activations = 3
  Key = {p1, p2}
  Sessions <- Logins
  UserOf <- Users
  ClassOf <- Classes
  Own = "own"
  Me = "me"
  Inhibitors <- Holders
  WhatOf <- Holds
  ModeOf <- Modes
  HoldsMax = 1
  Worlds <- AtFirst
  Task = {start, f1, f2}
  Start = start
  Paths = {1, 2, 3}
  PathOf <- FileNames
  Texts <- Manifests
  Shapes <- Strips
  ManifestsMax = 2
  PendingMax = 2
  Running = {"connections", "clipboard", "pairing", "buses", "joins", "power", "files", "channel"}
INVARIANTS
  TypeOK
  ConnectionsHold
  ClipForgets
  QuestionsHold
  BusesHold
  PowerHolds
  FilesHold
  ChannelHolds
PROPERTIES
  AskedStays
  Answered
  PutBackIsNotNew
  SavedStays
CHECK_DEADLOCK FALSE
