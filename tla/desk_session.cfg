SPECIFICATION Spec
CONSTANTS
  vshop = vshop
  home = home
  dp = dp
  edp = edp
  code = code
  web = web
  ff = ff
  term = term
  None = None
  Regulars = regulars
  Order <- Alphabet
  AppLabel <- Labels
  Odd = {}
  Desks = {vshop, home}
  Screens = {dp, edp}
  Apps = {term}
  Declared <- Manifests
  Remembers <- NothingKept
  Starts <- Beginnings
  MaxID = 9
INVARIANTS
  TypeOK
  SwitchBringsUp
  RestMeansDone
PROPERTIES
  RenamesInOrder
  HomeKeptWhileStill
  OnePerScreen
  Settles
CHECK_DEADLOCK FALSE
