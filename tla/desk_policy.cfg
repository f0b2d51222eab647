SPECIFICATION Spec
CONSTANTS
  vshop = vshop
  game = game
  haven = haven
  work = work
  quiet = quiet
  Desks = {vshop, game, haven}
  Modes = {work, quiet}
  Work = work
  Quiet = quiet
  Declares <- ThreeDesks
  Decoy = haven
  None = None
  Walks = {haven}
  Screens = 2
  Handlers = {h1}
  Faults = TRUE
INVARIANTS
  TypeOK
  LentAndOwn
  PolicyFollowsSwitch
PROPERTIES
  PanicGivesBack
