SPECIFICATION Spec
CONSTANTS
  vshop = vshop
  game = game
  haven = haven
  work = work
  quiet = quiet
  Desks = {vshop, haven}
  Modes = {work, quiet}
  Work = work
  Quiet = quiet
  Declares <- TwoDesks
  Decoy = haven
  None = None
  Walks = {}
  Screens = 2
  Handlers = {h1}
  Faults = FALSE
INVARIANT RetryApplies
