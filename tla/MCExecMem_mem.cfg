SPECIFICATION GuestSpec
CHECK_DEADLOCK FALSE
CONSTANTS
  MaxWord = 127
  Start = 6
  End = 66
  Redzone = 3
  Quarantine = 16
  Sizes <- mc_Sizes
  Templates <- mc_Templates
  Touched <- mc_Touched
  Strays <- mc_Strays
  CopySizes = {5}
  Careful = TRUE
  large = large
  small = small
  x = x
  y = y
  Stacks = {large, small}
  base <- mc_base
  top <- mc_top
  Sites = {x, y}
  MAX_CALL_STACK_DEPTH = 2
  BELOW_SP_GRACE_BYTES = 1
  Discards = FALSE
  JUNK = JUNK
  ABSENT = ABSENT
  ctrlc = ctrlc
  NoTask = NoTask
  Tasks = {1, 2, 3}
  Main = 1
  Signals = {ctrlc}
  CtrlC = ctrlc
  Switchers = {1, 2}
  Launchers = {2, 3}
  Reqs = {}
  Ported = {}
  SigTask <- mc_NoPort
  SigBit <- mc_NoPort
  MaxDelay = 0
  MaxCalls = 2
  OneCaller = TRUE
  HostBreaks = TRUE
  Drained = TRUE
  Pris = {0, 1}
SYMMETRY Symmetry
INVARIANTS
  NothingLeaks
  NoFalseAlarms
  MarksKnown
  BelowExact
  ReturnsJudged
  NoTaskLost
  OneHookAtATime
  OwnContinuation
