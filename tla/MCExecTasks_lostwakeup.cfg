SPECIFICATION Spec
CHECK_DEADLOCK FALSE
CONSTANTS
  ctrlc = ctrlc
  sigA = sigA
  r1 = r1
  r2 = r2
  NoTask = NoTask
  Tasks = {1, 2}
  Main = 1
  Signals = {ctrlc}
  CtrlC = ctrlc
  Pris = {0}
  Switchers = {1}
  Launchers = {}
  Reqs = {}
  Ported = {}
  SigTask <- MCSigTask
  SigBit <- MCSigBit
  MaxDelay = 0
  MaxCalls = 0
  OneCaller = TRUE
  HostBreaks = TRUE
  Drained = TRUE
INVARIANTS
  DeadlockIsReal
