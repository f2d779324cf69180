SPECIFICATION Spec
CHECK_DEADLOCK FALSE
CONSTANTS
  ctrlc = ctrlc
  sigA = sigA
  r1 = r1
  r2 = r2
  NoTask = NoTask
  Tasks = {1, 2}
  Main = 1
  Signals = {ctrlc}
  CtrlC = ctrlc
  Pris = {0}
  Switchers = {}
  Launchers = {}
  Reqs = {}
  Ported = {}
  SigTask <- MCSigTask
  SigBit <- MCSigBit
  MaxDelay = 0
  MaxCalls = 2
  OneCaller = FALSE
  HostBreaks = TRUE
  Drained = TRUE
INVARIANTS
  OwnContinuation
