SPECIFICATION SignalsSpec
CHECK_DEADLOCK FALSE
CONSTANTS
  ctrlc = ctrlc
  sigA = sigA
  r1 = r1
  r2 = r2
  NoTask = NoTask
  Tasks = {1, 2, 3}
  Main = 1
  Signals = {ctrlc, sigA}
  CtrlC = ctrlc
  Pris = {0}
  Switchers = {}
  Launchers = {2}
  Reqs = {}
  Ported = {}
  SigTask <- MCSigTask
  SigBit <- MCSigBit
  MaxDelay = 0
  MaxCalls = 0
  OneCaller = TRUE
  HostBreaks = TRUE
  Drained = TRUE
  h1 = h1
  h2 = h2
  Hosts = {h1, h2}
  MAX_OPEN_SOCKETS = 1
  TableLimit = 2
  MaxInt = 4
  MaxId = 3
  Targets = {2}
  EventMasks = {{"ACCEPT", "CLOSE"}, {"READ", "WRITE", "ERROR"}}
  ListensShared = FALSE
SYMMETRY Symmetry
INVARIANTS
  WakeupsExact
  DeadlockIsReal
  NoLiveTaskRefused
  EventsDelivered
PROPERTY
  DescriptorsKept
