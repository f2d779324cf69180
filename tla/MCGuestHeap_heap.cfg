SPECIFICATION RuntimeSpec
CHECK_DEADLOCK FALSE
CONSTANTS
  MaxWord <- mc_MaxWord
  Start <- mc_Start
  End <- mc_End
  Requests <- mc_Requests
  Strays <- mc_Strays
  RedzoneSizes = {0, 3}
  Budgets = {0, 8, 13}
  Reservations <- mc_Reservations
  History = 2
  ctrlc = ctrlc
  sigA = sigA
  r1 = r1
  r2 = r2
  NoTask = NoTask
  Tasks = {1, 2}
  Main = 1
  Signals = {ctrlc, sigA}
  CtrlC = ctrlc
  Pris = {0}
  Switchers = {}
  Launchers = {}
  Reqs = {r1, r2}
  Ported = {r1, r2}
  SigTask <- mc_SigTask
  SigBit <- mc_SigBit
  MaxDelay = 2
  MaxCalls = 0
  OneCaller = TRUE
  HostBreaks = FALSE
  Drained = TRUE
INVARIANTS
  Partition
  QuarantineExact
  RecordsRight
  CompletesOnce
  OwnersAlive
PROPERTIES
  HeapIsArena
  LoopsEnd
