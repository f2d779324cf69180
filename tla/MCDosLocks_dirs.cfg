SPECIFICATION DirsSpec
CHECK_DEADLOCK FALSE
CONSTANTS
  Volumes = {"SYS"}
  AssignNames = {"WORK"}
  Names = {1, 2}
  Addrs = {a1, a2, a3}
  Zero = Zero
  a1 = a1
  a2 = a2
  a3 = a3
  Tree <- mc_Tree
  Assigned <- mc_Assigned
  StartDir <- mc_StartDir
  Paths <- mc_Paths
  Fits = {1}
  HeapMayFail = TRUE
  MaxChanges = 1
  Sources <- mc_Sources
  Later <- mc_Later
  TextNames <- mc_TextNames
  DestLens = {6, 20}
  MAX_PATTERN_LEN = 12
  DECODE_BYTE_BUDGET = 12
  Lines <- mc_Lines
  Templates <- mc_Templates
  LaterTemplates <- mc_LaterTemplates
  Numbers = {"7"}
  Supplied = {99}
  HeapSize = 5
SYMMETRY Symmetry
INVARIANTS
  LocksOwned
  CurrentDirKept
  ScansComplete
  TextsExact
