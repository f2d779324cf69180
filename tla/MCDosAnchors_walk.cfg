SPECIFICATION ASpec
CHECK_DEADLOCK FALSE
CONSTANTS
  Volumes = {"SYS"}
  AssignNames = {}
  Names = {1, 2}
  Addrs = {a1, a2, a3, a4}
  Zero = Zero
  a1 = a1
  a2 = a2
  a3 = a3
  a4 = a4
  Tree <- mc_Tree
  Assigned <- mc_Assigned
  StartDir <- mc_StartDir
  Paths <- mc_Paths
  Fits = {}
  HeapMayFail = FALSE
  MaxChanges = 1
  Anchors = {ap1}
  ap1 = ap1
  Patterns <- mc_Patterns
  BufferShort = FALSE
SYMMETRY Symmetry
INVARIANTS
  ScansOwnLocks
  WalkIsTour
