SPECIFICATION Spec
CONSTANTS
  MEMCHUNK_SIZE = 2
  Pool <- MCPool
  MaxRequest = 7
  i1 = i1
  i2 = i2
  i3 = i3
  e1 = e1
  e2 = e2
  e3 = e3
  i4 = i4
  Ints = {i1, i2, i3, i4}
  Codeless = {}
  ln_Pri <- MCln_Pri
  NOBODY = NOBODY
  Regs = {0, 1}
  ExecBase = 0
  MaxServers = 1
  Libs = {"dos", "made"}
  Builtin = {"dos"}
  Entries = {e1, e2, e3}
  LibOf <- MCLibOf
  h1 = h1
  h2 = h2
  Hooks = {h1, h2}
  NONE = NONE
  STUB_POOL_SIZE = 8
  STUB_SLOT_SIZE = 6
  MsgPorts = {p}
  OtherLists = {l}
  low = low
  m1 = m1
  m2 = m2
  Nodes = {low, m1, m2}
  Pri <- MCPri
  NULL = NULL
SYMMETRY Symmetry
INVARIANTS ChainSound DrainsTransparent PatchesKept PacketsAnswered
PROPERTIES ChunksAreArena PortsAreQueues
CHECK_DEADLOCK FALSE
