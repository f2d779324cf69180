SPECIFICATION SharedSpec
CHECK_DEADLOCK FALSE
CONSTANTS
  t1 = t1
  t2 = t2
  s1 = s1
  s2 = s2
  NoTask = NoTask
  Tasks = {t1, t2}
  Sems = {s1, s2}
  Pri <- MCPri
  Lists <- MCLists
  Wrap = 4
  MaxHolds = 3
  Careful = TRUE
  x = x
  px = px
  y = y
  z = z
  w = w
  fx = fx
  fy = fy
  fz = fz
  fw = fw
  v = v
  fv = fv
  a1 = a1
  a2 = a2
  a3 = a3
  seg1 = seg1
  seg2 = seg2
  seg3 = seg3
  NULL = NULL
  Names = {x, px, y, z, w, v}
  Files = {fx, fy, fz, fw, fv}
  FileOf <- MCFileOf
  LnName <- MCLnName
  AutoInit = {fy, fz}
  NullInit = {fz}
  Broken = {fw, fv}
  LibsDir = {z, v}
  MayRefuse = {fx, fy}
  OwnExpunge = {}
  NullTwice = FALSE
  EarlyEnd = FALSE
  Addrs = {a1, a2, a3}
  BPtrs = {seg1, seg2, seg3}
  MaxOpens = 2
  MaxDepth = 2
SYMMETRY Symmetry
INVARIANTS
  FieldsAgree
  LibrariesKept
PROPERTIES
  LocksKept
  LostOnlyToACopy
