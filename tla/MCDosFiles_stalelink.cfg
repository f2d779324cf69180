SPECIFICATION FilesSpec
CHECK_DEADLOCK FALSE
CONSTANTS
  a1 = a1
  a2 = a2
  f1 = f1
  f2 = f2
  plain = plain
  overlaid = overlaid
  n1 = n1
  n2 = n2
  n3 = n3
  n4 = n4
  bad = bad
  stdin = stdin
  stdout = stdout
  Addrs = {stdin, stdout, a1, a2}
  Files = {f1, f2}
  Protected = {f2}
  NULL = NULL
  EOF = EOF
  Byte = Byte
  Tidy = TRUE
  MaxLen = 2
  MaxArgs = 1
  MaxNest = 2
  MaxBlock = 8
  Plain = {plain}
  Overlaid = {overlaid}
  Nodes = {n1, n2, n3, n4, bad}
  Hunks <- MCHunks
  first_hunk <- MCFirst
  Parent <- MCParent
  total_hunks = 4
  NoBlock = NoBlock
  Images <- MCImages
  Starts = {8, 24}
  Layouts <- MCLayouts
  MemWords = 64
  Dirt = 7
SYMMETRY Symmetry
INVARIANT UnloadedRefused
