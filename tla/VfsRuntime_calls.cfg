SPECIFICATION RuntimeSpec
CONSTANTS
  Archives <- MCArchives
  SearchArchives <- MCSearchArchives
  FileArchive <- MCFileArchive
  Paths <- MCPaths
  Lower <- MCLower
  Size <- MCSize
  Handle = {h1, h2}
  Pointer = {a1, a2, a3}
  FindMax = 2
  Process = {p, q}
  File = {2, 3}
  Name = {n1, n2, n3}
  Fd = {3}
  MaxSegs = 3
SYMMETRY Alike
CHECK_DEADLOCK FALSE
INVARIANTS
  ListsOnce RuntimeAgrees SearchWhole ServedWhole NothingLeft
