SPECIFICATION FairSpec
CONSTANTS
  p1 = p1
  p2 = p2
  NoProc = NoProc
  Proc = {p1, p2}
  Piece <- MCPiece
  Pieces <- MCPieces
  Scratch <- MCScratch
  Inputs <- MCInputs
  StageOf <- MCStageOf
  Stubs <- MCStubs
  FrontActive <- MCFrontActive
  PoolSize = 2
  LockMayFail = TRUE
  Target = "small"
PROPERTIES Termination
CHECK_DEADLOCK FALSE
