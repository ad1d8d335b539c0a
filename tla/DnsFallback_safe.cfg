SPECIFICATION Spec
CONSTANTS
  One = One
  Two = Two
  Host = Host
  Word <- MCWord
  Literal <- MCLiteral
  List <- MCList
  Single = FALSE
  ListCap = 2
  MaxResolvers = 2
  MaxAddr = 2
  MaxRecords = 2
  MaxLookups = 1
  Tls = TRUE
CHECK_DEADLOCK FALSE
INVARIANTS
  OptIn AnswerRespected AskedInTurn AnswerFaithful
