SPECIFICATION LookupFairSpec
CONSTANTS
  Word <- MCWord
  Literal <- MCLiteral
  List <- MCList
  ListCap = 2
  MaxResolvers = 2
  MaxAddr = 2
  MaxRecords = 1
  MaxLookups = 3
  Tls = TRUE
  MaxLines = 2
  File <- MCFile
  LineCap = 12
  ValueCap = 4
CHECK_DEADLOCK FALSE
INVARIANTS
  ChainsAccounted LastWins
PROPERTIES
  EveryLookupEnds
