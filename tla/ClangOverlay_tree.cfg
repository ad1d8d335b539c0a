SPECIFICATION OverlayFairSpec
CONSTANTS
  Byte <- MCByte
  Slash = 47
  Reserved <- MCReserved
  Images <- MCImages
  Vroot <- v
  Requests <- MCRequests
  Iterator = {i}
INVARIANTS FindsExactly OverlayAnswers ListsWhole
PROPERTY EveryCallAnswered
