SPECIFICATION FairSpec
CONSTANTS
  t1 = t1
  t2 = t2
  f = f
  broken = broken
  d = d
  b1 = b1
  b2 = b2
  Thread = {t1, t2}
  NoThread = NoThread
  File = {f, broken}
  Dir = {d}
  Broken = {broken}
  Buf = {b1, b2}
  Null = Null
  MaxCalls = 2
INVARIANTS GivenIsWhole OneAnswer NoLeak
PROPERTIES EveryCallReturns
CHECK_DEADLOCK FALSE
