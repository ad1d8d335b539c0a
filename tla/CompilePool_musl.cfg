SPECIFICATION FairSpec
CONSTANTS
  w1 = w1
  w2 = w2
  w3 = w3
  Worker = {w1, w2, w3}
  Target = "musl"
  Stages <- MCStages
INVARIANTS WrittenOnce
PROPERTIES FrontAsAsked ImplementsRecipe PoolEnds
CHECK_DEADLOCK FALSE
