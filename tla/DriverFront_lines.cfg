CONSTANTS
  Lines <- MCLines
  MaxPayload = 1
SPECIFICATION FrontSpec
INVARIANTS
  ServedAsAsked
  LinkMatches
