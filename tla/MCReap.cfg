CONSTANTS
  Advertised = {60, 115, 130}
  Limit <- MCLimit
  Many = 20
  Few = 6

SPECIFICATION Spec

INVARIANTS
  ReapJudged
