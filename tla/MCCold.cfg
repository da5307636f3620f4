CONSTANTS
  Starts = {2, 5, 9}
  Budget = 8
  Patience = 12

SPECIFICATION Spec

INVARIANTS
  HeadOfLineTold
