CONSTANTS
  Conf <- MCConfs
  Only <- MCSome
  Target = 2
  Sweep = 2

SPECIFICATION FairSpec

INVARIANTS
  NeverDropped

\* The runner exits.
CHECK_DEADLOCK FALSE
