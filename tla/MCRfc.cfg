CONSTANTS
  Faults = 2
  Many = 20
  Few = 6

SPECIFICATION Spec

INVARIANTS
  SideHarmless
