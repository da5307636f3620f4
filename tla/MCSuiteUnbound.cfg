CONSTANTS
  Only <- MCKeys
  Flags <- MCPlain

SPECIFICATION Spec

INVARIANTS
  NeverUnbound

\* The suite exits.
CHECK_DEADLOCK FALSE
