CONSTANTS
  Polls = 3
  Server <- MCServers
  Linger = 2
  Tries = 3

SPECIFICATION LateSpec

INVARIANTS
  ClockRestored
  ClockVerdicts
  LossReported
  HalfReported

PROPERTIES
  LateLegsEnd

\* The legs are over at their verdicts.
CHECK_DEADLOCK FALSE
