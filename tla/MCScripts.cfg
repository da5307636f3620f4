CONSTANTS
  rvd = rvd
  rsd = rsd
  main = main
  NoPort = NoPort
  NoRing = NoRing
  Daemon = {rvd, rsd}
  Producer = {rvd}
  Gated = {rsd}
  Ring = {main}
  Rank <- MCRank
  Pass <- MCTwice
  MaxRun = 2
  Conf <- MCConfs
  Only <- MCSome
  Target = 2
  Sweep = 2
  Patterns <- MCOnly
  Flags <- MCFlags

SPECIFICATION ScriptsSpec

INVARIANTS
  OnlySurvivors
  SeenIsOurs
  RingBeforeConsumer
  SweepTold
  TestedAsBroughtUp
  RowsButForExcused
  FullRunComplete

PROPERTIES
  BringupEnds
  BatteryEnds
  LateLegsLast

\* After the last bring-up the system stops, and a script exits.
CHECK_DEADLOCK FALSE
