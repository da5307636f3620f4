CONSTANTS
  Levels = 4
  NightAt = 1
  DayAt = 3
  MaxFlip = 5
  Invocation <- MCAll
  MaxRun = 3
  CastKey = "key"
  Viewers = 2
  Clients = 2
  RingLen = 3
  LogMax = 5

SPECIFICATION SoloSpec

INVARIANTS
  CountSound
  SoundCameraPasses
  LeftAsFound
  BenchVerdicts
  HealthVerdicts

\* Each part comes to its end.
CHECK_DEADLOCK FALSE
