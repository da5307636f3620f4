CONSTANTS
  Own <- MCOwn
  Ppm = 3
  MaxHit = 2
  MaxReq = 3
  MaxFrame = 3
  Body = 1
  Modes = {"any", "good", "seqdrop", "tsback", "tsspike"}
  SeqWord = 64
  TsWord = 512
  Far = 12
  Slower = 5
  GapCycle = 6
  Drop = 8
  Skip = 5
  Faults = 2
  GapPkt = 15
  CensusPkt = 16
  CcWord = 4
  PcrMax = 6
  TableMax = 9

SPECIFICATION StreamsSpec

INVARIANTS
  DeviceRestored
  FrozenCaught
  FramesKept
  LossExact
  TriageExact
  ModeShows
  ContinuityExact
  CensusTells

PROPERTIES
  ReadsInOrder
  RequestEnds

\* The leg exits, and the captures are over.
CHECK_DEADLOCK FALSE
