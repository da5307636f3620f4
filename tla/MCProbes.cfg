CONSTANTS
  Faults = 2
  Many = 20
  Few = 6
  Advertised = {60, 130}
  SessionLimit <- MCLimit
  Starts = {2, 5, 9}
  Budget = 8
  Patience = 12
  Rounds = 7
  Batch = 3
  Readers = {1, 2}
  Limit = 40
  Send = 2
  BackHold = 8
  Early = 4
  Polls = 10
  Lags = {0, 3}

SPECIFICATION ProbesSpec

INVARIANTS
  
  DeliverySound
  SessionSound
  ColdSound
  AbuseTells
  BackchannelSound
