CONSTANTS
  Limit = 40
  Send = 2
  Hold = 8
  Early = 4
  Polls = 10
  Lags = {0, 3}

SPECIFICATION Spec

INVARIANTS
  SkipSound
