CONSTANTS
  a = a
  b = b
  Conn = {a, b}
  Modes = {"good", "silent"}
  MaxReq <- MCMaxReq
  Fickle = {a}
  Frames = 1
  PerFrame = 2

SPECIFICATION FairSpec

INVARIANTS
  Framed

PROPERTIES
  ServesInOrder
  Answered

\* The clients may all be gone.
CHECK_DEADLOCK FALSE
