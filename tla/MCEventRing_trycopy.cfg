SPECIFICATION Spec
CONSTANTS
  Writers = {w1, w2}
  Cap = 2
  BufSize = 8
  Incr = 2
  Sizes = {3, 8}
  Truncated = 2
  MaxEvents = 4
INVARIANT TryCopyIntact
CONSTRAINT InTime
