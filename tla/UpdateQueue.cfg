CONSTANTS
  ann = ann
  Updates = {1, 2, 3}
  Actor <- MCActor3
  NoActor = NoActor
  None = None
  Requests = {r1, r2}
  Workers = {w1, w2}
  QueueMax = 1
  MaxItems = 2
  Attempts = 2
SPECIFICATION Spec
INVARIANT TypeOK
INVARIANT AtMostOneJob
INVARIANT InOrder
