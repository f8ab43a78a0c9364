CONSTANTS
  ann = ann
  Updates = {1, 2, 3}
  Actor <- MCActor3
  NoActor = NoActor
  None = None
  Requests = {r1}
  Workers = {w1, w2}
  QueueMax = 1
  MaxItems = 3
  Attempts = 2
SPECIFICATION Spec
INVARIANT NothingSwallowed
