CONSTANTS
  ann = ann
  dev = dev
  t = t
  i = i
  g = g
  d = d
  Updates = {t, i, d}
  Users = {ann, dev}
  Owner <- MCOwnerD
  Kind <- MCKindD
  Actor <- MCActorD
  Debug = {dev}
  Attempts = 2
  DbFaults = FALSE
SPECIFICATION Spec
INVARIANT BusyMeansWorking
PROPERTY EveryMessageEnds
