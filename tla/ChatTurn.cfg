CONSTANTS
  ann = ann
  dev = dev
  t = t
  i = i
  g = g
  d = d
  Updates = {t, i, g}
  Users = {ann}
  Owner <- MCOwner
  Kind <- MCKind
  Actor <- MCActor
  Debug = {}
  Attempts = 2
  DbFaults = TRUE
SPECIFICATION Spec
INVARIANT TypeOK
INVARIANT OneGeneration
INVARIANT GateHeld
INVARIANT ChargedOnce
