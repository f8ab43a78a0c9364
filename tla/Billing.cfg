CONSTANTS
  ann = ann
  bob = bob
  s = s
  p1 = p1
  p2 = p2
  Users = {ann, bob}
  StarInvoices = {s}
  CardInvoices = {1, 2}
  Owner <- MCOwner
  StarPlans = {stars_100}
  CardPlans = {card_100}
  Payments = {p1, p2}
  Receipts = {r1}
  Panels = {a1}
  Attempts = 2
  None = None
SPECIFICATION Spec
SYMMETRY MCSymmetry
INVARIANT TypeOK
INVARIANT CreditedOnce
PROPERTY DecisionIsFinal
