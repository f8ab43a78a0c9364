CONSTANTS
  Users = {u}
  Inviters = {h}
  Clicks = {k}
  None = None
SPECIFICATION Spec
INVARIANT AskedMeansListening
