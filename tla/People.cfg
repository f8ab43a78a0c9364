CONSTANTS
  Users = {u}
  Inviters = {h}
  Clicks = {k}
  MaxFailures = 2
  Attempts = 2
  Channels = {c, d}
  Chats = {a, b}
  Checks = {x}
  Week = 2
  Month = 3
  ManualDays = {1, 5}
  MaxWarnings = 6
  MaxLeft = 12
  Owners = {a, b}
  Facts = {f}
  Ids = {i, j}
  Workers = {a, b}
  Window = 1
  MaxActiveMemories = 3
  None = None
SPECIFICATION MCSpec
SYMMETRY Symmetry
INVARIANTS TypesOK ReferralPaidOnce PhoneBonusPerFailure CacheIsAboutItsChannel BlockHasItsWarnings OneMemoryPerFact
PROPERTY WarningsAddUp
CHECK_DEADLOCK FALSE
