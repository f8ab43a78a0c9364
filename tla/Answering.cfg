CONSTANTS
  Users = {a, b}
  Chats = {c, d}
  MaxMessages = 3
  Kinds = {"mention", "guest", "photo"}
  ChatLimit = 1
  UserLimit = 1
  ChatWindow = 1
  UserWindow = 2
  Cooldown = 2
  AutoCooldown = 1
  Names = {"p", "q"}
  Forced = {"q"}
  Calls = {a, b}
  Failures = {"limited", "no_answer"}
  Shipped <- MCShipped
  MaxKeys = 2
  MaxEdits = 1
  Threads = {a, b}
  Texts = {1}
  MaxId = 3
  Limit = 2
  None = None
SPECIFICATION MCSpec
SYMMETRY Symmetry
INVARIANTS TypesOK AnswersBounded OnePhotoPerCooldown EveryKeyHadItsTurn RestIsKept SummaryHasNoGaps
