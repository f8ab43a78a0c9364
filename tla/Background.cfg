CONSTANTS
  Holders = {"bot", "panel"}
  Bot = "bot"
  TTL = 2
  MaxVersions = 3
  MaxCrashes = 1
  Users = {u, v}
  Chats = {c}
  MaxEvents = 2
  MaxLost = 1
  Prompts = {"invite"}
  Schedules = {s}
  MaxFaults = 1
  MaxSends = 4
  Images = {"i", "j"}
  MaxPhotos = 2
  Interval = 2
  MaxUpdates = 3
  BatchLimit = 2
  MaxEnds = 2
  None = None
SPECIFICATION MCSpec
SYMMETRY Symmetry
INVARIANTS TypesOK CachesLagByTTL SlotSavedOnce RewardsFollowTheBot TargetsFollowTheBot PromptedOnce CountsAddUp SyncedTwiceAtMost FedOnce
