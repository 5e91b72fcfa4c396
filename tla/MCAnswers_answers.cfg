SPECIFICATION Spec
CONSTANTS
  None = None
  IdleGap = 1
  Roles <- MCRoles
  Ignored = {}
  Tier <- MCTier
  Subagents = {}
  AskTools = {"ask"}
  TaskLimit = 5
  Commits = {1}
  Target <- MCTarget
  MinSample = 1
  Scenes = {"work", "roles", "after", "read"}
  Work <- MCWork
  Readers = {"read"}
  Windows = {1, 4}
  MaxEntries = 1
  Limit = 1
  MaxActs <- MCMaxActs
  MaxLate <- MCMaxLate
  MaxTime <- MCMaxTime
INVARIANTS HandOffQuiet InterleavingSeen ReportsAgree FollowedOnce CacheExact
CHECK_DEADLOCK FALSE
