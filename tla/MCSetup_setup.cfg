SPECIFICATION MCSpec
CONSTANTS
  Events = {"PostToolUse"}
  Hosts = {"none", "opencode", "all"}
  MaxRuns = 2
  MaxEdits = 2
  Commands = {"recap", "send", "feedback", "prune", "doctor"}
  Given = {{}, {"--metrics", "--since"}, {"--to", "--kind", "--subject"}, {"id", "--disposition"}, {"--older-than"}}
  MaxCalls = 2
  MaxAsks = 1
  MaxDrain = 1
INVARIANTS  ExitClean 
PROPERTIES ForeignKept
CHECK_DEADLOCK FALSE
