------------------------------ MODULE MCSetup ------------------------------
(* Setup and the commands, with one hook event (each is merged on its own)  *)
(* and three hosts, in two scenes: init and exit run in a worktree without  *)
(* files or with some of its own, which others edit meanwhile; or PatchMesh *)
(* is installed, a session records, and commands are given while exit runs  *)
(* and other drains come and go.                                            *)
EXTENDS CommandLine

SetupScene ==
  /\ Init /\ (settings.is = "none" <=> ignore = << >>)
  /\ calls = MaxCalls /\ asked = MaxAsks
CommandScene ==
  /\ settings = [Empty EXCEPT !.hooks = [e \in Events |-> <<{"global"}>>]]
  /\ mcp = [EmptyMcp EXCEPT !.servers["patchmesh"] = {"global"}]
  /\ plugin = "none" /\ ignore = <<"", Comment, Entry, "">> /\ ledgerDir = FALSE
  /\ present = {} /\ installed = {"global"} /\ finished = Nothing
  /\ cli = [op |-> "exit", force |-> FALSE, host |-> "none", steps |-> ExitSteps,
            write |-> << >>, held |-> FALSE, alone |-> TRUE]
  /\ session = [on |-> TRUE, hooks |-> Loaded]
  /\ runs = MaxRuns /\ edits = MaxEdits /\ calls = 0 /\ asked = 0

MCInit ==
  /\ SetupScene \/ CommandScene
  /\ journal = {} /\ drain = Idle /\ left = {}
  /\ exists = {"other"} /\ rows = [d \in {"own", "other", "absent"} |-> {}]
  /\ query = NotAsked /\ answer = NotAsked

MCSpec == MCInit /\ [][CommandNext]_allVars
=============================================================================
