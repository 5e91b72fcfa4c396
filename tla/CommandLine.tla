---------------------------- MODULE CommandLine ----------------------------
(***************************************************************************)
(* The other commands of `patchmesh` (apps/cli/src/main.ts): a command     *)
(* finds its ledger, drains the live journal first if it only reports      *)
(* (packages/recorder/src/freshen.ts), opens the ledger and answers.       *)
(*                                                                         *)
(* It runs beside everything of Setup: the recorder appends calls to the   *)
(* journal, other drains claim it, and exit removes the whole directory    *)
(* the journal and the ledger live in.  A call is a number; it is in one   *)
(* place at a time.  A response a command writes is the number of the      *)
(* command, above those of the calls.                                      *)
(***************************************************************************)
EXTENDS Setup

CONSTANTS Commands,   \* the commands that are given
          Given,      \* the sets of options they are given, beside --database
          MaxCalls,   \* calls whose journal line is followed
          MaxAsks,    \* commands given
          MaxDrain    \* FRESHEN_MAX_ENTRIES

ASSUME CommandsAssumption == MaxCalls \in Nat /\ MaxAsks \in Nat /\ MaxDrain \in Nat

VARIABLES journal,    \* the calls in the live journal
          drain,      \* another process's drain: is it on, and the calls of its claim
          left,       \* the calls of claims whose drain never finished
          exists,     \* which of the databases "own" and "other" there are
          rows,       \* what each holds
          query,      \* the command that runs
          answer,     \* the last answer
          calls, asked

places == <<journal, drain, left, exists, rows>>
commandVars == <<places, query, answer, calls, asked>>
allVars == <<vars, commandVars>>

NotAsked == [cmd |-> "none"]
Idle == [on |-> FALSE, has |-> {}]
Response == MaxCalls + asked

ReportOnly == {"status", "recap", "agents", "events", "console", "graph", "overlaps",
               "stale", "contracts", "explain"}
Writers == {"send", "ack", "feedback", "delivery"}
NeedsWorktree == {"recap", "overlaps", "performance", "send", "ack"}

(* parseArgs, a function of the arguments: what each command      *)
(* takes, "id" for the word after it; an option that is unknown, out of    *)
(* place or malformed is none of these.                                    *)
CommonOptions == {"--json", "--database", "--agent", "--task"}
Accepts(cmd) ==
  CASE cmd = "events" -> {"--raw", "--follow", "--type", "--since", "--until", "--cursor", "--limit"}
    [] cmd = "recap" -> {"--within", "--since", "--until", "--metrics", "--limit"}
    [] cmd = "status" -> {"--verify"}
    [] cmd = "graph" -> {"--resource", "--print", "--port"}
    [] cmd = "console" -> {"--port"}
    [] cmd = "overlaps" -> {"--resource", "--within"}
    [] cmd = "performance" -> {"--within", "--role", "--host"}
    [] cmd = "explain" -> {"id"}
    [] cmd = "feedback" -> {"id", "--decision", "--disposition", "--useful", "--reason"}
    [] cmd = "delivery" -> {"id", "--state"}
    [] cmd = "send" -> {"--to", "--kind", "--subject", "--body", "--ref", "--expires", "--from"}
    [] cmd = "ack" -> {"id", "--from", "--accept", "--decline", "--note"}
    [] cmd = "inbox" -> {"--include-delivered"}
    [] cmd = "prune" -> {"--older-than"}
    [] OTHER -> {}
Requires(cmd) ==
  CASE cmd \in {"explain", "ack"} -> {"id"}
    [] cmd = "feedback" -> {"id", "--disposition"}
    [] cmd = "delivery" -> {"id", "--state"}
    [] cmd = "send" -> {"--to", "--kind", "--subject"}
    [] OTHER -> {}
ParseArgs(cmd, options) ==
  /\ options \subseteq CommonOptions \cup Accepts(cmd)
  /\ Requires(cmd) \subseteq options
  /\ ~({"--accept", "--decline"} \subseteq options)
  /\ cmd = "recap" /\ "--metrics" \notin options => options \cap {"--since", "--until"} = {}

ExitCode(error) == CASE error = "usage" -> 2 [] error = "unavailable" -> 3 [] OTHER -> 4

(* The database a command is about, and whether it is this repository's. *)
Target(q) == IF q.database = "default" THEN "own" ELSE q.database
OwnsAnyLedger(q) == TRUE   \* mutated form: whatever --database names
OwnsLedger(q) == q.database \in {"default", "own"}
(* A report asked inside the worktree about its own ledger drains first. *)
Freshens(q) == q.cmd \in ReportOnly /\ q.inside /\ OwnsLedger(q)

-----------------------------------------------------------------------------
(* The journal and its drains by others *)

(* What exit takes away: everything under .patchmesh. *)
Wipe ==
  IF ledgerDir /\ ~ledgerDir'
  THEN /\ journal' = {} /\ left' = {} /\ drain' = [drain EXCEPT !.has = {}]
       /\ exists' = exists \ {"own"} /\ rows' = [rows EXCEPT !["own"] = {}]
       /\ query' = IF query = NotAsked THEN query ELSE [query EXCEPT !.wiped = TRUE, !.mine = {}]
  ELSE UNCHANGED <<places, query>>
SetupStep ==
  /\ Start \/ Look \/ Write \/ Done \/ Killed \/ EditSettings \/ EditMcp \/ EditOther
       \/ Reinstall \/ OpenSession \/ CloseSession
  /\ Wipe /\ UNCHANGED <<answer, calls, asked>>

(* A hook's append to the journal. *)
RecordCall ==
  /\ Call
  /\ IF calls < MaxCalls THEN calls' = calls + 1 /\ journal' = journal \cup {calls'}
                         ELSE UNCHANGED <<calls, journal>>
  /\ UNCHANGED <<drain, left, exists, rows, query, answer, asked>>

(* Another drain, of a session that stops or a tool that reads (its steps  *)
(* are those of RecorderJournal): it renames the journal aside and may     *)
(* adopt what dead drains left, ...                                        *)
Excuse(missed) == IF query = NotAsked THEN query ELSE [query EXCEPT !.owed = @ \ missed]
DrainClaims ==
  /\ ~drain.on
  /\ \E adopted \in {{}, left} :
       /\ journal \cup adopted # {}
       /\ drain' = [on |-> TRUE, has |-> journal \cup adopted]
       /\ left' = left \ adopted
  /\ journal' = {} /\ query' = Excuse(journal)
  /\ UNCHANGED <<vars, exists, rows, answer, calls, asked>>
(* ... makes the directory and the ledger and records the claim, ... *)
DrainRecords ==
  /\ drain.on /\ drain' = Idle
  /\ ledgerDir' = TRUE /\ exists' = exists \cup {"own"}
  /\ rows' = [rows EXCEPT !["own"] = @ \cup drain.has]
  /\ UNCHANGED <<settings, mcp, plugin, ignore, present, installed, cli, session, finished, runs, edits,
                 journal, left, query, answer, calls, asked>>
(* ... or dies, or cannot open the ledger, and its claim stays. *)
DrainFails ==
  /\ drain.on /\ drain' = Idle /\ left' = left \cup drain.has
  /\ UNCHANGED <<vars, journal, exists, rows, query, answer, calls, asked>>

-----------------------------------------------------------------------------
(* A command, from its arguments to its answer *)

Ask ==
  /\ query = NotAsked /\ asked < MaxAsks /\ asked' = asked + 1
  /\ \E cmd \in Commands, database \in {"default", "own", "other", "absent"}, inside \in BOOLEAN, options \in Given :
       query' = [cmd |-> cmd, database |-> database, inside |-> inside,
                 valid |-> ParseArgs(cmd, options), dated |-> ParseArgs(cmd, options) /\ "--older-than" \in options,
                 at |-> "resolve", again |-> FALSE, mine |-> {},
                 owed |-> journal, seen |-> {}, healthy |-> TRUE, wiped |-> FALSE]
  /\ answer' = NotAsked
  /\ UNCHANGED <<vars, places, calls>>

Goes(at) == query' = [query EXCEPT !.at = at] /\ UNCHANGED <<vars, places, answer, calls, asked>>
At(at) == query # NotAsked /\ query.at = at

(* The answer, with what the database holds once it is given. *)
Replies(exit) ==
  /\ answer' = [cmd |-> query.cmd, exit |-> exit, own |-> query.inside /\ Target(query) = "own",
                owed |-> query.owed, wiped |-> query.wiped,
                seen |-> query.seen, shown |-> IF Target(query) \in exists' THEN rows'[Target(query)] ELSE {}]
  /\ query' = NotAsked
  /\ UNCHANGED <<vars, journal, drain, left, calls, asked>>
Answers(exit) == UNCHANGED <<exists, rows>> /\ Replies(exit)

Resolve ==
  /\ At("resolve")
  /\ IF query.cmd = "doctor" THEN IF query.valid THEN Goes("doctor") ELSE Answers(ExitCode("usage"))
     ELSE IF ~query.inside /\ query.database = "default" THEN Answers(ExitCode("usage"))
     ELSE Goes(IF Freshens(query) THEN "count" ELSE "open")

(* freshenLedger, before the ledger is looked for and again in runCli.     *)
Onward == IF query.again THEN "answer" ELSE "open"
CountPending ==
  /\ At("count")
  /\ IF journal = {} THEN Goes(Onward)
     ELSE IF Cardinality(journal) > MaxDrain
     THEN /\ query' = [query EXCEPT !.at = Onward, !.owed = @ \ journal]
          /\ UNCHANGED <<vars, places, answer, calls, asked>>
     ELSE Goes("claim")
ClaimJournal ==
  /\ At("claim")
  /\ \E adopted \in {{}, left} :
       LET mine == journal \cup adopted
       IN /\ query' = [query EXCEPT !.mine = mine, !.at = IF mine = {} THEN Onward ELSE "record"]
          /\ left' = left \ adopted
  /\ journal' = {}
  /\ UNCHANGED <<vars, drain, exists, rows, answer, calls, asked>>
(* The first drain goes to the database named, the second to the repository's. *)
DrainsInto == IF query.again THEN "own" ELSE Target(query)
RecordClaim ==
  /\ At("record")
  /\ \/ /\ rows' = [rows EXCEPT ![DrainsInto] = @ \cup query.mine] /\ exists' = exists \cup {DrainsInto}
        /\ ledgerDir' = (ledgerDir \/ DrainsInto = "own")
        /\ query' = [query EXCEPT !.at = Onward, !.mine = {}]
        /\ UNCHANGED left
     \/ /\ left' = left \cup query.mine
        /\ query' = [query EXCEPT !.at = Onward, !.mine = {}, !.owed = @ \ query.mine]
        /\ UNCHANGED <<ledgerDir, rows, exists>>
  /\ UNCHANGED <<settings, mcp, plugin, ignore, present, installed, cli, session, finished, runs, edits,
                 journal, drain, answer, calls, asked>>

(* An absent ledger is an answer to a report and a failure to any other    *)
(* command; only then are the arguments parsed, and a report freshened     *)
(* once more.                                                              *)
OpenLedger ==
  /\ At("open")
  /\ IF Target(query) \notin exists
     THEN Answers(IF query.cmd \in ReportOnly THEN 0 ELSE ExitCode("unavailable"))
     ELSE IF ~query.valid THEN Answers(ExitCode("usage"))
     ELSE IF Freshens(query)
     THEN query' = [query EXCEPT !.at = "count", !.again = TRUE] /\ UNCHANGED <<vars, places, answer, calls, asked>>
     ELSE Goes("answer")

Report ==
  /\ At("answer") /\ query.cmd \notin Writers \cup {"prune"}
  /\ Answers(IF query.cmd \in NeedsWorktree /\ ~query.inside THEN ExitCode("unavailable") ELSE 0)

(* A response is appended, or refused: no such finding, message or sender. *)
Respond ==
  /\ At("answer") /\ query.cmd \in Writers
  /\ UNCHANGED exists
  /\ \/ /\ query.cmd \in NeedsWorktree => query.inside
        /\ rows' = [rows EXCEPT ![Target(query)] = IF query.wiped THEN @ ELSE @ \cup {Response}]
        /\ Replies(0)
     \/ Answers(ExitCode(IF query.cmd \in NeedsWorktree /\ ~query.inside THEN "unavailable" ELSE "usage"))
     \/ query.cmd \in {"feedback", "delivery"} /\ Answers(ExitCode("cursor"))

Prune ==
  /\ At("answer") /\ query.cmd = "prune" /\ UNCHANGED exists
  /\ IF query.dated
     THEN /\ \E gone \in SUBSET rows[Target(query)] : rows' = [rows EXCEPT ![Target(query)] = @ \ gone]
          /\ Replies(0)
     ELSE Answers(ExitCode("usage"))

(* doctor reads the ledger, if there is one, and after it the journal: it  *)
(* drains nothing, makes nothing, and its exit code is the answer.         *)
Doctor ==
  /\ At("doctor")
  /\ query' = [query EXCEPT !.at = "journal", !.healthy = Healthy /\ query.inside,
                            !.seen = IF query.inside /\ "own" \in exists THEN rows["own"] ELSE {}]
  /\ UNCHANGED <<vars, places, answer, calls, asked>>
DoctorJournal ==
  /\ At("journal")
  /\ answer' = [cmd |-> "doctor", exit |-> IF query.healthy THEN 0 ELSE 3, own |-> query.inside,
                owed |-> query.owed, wiped |-> query.wiped, seen |-> query.seen,
                shown |-> IF query.inside THEN journal ELSE {}]
  /\ query' = NotAsked
  /\ UNCHANGED <<vars, places, calls, asked>>

(* Interrupted anywhere; what it had claimed is left. *)
Interrupted ==
  /\ query # NotAsked /\ query' = NotAsked /\ left' = left \cup query.mine
  /\ UNCHANGED <<vars, journal, drain, exists, rows, answer, calls, asked>>

-----------------------------------------------------------------------------
CommandInit ==
  /\ journal = {} /\ drain = Idle /\ left = {}
  /\ exists = {"other"} /\ rows = [d \in {"own", "other", "absent"} |-> {}]
  /\ query = NotAsked /\ answer = NotAsked /\ calls = 0 /\ asked = 0

CommandNext ==
  \/ SetupStep \/ RecordCall
  \/ DrainClaims \/ DrainRecords \/ DrainFails
  \/ Ask \/ Resolve \/ CountPending \/ ClaimJournal \/ RecordClaim \/ OpenLedger
  \/ Report \/ Respond \/ Prune \/ Doctor \/ DoctorJournal \/ Interrupted

CommandSpec == Init /\ CommandInit /\ [][CommandNext]_allVars

-----------------------------------------------------------------------------
(* Properties *)

(* A report about the repository's own ledger shows every call that was    *)
(* waiting in the journal when it was asked, the report that there is no   *)
(* ledger included (main.ts, "answer about now"): unless another drain     *)
(* took the call, its own drain failed, the backlog was over the budget,   *)
(* or exit removed everything meanwhile.                                   *)
ReportsFresh ==
  answer.cmd \in ReportOnly /\ answer.own /\ answer.exit = 0 /\ ~answer.wiped =>
    answer.owed \subseteq answer.shown

(* The calls of this repository reach no other database; a command that    *)
(* says it recorded something did; doctor counts no call twice, neither    *)
(* in the ledger and waiting nor in two files.                             *)
CommandsHonest ==
  /\ \A d \in {"other", "absent"} : rows[d] \cap 1..MaxCalls = {}
  /\ answer.cmd \in Writers /\ answer.exit = 0 => Response \in answer.shown \/ answer.wiped
  /\ answer.cmd = "doctor" /\ ~answer.wiped => answer.seen \cap answer.shown = {}
  /\ journal \cap left = {} /\ drain.has \cap (journal \cup left \cup rows["own"]) = {}

(* What the commands answer is so, whatever is recorded, drained, removed  *)
(* or interrupted between their steps.                                     *)
AnswersTrue == ReportsFresh /\ CommandsHonest
=============================================================================
