------------------------- MODULE CommandLine_proofs -------------------------
(***************************************************************************)
(* Theorems of CommandLine, for any commands, options, calls and bounds:   *)
(* what the commands answer, and what init and exit leave behind.          *)
(***************************************************************************)
EXTENDS CommandLine, Integers, TLAPS, FiniteSetTheorems, SequenceTheorems

-----------------------------------------------------------------------------
(* Where a call is, and what a command has seen of it.                     *)
Ledgers == {"own", "other", "absent"}
QueryFields == {"cmd", "database", "inside", "valid", "dated", "at", "again", "mine", "owed",
                "seen", "healthy", "wiped"}

(* What the command in progress has claimed.                               *)
Mine == IF query = NotAsked THEN {} ELSE query.mine

Apart(J, L, D, M, R) ==
  /\ J \cap L = {} /\ J \cap D = {} /\ J \cap M = {} /\ J \cap R = {}
  /\ L \cap D = {} /\ L \cap M = {} /\ L \cap R = {}
  /\ D \cap M = {} /\ D \cap R = {} /\ M \cap R = {}

(* A call is in one place: the journal, a claim, or a row of this          *)
(* repository's ledger. A database without a file has no rows.             *)
PlacesInv ==
  /\ calls \in Nat /\ calls <= MaxCalls /\ asked \in Nat
  /\ journal \cup left \cup drain.has \cup Mine \subseteq 1..calls
  /\ Apart(journal, left, drain.has, Mine, rows["own"])
  /\ DOMAIN drain = {"on", "has"} /\ (~drain.on => drain.has = {})
  /\ DOMAIN rows = Ledgers
  /\ rows["own"] \cap 1..MaxCalls \subseteq 1..calls
  /\ \A d \in {"other", "absent"} : rows[d] \cap 1..MaxCalls = {}
  /\ \A d \in Ledgers : rows[d] # {} => d \in exists

(* What a report owes is on its way to the ledger, and there before it is  *)
(* opened; only a report about this ledger drains.                         *)
QueryInv == query # NotAsked =>
  /\ DOMAIN query = QueryFields /\ asked > 0
  /\ query.database \in {"default", "own", "other", "absent"}
  /\ query.at \in {"count", "claim", "record"} => Freshens(query)
  /\ query.at # "record" => query.mine = {}
  /\ query.at # "journal" => query.seen = {}
  /\ query.at = "answer" \/ query.again => Target(query) \in exists \/ query.wiped
  /\ query.at = "journal" => /\ query.seen \cap journal = {}
                             /\ query.seen \cap 1..MaxCalls \subseteq 1..calls
  /\ Freshens(query) /\ ~query.wiped =>
       /\ query.owed \subseteq journal \cup query.mine \cup rows["own"]
       /\ query.at = "record" => query.owed \subseteq query.mine \cup rows["own"]
       /\ query.at \in {"open", "answer"} => query.owed \subseteq rows["own"]

AnswerInv ==
  /\ ReportsFresh
  /\ answer.cmd \in Writers /\ answer.exit = 0 => Response \in answer.shown \/ answer.wiped
  /\ answer.cmd = "doctor" /\ ~answer.wiped => answer.seen \cap answer.shown = {}

CommandsInv == PlacesInv /\ QueryInv /\ AnswerInv

(* What identifies the ledger a command is about does not change.          *)
LEMMA SameTarget ==
  ASSUME NEW q, NEW p, q.cmd = p.cmd, q.database = p.database, q.inside = p.inside
  PROVE  Target(q) = Target(p) /\ (Freshens(q) <=> Freshens(p))
  BY DEF Target, Freshens, OwnsLedger

LEMMA OwnTarget ==
  ASSUME NEW q, q.database \in {"default", "own", "other", "absent"}
  PROVE  Target(q) \in Ledgers /\ (OwnsLedger(q) <=> Target(q) = "own")
  BY DEF Target, OwnsLedger, Ledgers

LEMMA SameAnswer ==
  ASSUME AnswerInv, UNCHANGED <<answer, asked>>
  PROVE  AnswerInv'
  BY DEF AnswerInv, ReportsFresh, Response

(* The steps of others.                                                    *)
LEMMA SetupStepKeeps ==
  ASSUME CommandsInv, SetupStep
  PROVE  CommandsInv'
<1>1. Wipe /\ UNCHANGED <<answer, calls, asked>>  BY DEF SetupStep
<1>2. CASE UNCHANGED <<places, query>>
  <2>1. UNCHANGED <<journal, drain, left, exists, rows, query, calls, asked>>  BY <1>1, <1>2 DEF places
  <2>2. PlacesInv'  BY <2>1 DEF CommandsInv, PlacesInv, Mine
  <2>3. QueryInv'  BY <2>1 DEF CommandsInv, QueryInv
  <2> QED BY <1>1, <2>2, <2>3, SameAnswer DEF CommandsInv
<1>3. CASE /\ journal' = {} /\ left' = {} /\ drain' = [drain EXCEPT !.has = {}]
           /\ exists' = exists \ {"own"} /\ rows' = [rows EXCEPT !["own"] = {}]
           /\ query' = IF query = NotAsked THEN query ELSE [query EXCEPT !.wiped = TRUE, !.mine = {}]
  <2>1. /\ DOMAIN drain' = {"on", "has"} /\ drain'.has = {}
        /\ DOMAIN rows' = Ledgers /\ rows'["own"] = {}
        /\ rows'["other"] = rows["other"] /\ rows'["absent"] = rows["absent"]
    BY <1>3 DEF CommandsInv, PlacesInv, Ledgers
  <2>2. Mine' = {}
    BY <1>3 DEF Mine, CommandsInv, QueryInv, QueryFields
  <2>3. PlacesInv'
    BY <1>1, <1>3, <2>1, <2>2 DEF CommandsInv, PlacesInv, Apart, Ledgers
  <2>4. QueryInv'
    <3> SUFFICES ASSUME query' # NotAsked PROVE QueryInv'  BY DEF QueryInv
    <3>1. query # NotAsked /\ query' = [query EXCEPT !.wiped = TRUE, !.mine = {}]  BY <1>3
    <3>2. /\ DOMAIN query' = QueryFields /\ query'.wiped /\ query'.mine = {}
          /\ query'.cmd = query.cmd /\ query'.database = query.database /\ query'.inside = query.inside
          /\ query'.at = query.at
      BY <3>1 DEF CommandsInv, QueryInv, QueryFields
    <3>3. Freshens(query') <=> Freshens(query)  BY <3>2, SameTarget
    <3>4. journal' = {} /\ query'.seen = query.seen  BY <1>3, <3>1 DEF CommandsInv, QueryInv, QueryFields
    <3>5. query.at = "journal" => query'.seen \cap 1..MaxCalls \subseteq 1..calls'
      BY <1>1, <3>1, <3>4 DEF CommandsInv, QueryInv
    <3> QED BY <1>1, <3>1, <3>2, <3>3, <3>4, <3>5 DEF CommandsInv, QueryInv
  <2> QED BY <1>1, <2>3, <2>4, SameAnswer DEF CommandsInv
<1> QED BY <1>1, <1>2, <1>3 DEF Wipe

(* A call recorded is a new one, and nowhere yet.                          *)
LEMMA RecordCallKeeps ==
  ASSUME CommandsInv, RecordCall, CommandsAssumption
  PROVE  CommandsInv'
<1>1. UNCHANGED <<drain, left, exists, rows, query, answer, asked>>  BY DEF RecordCall
<1>2. /\ calls' \in Nat /\ calls' <= MaxCalls /\ calls <= calls'
      /\ \/ UNCHANGED <<calls, journal>>
         \/ calls' = calls + 1 /\ calls < MaxCalls /\ journal' = journal \cup {calls + 1}
  BY DEF RecordCall, CommandsInv, PlacesInv, CommandsAssumption
<1>3. Mine' = Mine  BY <1>1 DEF Mine
<1>4. CASE UNCHANGED <<calls, journal>>
  <2>1. PlacesInv'  BY <1>1, <1>3, <1>4 DEF CommandsInv, PlacesInv
  <2>2. QueryInv'  BY <1>1, <1>4 DEF CommandsInv, QueryInv
  <2> QED BY <1>1, <2>1, <2>2, SameAnswer DEF CommandsInv
<1>5. CASE calls' = calls + 1 /\ calls < MaxCalls /\ journal' = journal \cup {calls + 1}
  <2>1. /\ calls + 1 \notin left \cup drain.has \cup Mine
        /\ calls + 1 \notin rows["own"]
        /\ query # NotAsked /\ query.at = "journal" => calls + 1 \notin query.seen
    BY <1>5, CommandsAssumption DEF CommandsInv, PlacesInv, QueryInv, CommandsAssumption
  <2>2. Apart(journal', left', drain'.has, Mine', rows["own"]')
    BY <1>1, <1>3, <1>5, <2>1 DEF CommandsInv, PlacesInv, Apart
  <2>3. /\ journal' \cup left' \cup drain'.has \cup Mine' \subseteq 1..calls'
        /\ rows'["own"] \cap 1..MaxCalls \subseteq 1..calls'
    BY <1>1, <1>3, <1>5 DEF CommandsInv, PlacesInv
  <2>4. PlacesInv'
    BY <1>1, <1>2, <2>2, <2>3 DEF CommandsInv, PlacesInv
  <2>5. query # NotAsked /\ query.at = "journal" => query.seen \cap 1..MaxCalls \subseteq 1..calls'
    BY <1>5 DEF CommandsInv, PlacesInv, QueryInv
  <2>6. QueryInv'
    <3> SUFFICES ASSUME query # NotAsked PROVE QueryInv'  BY <1>1 DEF QueryInv
    <3>1. query.at = "journal" => query.seen \cap journal' = {}
      BY <1>5, <2>1 DEF CommandsInv, QueryInv
    <3>2. query.owed \subseteq journal \cup query.mine \cup rows["own"] =>
            query.owed \subseteq journal' \cup query.mine \cup rows["own"]
      BY <1>5
    <3> QED BY <1>1, <2>5, <3>1, <3>2 DEF CommandsInv, QueryInv, Freshens, Target, OwnsLedger
  <2> QED BY <1>1, <2>4, <2>6, SameAnswer DEF CommandsInv
<1> QED BY <1>2, <1>4, <1>5

(* What another drain takes is no longer owed.                             *)
LEMMA DrainClaimsKeeps ==
  ASSUME CommandsInv, DrainClaims
  PROVE  CommandsInv'
<1>1. /\ UNCHANGED <<exists, rows, answer, calls, asked>> /\ journal' = {} /\ query' = Excuse(journal) /\ ~drain.on
  BY DEF DrainClaims
<1>2. PICK adopted \in {{}, left} : drain' = [on |-> TRUE, has |-> journal \cup adopted] /\ left' = left \ adopted
  BY DEF DrainClaims
<1>3. drain.has = {}  BY <1>1 DEF CommandsInv, PlacesInv
<1>4. /\ query = NotAsked => query' = NotAsked
      /\ query # NotAsked =>
           /\ query' = [query EXCEPT !.owed = @ \ journal] /\ DOMAIN query' = QueryFields /\ query' # NotAsked
           /\ query'.owed = query.owed \ journal
           /\ query'.cmd = query.cmd /\ query'.database = query.database /\ query'.inside = query.inside
           /\ query'.at = query.at /\ query'.again = query.again /\ query'.mine = query.mine
           /\ query'.seen = query.seen /\ query'.wiped = query.wiped
  BY <1>1 DEF CommandsInv, QueryInv, QueryFields, Excuse, NotAsked
<1>5. Mine' = Mine  BY <1>4 DEF Mine
<1>6. PlacesInv'
  BY <1>1, <1>2, <1>3, <1>5 DEF CommandsInv, PlacesInv, Apart
<1>7. QueryInv'
  <2> SUFFICES ASSUME query # NotAsked PROVE QueryInv'  BY <1>4 DEF QueryInv
  <2>1. Target(query') = Target(query) /\ (Freshens(query') <=> Freshens(query))  BY <1>4, SameTarget
  <2>2. Freshens(query) /\ ~query.wiped =>
       /\ query'.owed \subseteq query'.mine \cup rows["own"]
       /\ query.at = "record" => query'.owed \subseteq query'.mine \cup rows["own"]
       /\ query.at \in {"open", "answer"} => query'.owed \subseteq rows["own"]
    BY <1>4 DEF CommandsInv, QueryInv
  <2> QED BY <1>1, <1>4, <2>1, <2>2 DEF CommandsInv, QueryInv
<1> QED BY <1>1, <1>6, <1>7, SameAnswer DEF CommandsInv

LEMMA DrainRecordsKeeps ==
  ASSUME CommandsInv, DrainRecords
  PROVE  CommandsInv'
<1>1. /\ UNCHANGED <<journal, left, query, answer, calls, asked>> /\ drain' = Idle
      /\ exists' = exists \cup {"own"} /\ rows' = [rows EXCEPT !["own"] = @ \cup drain.has]
  BY DEF DrainRecords
<1>2. /\ DOMAIN rows' = Ledgers /\ rows'["own"] = rows["own"] \cup drain.has
      /\ rows'["other"] = rows["other"] /\ rows'["absent"] = rows["absent"]
      /\ drain'.has = {} /\ DOMAIN drain' = {"on", "has"} /\ ~drain'.on
  BY <1>1 DEF CommandsInv, PlacesInv, Ledgers, Idle
<1>3. Mine' = Mine  BY <1>1 DEF Mine
<1>4. PlacesInv'
  <2>1. Apart(journal', left', drain'.has, Mine', rows'["own"])
    BY <1>1, <1>2, <1>3 DEF CommandsInv, PlacesInv, Apart
  <2>2. journal' \cup left' \cup drain'.has \cup Mine' \subseteq 1..calls'
    BY <1>1, <1>2, <1>3 DEF CommandsInv, PlacesInv
  <2>3. rows'["own"] \cap 1..MaxCalls \subseteq 1..calls'
    BY <1>1, <1>2 DEF CommandsInv, PlacesInv
  <2>4. /\ \A d \in {"other", "absent"} : rows'[d] \cap 1..MaxCalls = {}
        /\ \A d \in Ledgers : rows'[d] # {} => d \in exists'
    BY <1>1, <1>2 DEF CommandsInv, PlacesInv, Ledgers
  <2> QED BY <1>1, <1>2, <2>1, <2>2, <2>3, <2>4 DEF CommandsInv, PlacesInv
<1>5. QueryInv'
  <2> SUFFICES ASSUME query # NotAsked PROVE QueryInv'  BY <1>1 DEF QueryInv
  <2> QED BY <1>1, <1>2 DEF CommandsInv, QueryInv, Freshens, Target, OwnsLedger
<1> QED BY <1>1, <1>4, <1>5, SameAnswer DEF CommandsInv

LEMMA DrainFailsKeeps ==
  ASSUME CommandsInv, DrainFails
  PROVE  CommandsInv'
<1>1. /\ UNCHANGED <<journal, exists, rows, query, answer, calls, asked>> /\ drain' = Idle
      /\ left' = left \cup drain.has
  BY DEF DrainFails
<1>2. drain'.has = {} /\ DOMAIN drain' = {"on", "has"} /\ ~drain'.on  BY <1>1 DEF Idle
<1>3. Mine' = Mine  BY <1>1 DEF Mine
<1>4. PlacesInv'  BY <1>1, <1>2, <1>3 DEF CommandsInv, PlacesInv, Apart
<1>5. QueryInv'  BY <1>1 DEF CommandsInv, QueryInv
<1> QED BY <1>1, <1>4, <1>5, SameAnswer DEF CommandsInv

-----------------------------------------------------------------------------
(* The steps of the command.                                               *)
LEMMA AskKeeps ==
  ASSUME CommandsInv, Ask
  PROVE  CommandsInv'
<1>1. /\ query = NotAsked /\ asked' = asked + 1 /\ answer' = NotAsked
      /\ UNCHANGED <<journal, drain, left, exists, rows, calls>>
  BY DEF Ask, places
<1>2. PICK cmd \in Commands, database \in {"default", "own", "other", "absent"}, inside \in BOOLEAN, options \in Given :
       query' = [cmd |-> cmd, database |-> database, inside |-> inside,
                 valid |-> ParseArgs(cmd, options), dated |-> ParseArgs(cmd, options) /\ "--older-than" \in options,
                 at |-> "resolve", again |-> FALSE, mine |-> {},
                 owed |-> journal, seen |-> {}, healthy |-> TRUE, wiped |-> FALSE]
  BY DEF Ask
<1>3. /\ DOMAIN query' = QueryFields /\ query'.database = database /\ query'.at = "resolve"
      /\ query'.again = FALSE /\ query'.mine = {} /\ query'.seen = {} /\ query'.owed = journal
  BY <1>2 DEF QueryFields
<1>4. Mine = {} /\ Mine' = {}  BY <1>1, <1>3 DEF Mine
<1>5. PlacesInv'
  BY <1>1, <1>4 DEF CommandsInv, PlacesInv
<1>6. QueryInv'
  BY <1>1, <1>3 DEF CommandsInv, PlacesInv, QueryInv
<1>7. AnswerInv'
  <2>1. answer'.cmd = "none"  BY <1>1 DEF NotAsked
  <2> QED BY <2>1 DEF AnswerInv, ReportsFresh, ReportOnly, Writers
<1> QED BY <1>5, <1>6, <1>7 DEF CommandsInv

(* A command that only goes on to its next step.                           *)
LEMMA GoesKeeps ==
  ASSUME CommandsInv, query # NotAsked, query.mine = {}, NEW at, at \notin {"record", "journal"},
         UNCHANGED <<places, answer, calls, asked>>, DOMAIN query' = QueryFields, query'.at = at,
         query'.cmd = query.cmd, query'.database = query.database, query'.inside = query.inside,
         query'.mine = query.mine, query'.seen = query.seen, query.at # "journal", query'.wiped = query.wiped, query'.owed \subseteq query.owed,
         at \in {"count", "claim"} => Freshens(query),
         at = "answer" \/ query'.again => Target(query) \in exists \/ query.wiped,
         Freshens(query) /\ ~query.wiped /\ at \in {"open", "answer"} => query'.owed \subseteq rows["own"]
  PROVE  CommandsInv'
<1>1. UNCHANGED <<journal, drain, left, exists, rows, calls, asked>>  BY DEF places
<1>2. query' # NotAsked  BY DEF QueryFields, NotAsked
<1>3. Mine' = Mine  BY <1>2 DEF Mine
<1>4. PlacesInv'  BY <1>1, <1>3 DEF CommandsInv, PlacesInv
<1>5. Target(query') = Target(query) /\ (Freshens(query') <=> Freshens(query))  BY SameTarget
<1>6. QueryInv'  BY <1>1, <1>5 DEF CommandsInv, QueryInv
<1> QED BY <1>4, <1>6, SameAnswer DEF CommandsInv

LEMMA GoesMeans ==
  ASSUME QueryInv, query # NotAsked, NEW at, Goes(at)
  PROVE  /\ UNCHANGED <<places, answer, calls, asked>> /\ DOMAIN query' = QueryFields /\ query'.at = at
         /\ query'.cmd = query.cmd /\ query'.database = query.database /\ query'.inside = query.inside
         /\ query'.mine = query.mine /\ query'.seen = query.seen /\ query'.wiped = query.wiped /\ query'.owed = query.owed
         /\ query'.again = query.again
  BY DEF Goes, QueryInv, QueryFields

(* A command that answers; all that is left to show is that it is true.    *)
LEMMA RepliesMeans ==
  ASSUME PlacesInv, query # NotAsked, query.mine = {}, NEW exit, Replies(exit),
         DOMAIN rows' = Ledgers,
         \A d \in Ledgers : rows'[d] # {} => d \in exists'
  PROVE  /\ UNCHANGED <<journal, drain, left, calls, asked>> /\ query' = NotAsked /\ Mine' = {} /\ Mine = {}
         /\ QueryInv'
         /\ answer'.cmd = query.cmd /\ answer'.exit = exit /\ answer'.owed = query.owed
         /\ answer'.wiped = query.wiped /\ answer'.seen = query.seen /\ (answer'.own <=> query.inside /\ Target(query) = "own")
         /\ Target(query) \in Ledgers => answer'.shown = rows'[Target(query)]
<1>1. /\ UNCHANGED <<journal, drain, left, calls, asked>> /\ query' = NotAsked
      /\ answer' = [cmd |-> query.cmd, exit |-> exit, own |-> query.inside /\ Target(query) = "own",
                owed |-> query.owed, wiped |-> query.wiped,
                seen |-> query.seen, shown |-> IF Target(query) \in exists' THEN rows'[Target(query)] ELSE {}]
  BY DEF Replies
<1>2. Mine' = {} /\ Mine = {}  BY <1>1 DEF Mine
<1>3. QueryInv'  BY <1>1 DEF QueryInv
<1>4. Target(query) \in Ledgers => answer'.shown = rows'[Target(query)]  BY <1>1
<1>5. answer'.own <=> query.inside /\ Target(query) = "own"  BY <1>1
<1> QED BY <1>1, <1>2, <1>3, <1>4, <1>5

(* A reader's answer: it says no more than the ledger it looked at.        *)
LEMMA AnswersKeep ==
  ASSUME CommandsInv, query # NotAsked, query.at \notin {"record", "journal"}, NEW exit, Answers(exit),
         query.cmd \in Writers => exit # 0,
         exit = 0 /\ Freshens(query) /\ ~query.wiped => query.owed \subseteq rows["own"]
  PROVE  CommandsInv'
<1>1. /\ UNCHANGED <<exists, rows>> /\ Replies(exit)  BY DEF Answers
<1>2. query.mine = {} /\ query.seen = {}  BY DEF CommandsInv, QueryInv
<1>3. DOMAIN rows' = Ledgers /\ \A d \in Ledgers : rows'[d] # {} => d \in exists'
  BY <1>1 DEF CommandsInv, PlacesInv
<1>4. /\ UNCHANGED <<journal, drain, left, calls, asked>> /\ query' = NotAsked /\ Mine' = {} /\ Mine = {}
      /\ QueryInv'
      /\ answer'.cmd = query.cmd /\ answer'.exit = exit /\ answer'.owed = query.owed
      /\ answer'.wiped = query.wiped /\ answer'.seen = query.seen /\ (answer'.own <=> query.inside /\ Target(query) = "own")
      /\ Target(query) \in Ledgers => answer'.shown = rows'[Target(query)]
  BY <1>1, <1>2, <1>3, RepliesMeans DEF CommandsInv
<1>5. PlacesInv'  BY <1>1, <1>4 DEF CommandsInv, PlacesInv
<1>6. ReportsFresh'
  <2> SUFFICES ASSUME query.cmd \in ReportOnly, query.inside, Target(query) = "own", exit = 0, ~query.wiped
               PROVE  query.owed \subseteq answer'.shown
    BY <1>4 DEF ReportsFresh
  <2>1. OwnsLedger(query)  BY OwnTarget DEF CommandsInv, QueryInv
  <2> QED BY <1>1, <1>4, <2>1 DEF Freshens, Ledgers
<1>7. AnswerInv'  BY <1>2, <1>4, <1>6 DEF AnswerInv
<1> QED BY <1>4, <1>5, <1>7 DEF CommandsInv

LEMMA ResolveKeeps ==
  ASSUME CommandsInv, Resolve
  PROVE  CommandsInv'
<1>1. query # NotAsked /\ query.at = "resolve"  BY DEF Resolve, At
<1>2. query.mine = {}  BY <1>1 DEF CommandsInv, QueryInv
<1>3. ASSUME NEW at, at \in {"doctor", "count", "open"}, Goes(at), at = "count" => Freshens(query),
             at = "open" => ~Freshens(query)
      PROVE  CommandsInv'
  <2>1. /\ UNCHANGED <<places, answer, calls, asked>> /\ DOMAIN query' = QueryFields /\ query'.at = at
         /\ query'.cmd = query.cmd /\ query'.database = query.database /\ query'.inside = query.inside
         /\ query'.mine = query.mine /\ query'.seen = query.seen /\ query'.wiped = query.wiped /\ query'.owed = query.owed
         /\ query'.again = query.again
    BY <1>1, <1>3, GoesMeans DEF CommandsInv
  <2>2. query.again => Target(query) \in exists \/ query.wiped  BY <1>1 DEF CommandsInv, QueryInv
  <2> QED BY <1>1, <1>2, <1>3, <2>1, <2>2, GoesKeeps
<1>4. ASSUME Answers(2)
      PROVE  CommandsInv'
  BY <1>1, <1>4, AnswersKeep
<1>5. ExitCode("usage") = 2  BY DEF ExitCode
<1>6. CASE query.cmd = "doctor" /\ query.valid  BY <1>1, <1>3, <1>6 DEF Resolve
<1>7. CASE Answers(ExitCode("usage"))  BY <1>4, <1>5, <1>7
<1>8. CASE Goes(IF Freshens(query) THEN "count" ELSE "open")
  <2>1. CASE Freshens(query)  BY <1>3, <1>8, <2>1
  <2>2. CASE ~Freshens(query)  BY <1>3, <1>8, <2>2
  <2> QED BY <2>1, <2>2
<1> QED BY <1>1, <1>6, <1>7, <1>8 DEF Resolve

LEMMA CountPendingKeeps ==
  ASSUME CommandsInv, CountPending
  PROVE  CommandsInv'
<1>1. query # NotAsked /\ query.at = "count"  BY DEF CountPending, At
<1>2. query.mine = {} /\ Freshens(query)  BY <1>1 DEF CommandsInv, QueryInv
<1>3. query.again => Target(query) \in exists \/ query.wiped  BY <1>1 DEF CommandsInv, QueryInv
<1>4. Onward \in {"open", "answer"} /\ (Onward = "answer" => query.again)  BY DEF Onward
<1>5. CASE journal = {} /\ Goes(Onward)
  <2>1. /\ UNCHANGED <<places, answer, calls, asked>> /\ DOMAIN query' = QueryFields /\ query'.at = Onward
         /\ query'.cmd = query.cmd /\ query'.database = query.database /\ query'.inside = query.inside
         /\ query'.mine = query.mine /\ query'.seen = query.seen /\ query'.wiped = query.wiped /\ query'.owed = query.owed
         /\ query'.again = query.again
    BY <1>1, <1>5, GoesMeans DEF CommandsInv
  <2>2. ~query.wiped => query.owed \subseteq rows["own"]  BY <1>1, <1>2, <1>5 DEF CommandsInv, QueryInv
  <2> QED BY <1>1, <1>2, <1>3, <1>4, <2>1, <2>2, GoesKeeps
<1>6. CASE /\ query' = [query EXCEPT !.at = Onward, !.owed = @ \ journal]
           /\ UNCHANGED <<vars, places, answer, calls, asked>>
  <2>1. /\ UNCHANGED <<places, answer, calls, asked>> /\ DOMAIN query' = QueryFields /\ query'.at = Onward
         /\ query'.cmd = query.cmd /\ query'.database = query.database /\ query'.inside = query.inside
         /\ query'.mine = query.mine /\ query'.seen = query.seen /\ query'.wiped = query.wiped
         /\ query'.owed = query.owed \ journal /\ query'.again = query.again
    BY <1>1, <1>6 DEF CommandsInv, QueryInv, QueryFields
  <2>2. ~query.wiped => query'.owed \subseteq rows["own"]  BY <1>1, <1>2, <2>1 DEF CommandsInv, QueryInv
  <2> QED BY <1>1, <1>2, <1>3, <1>4, <2>1, <2>2, GoesKeeps
<1>7. CASE Goes("claim")
  <2>1. /\ UNCHANGED <<places, answer, calls, asked>> /\ DOMAIN query' = QueryFields /\ query'.at = "claim"
         /\ query'.cmd = query.cmd /\ query'.database = query.database /\ query'.inside = query.inside
         /\ query'.mine = query.mine /\ query'.seen = query.seen /\ query'.wiped = query.wiped /\ query'.owed = query.owed
         /\ query'.again = query.again
    BY <1>1, <1>7, GoesMeans DEF CommandsInv
  <2> QED BY <1>1, <1>2, <1>3, <2>1, GoesKeeps
<1> QED BY <1>5, <1>6, <1>7 DEF CountPending

LEMMA ClaimJournalKeeps ==
  ASSUME CommandsInv, ClaimJournal
  PROVE  CommandsInv'
<1>1. query # NotAsked /\ query.at = "claim"  BY DEF ClaimJournal, At
<1>2. query.mine = {} /\ Freshens(query)  BY <1>1 DEF CommandsInv, QueryInv
<1>3. /\ UNCHANGED <<drain, exists, rows, answer, calls, asked>> /\ journal' = {}  BY DEF ClaimJournal
<1>4. PICK adopted \in {{}, left} :
        /\ query' = [query EXCEPT !.mine = journal \cup adopted,
                                  !.at = IF journal \cup adopted = {} THEN Onward ELSE "record"]
        /\ left' = left \ adopted
  BY DEF ClaimJournal
<1>5. /\ DOMAIN query' = QueryFields /\ query' # NotAsked
      /\ query'.cmd = query.cmd /\ query'.database = query.database /\ query'.inside = query.inside
      /\ query'.mine = journal \cup adopted /\ query'.seen = query.seen /\ query'.wiped = query.wiped
      /\ query'.owed = query.owed /\ query'.again = query.again
      /\ query'.at = IF journal \cup adopted = {} THEN Onward ELSE "record"
  BY <1>1, <1>4 DEF CommandsInv, QueryInv, QueryFields, NotAsked
<1>6. Mine = {} /\ Mine' = journal \cup adopted  BY <1>1, <1>2, <1>5 DEF Mine
<1>7. PlacesInv'
  <2>1. Apart(journal', left', drain'.has, Mine', rows'["own"])
    BY <1>3, <1>4, <1>6 DEF CommandsInv, PlacesInv, Apart
  <2>2. journal' \cup left' \cup drain'.has \cup Mine' \subseteq 1..calls'
    BY <1>3, <1>4, <1>6 DEF CommandsInv, PlacesInv
  <2> QED BY <1>3, <2>1, <2>2 DEF CommandsInv, PlacesInv
<1>8. Target(query') = Target(query) /\ (Freshens(query') <=> Freshens(query))  BY <1>5, SameTarget
<1>9. QueryInv'
  <2>1. ~query.wiped => query.owed \subseteq journal' \cup query'.mine \cup rows["own"]
    BY <1>1, <1>2, <1>3, <1>5 DEF CommandsInv, QueryInv
  <2>2. CASE journal \cup adopted = {}
    <3>1. query'.at = Onward /\ Onward \in {"open", "answer"} /\ (Onward = "answer" => query.again)
      BY <1>5, <2>2 DEF Onward
    <3>2. ~query.wiped => query.owed \subseteq rows["own"]  BY <1>3, <1>5, <2>1, <2>2
    <3> QED BY <1>1, <1>2, <1>3, <1>5, <1>8, <2>1, <2>2, <3>1, <3>2 DEF CommandsInv, QueryInv
  <2>3. CASE journal \cup adopted # {}
    <3>1. query'.at = "record"  BY <1>5, <2>3
    <3> QED BY <1>1, <1>2, <1>3, <1>5, <1>8, <2>1, <3>1 DEF CommandsInv, QueryInv
  <2> QED BY <2>2, <2>3
<1> QED BY <1>3, <1>7, <1>9, SameAnswer DEF CommandsInv

(* Only this repository's ledger is ever drained into, so no call reaches  *)
(* another.                                                                *)
LEMMA RecordClaimKeeps ==
  ASSUME CommandsInv, RecordClaim
  PROVE  CommandsInv'
<1>1. query # NotAsked /\ query.at = "record"  BY DEF RecordClaim, At
<1>2. Freshens(query) /\ Target(query) = "own"
  BY <1>1, OwnTarget DEF CommandsInv, QueryInv, Freshens
<1>3. DrainsInto = "own"  BY <1>2 DEF DrainsInto
<1>4. UNCHANGED <<journal, drain, answer, calls, asked>>  BY DEF RecordClaim
<1>5. Mine = query.mine  BY <1>1 DEF Mine
<1>6. Onward \in {"open", "answer"} /\ (Onward = "answer" => query.again)  BY DEF Onward
<1>7. CASE /\ rows' = [rows EXCEPT !["own"] = @ \cup query.mine] /\ exists' = exists \cup {"own"}
           /\ query' = [query EXCEPT !.at = Onward, !.mine = {}] /\ UNCHANGED left
  <2>1. /\ DOMAIN query' = QueryFields /\ query' # NotAsked
        /\ query'.cmd = query.cmd /\ query'.database = query.database /\ query'.inside = query.inside
        /\ query'.mine = {} /\ query'.seen = query.seen /\ query'.wiped = query.wiped
        /\ query'.owed = query.owed /\ query'.again = query.again /\ query'.at = Onward
    BY <1>1, <1>7 DEF CommandsInv, QueryInv, QueryFields, NotAsked
  <2>2. /\ DOMAIN rows' = Ledgers /\ rows'["own"] = rows["own"] \cup query.mine
        /\ rows'["other"] = rows["other"] /\ rows'["absent"] = rows["absent"]
    BY <1>7 DEF CommandsInv, PlacesInv, Ledgers
  <2>3. Mine' = {}  BY <2>1 DEF Mine
  <2>4. Apart(journal', left', drain'.has, Mine', rows'["own"])
    BY <1>4, <1>5, <1>7, <2>2, <2>3 DEF CommandsInv, PlacesInv, Apart
  <2>5. /\ journal' \cup left' \cup drain'.has \cup Mine' \subseteq 1..calls'
        /\ rows'["own"] \cap 1..MaxCalls \subseteq 1..calls'
    BY <1>4, <1>5, <1>7, <2>2, <2>3 DEF CommandsInv, PlacesInv
  <2>6. /\ \A d \in {"other", "absent"} : rows'[d] \cap 1..MaxCalls = {}
        /\ \A d \in Ledgers : rows'[d] # {} => d \in exists'
    BY <1>7, <2>2 DEF CommandsInv, PlacesInv, Ledgers
  <2>7. PlacesInv'  BY <1>4, <2>2, <2>4, <2>5, <2>6 DEF CommandsInv, PlacesInv
  <2>8. Target(query') = Target(query) /\ (Freshens(query') <=> Freshens(query))  BY <2>1, SameTarget
  <2>9. ~query.wiped => query'.owed \subseteq rows'["own"]
    BY <1>1, <1>2, <1>4, <2>1, <2>2 DEF CommandsInv, QueryInv
  <2>10. QueryInv'
    BY <1>1, <1>2, <1>4, <1>6, <1>7, <2>1, <2>8, <2>9 DEF CommandsInv, QueryInv
  <2> QED BY <1>4, <2>7, <2>10, SameAnswer DEF CommandsInv
<1>8. CASE /\ left' = left \cup query.mine
           /\ query' = [query EXCEPT !.at = Onward, !.mine = {}, !.owed = @ \ query.mine]
           /\ UNCHANGED <<rows, exists>>
  <2>1. /\ DOMAIN query' = QueryFields /\ query' # NotAsked
        /\ query'.cmd = query.cmd /\ query'.database = query.database /\ query'.inside = query.inside
        /\ query'.mine = {} /\ query'.seen = query.seen /\ query'.wiped = query.wiped
        /\ query'.owed = query.owed \ query.mine /\ query'.again = query.again /\ query'.at = Onward
    BY <1>1, <1>8 DEF CommandsInv, QueryInv, QueryFields, NotAsked
  <2>2. Mine' = {}  BY <2>1 DEF Mine
  <2>3. Apart(journal', left', drain'.has, Mine', rows'["own"])
    BY <1>4, <1>5, <1>8, <2>2 DEF CommandsInv, PlacesInv, Apart
  <2>4. journal' \cup left' \cup drain'.has \cup Mine' \subseteq 1..calls'
    BY <1>4, <1>5, <1>8, <2>2 DEF CommandsInv, PlacesInv
  <2>5. PlacesInv'  BY <1>4, <1>8, <2>3, <2>4 DEF CommandsInv, PlacesInv
  <2>6. Target(query') = Target(query) /\ (Freshens(query') <=> Freshens(query))  BY <2>1, SameTarget
  <2>7. ~query.wiped => query'.owed \subseteq rows["own"]
    BY <1>1, <1>2, <2>1 DEF CommandsInv, QueryInv
  <2>8. QueryInv'
    BY <1>1, <1>2, <1>4, <1>6, <1>8, <2>1, <2>6, <2>7 DEF CommandsInv, QueryInv
  <2> QED BY <1>4, <2>5, <2>8, SameAnswer DEF CommandsInv
<1> QED BY <1>3, <1>7, <1>8 DEF RecordClaim

LEMMA OpenLedgerKeeps ==
  ASSUME CommandsInv, OpenLedger
  PROVE  CommandsInv'
<1>1. query # NotAsked /\ query.at = "open"  BY DEF OpenLedger, At
<1>2. query.mine = {} /\ (Freshens(query) /\ ~query.wiped => query.owed \subseteq rows["own"])
  BY <1>1 DEF CommandsInv, QueryInv
<1>3. ASSUME NEW exit, Answers(exit), query.cmd \in Writers => exit # 0
      PROVE  CommandsInv'
  BY <1>1, <1>2, <1>3, AnswersKeep
<1>4. ExitCode("usage") = 2 /\ ExitCode("unavailable") = 3  BY DEF ExitCode
<1>5. CASE Answers(IF query.cmd \in ReportOnly THEN 0 ELSE ExitCode("unavailable"))
  <2>1. query.cmd \in Writers => query.cmd \notin ReportOnly  BY DEF ReportOnly, Writers
  <2> QED BY <1>3, <1>4, <1>5, <2>1
<1>6. CASE Answers(ExitCode("usage"))  BY <1>3, <1>4, <1>6
<1>7. CASE /\ Target(query) \in exists /\ Freshens(query)
           /\ query' = [query EXCEPT !.at = "count", !.again = TRUE] /\ UNCHANGED <<vars, places, answer, calls, asked>>
  <2>1. /\ UNCHANGED <<places, answer, calls, asked>> /\ DOMAIN query' = QueryFields /\ query'.at = "count"
         /\ query'.cmd = query.cmd /\ query'.database = query.database /\ query'.inside = query.inside
         /\ query'.mine = query.mine /\ query'.seen = query.seen /\ query'.wiped = query.wiped /\ query'.owed = query.owed
    BY <1>1, <1>7 DEF CommandsInv, QueryInv, QueryFields
  <2> QED BY <1>1, <1>2, <1>7, <2>1, GoesKeeps
<1>8. CASE Target(query) \in exists /\ ~Freshens(query) /\ Goes("answer")
  <2>1. /\ UNCHANGED <<places, answer, calls, asked>> /\ DOMAIN query' = QueryFields /\ query'.at = "answer"
         /\ query'.cmd = query.cmd /\ query'.database = query.database /\ query'.inside = query.inside
         /\ query'.mine = query.mine /\ query'.seen = query.seen /\ query'.wiped = query.wiped /\ query'.owed = query.owed
         /\ query'.again = query.again
    BY <1>1, <1>8, GoesMeans DEF CommandsInv
  <2> QED BY <1>1, <1>2, <1>8, <2>1, GoesKeeps
<1> QED BY <1>5, <1>6, <1>7, <1>8 DEF OpenLedger

LEMMA ReportKeeps ==
  ASSUME CommandsInv, Report
  PROVE  CommandsInv'
<1>1. query # NotAsked /\ query.at = "answer" /\ query.cmd \notin Writers
  BY DEF Report, At
<1>2. Freshens(query) /\ ~query.wiped => query.owed \subseteq rows["own"]
  BY <1>1 DEF CommandsInv, QueryInv
<1>3. PICK exit : Answers(exit)  BY DEF Report
<1> QED BY <1>1, <1>2, <1>3, AnswersKeep

(* The response is above every call, so it is in no journal and no claim.  *)
LEMMA RespondKeeps ==
  ASSUME CommandsInv, Respond, CommandsAssumption
  PROVE  CommandsInv'
<1>1. query # NotAsked /\ query.at = "answer" /\ query.cmd \in Writers /\ UNCHANGED exists
  BY DEF Respond, At
<1>2. /\ query.mine = {} /\ query.seen = {} /\ (Target(query) \in exists \/ query.wiped)
      /\ asked \in Nat /\ asked > 0
  BY <1>1 DEF CommandsInv, PlacesInv, QueryInv
<1>3. Target(query) \in Ledgers  BY <1>1, OwnTarget DEF CommandsInv, QueryInv
<1>4. query.cmd \notin ReportOnly /\ query.cmd # "doctor"  BY <1>1 DEF ReportOnly, Writers
<1>5. CASE /\ rows' = [rows EXCEPT ![Target(query)] = IF query.wiped THEN @ ELSE @ \cup {Response}]
           /\ Replies(0)
  <2> DEFINE new == IF query.wiped THEN {} ELSE {Response}
  <2>1. new \cap 1..MaxCalls = {}  BY <1>2 DEF Response, CommandsAssumption
  <2>2. /\ DOMAIN rows' = Ledgers
        /\ \A d \in Ledgers : rows'[d] = IF d = Target(query) THEN rows[d] \cup new ELSE rows[d]
    BY <1>3, <1>5 DEF CommandsInv, PlacesInv
  <2>3. \A d \in Ledgers : rows'[d] # {} => d \in exists'
    BY <1>1, <1>2, <2>2 DEF CommandsInv, PlacesInv
  <2>4. /\ UNCHANGED <<journal, drain, left, calls, asked>> /\ query' = NotAsked /\ Mine' = {} /\ Mine = {}
        /\ QueryInv'
        /\ answer'.cmd = query.cmd /\ answer'.wiped = query.wiped
        /\ answer'.shown = rows'[Target(query)]
    BY <1>1, <1>2, <1>3, <1>5, <2>2, <2>3, RepliesMeans DEF CommandsInv
  <2>5. journal \cup left \cup drain.has \subseteq 1..MaxCalls
    BY CommandsAssumption DEF CommandsInv, PlacesInv, CommandsAssumption
  <2>6. /\ rows'["own"] \subseteq rows["own"] \cup new
        /\ rows'["own"] \cap 1..MaxCalls \subseteq 1..calls'
        /\ \A d \in {"other", "absent"} : rows'[d] \cap 1..MaxCalls = {}
    BY <2>1, <2>2, <2>4 DEF CommandsInv, PlacesInv, Ledgers
  <2>7. Apart(journal', left', drain'.has, Mine', rows'["own"])
    <3> HIDE DEF new
    <3> QED BY <2>1, <2>4, <2>5, <2>6 DEF CommandsInv, PlacesInv, Apart
  <2>8. PlacesInv'  BY <1>1, <2>2, <2>3, <2>4, <2>6, <2>7 DEF CommandsInv, PlacesInv
  <2>9. Response' \in answer'.shown \/ answer'.wiped
    BY <1>3, <2>2, <2>4 DEF Response
  <2>10. AnswerInv'  BY <1>4, <2>4, <2>9 DEF AnswerInv, ReportsFresh
  <2> QED BY <2>4, <2>8, <2>10 DEF CommandsInv
<1>6. CASE Answers(ExitCode(IF query.cmd \in NeedsWorktree /\ ~query.inside THEN "unavailable" ELSE "usage"))
  <2>1. ExitCode(IF query.cmd \in NeedsWorktree /\ ~query.inside THEN "unavailable" ELSE "usage") # 0
    BY DEF ExitCode
  <2> QED BY <1>1, <1>6, <2>1, AnswersKeep
<1>7. CASE Answers(ExitCode("cursor"))
  <2>1. ExitCode("cursor") # 0  BY DEF ExitCode
  <2> QED BY <1>1, <1>7, <2>1, AnswersKeep
<1> QED BY <1>5, <1>6, <1>7 DEF Respond

LEMMA PruneKeeps ==
  ASSUME CommandsInv, Prune
  PROVE  CommandsInv'
<1>1. query # NotAsked /\ query.at = "answer" /\ query.cmd = "prune" /\ UNCHANGED exists
  BY DEF Prune, At
<1>2. query.mine = {} /\ query.seen = {}  BY <1>1 DEF CommandsInv, QueryInv
<1>3. Target(query) \in Ledgers  BY <1>1, OwnTarget DEF CommandsInv, QueryInv
<1>4. query.cmd \notin ReportOnly \cup Writers  BY <1>1 DEF ReportOnly, Writers
<1>5. CASE query.dated
  <2>1. PICK gone \in SUBSET rows[Target(query)] : rows' = [rows EXCEPT ![Target(query)] = @ \ gone]
    BY <1>5 DEF Prune
  <2>2. Replies(0)  BY <1>5 DEF Prune
  <2>3. DOMAIN rows' = Ledgers /\ \A d \in Ledgers : rows'[d] \subseteq rows[d]
    BY <1>3, <2>1 DEF CommandsInv, PlacesInv
  <2>4. \A d \in Ledgers : rows'[d] # {} => d \in exists'
    BY <1>1, <2>3 DEF CommandsInv, PlacesInv
  <2>5. /\ UNCHANGED <<journal, drain, left, calls, asked>> /\ query' = NotAsked /\ Mine' = {} /\ Mine = {}
        /\ QueryInv'
        /\ answer'.cmd = query.cmd /\ answer'.seen = query.seen
    BY <1>1, <1>2, <2>2, <2>3, <2>4, RepliesMeans DEF CommandsInv
  <2>6. Apart(journal', left', drain'.has, Mine', rows'["own"])
    BY <2>3, <2>5 DEF CommandsInv, PlacesInv, Apart, Ledgers
  <2>7. /\ rows'["own"] \cap 1..MaxCalls \subseteq 1..calls'
        /\ \A d \in {"other", "absent"} : rows'[d] \cap 1..MaxCalls = {}
    BY <2>3, <2>5 DEF CommandsInv, PlacesInv, Ledgers
  <2>8. PlacesInv'  BY <2>3, <2>4, <2>5, <2>6, <2>7 DEF CommandsInv, PlacesInv
  <2>9. AnswerInv'  BY <1>2, <1>4, <2>5 DEF AnswerInv, ReportsFresh
  <2> QED BY <2>5, <2>8, <2>9 DEF CommandsInv
<1>6. CASE ~query.dated
  <2>1. Answers(ExitCode("usage")) /\ ExitCode("usage") # 0  BY <1>6 DEF Prune, ExitCode
  <2> QED BY <1>1, <2>1, AnswersKeep
<1> QED BY <1>5, <1>6

LEMMA DoctorKeeps ==
  ASSUME CommandsInv, Doctor
  PROVE  CommandsInv'
<1>1. query # NotAsked /\ query.at = "doctor"  BY DEF Doctor, At
<1>2. UNCHANGED <<journal, drain, left, exists, rows, answer, calls, asked>>  BY DEF Doctor, places
<1>3. /\ DOMAIN query' = QueryFields /\ query' # NotAsked
      /\ query'.cmd = query.cmd /\ query'.database = query.database /\ query'.inside = query.inside
      /\ query'.mine = query.mine /\ query'.wiped = query.wiped
      /\ query'.owed = query.owed /\ query'.again = query.again /\ query'.at = "journal"
      /\ query'.seen = IF query.inside /\ "own" \in exists THEN rows["own"] ELSE {}
  BY <1>1 DEF Doctor, CommandsInv, QueryInv, QueryFields, NotAsked
<1>4. Mine' = Mine  BY <1>1, <1>3 DEF Mine
<1>5. PlacesInv'  BY <1>2, <1>4 DEF CommandsInv, PlacesInv
<1>6. query'.seen \cap journal' = {} /\ query'.seen \cap 1..MaxCalls \subseteq 1..calls'
  BY <1>2, <1>3 DEF CommandsInv, PlacesInv, Apart
<1>7. Target(query') = Target(query) /\ (Freshens(query') <=> Freshens(query))  BY <1>3, SameTarget
<1>8. QueryInv'  BY <1>1, <1>2, <1>3, <1>6, <1>7 DEF CommandsInv, QueryInv
<1> QED BY <1>2, <1>5, <1>8, SameAnswer DEF CommandsInv

LEMMA DoctorJournalKeeps ==
  ASSUME CommandsInv, DoctorJournal
  PROVE  CommandsInv'
<1>1. query # NotAsked /\ query.at = "journal"  BY DEF DoctorJournal, At
<1>2. UNCHANGED <<journal, drain, left, exists, rows, calls, asked>> /\ query' = NotAsked
  BY DEF DoctorJournal, places
<1>3. /\ answer'.cmd = "doctor" /\ answer'.seen = query.seen
      /\ answer'.shown = IF query.inside THEN journal ELSE {}
  BY DEF DoctorJournal
<1>4. query.mine = {} /\ query.seen \cap journal = {}  BY <1>1 DEF CommandsInv, QueryInv
<1>5. Mine' = {} /\ Mine = {}  BY <1>2, <1>4 DEF Mine
<1>6. PlacesInv'  BY <1>2, <1>5 DEF CommandsInv, PlacesInv
<1>7. QueryInv'  BY <1>2 DEF QueryInv
<1>8. AnswerInv'  BY <1>3, <1>4 DEF AnswerInv, ReportsFresh, ReportOnly, Writers
<1> QED BY <1>6, <1>7, <1>8 DEF CommandsInv

LEMMA InterruptedKeeps ==
  ASSUME CommandsInv, Interrupted
  PROVE  CommandsInv'
<1>1. /\ query # NotAsked /\ query' = NotAsked /\ left' = left \cup query.mine
      /\ UNCHANGED <<journal, drain, exists, rows, answer, calls, asked>>
  BY DEF Interrupted
<1>2. Mine = query.mine /\ Mine' = {}  BY <1>1 DEF Mine
<1>3. PlacesInv'  BY <1>1, <1>2 DEF CommandsInv, PlacesInv, Apart
<1>4. QueryInv'  BY <1>1 DEF QueryInv
<1> QED BY <1>1, <1>3, <1>4, SameAnswer DEF CommandsInv

LEMMA CommandsInit ==
  ASSUME CommandInit, CommandsAssumption
  PROVE  CommandsInv
<1>1. /\ journal = {} /\ drain = Idle /\ left = {} /\ query = NotAsked /\ answer = NotAsked
      /\ rows = [d \in {"own", "other", "absent"} |-> {}] /\ calls = 0 /\ asked = 0
  BY DEF CommandInit
<1>2. Mine = {} /\ drain.has = {} /\ DOMAIN drain = {"on", "has"} /\ answer.cmd = "none"
  BY <1>1 DEF Mine, Idle, NotAsked
<1>3. DOMAIN rows = Ledgers /\ \A d \in Ledgers : rows[d] = {}  BY <1>1 DEF Ledgers
<1>4. PlacesInv  BY <1>1, <1>2, <1>3 DEF PlacesInv, Apart, Ledgers, CommandsAssumption
<1>5. AnswerInv  BY <1>2 DEF AnswerInv, ReportsFresh, ReportOnly, Writers
<1> QED BY <1>1, <1>4, <1>5 DEF CommandsInv, QueryInv

LEMMA CommandsStep ==
  ASSUME CommandsInv, [CommandNext]_allVars
  PROVE  CommandsInv'
<1>1. CASE UNCHANGED allVars
  <2>1. UNCHANGED <<journal, drain, left, exists, rows, query, answer, calls, asked>>
    BY <1>1 DEF allVars, commandVars, places
  <2>2. PlacesInv'  BY <2>1 DEF CommandsInv, PlacesInv, Mine
  <2>3. QueryInv'  BY <2>1 DEF CommandsInv, QueryInv
  <2> QED BY <2>1, <2>2, <2>3, SameAnswer DEF CommandsInv
<1>2. CASE CommandNext
  BY <1>2, CommandsAssumption, SetupStepKeeps, RecordCallKeeps, DrainClaimsKeeps, DrainRecordsKeeps,
     DrainFailsKeeps, AskKeeps, ResolveKeeps, CountPendingKeeps, ClaimJournalKeeps, RecordClaimKeeps,
     OpenLedgerKeeps, ReportKeeps, RespondKeeps, PruneKeeps, DoctorKeeps, DoctorJournalKeeps,
     InterruptedKeeps DEF CommandNext
<1> QED BY <1>1, <1>2

LEMMA CommandsMean ==
  ASSUME CommandsInv
  PROVE  AnswersTrue
<1>1. ReportsFresh  BY DEF CommandsInv, AnswerInv
<1>2. CommandsHonest
  BY DEF CommandsInv, AnswerInv, PlacesInv, Apart, CommandsHonest
<1> QED BY <1>1, <1>2 DEF AnswersTrue

(* What a command answers is so: a report shows every call that waited     *)
(* when it was asked, the calls of this repository are in no other         *)
(* database, a response said to be recorded is, and doctor counts no call  *)
(* twice (main.ts, freshen.ts), however recording, drains, exit and        *)
(* interruptions fall between the steps.                                   *)
THEOREM AnswersProven == CommandSpec => []AnswersTrue
<1>1. CommandInit => CommandsInv  BY CommandsInit, CommandsAssumption
<1>2. CommandsInv /\ [CommandNext]_allVars => CommandsInv'  BY CommandsStep
<1>3. CommandsInv => AnswersTrue  BY CommandsMean
<1> QED BY <1>1, <1>2, <1>3, PTL DEF CommandSpec

-----------------------------------------------------------------------------
(* Select, by the number of indices below each index.                      *)
LEMMA AscendingIs ==
  ASSUME NEW L \in Nat, NEW I \in SUBSET (1..L)
  PROVE  /\ Cardinality(I) \in Nat
         /\ \A n \in 1..Cardinality(I) : Ascending(I)[n] \in I
         /\ \A i \in I : \E n \in 1..Cardinality(I) : Ascending(I)[n] = i
<1> DEFINE B(x) == {y \in I : y < x}
           f == [x \in I |-> Cardinality(B(x)) + 1]
           N == Cardinality(I)
           r(n) == CHOOSE x \in I : Cardinality(B(x)) = n - 1
<1>1. IsFiniteSet(I) /\ N \in Nat
  <2>1. IsFiniteSet(1..L)  BY FS_Interval, 1 \in Int, L \in Int
  <2> QED BY <2>1, FS_Subset, FS_CardinalityType
<1>2. \A x, y \in I : x \in Nat /\ y \in Nat  OBVIOUS
<1>3. \A x \in I : IsFiniteSet(B(x)) /\ Cardinality(B(x)) \in Nat
  BY <1>1, FS_Subset, FS_CardinalityType
<1>4. ASSUME NEW A, NEW C, A \subseteq C, NEW x \in C, x \notin A, IsFiniteSet(C)
      PROVE  Cardinality(A) < Cardinality(C)
  <2>1. Cardinality(A) <= Cardinality(C) /\ (Cardinality(A) = Cardinality(C) => A = C)
        /\ IsFiniteSet(A)
    BY <1>4, FS_Subset
  <2>2. A # C  BY <1>4
  <2>3. Cardinality(A) \in Nat /\ Cardinality(C) \in Nat  BY <1>4, <2>1, FS_CardinalityType
  <2> QED BY <2>1, <2>2, <2>3
<1>5. \A x \in I : f[x] \in 1..N
  <2> SUFFICES ASSUME NEW x \in I PROVE Cardinality(B(x)) + 1 \in 1..N  OBVIOUS
  <2>1. B(x) \subseteq I /\ x \notin B(x)  BY <1>2
  <2>2. Cardinality(B(x)) < N  BY <1>1, <1>4, <2>1
  <2> QED BY <1>1, <1>3, <2>2
<1>6. ASSUME NEW x \in I, NEW y \in I, x < y PROVE f[x] < f[y]
  <2>1. B(x) \subseteq B(y)
    <3>1. \A z \in I : z < x => z < y  BY <1>2, <1>6
    <3> QED BY <3>1
  <2>2. x \in B(y) /\ x \notin B(x)  BY <1>2, <1>6
  <2>3. Cardinality(B(x)) < Cardinality(B(y))
    <3> HIDE DEF B
    <3> QED BY <1>3, <1>4, <2>1, <2>2
  <2> QED BY <1>3, <2>3
<1>7. f \in Surjection(I, 1..N)
  <2>1. ASSUME NEW x \in I, NEW y \in I, x # y PROVE f[x] # f[y]
    <3>1. x < y \/ y < x  BY <1>2, <2>1
    <3>2. f[x] < f[y] \/ f[y] < f[x]  BY <1>6, <3>1
    <3>3. f[x] \in Nat /\ f[y] \in Nat  BY <1>1, <1>5
    <3> HIDE DEF f
    <3> QED BY <3>2, <3>3
  <2>2. f \in Injection(I, 1..N)  BY <1>5, <2>1 DEF Injection, IsInjective
  <2>3. IsFiniteSet(1..N) /\ Cardinality(1..N) = N  BY <1>1, FS_Interval
  <2> HIDE DEF f
  <2> QED BY <2>2, <2>3, FS_Injection
<1>8. \A n \in 1..N : r(n) \in I /\ f[r(n)] = n
  <2> SUFFICES ASSUME NEW n \in 1..N PROVE r(n) \in I /\ f[r(n)] = n  OBVIOUS
  <2>1. PICK x \in I : f[x] = n  BY <1>7 DEF Surjection
  <2>2. Cardinality(B(x)) = n - 1  BY <1>3, <2>1
  <2>3. r(n) \in I /\ Cardinality(B(r(n))) = n - 1  BY <2>2
  <2> QED BY <1>1, <2>3
<1>9. \A x \in I : r(f[x]) = x
  <2> SUFFICES ASSUME NEW x \in I PROVE r(f[x]) = x  OBVIOUS
  <2>1. f[x] \in 1..N  BY <1>5
  <2>2. r(f[x]) \in I /\ f[r(f[x])] = f[x]  BY <1>8, <2>1
  <2>3. f[x] \in Nat  BY <1>1, <2>1
  <2> HIDE DEF f
  <2>4. PICK g \in I : g = r(f[x])  BY <2>2
  <2>5. f[g] = f[x]  BY <2>2, <2>4
  <2>6. ~(g < x) /\ ~(x < g)  BY <1>6, <2>3, <2>5
  <2>7. g = x  BY <1>2, <2>6
  <2> QED BY <2>4, <2>7
<1>10. Ascending(I) = [n \in 1..N |-> r(n)]
  <2> DEFINE R == {p \in I \X I : p[1] < p[2]}
  <2>1. Ascending(I) = Ranked(I, R)  BY DEF Ascending
  <2>2. \A x, y \in I : <<y, x>> \in R <=> y < x  OBVIOUS
  <2> HIDE DEF R
  <2>3. \A x \in I : {y \in I : <<y, x>> \in R} = B(x)  BY <2>2
  <2>4. \A n : (CHOOSE x \in I : Cardinality({y \in I : <<y, x>> \in R}) = n - 1) = r(n)  BY <2>3
  <2> QED BY <2>1, <2>4 DEF Ranked
<1> HIDE DEF f, r, B
<1>11. \A x \in I : \E n \in 1..N : r(n) = x  BY <1>5, <1>9
<1> QED BY <1>1, <1>8, <1>10, <1>11

(* Select keeps what s holds at the indices, and no more.                  *)
LEMMA SelectKeeps ==
  ASSUME NEW T, NEW s \in Seq(T), NEW I \in SUBSET (DOMAIN s)
  PROVE  /\ Select(s, I) \in Seq(T)
         /\ \A n \in DOMAIN Select(s, I) : \E i \in I : Select(s, I)[n] = s[i]
         /\ \A i \in I : \E n \in DOMAIN Select(s, I) : Select(s, I)[n] = s[i]
<1>1. Len(s) \in Nat /\ DOMAIN s = 1..Len(s)  OBVIOUS
<1>2. /\ Cardinality(I) \in Nat
      /\ \A n \in 1..Cardinality(I) : Ascending(I)[n] \in I
      /\ \A i \in I : \E n \in 1..Cardinality(I) : Ascending(I)[n] = i
  BY <1>1, AscendingIs
<1>3. Select(s, I) = [n \in 1..Cardinality(I) |-> s[Ascending(I)[n]]]  BY DEF Select
<1>4. \A i \in I : s[i] \in T  BY <1>1
<1>5. \A n \in 1..Cardinality(I) : s[Ascending(I)[n]] \in T  BY <1>2, <1>4
<1>6. Select(s, I) \in Seq(T) /\ DOMAIN Select(s, I) = 1..Cardinality(I)  BY <1>2, <1>3, <1>5
<1>7. \A n \in 1..Cardinality(I) : Select(s, I)[n] = s[Ascending(I)[n]]  BY <1>3
<1>8. \A n \in 1..Cardinality(I) : \E i \in I : Select(s, I)[n] = s[i]  BY <1>2, <1>7
<1>9. \A i \in I : \E n \in 1..Cardinality(I) : Select(s, I)[n] = s[i]
  <2> SUFFICES ASSUME NEW i \in I PROVE \E n \in 1..Cardinality(I) : Select(s, I)[n] = s[i]  OBVIOUS
  <2>1. PICK n \in 1..Cardinality(I) : Ascending(I)[n] = i  BY <1>2
  <2> QED BY <1>7, <2>1
<1> QED BY <1>6, <1>8, <1>9

LEMMA SelectAll ==
  ASSUME NEW T, NEW s \in Seq(T)
  PROVE  Select(s, DOMAIN s) = s
<1> DEFINE L == Len(s)
           I == 1..L
           R == {p \in I \X I : p[1] < p[2]}
<1>1. L \in Nat /\ DOMAIN s = I /\ Cardinality(I) = L
  <2>1. L \in Nat /\ DOMAIN s = I  OBVIOUS
  <2>2. Cardinality(1..L) = L  BY <2>1, FS_Interval, 1 \in Int, L \in Int
  <2> QED BY <2>1, <2>2
<1>2. \A x, y \in I : <<y, x>> \in R <=> y < x  OBVIOUS
<1>3. ASSUME NEW x \in I PROVE Cardinality({y \in I : <<y, x>> \in R}) = x - 1
  <2>1. {y \in I : <<y, x>> \in R} = 1..(x - 1)
    <3> HIDE DEF R
    <3> QED BY <1>1, <1>2
  <2>2. x - 1 \in Nat  BY <1>1
  <2>3. Cardinality(1..(x - 1)) = x - 1  BY <2>2, FS_Interval, 1 \in Int, x - 1 \in Int
  <2> HIDE DEF R
  <2> QED BY <2>1, <2>3
<1>4. \A n \in I : (CHOOSE x \in I : Cardinality({y \in I : <<y, x>> \in R}) = n - 1) = n
  <2> SUFFICES ASSUME NEW n \in I PROVE (CHOOSE x \in I : Cardinality({y \in I : <<y, x>> \in R}) = n - 1) = n
    OBVIOUS
  <2> HIDE DEF R
  <2>1. Cardinality({y \in I : <<y, n>> \in R}) = n - 1  BY <1>3
  <2>2. \A x \in I : Cardinality({y \in I : <<y, x>> \in R}) = n - 1 => x = n  BY <1>1, <1>3
  <2> HIDE DEF I
  <2> QED BY <2>1, <2>2
<1>5. Ascending(I) = Ranked(I, R)  BY DEF Ascending
<1> HIDE DEF R
<1>6. Ascending(I) = [n \in 1..L |-> n]  BY <1>1, <1>4, <1>5 DEF Ranked
<1>7. Select(s, I) = [n \in 1..L |-> s[n]]
  BY <1>1, <1>6 DEF Select
<1> QED BY <1>1, <1>7

-----------------------------------------------------------------------------
(* The files, and a command that writes them.                              *)
Groups == SUBSET (Places \cup {"foreign"})

AtMostOne(groups) == \A i, j \in DOMAIN groups : Ours(groups[i]) /\ Ours(groups[j]) => i = j

(* A file that is absent or cannot be read holds nothing.                  *)
SettingsOK(s) ==
  /\ s \in [is : {"none", "broken", "json"}, hooks : [Events -> Seq(Groups)], other : BOOLEAN]
  /\ \A e \in Events : AtMostOne(s.hooks[e])
  /\ s.is # "json" => s.hooks = NoHooks /\ ~s.other
McpOK(m) ==
  /\ m \in [is : {"none", "broken", "json"}, servers : [Keys -> SUBSET (Places \cup {"extra"})], foreign : BOOLEAN]
  /\ m.is # "json" => m.servers = NoServers /\ ~m.foreign
PluginOK(p) == p \in Places \cup {"none", "edited"}
Lines == {"", "user", Comment, Entry}
IgnoreOK(g) == g \in Seq(Lines)

FilesInv == SettingsOK(settings) /\ McpOK(mcp) /\ PluginOK(plugin) /\ IgnoreOK(ignore)

CliFields == {"op", "force", "host", "steps", "write", "held", "alone"}
InitNames == {"hooks", "server", "gitignore", "plugin", "plugin if there", "codex", "codex if there", "generic"}
ExitNames == {"directory", "unhook", "unregister", "unplug", "unignore"}

(* What each step is for, of the files s, m, p and g and the hosts r there *)
(* are: Hooked and Plugged when the command was forced.                    *)
Hooked(s, force) ==
  /\ s.is = "json"
  /\ \A e \in Events : \E i \in DOMAIN s.hooks[e] : Ours(s.hooks[e][i])
  /\ force => \A e \in Events : \A i \in DOMAIN s.hooks[e] :
                Ours(s.hooks[e][i]) => s.hooks[e][i] \cap Places = {ResolveBinaries}
Plugged(p, force) == p # "none" /\ (force => p = ResolveBinaries)
AchievedIn(s, m, p, g, r, step, force) ==
  /\ step = "hooks" => Hooked(s, force)
  /\ step = "server" => m.servers["patchmesh"] # {}
  /\ step = "gitignore" => Contains(g, Entry)
  /\ step = "plugin" => Plugged(p, force)
  /\ step = "plugin if there" => ("opencode" \in r => p # "none")
  /\ step = "unhook" => \A e \in Events : \A i \in DOMAIN s.hooks[e] : ~Ours(s.hooks[e][i])
  /\ step = "unregister" => m.servers["patchmesh"] = {}
  /\ step = "unplug" => p = "none"
  /\ step = "unignore" => \A i \in DOMAIN g : g[i] \notin {Comment, Entry}
Achieved(step, force) == AchievedIn(settings, mcp, plugin, ignore, present, step, force)

Aims(op, host) ==
  IF op = "init"
  THEN {"hooks", "server", "gitignore"} \cup (IF host = "opencode" THEN {"plugin"} ELSE {})
         \cup (IF host = "all" THEN {"plugin if there"} ELSE {})
  ELSE {"unhook", "unregister", "unplug", "unignore"}

(* What others put in the files, kept in the files that replace them.      *)
Keeps(s, m, p, g, op, force) ==
  /\ HookedBy(settings) \ {e \in Events : Shared(e)} \subseteq HookedBy(s)
  /\ settings.other => s.other
  /\ mcp.foreign => m.foreign
  /\ op = "init" /\ "extra" \in mcp.servers["patchmesh"] => "extra" \in m.servers["patchmesh"]
  /\ plugin = "edited" => p = "edited" \/ force \/ op = "exit"
  /\ Contains(ignore, "user") => Contains(g, "user")

(* What there will be once w is written.                                   *)
NewSettings(w) == IF "settings" \in DOMAIN w THEN w["settings"] ELSE settings
NewMcp(w) == IF "mcp" \in DOMAIN w THEN w["mcp"] ELSE mcp
NewPlugin(w) == IF "plugin" \in DOMAIN w THEN w["plugin"] ELSE plugin
NewIgnore(w) == IF "ignore" \in DOMAIN w THEN w["ignore"] ELSE ignore
NewPresent(w) == present \cup (IF NewPlugin(w) # "none" THEN {"opencode"} ELSE {})

(* What is to be written does what the step is for, undoes no other and    *)
(* keeps what others put there.                                            *)
AllAims(op) == IF op = "init" THEN {"hooks", "server", "gitignore", "plugin", "plugin if there"}
               ELSE {"unhook", "unregister", "unplug", "unignore"}
Fits(w, op, h, force) ==
  /\ \A step \in AllAims(op) :
       step = h \/ Achieved(step, force) =>
         AchievedIn(NewSettings(w), NewMcp(w), NewPlugin(w), NewIgnore(w), NewPresent(w), step, force)
  /\ Keeps(NewSettings(w), NewMcp(w), NewPlugin(w), NewIgnore(w), op, force)

(* Whatever is still to be written is a file in order, also when it has    *)
(* been read long ago.                                                     *)
CliInv == cli # Nothing =>
  /\ DOMAIN cli = CliFields
  /\ cli.op \in {"init", "exit"} /\ cli.force \in BOOLEAN
  /\ cli.steps \in Seq(IF cli.op = "init" THEN InitNames ELSE ExitNames)
  /\ cli.held =>
       /\ cli.steps # << >>
       /\ "settings" \in DOMAIN cli.write => SettingsOK(cli.write.settings)
       /\ "mcp" \in DOMAIN cli.write => McpOK(cli.write.mcp)
       /\ "plugin" \in DOMAIN cli.write => PluginOK(cli.write.plugin)
       /\ "ignore" \in DOMAIN cli.write => IgnoreOK(cli.write.ignore)
       /\ cli.alone => Fits(cli.write, cli.op, Head(cli.steps), cli.force)

(* A command left alone has done what it has no step left to do.           *)
WorkInv ==
  /\ cli # Nothing /\ cli.alone =>
       \A step \in Aims(cli.op, cli.host) :
         (\E i \in DOMAIN cli.steps : cli.steps[i] = step) \/ Achieved(step, cli.force)
  /\ finished # Nothing =>
       /\ cli = Nothing /\ finished.op \in {"init", "exit"} /\ finished.force \in BOOLEAN
       /\ \A step \in Aims(finished.op, finished.host) : Achieved(step, finished.force)

SetupInv == installed \subseteq Places /\ FilesInv /\ CliInv /\ WorkInv

-----------------------------------------------------------------------------
(* What each step makes of its file.                                       *)
LEMMA PlaceIs == ResolveBinaries \in Places /\ ResolveBinaries # "none" /\ ResolveBinaries # "foreign"
                 /\ ResolveBinaries # "extra" /\ ResolveBinaries # "edited"
  BY DEF ResolveBinaries, Places

LEMMA Read ==
  ASSUME SettingsOK(settings)
  PROVE  /\ ReadSettings \in [is : {"json"}, hooks : [Events -> Seq(Groups)], other : BOOLEAN]
         /\ ReadSettings.hooks = settings.hooks
         /\ \A e \in Events : AtMostOne(settings.hooks[e])
         /\ settings.other => ReadSettings.other
<1>1. CASE settings.is = "json"  BY <1>1 DEF SettingsOK, ReadSettings
<1>2. CASE settings.is # "json"
  <2>1. ReadSettings = Empty /\ settings.hooks = NoHooks /\ ~settings.other
    BY <1>2 DEF SettingsOK, ReadSettings
  <2>2. NoHooks \in [Events -> Seq(Groups)]  BY DEF NoHooks
  <2>3. Empty \in [is : {"json"}, hooks : [Events -> Seq(Groups)], other : BOOLEAN] /\ Empty.hooks = NoHooks
    BY <2>2 DEF Empty
  <2> QED BY <2>1, <2>3 DEF SettingsOK
<1> QED BY <1>1, <1>2

LEMMA MergedHook ==
  ASSUME NEW groups \in Seq(Groups), AtMostOne(groups), NEW force \in BOOLEAN,
         NEW m, m = MergeHook(groups, force)
  PROVE  /\ m \in Seq(Groups) /\ AtMostOne(m)
         /\ \E i \in DOMAIN m : Ours(m[i])
         /\ force => \A i \in DOMAIN m : Ours(m[i]) => m[i] \cap Places = {ResolveBinaries}
         /\ \A i \in DOMAIN groups : ~Ours(groups[i]) => \E j \in DOMAIN m : m[j] = groups[i]
<1> DEFINE at == {i \in DOMAIN groups : Ours(groups[i])}
           mine == {ResolveBinaries}
<1>1. /\ mine \in Groups /\ Ours(mine) /\ mine \cap Places = {ResolveBinaries}
  BY PlaceIs DEF Groups, Ours, OwnsCommand
<1>2. Len(groups) \in Nat /\ DOMAIN groups = 1..Len(groups)  OBVIOUS
<1> HIDE DEF mine
<1>3. CASE at = {}
  <2>1. m = Append(groups, mine)  BY <1>3 DEF MergeHook, mine
  <2>2. /\ DOMAIN m = 1..(Len(groups) + 1) /\ m[Len(groups) + 1] = mine
        /\ \A i \in DOMAIN groups : m[i] = groups[i] /\ ~Ours(groups[i]) /\ i \in DOMAIN m
        /\ m \in Seq(Groups)
    BY <1>1, <1>2, <1>3, <2>1
  <2>3. \A i \in DOMAIN m : Ours(m[i]) => i = Len(groups) + 1  BY <1>2, <2>2
  <2>4. Len(groups) + 1 \in DOMAIN m  BY <1>2, <2>2
  <2>5. AtMostOne(m)  BY <2>3 DEF AtMostOne
  <2>6. \A i \in DOMAIN m : Ours(m[i]) => m[i] \cap Places = {ResolveBinaries}  BY <1>1, <2>2, <2>3
  <2>7. \E i \in DOMAIN m : Ours(m[i])  BY <1>1, <2>2, <2>4
  <2> QED BY <2>2, <2>5, <2>6, <2>7
<1>4. CASE at # {} /\ force
  <2> DEFINE first == CHOOSE i \in at : \A j \in at : i <= j
  <2>1. PICK k \in at : TRUE  BY <1>4
  <2>2. \A j \in at : j = k  BY DEF AtMostOne
  <2>3. first = k
    <3>1. \A j \in at : k <= j  BY <1>2, <2>1, <2>2
    <3>2. first \in at  BY <2>1, <3>1
    <3> QED BY <2>2, <3>2
  <2>4. m = [groups EXCEPT ![k] = mine]
    <3>1. m = [groups EXCEPT ![first] = {ResolveBinaries}]  BY <1>4 DEF MergeHook
    <3> HIDE DEF first
    <3> QED BY <2>3, <3>1 DEF mine
  <2>5. /\ DOMAIN m = DOMAIN groups /\ m \in Seq(Groups) /\ m[k] = mine
        /\ \A i \in DOMAIN groups : i # k => m[i] = groups[i] /\ ~Ours(groups[i])
    BY <1>1, <1>2, <2>1, <2>2, <2>4
  <2>6. \A i \in DOMAIN m : Ours(m[i]) => i = k  BY <2>5
  <2>7. AtMostOne(m)  BY <2>6 DEF AtMostOne
  <2>8. \A i \in DOMAIN m : Ours(m[i]) => m[i] \cap Places = {ResolveBinaries}  BY <1>1, <2>5, <2>6
  <2>9. \E i \in DOMAIN m : Ours(m[i])  BY <1>1, <2>1, <2>5
  <2>10. \A i \in DOMAIN groups : ~Ours(groups[i]) => \E j \in DOMAIN m : m[j] = groups[i]
    BY <2>1, <2>5
  <2> QED BY <2>5, <2>7, <2>8, <2>9, <2>10
<1>5. CASE at # {} /\ ~force
  <2>1. m = groups  BY <1>5 DEF MergeHook
  <2> QED BY <1>5, <2>1
<1> QED BY <1>3, <1>4, <1>5

LEMMA InstalledHooks ==
  ASSUME SettingsOK(settings), NEW force \in BOOLEAN, NEW s, s = InstallHooks(force), SetupAssumption
  PROVE  /\ SettingsOK(s) /\ s.is = "json"
         /\ \A e \in Events : \E i \in DOMAIN s.hooks[e] : Ours(s.hooks[e][i])
         /\ force => \A e \in Events : \A i \in DOMAIN s.hooks[e] :
                       Ours(s.hooks[e][i]) => s.hooks[e][i] \cap Places = {ResolveBinaries}
         /\ \A e \in Events : \A i \in DOMAIN settings.hooks[e] :
              ~Ours(settings.hooks[e][i]) => \E j \in DOMAIN s.hooks[e] : s.hooks[e][j] = settings.hooks[e][i]
         /\ settings.other => s.other
<1> DEFINE old == ReadSettings
           new == [e \in Events |-> MergeHook(old.hooks[e], force)]
           changed == force \/ \E e \in Events : ~\E i \in DOMAIN old.hooks[e] : Ours(old.hooks[e][i])
<1>1. /\ old \in [is : {"json"}, hooks : [Events -> Seq(Groups)], other : BOOLEAN]
      /\ old.hooks = settings.hooks
      /\ \A e \in Events : AtMostOne(settings.hooks[e])
      /\ settings.other => old.other
  BY Read
<1>2. s = IF changed THEN [old EXCEPT !.hooks = new] ELSE settings  BY DEF InstallHooks
<1>3. CASE changed
  <2>1. ASSUME NEW e \in Events
        PROVE  /\ new[e] \in Seq(Groups) /\ AtMostOne(new[e])
               /\ \E i \in DOMAIN new[e] : Ours(new[e][i])
               /\ force => \A i \in DOMAIN new[e] : Ours(new[e][i]) => new[e][i] \cap Places = {ResolveBinaries}
               /\ \A i \in DOMAIN settings.hooks[e] :
                    ~Ours(settings.hooks[e][i]) => \E j \in DOMAIN new[e] : new[e][j] = settings.hooks[e][i]
    <3>1. new[e] = MergeHook(settings.hooks[e], force)  BY <1>1
    <3>2. settings.hooks[e] \in Seq(Groups) /\ AtMostOne(settings.hooks[e])  BY <1>1
    <3> HIDE DEF new
    <3> QED BY <3>1, <3>2, MergedHook
  <2>2. DOMAIN new = Events /\ new = [e \in Events |-> new[e]]  OBVIOUS
  <2> HIDE DEF new, changed, old
  <2>3. s = [old EXCEPT !.hooks = new]  BY <1>2, <1>3
  <2>4. new \in [Events -> Seq(Groups)]  BY <2>1, <2>2
  <2>5. /\ s.hooks = new /\ s.is = "json" /\ s.other = old.other
        /\ s \in [is : {"none", "broken", "json"}, hooks : [Events -> Seq(Groups)], other : BOOLEAN]
    BY <1>1, <2>3, <2>4
  <2>6. SettingsOK(s)  BY <2>1, <2>5 DEF SettingsOK
  <2> QED BY <1>1, <2>1, <2>5, <2>6
<1>4. CASE ~changed
  <2>1. /\ s = settings /\ ~force
        /\ \A e \in Events : \E i \in DOMAIN settings.hooks[e] : Ours(settings.hooks[e][i])
    BY <1>1, <1>2, <1>4
  <2>2. settings.is = "json"
    <3> SUFFICES ASSUME settings.is # "json" PROVE FALSE  BY DEF SettingsOK
    <3>1. PICK e \in Events : TRUE  BY DEF SetupAssumption
    <3>2. settings.hooks[e] = << >>  BY <3>1 DEF SettingsOK, NoHooks
    <3> QED BY <2>1, <3>1, <3>2
  <2> QED BY <2>1, <2>2
<1> QED BY <1>3, <1>4

LEMMA RemovedHooks ==
  ASSUME SettingsOK(settings), NEW s, s = RemovePatchmeshHooks
  PROVE  /\ SettingsOK(s)
         /\ \A e \in Events : \A i \in DOMAIN s.hooks[e] : ~Ours(s.hooks[e][i])
         /\ \A e \in Events : \A i \in DOMAIN settings.hooks[e] :
              ~Ours(settings.hooks[e][i]) => \E j \in DOMAIN s.hooks[e] : s.hooks[e][j] = settings.hooks[e][i]
         /\ settings.other => s.other
         /\ s # settings <=> DryCheckHooks
<1> DEFINE mine(e) == {i \in DOMAIN settings.hooks[e] : Ours(settings.hooks[e][i])}
           rest(e) == {i \in DOMAIN settings.hooks[e] : ~Ours(settings.hooks[e][i])}
           kept == [e \in Events |-> Select(settings.hooks[e], rest(e))]
<1>1. s = IF settings.is # "json" \/ kept = settings.hooks THEN settings
          ELSE IF kept = NoHooks /\ ~settings.other THEN [Empty EXCEPT !.is = "none"]
          ELSE [settings EXCEPT !.hooks = kept]
  BY DEF RemovePatchmeshHooks
<1>2. ASSUME NEW e \in Events
      PROVE  /\ kept[e] \in Seq(Groups)
             /\ \A n \in DOMAIN kept[e] : ~Ours(kept[e][n])
             /\ \A i \in DOMAIN settings.hooks[e] :
                  ~Ours(settings.hooks[e][i]) => \E n \in DOMAIN kept[e] : kept[e][n] = settings.hooks[e][i]
             /\ (\A i \in DOMAIN settings.hooks[e] : ~Ours(settings.hooks[e][i])) => kept[e] = settings.hooks[e]
             /\ AtMostOne(kept[e])
  <2>1. settings.hooks[e] \in Seq(Groups)  BY DEF SettingsOK
  <2>2. kept[e] = Select(settings.hooks[e], rest(e)) /\ rest(e) \in SUBSET (DOMAIN settings.hooks[e])  OBVIOUS
  <2>3. /\ Select(settings.hooks[e], rest(e)) \in Seq(Groups)
        /\ \A n \in DOMAIN Select(settings.hooks[e], rest(e)) :
             \E i \in rest(e) : Select(settings.hooks[e], rest(e))[n] = settings.hooks[e][i]
        /\ \A i \in rest(e) : \E n \in DOMAIN Select(settings.hooks[e], rest(e)) :
             Select(settings.hooks[e], rest(e))[n] = settings.hooks[e][i]
    <3> HIDE DEF rest, kept
    <3> QED BY <2>1, <2>2, SelectKeeps
  <2>4. Select(settings.hooks[e], DOMAIN settings.hooks[e]) = settings.hooks[e]  BY <2>1, SelectAll
  <2>5. (\A i \in DOMAIN settings.hooks[e] : ~Ours(settings.hooks[e][i])) => rest(e) = DOMAIN settings.hooks[e]
    OBVIOUS
  <2> HIDE DEF kept
  <2>6. \A i \in rest(e) : ~Ours(settings.hooks[e][i])  OBVIOUS
  <2>7. \A i \in DOMAIN settings.hooks[e] : ~Ours(settings.hooks[e][i]) => i \in rest(e)  OBVIOUS
  <2> HIDE DEF rest
  <2>8. \A n \in DOMAIN kept[e] : ~Ours(kept[e][n])  BY <2>2, <2>3, <2>6
  <2> QED BY <2>2, <2>3, <2>4, <2>5, <2>7, <2>8 DEF AtMostOne
<1>3. DOMAIN kept = Events /\ kept = [e \in Events |-> kept[e]]  OBVIOUS
<1> HIDE DEF kept
<1>4. kept \in [Events -> Seq(Groups)]  BY <1>2, <1>3
<1>5. CASE settings.is # "json"
  <2>1. s = settings /\ settings.hooks = NoHooks  BY <1>1, <1>5 DEF SettingsOK
  <2>2. \A e \in Events : DOMAIN settings.hooks[e] = {}  BY <2>1 DEF NoHooks
  <2> QED BY <1>5, <2>1, <2>2 DEF DryCheckHooks
<1>6. CASE settings.is = "json" /\ kept = settings.hooks
  <2>1. s = settings  BY <1>1, <1>6
  <2> QED BY <1>2, <1>6, <2>1 DEF DryCheckHooks
<1>7. CASE settings.is = "json" /\ kept # settings.hooks
  <2>1. DryCheckHooks
    <3> SUFFICES ASSUME ~DryCheckHooks PROVE FALSE  OBVIOUS
    <3>1. \A e \in Events : kept[e] = settings.hooks[e]  BY <1>2, <1>7 DEF DryCheckHooks
    <3>2. settings.hooks \in [Events -> Seq(Groups)]  BY DEF SettingsOK
    <3> QED BY <1>4, <1>7, <3>1, <3>2
  <2>2. CASE kept = NoHooks /\ ~settings.other
    <3>1. s = [Empty EXCEPT !.is = "none"]  BY <1>1, <1>7, <2>2
    <3>2. s.is = "none" /\ s.hooks = kept /\ s.other = FALSE
          /\ s \in [is : {"none", "broken", "json"}, hooks : [Events -> Seq(Groups)], other : BOOLEAN]
      BY <1>4, <2>2, <3>1 DEF Empty
    <3> QED BY <1>2, <1>7, <2>1, <2>2, <3>2 DEF SettingsOK
  <2>3. CASE ~(kept = NoHooks /\ ~settings.other)
    <3>1. s = [settings EXCEPT !.hooks = kept]  BY <1>1, <1>7, <2>3
    <3>2. s.is = "json" /\ s.hooks = kept /\ s.other = settings.other
          /\ s \in [is : {"none", "broken", "json"}, hooks : [Events -> Seq(Groups)], other : BOOLEAN]
      BY <1>4, <1>7, <3>1 DEF SettingsOK
    <3> QED BY <1>2, <1>7, <2>1, <3>2 DEF SettingsOK
  <2> QED BY <2>2, <2>3
<1> QED BY <1>5, <1>6, <1>7 DEF SettingsOK

LEMMA ReadServers ==
  ASSUME McpOK(mcp)
  PROVE  /\ ReadMcp \in [is : {"json"}, servers : [Keys -> SUBSET (Places \cup {"extra"})], foreign : BOOLEAN]
         /\ ReadMcp.servers = mcp.servers
         /\ mcp.foreign => ReadMcp.foreign
<1>1. CASE mcp.is = "json"  BY <1>1 DEF McpOK, ReadMcp
<1>2. CASE mcp.is # "json"
  <2>1. ReadMcp = EmptyMcp /\ mcp.servers = NoServers /\ ~mcp.foreign
    BY <1>2 DEF McpOK, ReadMcp
  <2>2. NoServers \in [Keys -> SUBSET (Places \cup {"extra"})]  BY DEF NoServers
  <2>3. /\ EmptyMcp \in [is : {"json"}, servers : [Keys -> SUBSET (Places \cup {"extra"})], foreign : BOOLEAN]
        /\ EmptyMcp.servers = NoServers
    BY <2>2 DEF EmptyMcp
  <2> QED BY <2>1, <2>3 DEF McpOK
<1> QED BY <1>1, <1>2

(* m is mcp with the server under key in it.                               *)
WithServer(m, key) ==
  /\ McpOK(m) /\ m.servers[key] # {}
  /\ \A k \in Keys : k # key => m.servers[k] = mcp.servers[k]
  /\ \A k \in Keys : "extra" \in mcp.servers[k] => "extra" \in m.servers[k]
  /\ mcp.foreign => m.foreign

LEMMA Registered ==
  ASSUME McpOK(mcp), NEW key \in Keys, NEW force \in BOOLEAN, NEW m, m = Register(key, force)
  PROVE  WithServer(m, key)
<1> DEFINE old == ReadMcp
           place == IF key = "patchmesh-generic-mcp" THEN "global" ELSE ResolveBinaries
<1>1. /\ old \in [is : {"json"}, servers : [Keys -> SUBSET (Places \cup {"extra"})], foreign : BOOLEAN]
      /\ old.servers = mcp.servers /\ (mcp.foreign => old.foreign)
  BY ReadServers
<1>2. place \in Places  BY PlaceIs DEF Places
<1>3. m = IF old.servers[key] # {} /\ ~force THEN mcp
          ELSE [old EXCEPT !.servers[key] = {place} \cup Extra(@)]
  BY DEF Register
<1> HIDE DEF old, place
<1>4. CASE old.servers[key] # {} /\ ~force
  BY <1>1, <1>3, <1>4 DEF WithServer
<1>5. CASE ~(old.servers[key] # {} /\ ~force)
  <2>1. m = [old EXCEPT !.servers = [old.servers EXCEPT ![key] = {place} \cup Extra(old.servers[key])]]
    BY <1>1, <1>3, <1>5
  <2>2. PICK new : new = [old.servers EXCEPT ![key] = {place} \cup Extra(old.servers[key])]  OBVIOUS
  <2>3. /\ new \in [Keys -> SUBSET (Places \cup {"extra"})] /\ new[key] = {place} \cup Extra(old.servers[key])
        /\ \A k \in Keys : k # key => new[k] = mcp.servers[k]
    BY <1>1, <1>2, <2>2 DEF Extra
  <2>4. m.is = "json" /\ m.servers = new /\ m.foreign = old.foreign
        /\ m \in [is : {"none", "broken", "json"}, servers : [Keys -> SUBSET (Places \cup {"extra"})], foreign : BOOLEAN]
    BY <1>1, <2>1, <2>2, <2>3
  <2>5. "extra" \in mcp.servers[key] => "extra" \in new[key]  BY <1>1, <2>3 DEF Extra
  <2> QED BY <1>1, <2>3, <2>4, <2>5 DEF McpOK, WithServer
<1> QED BY <1>4, <1>5

LEMMA Unregistered ==
  ASSUME McpOK(mcp), NEW m, m = RemoveMcpEntry
  PROVE  /\ McpOK(m) /\ m.servers["patchmesh"] = {}
         /\ mcp.foreign => m.foreign
         /\ m # mcp <=> DryCheckMcp
<1> DEFINE others == [mcp.servers EXCEPT !["patchmesh"] = {}]
<1>1. /\ mcp \in [is : {"none", "broken", "json"}, servers : [Keys -> SUBSET (Places \cup {"extra"})], foreign : BOOLEAN]
      /\ mcp.is # "json" => mcp.servers = NoServers /\ ~mcp.foreign
  BY DEF McpOK
<1>2. "patchmesh" \in Keys  BY DEF Keys
<1>3. others \in [Keys -> SUBSET (Places \cup {"extra"})] /\ others["patchmesh"] = {}  BY <1>1, <1>2
<1>4. m = IF mcp.is # "json" \/ mcp.servers["patchmesh"] = {} THEN mcp
          ELSE IF others = NoServers /\ ~mcp.foreign THEN [EmptyMcp EXCEPT !.is = "none"]
          ELSE [mcp EXCEPT !.servers = others]
  BY DEF RemoveMcpEntry
<1> HIDE DEF others
<1>5. CASE mcp.is # "json" \/ mcp.servers["patchmesh"] = {}
  <2>1. m = mcp  BY <1>4, <1>5
  <2>2. m.servers["patchmesh"] = {}  BY <1>1, <1>2, <1>5, <2>1 DEF NoServers
  <2> QED BY <1>5, <2>1, <2>2 DEF DryCheckMcp
<1>6. CASE mcp.is = "json" /\ mcp.servers["patchmesh"] # {}
  <2>1. CASE others = NoServers /\ ~mcp.foreign
    <3>1. m = [EmptyMcp EXCEPT !.is = "none"]  BY <1>4, <1>6, <2>1
    <3>2. m.is = "none" /\ m.servers = others /\ m.foreign = FALSE
          /\ m \in [is : {"none", "broken", "json"}, servers : [Keys -> SUBSET (Places \cup {"extra"})], foreign : BOOLEAN]
      BY <1>3, <2>1, <3>1 DEF EmptyMcp
    <3> QED BY <1>3, <1>6, <2>1, <3>2 DEF McpOK, DryCheckMcp
  <2>2. CASE ~(others = NoServers /\ ~mcp.foreign)
    <3>1. m = [mcp EXCEPT !.servers = others]  BY <1>4, <1>6, <2>2
    <3>2. m.is = "json" /\ m.servers = others /\ m.foreign = mcp.foreign
          /\ m \in [is : {"none", "broken", "json"}, servers : [Keys -> SUBSET (Places \cup {"extra"})], foreign : BOOLEAN]
      BY <1>1, <1>3, <1>6, <3>1
    <3> QED BY <1>3, <1>6, <3>2 DEF McpOK, DryCheckMcp
  <2> QED BY <2>1, <2>2
<1> QED BY <1>5, <1>6

LEMMA Plugs ==
  ASSUME PluginOK(plugin), NEW force \in BOOLEAN, NEW p, p = InstallOpencodePlugin(force)
  PROVE  /\ PluginOK(p) /\ p # "none" /\ (force => p = ResolveBinaries)
         /\ plugin = "edited" => p = "edited" \/ force
  BY PlaceIs DEF InstallOpencodePlugin, PluginOK

LEMMA LineIs ==
  ASSUME NEW g \in Seq(Lines), NEW x
  PROVE  Contains(g, x) <=> \E i \in DOMAIN g : g[i] = x
  BY DEF Contains

LEMMA Listed ==
  ASSUME NEW T, NEW a \in T, NEW b \in T, NEW c \in T
  PROVE  /\ <<a>> \in Seq(T)
         /\ <<a, b, c>> \in Seq(T) /\ Len(<<a, b, c>>) = 3 /\ <<a, b, c>>[2] = b
  OBVIOUS

LEMMA Appended ==
  ASSUME NEW T, NEW s \in Seq(T), NEW a \in T
  PROVE  /\ Append(s, a) \in Seq(T) /\ Len(Append(s, a)) = Len(s) + 1
         /\ \A i \in 1..Len(s) : Append(s, a)[i] = s[i]
  OBVIOUS

LEMMA Ignored ==
  ASSUME IgnoreOK(ignore), NEW g, g = IgnoreLedger
  PROVE  /\ IgnoreOK(g) /\ Contains(g, Entry)
         /\ Contains(ignore, "user") => Contains(g, "user")
<1>1. ignore \in Seq(Lines) /\ Len(ignore) \in Nat  BY DEF IgnoreOK
<1>2. CASE Contains(ignore, Entry)  BY <1>2 DEF IgnoreLedger, IgnoreOK
<1>3. CASE ~Contains(ignore, Entry)
  <2> DEFINE head == IF ignore = << >> THEN <<"">>
                     ELSE IF Last(ignore) = "" THEN ignore ELSE Append(ignore, "")
             tail == <<Comment, Entry, "">>
  <2>1. g = head \o tail  BY <1>3 DEF IgnoreLedger
  <2>2. head \in Seq(Lines) /\ \A i \in DOMAIN ignore : i \in DOMAIN head /\ head[i] = ignore[i]
    <3>1. CASE ignore = << >>
      <4>1. head = <<"">>  BY <3>1
      <4>2. "" \in Lines  BY DEF Lines
      <4> HIDE DEF head
      <4>3. head \in Seq(Lines)  BY <1>1, <4>1, <4>2, Listed
      <4>4. DOMAIN ignore = {}  BY <3>1
      <4> QED BY <4>3, <4>4
    <3>2. CASE ignore # << >> /\ Last(ignore) = ""  BY <1>1, <3>2
    <3>3. CASE ignore # << >> /\ Last(ignore) # ""
      <4>1. head = Append(ignore, "")  BY <3>3
      <4>2. "" \in Lines  BY DEF Lines
      <4> HIDE DEF head
      <4>3. /\ Append(ignore, "") \in Seq(Lines) /\ Len(Append(ignore, "")) = Len(ignore) + 1
            /\ \A i \in 1..Len(ignore) : Append(ignore, "")[i] = ignore[i]
        BY <1>1, <4>2, Appended
      <4>4. /\ head \in Seq(Lines) /\ Len(head) = Len(ignore) + 1 /\ Len(ignore) \in Nat
            /\ \A i \in 1..Len(ignore) : head[i] = ignore[i]
        BY <1>1, <4>1, <4>3
      <4> QED BY <1>1, <4>4
    <3> QED BY <3>1, <3>2, <3>3
  <2>3. tail \in Seq(Lines) /\ Len(tail) = 3 /\ tail[2] = Entry
    <3>1. Comment \in Lines /\ Entry \in Lines /\ "" \in Lines  BY DEF Lines
    <3> QED BY <1>1, <3>1, Listed
  <2> HIDE DEF head, tail
  <2>4. /\ g \in Seq(Lines) /\ Len(g) = Len(head) + 3 /\ Len(head) \in Nat /\ Len(g) \in Nat
        /\ \A i \in 1..Len(head) : g[i] = head[i]
        /\ \A i \in 1..3 : g[Len(head) + i] = tail[i]
    <3>1. Len(head) \in Nat /\ head \in Seq(Lines) /\ tail \in Seq(Lines)  BY <2>2, <2>3
    <3>2. /\ g \in Seq(Lines) /\ Len(g) = Len(head) + Len(tail)
          /\ \A i \in 1..Len(head) + Len(tail) :
               g[i] = IF i <= Len(head) THEN head[i] ELSE tail[i - Len(head)]
      BY <2>1, <3>1, ConcatProperties
    <3>3. \A i \in 1..Len(head) : g[i] = head[i]  BY <2>3, <3>1, <3>2
    <3>4. ASSUME NEW i \in 1..3 PROVE g[Len(head) + i] = tail[i]
      <4>1. Len(head) + i \in 1..Len(head) + Len(tail) /\ ~(Len(head) + i <= Len(head))
            /\ (Len(head) + i) - Len(head) = i
        BY <2>3, <3>1
      <4> QED BY <3>2, <4>1
    <3> QED BY <2>3, <3>1, <3>2, <3>3, <3>4
  <2>5. Len(head) + 2 \in DOMAIN g /\ g[Len(head) + 2] = Entry  BY <2>3, <2>4
  <2>6. \A i \in DOMAIN ignore : i \in DOMAIN g /\ g[i] = ignore[i]  BY <2>2, <2>4
  <2> QED BY <1>1, <2>4, <2>5, <2>6, LineIs DEF IgnoreOK
<1> QED BY <1>2, <1>3

LEMMA Unignored ==
  ASSUME IgnoreOK(ignore), NEW g, g = RemoveGitignoreEntry
  PROVE  /\ IgnoreOK(g)
         /\ \A i \in DOMAIN g : g[i] \notin {Comment, Entry}
         /\ Contains(ignore, "user") => Contains(g, "user")
         /\ g # ignore <=> DryCheckGitignore
<1> DEFINE rest == {i \in DOMAIN ignore : ignore[i] \notin {Comment, Entry}}
           filtered == Select(ignore, rest)
<1>1. ignore \in Seq(Lines) /\ rest \in SUBSET (DOMAIN ignore)  BY DEF IgnoreOK
<1>2. g = IF filtered = ignore THEN ignore
          ELSE IF \A i \in DOMAIN filtered : filtered[i] = "" THEN << >> ELSE filtered
  BY DEF RemoveGitignoreEntry
<1>3. \A i \in DOMAIN ignore : i \in rest <=> ignore[i] \notin {Comment, Entry}  OBVIOUS
<1>4. ~DryCheckGitignore => rest = DOMAIN ignore  BY DEF DryCheckGitignore
<1> HIDE DEF rest
<1>5. /\ filtered \in Seq(Lines)
      /\ \A n \in DOMAIN filtered : \E i \in rest : filtered[n] = ignore[i]
      /\ \A i \in rest : \E n \in DOMAIN filtered : filtered[n] = ignore[i]
  BY <1>1, SelectKeeps
<1>6. ~DryCheckGitignore => filtered = ignore  BY <1>1, <1>4, SelectAll
<1> HIDE DEF filtered
<1>7. \A n \in DOMAIN filtered : filtered[n] \notin {Comment, Entry}  BY <1>1, <1>3, <1>5
<1>8. filtered = ignore => ~DryCheckGitignore  BY <1>7 DEF DryCheckGitignore
<1>9. Contains(ignore, "user") => \E n \in DOMAIN filtered : filtered[n] = "user"
  <2> SUFFICES ASSUME Contains(ignore, "user") PROVE \E n \in DOMAIN filtered : filtered[n] = "user"  OBVIOUS
  <2>1. PICK i \in DOMAIN ignore : ignore[i] = "user"  BY <1>1, LineIs
  <2>2. i \in rest  BY <1>3, <2>1 DEF Comment, Entry
  <2> QED BY <1>5, <2>1, <2>2
<1>10. CASE filtered = ignore
  BY <1>2, <1>7, <1>8, <1>10 DEF IgnoreOK
<1>11. CASE filtered # ignore /\ \A i \in DOMAIN filtered : filtered[i] = ""
  <2>1. g = << >>  BY <1>2, <1>11
  <2>2. DryCheckGitignore  BY <1>6, <1>11
  <2>3. ignore # << >>
    <3>1. PICK i \in DOMAIN ignore : TRUE  BY <2>2 DEF DryCheckGitignore
    <3> QED BY <1>1, <3>1
  <2>4. ~Contains(ignore, "user")  BY <1>9, <1>11
  <2> QED BY <2>1, <2>2, <2>3, <2>4 DEF IgnoreOK
<1>12. CASE filtered # ignore /\ ~\A i \in DOMAIN filtered : filtered[i] = ""
  <2>1. g = filtered  BY <1>2, <1>12
  <2>2. DryCheckGitignore  BY <1>6, <1>12
  <2> QED BY <1>5, <1>7, <1>9, <1>12, <2>1, <2>2, LineIs DEF IgnoreOK
<1> QED BY <1>10, <1>11, <1>12

Means(step, force, w) ==
  /\ "settings" \in DOMAIN w <=> step \in {"hooks", "unhook"}
  /\ step = "hooks" => w["settings"] = InstallHooks(force)
  /\ step = "unhook" => w["settings"] = RemovePatchmeshHooks
  /\ "mcp" \in DOMAIN w =>
       step \in {"server", "codex", "generic", "unregister", "codex if there"}
  /\ step \in {"server", "codex", "generic", "unregister"} => "mcp" \in DOMAIN w
  /\ step = "server" => w["mcp"] = Register("patchmesh", force)
  /\ step \in {"codex", "codex if there"} /\ "mcp" \in DOMAIN w => w["mcp"] = Register("patchmesh-codex", force)
  /\ step = "generic" => w["mcp"] = Register("patchmesh-generic-mcp", force)
  /\ step = "unregister" => w["mcp"] = RemoveMcpEntry
  /\ "plugin" \in DOMAIN w <=>
       step \in {"plugin", "unplug"} \/ (step = "plugin if there" /\ "opencode" \in present)
  /\ step \in {"plugin", "plugin if there"} /\ "plugin" \in DOMAIN w => w["plugin"] = InstallOpencodePlugin(force)
  /\ step = "unplug" => w["plugin"] = "none"
  /\ "ignore" \in DOMAIN w <=> step \in {"gitignore", "unignore"}
  /\ step = "gitignore" => w["ignore"] = IgnoreLedger
  /\ step = "unignore" => w["ignore"] = RemoveGitignoreEntry

LEMMA AfterMeans ==
  ASSUME NEW step \in InitNames \cup ExitNames, NEW force, NEW w, w = After(step, force)
  PROVE  Means(step, force, w)
<1>1. CASE step = "hooks"
  <2>1. w = [settings |-> InstallHooks(force)]  BY <1>1 DEF After
  <2> QED BY <1>1, <2>1 DEF Means
<1>2. CASE step = "server"
  <2>1. w = [mcp |-> Register("patchmesh", force)]  BY <1>2 DEF After, RegisterServer
  <2> QED BY <1>2, <2>1 DEF Means
<1>3. CASE step = "codex"
  <2>1. w = [mcp |-> Register("patchmesh-codex", force)]  BY <1>3 DEF After, InstallCodexHooks
  <2> QED BY <1>3, <2>1 DEF Means
<1>13. CASE step = "codex if there" /\ "codex" \in present
  <2>1. w = [mcp |-> Register("patchmesh-codex", force)]  BY <1>13 DEF After, InstallCodexHooks
  <2>2. step = "codex if there"  BY <1>13
  <2>3. DOMAIN w = {"mcp"} /\ w["mcp"] = Register("patchmesh-codex", force)  BY <2>1
  <2> QED BY <2>2, <2>3 DEF Means
<1>4. CASE step = "generic"
  <2>1. w = [mcp |-> Register("patchmesh-generic-mcp", force)]  BY <1>4 DEF After, InstallGenericMcp
  <2> QED BY <1>4, <2>1 DEF Means
<1>5. CASE step = "plugin"
  <2>1. w = [plugin |-> InstallOpencodePlugin(force)]  BY <1>5 DEF After
  <2> QED BY <1>5, <2>1 DEF Means
<1>14. CASE step = "plugin if there" /\ "opencode" \in present
  <2>1. w = [plugin |-> InstallOpencodePlugin(force)]  BY <1>14 DEF After
  <2>2. step = "plugin if there" /\ "opencode" \in present  BY <1>14
  <2>3. DOMAIN w = {"plugin"} /\ w["plugin"] = InstallOpencodePlugin(force)  BY <2>1
  <2> QED BY <2>2, <2>3 DEF Means
<1>6. CASE step = "gitignore"
  <2>1. w = [ignore |-> IgnoreLedger]  BY <1>6 DEF After
  <2> QED BY <1>6, <2>1 DEF Means
<1>7. CASE step = "directory"
  <2>1. w = [ledgerDir |-> FALSE]  BY <1>7 DEF After
  <2> QED BY <1>7, <2>1 DEF Means
<1>8. CASE step = "unhook"
  <2>1. w = [settings |-> RemovePatchmeshHooks]  BY <1>8 DEF After
  <2> QED BY <1>8, <2>1 DEF Means
<1>9. CASE step = "unregister"
  <2>1. w = [mcp |-> RemoveMcpEntry]  BY <1>9 DEF After
  <2> QED BY <1>9, <2>1 DEF Means
<1>10. CASE step = "unplug"
  <2>1. w = [plugin |-> "none"]  BY <1>10 DEF After
  <2> QED BY <1>10, <2>1 DEF Means
<1>11. CASE step = "unignore"
  <2>1. w = [ignore |-> RemoveGitignoreEntry]  BY <1>11 DEF After
  <2> QED BY <1>11, <2>1 DEF Means
<1>12. CASE \/ step = "codex if there" /\ "codex" \notin present
            \/ step = "plugin if there" /\ "opencode" \notin present
  <2>1. w = << >>  BY <1>12 DEF After
  <2>2. DOMAIN w = {}  BY <2>1
  <2> QED BY <1>12, <2>2 DEF Means
<1> QED BY <1>1, <1>2, <1>3, <1>4, <1>5, <1>6, <1>7, <1>8, <1>9, <1>10, <1>11, <1>12, <1>13, <1>14 DEF InitNames, ExitNames

LEMMA KeysAre == "patchmesh" \in Keys /\ "patchmesh-codex" \in Keys /\ "patchmesh-generic-mcp" \in Keys
  BY DEF Keys

(* Whatever a step is to write is a file in order.                         *)
LEMMA Drafted ==
  ASSUME FilesInv, SetupAssumption, NEW step \in InitNames \cup ExitNames, NEW force \in BOOLEAN,
         NEW w, w = After(step, force)
  PROVE  /\ "settings" \in DOMAIN w => SettingsOK(w["settings"])
         /\ "mcp" \in DOMAIN w => McpOK(w["mcp"])
         /\ "plugin" \in DOMAIN w => PluginOK(w["plugin"])
         /\ "ignore" \in DOMAIN w => IgnoreOK(w["ignore"])
<1>1. SettingsOK(InstallHooks(force)) /\ SettingsOK(RemovePatchmeshHooks)
  BY InstalledHooks, RemovedHooks DEF FilesInv
<1>2. /\ \A key \in Keys : McpOK(Register(key, force))
      /\ McpOK(RemoveMcpEntry)
  BY Registered, Unregistered DEF FilesInv, WithServer
<1>3. PluginOK(InstallOpencodePlugin(force)) /\ PluginOK("none")
  BY Plugs DEF FilesInv, PluginOK
<1>4. IgnoreOK(IgnoreLedger) /\ IgnoreOK(RemoveGitignoreEntry)
  BY Ignored, Unignored DEF FilesInv
<1>9. Means(step, force, w)  BY AfterMeans
<1>5. "settings" \in DOMAIN w => SettingsOK(w["settings"])
  <2>1. "settings" \in DOMAIN w => w["settings"] = InstallHooks(force) \/ w["settings"] = RemovePatchmeshHooks
    BY <1>9 DEF Means
  <2> QED BY <1>1, <2>1
<1>6. "mcp" \in DOMAIN w => McpOK(w["mcp"])
  <2>1. "mcp" \in DOMAIN w => \/ \E key \in Keys : w["mcp"] = Register(key, force)
                              \/ w["mcp"] = RemoveMcpEntry
    <3>1. "mcp" \in DOMAIN w =>
            \/ w["mcp"] = Register("patchmesh", force) \/ w["mcp"] = Register("patchmesh-codex", force)
            \/ w["mcp"] = Register("patchmesh-generic-mcp", force) \/ w["mcp"] = RemoveMcpEntry
      BY <1>9 DEF Means
    <3> QED BY <3>1, KeysAre
  <2> QED BY <1>2, <2>1
<1>7. "plugin" \in DOMAIN w => PluginOK(w["plugin"])
  <2>1. "plugin" \in DOMAIN w => w["plugin"] = InstallOpencodePlugin(force) \/ w["plugin"] = "none"
    BY <1>9 DEF Means
  <2> QED BY <1>3, <2>1
<1>8. "ignore" \in DOMAIN w => IgnoreOK(w["ignore"])  BY <1>4, <1>9 DEF Means
<1> QED BY <1>5, <1>6, <1>7, <1>8

(* What a step makes of the files.                                         *)
Made(h, f, s, m, p, g) ==
  /\ s = IF h = "hooks" THEN InstallHooks(f) ELSE IF h = "unhook" THEN RemovePatchmeshHooks ELSE settings
  /\ m \in IF h = "server" THEN {Register("patchmesh", f)}
           ELSE IF h = "unregister" THEN {RemoveMcpEntry}
           ELSE {mcp, Register("patchmesh-codex", f), Register("patchmesh-generic-mcp", f)}
  /\ h \in ExitNames => m \in {mcp, RemoveMcpEntry}
  /\ p = IF h = "plugin" \/ (h = "plugin if there" /\ "opencode" \in present) THEN InstallOpencodePlugin(f)
         ELSE IF h = "unplug" THEN "none" ELSE plugin
  /\ g = IF h = "gitignore" THEN IgnoreLedger ELSE IF h = "unignore" THEN RemoveGitignoreEntry ELSE ignore

LEMMA DraftMakes ==
  ASSUME NEW h \in InitNames \cup ExitNames, NEW f, NEW w, w = After(h, f)
  PROVE  Made(h, f, NewSettings(w), NewMcp(w), NewPlugin(w), NewIgnore(w))
<1>1. Means(h, f, w)  BY AfterMeans
<1>2. NewSettings(w) = IF h = "hooks" THEN InstallHooks(f) ELSE IF h = "unhook" THEN RemovePatchmeshHooks ELSE settings
  BY <1>1 DEF Means, NewSettings
<1>3. NewMcp(w) \in IF h = "server" THEN {Register("patchmesh", f)}
               ELSE IF h = "unregister" THEN {RemoveMcpEntry}
               ELSE {mcp, Register("patchmesh-codex", f), Register("patchmesh-generic-mcp", f)}
  BY <1>1 DEF Means, NewMcp
<1>4. h \in ExitNames => NewMcp(w) \in {mcp, RemoveMcpEntry}
  BY <1>1 DEF Means, ExitNames, NewMcp
<1>5. NewPlugin(w) = IF h = "plugin" \/ (h = "plugin if there" /\ "opencode" \in present) THEN InstallOpencodePlugin(f)
               ELSE IF h = "unplug" THEN "none" ELSE plugin
  BY <1>1 DEF Means, NewPlugin
<1>6. NewIgnore(w) = IF h = "gitignore" THEN IgnoreLedger ELSE IF h = "unignore" THEN RemoveGitignoreEntry ELSE ignore
  BY <1>1 DEF Means, NewIgnore
<1> QED BY <1>2, <1>3, <1>4, <1>5, <1>6 DEF Made

(* A step of init does what it is for, and undoes no other.                *)
LEMMA InitAchieves ==
  ASSUME FilesInv, SetupAssumption, NEW f \in BOOLEAN, NEW h \in InitNames, NEW s, NEW m, NEW p, NEW g, NEW r, Made(h, f, s, m, p, g),
         r = present \cup (IF p # "none" THEN {"opencode"} ELSE {}),
         NEW st \in {"hooks", "server", "gitignore", "plugin", "plugin if there"},
         st = h \/ Achieved(st, f)
  PROVE  AchievedIn(s, m, p, g, r, st, f)
<1>2. CASE st = "hooks"
  <2>1. CASE h = "hooks"
    <3>1. s = InstallHooks(f)  BY <2>1 DEF Made
    <3>2. Hooked(s, f)  BY <3>1, InstalledHooks DEF FilesInv, Hooked
    <3> QED BY <1>2, <3>2 DEF Achieved, AchievedIn
  <2>2. CASE h # "hooks"
    <3>1. s = settings  BY <2>2 DEF Made, InitNames
    <3>2. Hooked(settings, f)  BY <1>2, <2>2 DEF Achieved, AchievedIn
    <3>3. Hooked(s, f)  BY <3>1, <3>2 DEF Hooked
    <3> QED BY <1>2, <3>3 DEF Achieved, AchievedIn
  <2> QED BY <2>1, <2>2
<1>3. CASE st = "server"
  <2>1. \A key \in Keys : /\ Register(key, f).servers[key] # {}
                          /\ "patchmesh" # key => Register(key, f).servers["patchmesh"] = mcp.servers["patchmesh"]
    <3> SUFFICES ASSUME NEW key \in Keys
                 PROVE  /\ Register(key, f).servers[key] # {}
                        /\ "patchmesh" # key => Register(key, f).servers["patchmesh"] = mcp.servers["patchmesh"]
      OBVIOUS
    <3>1. WithServer(Register(key, f), key)  BY Registered DEF FilesInv
    <3> QED BY <3>1, KeysAre DEF WithServer
  <2>2. CASE h = "server"
    <3>1. m = Register("patchmesh", f)  BY <2>2 DEF Made
    <3> QED BY <1>3, <2>1, <3>1, KeysAre DEF Achieved, AchievedIn
  <2>3. CASE h # "server"
    <3>1. m \in {mcp, Register("patchmesh-codex", f), Register("patchmesh-generic-mcp", f)}
      BY <2>3 DEF Made, InitNames
    <3>2. mcp.servers["patchmesh"] # {}  BY <1>3, <2>3 DEF Achieved, AchievedIn
    <3>3. m.servers["patchmesh"] # {}  BY <2>1, <3>1, <3>2, KeysAre
    <3> QED BY <1>3, <3>3 DEF Achieved, AchievedIn
  <2> QED BY <2>2, <2>3
<1>4. CASE st = "gitignore"
  <2>1. CASE h = "gitignore"
    <3>1. g = IgnoreLedger  BY <2>1 DEF Made
    <3>2. Contains(g, Entry)  BY <3>1, Ignored DEF FilesInv
    <3> QED BY <1>4, <3>2 DEF Achieved, AchievedIn
  <2>2. CASE h # "gitignore"
    <3>1. g = ignore  BY <2>2 DEF Made, InitNames
    <3> QED BY <1>4, <2>2, <3>1 DEF Achieved, AchievedIn
  <2> QED BY <2>1, <2>2
<1>5. /\ p \in {plugin, InstallOpencodePlugin(f)}
      /\ h = "plugin" => p = InstallOpencodePlugin(f)
      /\ h = "plugin if there" /\ "opencode" \in present => p = InstallOpencodePlugin(f)
      /\ r = present \cup (IF p # "none" THEN {"opencode"} ELSE {})
  BY DEF Made, InitNames
<1>6. InstallOpencodePlugin(f) # "none" /\ (f => InstallOpencodePlugin(f) = ResolveBinaries)
  BY Plugs DEF FilesInv
<1>7. CASE st = "plugin"
  <2>1. Plugged(p, f)
    <3>1. h = "plugin" \/ Plugged(plugin, f)  BY <1>7 DEF Achieved, AchievedIn
    <3> QED BY <1>5, <1>6, <3>1 DEF Plugged
  <2> QED BY <1>7, <2>1 DEF Achieved, AchievedIn
<1>8. CASE st = "plugin if there"
  <2>1. h = "plugin if there" \/ ("opencode" \in present => plugin # "none")  BY <1>8 DEF Achieved, AchievedIn
  <2>2. "opencode" \in r => p # "none"  BY <1>5, <1>6, <2>1
  <2> QED BY <1>8, <2>2 DEF Achieved, AchievedIn
<1> QED BY <1>2, <1>3, <1>4, <1>7, <1>8

LEMMA ExitAchieves ==
  ASSUME FilesInv, NEW f \in BOOLEAN, NEW h \in ExitNames, NEW s, NEW m, NEW p, NEW g, NEW r, Made(h, f, s, m, p, g),
         NEW st \in {"unhook", "unregister", "unplug", "unignore"},
         st = h \/ Achieved(st, f)
  PROVE  AchievedIn(s, m, p, g, r, st, f)
<1>1. CASE st = "unhook"
  <2>1. s = IF h = "unhook" THEN RemovePatchmeshHooks ELSE settings  BY DEF Made, ExitNames
  <2>2. \A e \in Events : \A i \in DOMAIN s.hooks[e] : ~Ours(s.hooks[e][i])
    BY <1>1, <2>1, RemovedHooks DEF FilesInv, Achieved, AchievedIn
  <2> QED BY <1>1, <2>2 DEF Achieved, AchievedIn
<1>2. CASE st = "unregister"
  <2>1. m \in {mcp, RemoveMcpEntry} /\ (h = "unregister" => m = RemoveMcpEntry)  BY DEF Made, ExitNames
  <2>2. m.servers["patchmesh"] = {}
    BY <1>2, <2>1, Unregistered DEF FilesInv, Achieved, AchievedIn
  <2> QED BY <1>2, <2>2 DEF Achieved, AchievedIn
<1>3. CASE st = "unplug"
  <2>1. p = IF h = "unplug" THEN "none" ELSE plugin  BY DEF Made, ExitNames
  <2> QED BY <1>3, <2>1 DEF Achieved, AchievedIn
<1>4. CASE st = "unignore"
  <2>1. g = IF h = "unignore" THEN RemoveGitignoreEntry ELSE ignore  BY DEF Made, ExitNames
  <2>2. \A i \in DOMAIN g : g[i] \notin {Comment, Entry}
    BY <1>4, <2>1, Unignored DEF FilesInv, Achieved, AchievedIn
  <2> QED BY <1>4, <2>2 DEF Achieved, AchievedIn
<1> QED BY <1>1, <1>2, <1>3, <1>4


LEMMA Fitting ==
  ASSUME FilesInv, SetupAssumption, NEW f \in BOOLEAN, NEW op \in {"init", "exit"},
         NEW h \in (IF op = "init" THEN InitNames ELSE ExitNames), NEW w, w = After(h, f)
  PROVE  Fits(w, op, h, f)
<1> DEFINE s == NewSettings(w)
           m == NewMcp(w)
           p == NewPlugin(w)
           g == NewIgnore(w)
           r == NewPresent(w)
<1>1. Made(h, f, s, m, p, g)  BY DraftMakes
<1>2. r = present \cup (IF p # "none" THEN {"opencode"} ELSE {})  BY DEF NewPresent
<1> HIDE DEF s, m, p, g, r
<1>3. ASSUME NEW step \in AllAims(op), step = h \/ Achieved(step, f)
      PROVE  AchievedIn(s, m, p, g, r, step, f)
  <2>1. CASE op = "init"
    <3>1. h \in InitNames /\ step \in {"hooks", "server", "gitignore", "plugin", "plugin if there"}
      BY <2>1 DEF AllAims
    <3> QED BY <1>1, <1>2, <1>3, <3>1, InitAchieves
  <2>2. CASE op = "exit"
    <3>1. h \in ExitNames /\ step \in {"unhook", "unregister", "unplug", "unignore"}
      BY <2>2 DEF AllAims
    <3> QED BY <1>1, <1>2, <1>3, <3>1, ExitAchieves
  <2> QED BY <2>1, <2>2
<1>4. Keeps(s, m, p, g, op, f)
  <2>1. HookedBy(settings) \ {e \in Events : Shared(e)} \subseteq HookedBy(s)
    <3> SUFFICES ASSUME NEW e \in Events, e \in HookedBy(settings), ~Shared(e) PROVE e \in HookedBy(s)
      BY DEF HookedBy
    <3>1. PICK i \in DOMAIN settings.hooks[e] : "foreign" \in settings.hooks[e][i]
      BY DEF HookedBy, Range
    <3>2. ~Ours(settings.hooks[e][i])  BY <3>1 DEF Shared, Range
    <3>3. \E j \in DOMAIN s.hooks[e] : s.hooks[e][j] = settings.hooks[e][i]
      <4>1. CASE s = InstallHooks(f)  BY <3>2, <4>1, InstalledHooks DEF FilesInv
      <4>2. CASE s = RemovePatchmeshHooks  BY <3>2, <4>2, RemovedHooks DEF FilesInv
      <4>3. CASE s = settings  BY <4>3
      <4> QED BY <1>1, <4>1, <4>2, <4>3 DEF Made
    <3> QED BY <3>1, <3>3 DEF HookedBy, Range
  <2>2. settings.other => s.other
    <3>1. CASE s = InstallHooks(f)  BY <3>1, InstalledHooks DEF FilesInv
    <3>2. CASE s = RemovePatchmeshHooks  BY <3>2, RemovedHooks DEF FilesInv
    <3> QED BY <1>1, <3>1, <3>2 DEF Made
  <2>3. \A key \in Keys : /\ mcp.foreign => Register(key, f).foreign
                          /\ \A k \in Keys : "extra" \in mcp.servers[k] => "extra" \in Register(key, f).servers[k]
    <3> SUFFICES ASSUME NEW key \in Keys
                 PROVE  /\ mcp.foreign => Register(key, f).foreign
                        /\ \A k \in Keys : "extra" \in mcp.servers[k] => "extra" \in Register(key, f).servers[k]
      OBVIOUS
    <3>1. WithServer(Register(key, f), key)  BY Registered DEF FilesInv
    <3> QED BY <3>1 DEF WithServer
  <2>4. mcp.foreign => RemoveMcpEntry.foreign  BY Unregistered DEF FilesInv
  <2>5. m \in {mcp, RemoveMcpEntry, Register("patchmesh", f), Register("patchmesh-codex", f), Register("patchmesh-generic-mcp", f)}
        /\ (op = "init" => m # RemoveMcpEntry \/ m \in {mcp, Register("patchmesh", f), Register("patchmesh-codex", f), Register("patchmesh-generic-mcp", f)})
    BY <1>1 DEF Made, InitNames
  <2>6. mcp.foreign => m.foreign  BY <2>3, <2>4, <2>5, KeysAre
  <2>7. op = "init" /\ "extra" \in mcp.servers["patchmesh"] => "extra" \in m.servers["patchmesh"]
    BY <2>3, <2>5, KeysAre
  <2>8. plugin = "edited" => p = "edited" \/ f \/ op = "exit"
    <3>1. p \in {InstallOpencodePlugin(f), plugin} \/ op = "exit"  BY <1>1 DEF Made, InitNames
    <3> QED BY <3>1, Plugs DEF FilesInv
  <2>9. Contains(ignore, "user") => Contains(g, "user")
    <3>1. g \in {ignore, IgnoreLedger, RemoveGitignoreEntry}  BY <1>1 DEF Made
    <3> QED BY <3>1, Ignored, Unignored DEF FilesInv
  <2> QED BY <2>1, <2>2, <2>6, <2>7, <2>8, <2>9 DEF Keeps
<1> QED BY <1>3, <1>4 DEF Fits, s, m, p, g, r

-----------------------------------------------------------------------------
(* While the files are as they were.                                       *)
Untouched == UNCHANGED <<settings, mcp, plugin, ignore, present, installed>>

LEMMA SameAchieved ==
  ASSUME Untouched, NEW st, NEW f
  PROVE  Achieved(st, f)' <=> Achieved(st, f)
<1>1. ResolveBinaries' = ResolveBinaries  BY DEF Untouched, ResolveBinaries
<1> QED BY <1>1 DEF Untouched, Achieved, AchievedIn, Hooked, Plugged

LEMMA SameFits ==
  ASSUME Untouched, NEW w, NEW op, NEW h, NEW f
  PROVE  Fits(w, op, h, f)' <=> Fits(w, op, h, f)
<1>1. ResolveBinaries' = ResolveBinaries  BY DEF Untouched, ResolveBinaries
<1>3. \A st : Achieved(st, f)' <=> Achieved(st, f)  BY SameAchieved
<1>4. /\ NewSettings(w)' = NewSettings(w) /\ NewMcp(w)' = NewMcp(w) /\ NewPlugin(w)' = NewPlugin(w)
      /\ NewIgnore(w)' = NewIgnore(w)
  BY DEF Untouched, NewSettings, NewMcp, NewPlugin, NewIgnore
<1>5. NewPresent(w)' = NewPresent(w)  BY <1>4 DEF Untouched, NewPresent
<1>6. \A st : AchievedIn(NewSettings(w), NewMcp(w), NewPlugin(w), NewIgnore(w), NewPresent(w), st, f)' <=>
              AchievedIn(NewSettings(w), NewMcp(w), NewPlugin(w), NewIgnore(w), NewPresent(w), st, f)
  BY <1>1, <1>4, <1>5 DEF AchievedIn, Hooked, Plugged
<1>7. HookedBy(settings)' = HookedBy(settings) /\ \A e \in Events : Shared(e)' <=> Shared(e)
  BY DEF Untouched, Shared
<1>8. Keeps(NewSettings(w), NewMcp(w), NewPlugin(w), NewIgnore(w), op, f)' <=>
      Keeps(NewSettings(w), NewMcp(w), NewPlugin(w), NewIgnore(w), op, f)
  BY <1>4, <1>7 DEF Keeps, Untouched
<1> QED BY <1>3, <1>6, <1>8 DEF Fits

LEMMA SameFiles ==
  ASSUME SetupInv, Untouched
  PROVE  installed' \subseteq Places /\ FilesInv'
  BY DEF Untouched, SetupInv, FilesInv, SettingsOK, McpOK, PluginOK, IgnoreOK

-----------------------------------------------------------------------------
(* The steps of the command that writes the files.                         *)
LEMMA StepsOfInit ==
  ASSUME NEW host
  PROVE  /\ InitSteps(host) \in Seq(InitNames)
         /\ \A step \in Aims("init", host) : \E i \in DOMAIN InitSteps(host) : InitSteps(host)[i] = step
<1> DEFINE a == <<"hooks", "server", "gitignore">>
           b == CASE host = "opencode" -> <<"plugin">>
                  [] host = "codex" -> <<"codex">>
                  [] host = "generic-mcp" -> <<"generic">>
                  [] host = "claude-code" -> <<"hooks">>
                  [] host = "all" -> <<"hooks", "plugin if there", "codex if there", "generic">>
                  [] OTHER -> << >>
<1>1. InitSteps(host) = a \o b  BY DEF InitSteps
<1>2. a \in Seq(InitNames) /\ Len(a) = 3 /\ a[1] = "hooks" /\ a[2] = "server" /\ a[3] = "gitignore"
  BY DEF InitNames
<1>3. b \in Seq(InitNames) /\ Len(b) \in Nat
  <2>1. CASE host = "opencode"  BY <2>1 DEF InitNames
  <2>2. CASE host = "codex"  BY <2>2 DEF InitNames
  <2>3. CASE host = "generic-mcp"  BY <2>3 DEF InitNames
  <2>4. CASE host = "claude-code"  BY <2>4 DEF InitNames
  <2>5. CASE host = "all"  BY <2>5 DEF InitNames
  <2>6. CASE host \notin {"opencode", "codex", "generic-mcp", "claude-code", "all"}
    <3>1. b = << >>  BY <2>6
    <3> HIDE DEF b
    <3> QED BY <3>1
  <2> QED BY <2>1, <2>2, <2>3, <2>4, <2>5, <2>6
<1>4. host = "opencode" => Len(b) = 1 /\ b[1] = "plugin"  OBVIOUS
<1>5. host = "all" => Len(b) = 4 /\ b[2] = "plugin if there"  OBVIOUS
<1> HIDE DEF a, b
<1>6. /\ InitSteps(host) \in Seq(InitNames) /\ Len(InitSteps(host)) = Len(a) + Len(b)
      /\ \A i \in 1..Len(a) + Len(b) : InitSteps(host)[i] = IF i <= Len(a) THEN a[i] ELSE b[i - Len(a)]
  <2>1. a \in Seq(InitNames) /\ b \in Seq(InitNames)  BY <1>2, <1>3
  <2>2. /\ a \o b \in Seq(InitNames) /\ Len(a \o b) = Len(a) + Len(b)
        /\ \A i \in 1..Len(a) + Len(b) : (a \o b)[i] = IF i <= Len(a) THEN a[i] ELSE b[i - Len(a)]
    BY <2>1, ConcatProperties
  <2> QED BY <1>1, <2>2
<1>7. DOMAIN InitSteps(host) = 1..3 + Len(b)  BY <1>2, <1>6
<1>8. /\ InitSteps(host)[1] = "hooks" /\ InitSteps(host)[2] = "server" /\ InitSteps(host)[3] = "gitignore"
      /\ 1 \in DOMAIN InitSteps(host) /\ 2 \in DOMAIN InitSteps(host) /\ 3 \in DOMAIN InitSteps(host)
  BY <1>2, <1>3, <1>6, <1>7
<1>9. host = "opencode" => 4 \in DOMAIN InitSteps(host) /\ InitSteps(host)[4] = "plugin"
  <2> SUFFICES ASSUME host = "opencode" PROVE 4 \in DOMAIN InitSteps(host) /\ InitSteps(host)[4] = "plugin"
    OBVIOUS
  <2>1. Len(a) = 3 /\ Len(b) = 1 /\ b[1] = "plugin"  BY <1>2, <1>4
  <2>2. 4 \in 1..Len(a) + Len(b) /\ ~(4 <= Len(a)) /\ 4 - Len(a) = 1  BY <2>1
  <2> QED BY <1>6, <1>7, <2>1, <2>2
<1>10. host = "all" => 5 \in DOMAIN InitSteps(host) /\ InitSteps(host)[5] = "plugin if there"
  <2> SUFFICES ASSUME host = "all" PROVE 5 \in DOMAIN InitSteps(host) /\ InitSteps(host)[5] = "plugin if there"
    OBVIOUS
  <2>1. Len(a) = 3  BY <1>2
  <2>4. Len(b) = 4 /\ b[2] = "plugin if there"  BY <1>5
  <2>5. Len(b) = 4  BY <2>4
  <2>2. Len(a) + Len(b) = 7 /\ ~(5 <= Len(a)) /\ 5 - Len(a) = 2  BY <2>1, <2>5
  <2>3. 5 \in 1..7 /\ 3 + Len(b) = 7  BY <2>5
  <2> QED BY <1>6, <1>7, <2>2, <2>3, <2>4
<1>11. ASSUME NEW step \in Aims("init", host) PROVE \E i \in DOMAIN InitSteps(host) : InitSteps(host)[i] = step
  <2>1. \/ step \in {"hooks", "server", "gitignore"}
        \/ host = "opencode" /\ step = "plugin"
        \/ host = "all" /\ step = "plugin if there"
    BY <1>11 DEF Aims
  <2> QED BY <1>8, <1>9, <1>10, <2>1
<1> QED BY <1>6, <1>11

LEMMA StepsOfExit ==
  /\ ExitSteps \in Seq(ExitNames)
  /\ \A host : \A step \in Aims("exit", host) : \E i \in DOMAIN ExitSteps : ExitSteps[i] = step
<1>1. ExitSteps \in Seq(ExitNames) /\ DOMAIN ExitSteps = 1..5
  BY DEF ExitSteps, ExitNames
<1>2. ExitSteps[2] = "unhook" /\ ExitSteps[3] = "unregister" /\ ExitSteps[4] = "unplug" /\ ExitSteps[5] = "unignore"
  BY DEF ExitSteps
<1>3. \A host : Aims("exit", host) = {"unhook", "unregister", "unplug", "unignore"}  BY DEF Aims
<1> QED BY <1>1, <1>2, <1>3

LEMMA StartKeeps ==
  ASSUME SetupInv, Start
  PROVE  SetupInv'
<1>1. Untouched /\ finished' = Nothing  BY DEF Start, Untouched, files
<1>2. ASSUME NEW op \in {"init", "exit"}, NEW host, NEW force \in BOOLEAN, NEW steps,
             steps = IF op = "init" THEN InitSteps(host) ELSE ExitSteps,
             cli' = [op |-> op, force |-> force, host |-> host, steps |-> steps,
                     write |-> << >>, held |-> FALSE, alone |-> TRUE]
      PROVE  SetupInv'
  <2>1. /\ cli' # Nothing /\ DOMAIN cli' = CliFields /\ cli'.op = op /\ cli'.force = force /\ cli'.host = host
        /\ cli'.steps = steps /\ cli'.held = FALSE
    BY <1>2 DEF Nothing, CliFields
  <2>2. /\ steps \in Seq(IF op = "init" THEN InitNames ELSE ExitNames)
        /\ \A step \in Aims(op, host) : \E i \in DOMAIN steps : steps[i] = step
    BY <1>2, StepsOfInit, StepsOfExit
  <2>3. CliInv'  BY <2>1, <2>2 DEF CliInv
  <2>4. WorkInv'  BY <1>1, <2>1, <2>2 DEF WorkInv
  <2> QED BY <1>1, <2>3, <2>4, SameFiles DEF SetupInv
<1>3. CASE \E host \in Hosts, force \in BOOLEAN :
             cli' = [op |-> "init", force |-> force, host |-> host, steps |-> InitSteps(host),
                     write |-> << >>, held |-> FALSE, alone |-> TRUE]
  <2>1. PICK host \in Hosts, force \in BOOLEAN :
          cli' = [op |-> "init", force |-> force, host |-> host, steps |-> InitSteps(host),
                  write |-> << >>, held |-> FALSE, alone |-> TRUE]
    BY <1>3
  <2>2. InitSteps(host) = IF "init" = "init" THEN InitSteps(host) ELSE ExitSteps  OBVIOUS
  <2> QED BY <1>2, <2>1, <2>2
<1>4. CASE cli' = [op |-> "exit", force |-> FALSE, host |-> "none", steps |-> ExitSteps,
                   write |-> << >>, held |-> FALSE, alone |-> TRUE]
  <2>1. ExitSteps = IF "exit" = "init" THEN InitSteps("none") ELSE ExitSteps  OBVIOUS
  <2> QED BY <1>2, <1>4, <2>1
<1> QED BY <1>3, <1>4 DEF Start

LEMMA LookKeeps ==
  ASSUME SetupInv, Look, SetupAssumption
  PROVE  SetupInv'
<1>1. Untouched /\ finished' = finished /\ cli # Nothing /\ cli.steps # << >>
  BY DEF Look, Untouched, files
<1>10. PICK op, steps, f : op = cli.op /\ steps = cli.steps /\ f = cli.force  OBVIOUS
<1>11. PICK h : h = Head(steps)  OBVIOUS
<1>12. PICK w : w = After(h, f)  OBVIOUS
<1>2. /\ op = cli.op /\ steps = cli.steps /\ f = cli.force /\ h = Head(cli.steps) /\ w = After(h, f)
      /\ op \in {"init", "exit"} /\ f \in BOOLEAN
      /\ steps \in Seq(IF op = "init" THEN InitNames ELSE ExitNames)
  BY <1>1, <1>10, <1>11, <1>12 DEF SetupInv, CliInv
<1>3. h \in IF op = "init" THEN InitNames ELSE ExitNames  BY <1>1, <1>2
<1>4. cli' = [cli EXCEPT !.write = w, !.held = TRUE]  BY <1>2 DEF Look
<1>5. /\ cli' # Nothing /\ DOMAIN cli' = CliFields /\ cli'.op = op /\ cli'.force = f /\ cli'.host = cli.host
      /\ cli'.steps = steps /\ cli'.held = TRUE /\ cli'.write = w /\ cli'.alone = cli.alone
  BY <1>1, <1>2, <1>4 DEF SetupInv, CliInv, CliFields, Nothing
<1>6. Fits(w, op, h, f)'
  <2>1. Fits(w, op, h, f)  BY <1>2, <1>3, Fitting DEF SetupInv
  <2> QED BY <1>1, <2>1, SameFits
<1>7. /\ "settings" \in DOMAIN w => SettingsOK(w["settings"])
      /\ "mcp" \in DOMAIN w => McpOK(w["mcp"])
      /\ "plugin" \in DOMAIN w => PluginOK(w["plugin"])
      /\ "ignore" \in DOMAIN w => IgnoreOK(w["ignore"])
  BY <1>2, <1>3, Drafted DEF SetupInv
<1>8. CliInv'
  <2>1. Fits(cli.write, cli.op, Head(cli.steps), cli.force)'
    <3>1. cli'.write = w /\ cli'.op = op /\ Head(cli'.steps) = h /\ cli'.force = f  BY <1>2, <1>5
    <3> QED BY <1>6, <3>1
  <2> QED BY <1>1, <1>2, <1>5, <1>7, <2>1 DEF CliInv
<1>9. WorkInv'
  <2>1. \A st : Achieved(st, f)' <=> Achieved(st, f)  BY <1>1, SameAchieved
  <2> QED BY <1>1, <1>2, <1>5, <2>1 DEF SetupInv, WorkInv
<1> QED BY <1>1, <1>8, <1>9, SameFiles DEF SetupInv

LEMMA WriteKeeps ==
  ASSUME SetupInv, Write
  PROVE  SetupInv'
<1>1. /\ cli # Nothing /\ cli.held /\ finished' = finished /\ installed' = installed
      /\ cli' = [cli EXCEPT !.steps = Tail(@), !.held = FALSE, !.write = << >>]
  BY DEF Write
<1>2. PICK op, steps, f, host, w :
        op = cli.op /\ steps = cli.steps /\ f = cli.force /\ host = cli.host /\ w = cli.write
  OBVIOUS
<1>3. PICK h : h = Head(steps)  OBVIOUS
<1>4. /\ op \in {"init", "exit"} /\ f \in BOOLEAN /\ steps \in Seq(IF op = "init" THEN InitNames ELSE ExitNames)
      /\ steps # << >> /\ DOMAIN cli = CliFields
      /\ "settings" \in DOMAIN w => SettingsOK(w["settings"])
      /\ "mcp" \in DOMAIN w => McpOK(w["mcp"])
      /\ "plugin" \in DOMAIN w => PluginOK(w["plugin"])
      /\ "ignore" \in DOMAIN w => IgnoreOK(w["ignore"])
      /\ cli.alone => Fits(w, op, h, f)
  BY <1>1, <1>2, <1>3 DEF SetupInv, CliInv
<1>5. /\ settings' = NewSettings(w) /\ mcp' = NewMcp(w) /\ plugin' = NewPlugin(w) /\ ignore' = NewIgnore(w)
      /\ present' = NewPresent(w)
  BY <1>2 DEF Write, Into, NewSettings, NewMcp, NewPlugin, NewIgnore, NewPresent
<1>6. FilesInv'
  <2>1. SettingsOK(NewSettings(w)) /\ McpOK(NewMcp(w)) /\ PluginOK(NewPlugin(w)) /\ IgnoreOK(NewIgnore(w))
    BY <1>4 DEF SetupInv, FilesInv, NewSettings, NewMcp, NewPlugin, NewIgnore
  <2> QED BY <1>5, <2>1 DEF FilesInv
<1>7. PICK rest : rest = Tail(steps)  OBVIOUS
<1>8. /\ cli' # Nothing /\ DOMAIN cli' = CliFields /\ cli'.op = op /\ cli'.force = f /\ cli'.host = host
      /\ cli'.steps = rest /\ cli'.held = FALSE /\ cli'.alone = cli.alone
  BY <1>1, <1>2, <1>4, <1>7 DEF CliFields, Nothing
<1>9. /\ rest \in Seq(IF op = "init" THEN InitNames ELSE ExitNames)
      /\ \A i \in DOMAIN steps : steps[i] = h \/ \E j \in DOMAIN rest : rest[j] = steps[i]
  <2> DEFINE T == IF op = "init" THEN InitNames ELSE ExitNames
  <2>1. steps \in Seq(T) /\ steps # << >>  BY <1>4
  <2> HIDE DEF T
  <2>2. /\ rest \in Seq(T) /\ Len(steps) \in Nat /\ Len(rest) = Len(steps) - 1 /\ DOMAIN steps = 1..Len(steps)
        /\ DOMAIN rest = 1..Len(rest) /\ \A j \in 1..Len(rest) : rest[j] = steps[j + 1]
        /\ h = steps[1]
    BY <1>3, <1>7, <2>1
  <2>3. ASSUME NEW i \in DOMAIN steps, i # 1 PROVE \E j \in DOMAIN rest : rest[j] = steps[i]
    <3>1. i - 1 \in 1..Len(rest) /\ (i - 1) + 1 = i  BY <2>2, <2>3
    <3> QED BY <2>2, <3>1
  <2> QED BY <2>2, <2>3 DEF T
<1>10. CliInv'  BY <1>4, <1>8, <1>9 DEF CliInv
<1>11. WorkInv'
  <2>1. finished' = Nothing  BY <1>1 DEF SetupInv, WorkInv
  <2>2. ASSUME cli.alone, NEW step \in Aims(op, host)
        PROVE  (\E j \in DOMAIN rest : rest[j] = step) \/ Achieved(step, f)'
    <3>1. step = h \/ Achieved(step, f) \/ \E j \in DOMAIN rest : rest[j] = step
      BY <1>1, <1>2, <1>9, <2>2 DEF SetupInv, WorkInv
    <3>2. step \in AllAims(op)  BY <1>4, <2>2 DEF Aims, AllAims
    <3>3. step = h \/ Achieved(step, f) =>
            AchievedIn(NewSettings(w), NewMcp(w), NewPlugin(w), NewIgnore(w), NewPresent(w), step, f)
      BY <1>4, <2>2, <3>2 DEF Fits
    <3>4. ResolveBinaries' = ResolveBinaries  BY <1>1 DEF ResolveBinaries
    <3>5. Achieved(step, f)' <=>
            AchievedIn(NewSettings(w), NewMcp(w), NewPlugin(w), NewIgnore(w), NewPresent(w), step, f)
      BY <1>5, <3>4 DEF Achieved, AchievedIn, Hooked, Plugged
    <3> QED BY <3>1, <3>3, <3>5
  <2> QED BY <1>8, <2>1, <2>2 DEF WorkInv
<1> QED BY <1>1, <1>6, <1>10, <1>11 DEF SetupInv

LEMMA DoneKeeps ==
  ASSUME SetupInv, Done
  PROVE  SetupInv'
<1>1. Untouched /\ cli # Nothing /\ cli.steps = << >> /\ cli' = Nothing
  BY DEF Done, Untouched, files
<1>2. CASE ~cli.alone
  <2>1. finished' = Nothing  BY <1>2 DEF Done
  <2> QED BY <1>1, <2>1, SameFiles DEF SetupInv, CliInv, WorkInv
<1>3. CASE cli.alone
  <2>1. PICK op, f, host : op = cli.op /\ f = cli.force /\ host = cli.host  OBVIOUS
  <2>2. finished' = [op |-> op, force |-> f, host |-> host]  BY <1>3, <2>1 DEF Done
  <2>3. finished'.op = op /\ finished'.force = f /\ finished'.host = host  BY <2>2
  <2>4. op \in {"init", "exit"} /\ f \in BOOLEAN  BY <1>1, <2>1 DEF SetupInv, CliInv
  <2>5. \A step \in Aims(op, host) : Achieved(step, f)
    <3>1. DOMAIN cli.steps = {}  BY <1>1
    <3> QED BY <1>1, <1>3, <2>1, <3>1 DEF SetupInv, WorkInv
  <2>6. \A step \in Aims(op, host) : Achieved(step, f)'  BY <1>1, <2>5, SameAchieved
  <2>7. WorkInv'  BY <1>1, <2>3, <2>4, <2>6 DEF WorkInv
  <2>8. CliInv'  BY <1>1 DEF CliInv
  <2> QED BY <1>1, <2>7, <2>8, SameFiles DEF SetupInv
<1> QED BY <1>2, <1>3

LEMMA KilledKeeps ==
  ASSUME SetupInv, Killed
  PROVE  SetupInv'
<1>1. Untouched /\ cli # Nothing /\ cli' = Nothing /\ finished' = finished
  BY DEF Killed, Untouched, files
<1>2. finished = Nothing  BY <1>1 DEF SetupInv, WorkInv
<1> QED BY <1>1, <1>2, SameFiles DEF SetupInv, CliInv, WorkInv

-----------------------------------------------------------------------------
(* The steps of everyone else.                                             *)
LEMMA OthersKeep ==
  ASSUME SetupInv, Untouched, UNCHANGED <<cli, finished>>
  PROVE  SetupInv'
<1>1. CliInv'
  <2> SUFFICES ASSUME cli # Nothing PROVE CliInv'  BY DEF CliInv
  <2>1. PICK w, op, h, f : w = cli.write /\ op = cli.op /\ h = Head(cli.steps) /\ f = cli.force  OBVIOUS
  <2>2. Fits(w, op, h, f)' <=> Fits(w, op, h, f)  BY SameFits
  <2>3. Fits(cli.write, cli.op, Head(cli.steps), cli.force)' <=> Fits(w, op, h, f)'  BY <2>1
  <2> QED BY <2>1, <2>2, <2>3 DEF SetupInv, CliInv
<1>2. WorkInv'
  <2>1. \A step, f : Achieved(step, f)' <=> Achieved(step, f)  BY SameAchieved
  <2>2. PICK f, g : f = cli.force /\ g = finished.force  OBVIOUS
  <2>3. \A step : /\ Achieved(step, cli.force)' <=> Achieved(step, cli.force)
                  /\ Achieved(step, finished.force)' <=> Achieved(step, finished.force)
    BY <2>1, <2>2
  <2> QED BY <2>3 DEF SetupInv, WorkInv
<1> QED BY <1>1, <1>2, SameFiles DEF SetupInv

(* An edit leaves the files in order, and no command alone.                *)
LEMMA DisturbKeeps ==
  ASSUME SetupInv, Disturb, FilesInv', installed' \subseteq Places
  PROVE  SetupInv'
<1>1. finished' = Nothing /\ cli' = IF cli = Nothing THEN cli ELSE [cli EXCEPT !.alone = FALSE]
  BY DEF Disturb
<1>2. CASE cli = Nothing  BY <1>1, <1>2 DEF SetupInv, CliInv, WorkInv
<1>3. CASE cli # Nothing
  <2>1. /\ DOMAIN cli' = CliFields /\ cli'.alone = FALSE /\ cli'.op = cli.op /\ cli'.force = cli.force
        /\ cli'.steps = cli.steps /\ cli'.held = cli.held /\ cli'.write = cli.write
    BY <1>1, <1>3 DEF SetupInv, CliInv, CliFields
  <2>2. CliInv'  BY <1>3, <2>1 DEF SetupInv, CliInv
  <2>3. WorkInv'  BY <1>1, <2>1 DEF WorkInv
  <2> QED BY <2>2, <2>3 DEF SetupInv
<1> QED BY <1>2, <1>3

LEMMA Dropped ==
  ASSUME NEW groups \in Seq(Groups), AtMostOne(groups), NEW i \in DOMAIN groups,
         NEW r, r = RemoveAt(groups, i)
  PROVE  r \in Seq(Groups) /\ AtMostOne(r)
<1> DEFINE L == Len(groups)
           a == SubSeq(groups, 1, i - 1)
           b == SubSeq(groups, i + 1, L)
<1>1. L \in Nat /\ i \in 1..L /\ DOMAIN groups = 1..L  OBVIOUS
<1>2. r = a \o b  BY DEF RemoveAt
<1>3. /\ a \in Seq(Groups) /\ Len(a) = i - 1 /\ \A k \in 1..i - 1 : a[k] = groups[k]
      /\ b \in Seq(Groups) /\ Len(b) = L - i /\ \A k \in 1..L - i : b[k] = groups[k + i]
  BY <1>1
<1> HIDE DEF a, b, L
<1>4. r \in Seq(Groups) /\ Len(r) = L - 1 /\ DOMAIN r = 1..L - 1
      /\ \A k \in 1..L - 1 : r[k] = groups[IF k < i THEN k ELSE k + 1]
  <2>1. /\ a \o b \in Seq(Groups) /\ Len(a \o b) = Len(a) + Len(b)
        /\ \A k \in 1..Len(a) + Len(b) : (a \o b)[k] = IF k <= Len(a) THEN a[k] ELSE b[k - Len(a)]
    BY <1>3, ConcatProperties
  <2>2. Len(a) + Len(b) = L - 1  BY <1>1, <1>3
  <2>3. ASSUME NEW k \in 1..L - 1 PROVE (a \o b)[k] = groups[IF k < i THEN k ELSE k + 1]
    <3>1. CASE k < i
      <4>1. k <= Len(a) /\ k \in 1..i - 1  BY <1>1, <1>3, <3>1
      <4> QED BY <1>3, <2>1, <2>2, <3>1, <4>1
    <3>2. CASE ~(k < i)
      <4>1. ~(k <= Len(a)) /\ k - Len(a) \in 1..L - i /\ (k - Len(a)) + i = k + 1  BY <1>1, <1>3, <3>2
      <4> QED BY <1>3, <2>1, <2>2, <3>2, <4>1
    <3> QED BY <3>1, <3>2
  <2> QED BY <1>1, <1>2, <2>1, <2>2, <2>3
<1>5. ASSUME NEW j \in DOMAIN r, NEW k \in DOMAIN r, Ours(r[j]), Ours(r[k]) PROVE j = k
  <2>1. PICK m, n : m = (IF j < i THEN j ELSE j + 1) /\ n = (IF k < i THEN k ELSE k + 1)  OBVIOUS
  <2>2. m \in DOMAIN groups /\ n \in DOMAIN groups  BY <1>1, <1>4, <2>1
  <2>3. r[j] = groups[m] /\ r[k] = groups[n]  BY <1>4, <2>1
  <2>4. m = n  BY <1>5, <2>2, <2>3 DEF AtMostOne
  <2> QED BY <1>1, <1>4, <2>1, <2>4
<1> QED BY <1>4, <1>5 DEF AtMostOne

LEMMA Changed ==
  ASSUME NEW T, NEW s \in Seq(T), NEW i \in DOMAIN s, NEW a \in T, NEW q, q = [s EXCEPT ![i] = a]
  PROVE  q \in Seq(T)
  OBVIOUS

LEMMA Regrouped ==
  ASSUME NEW s, s \in [is : {"none", "broken", "json"}, hooks : [Events -> Seq(Groups)], other : BOOLEAN],
         s.is = "json", \A e \in Events : AtMostOne(s.hooks[e]),
         NEW e \in Events, NEW q \in Seq(Groups), AtMostOne(q), NEW t, t = [s EXCEPT !.hooks[e] = q]
  PROVE  SettingsOK(t)
<1>1. PICK hooks : hooks = [s.hooks EXCEPT ![e] = q]  OBVIOUS
<1>2. t = [s EXCEPT !.hooks = hooks]  BY <1>1
<1>3. hooks \in [Events -> Seq(Groups)] /\ \A d \in Events : AtMostOne(hooks[d])  BY <1>1
<1>4. t.is = "json" /\ t.hooks = hooks
      /\ t \in [is : {"none", "broken", "json"}, hooks : [Events -> Seq(Groups)], other : BOOLEAN]
  BY <1>2, <1>3
<1> QED BY <1>3, <1>4 DEF SettingsOK

LEMMA EditSettingsKeeps ==
  ASSUME SetupInv, EditSettings
  PROVE  SetupInv'
<1>1. Disturb /\ UNCHANGED <<mcp, plugin, ignore, installed>>  BY DEF EditSettings
<1>2. SettingsOK(settings)  BY DEF SetupInv, FilesInv
<1>3. /\ ReadSettings \in [is : {"json"}, hooks : [Events -> Seq(Groups)], other : BOOLEAN]
      /\ ReadSettings.hooks = settings.hooks
      /\ \A e \in Events : AtMostOne(settings.hooks[e])
  BY <1>2, Read
<1>4. /\ {"foreign"} \in Groups /\ ~Ours({"foreign"})
      /\ \A g \in Groups : g \cup {"foreign"} \in Groups /\ (Ours(g \cup {"foreign"}) <=> Ours(g))
  BY DEF Groups, Ours, OwnsCommand, Places
<1>5. SettingsOK(settings')
  <2>1. ASSUME NEW e \in Events, settings' = [ReadSettings EXCEPT !.hooks[e] = Append(@, {"foreign"})]
        PROVE  SettingsOK(settings')
    <3>1. PICK s, q : s = ReadSettings /\ q = Append(s.hooks[e], {"foreign"})  OBVIOUS
    <3>2. s.hooks[e] \in Seq(Groups) /\ AtMostOne(s.hooks[e])  BY <1>3, <3>1
    <3>3. q \in Seq(Groups)
      <4>1. {"foreign"} \in Groups  BY <1>4
      <4>2. Append(s.hooks[e], {"foreign"}) \in Seq(Groups)  BY <3>2, <4>1, Appended
      <4> QED BY <3>1, <4>2
    <3>4. AtMostOne(q)
      <4>1. /\ Len(s.hooks[e]) \in Nat /\ DOMAIN q = 1..Len(s.hooks[e]) + 1 /\ DOMAIN s.hooks[e] = 1..Len(s.hooks[e])
            /\ q[Len(s.hooks[e]) + 1] = {"foreign"} /\ \A k \in 1..Len(s.hooks[e]) : q[k] = s.hooks[e][k]
        BY <3>1, <3>2
      <4>2. \A k \in DOMAIN q : Ours(q[k]) => k \in DOMAIN s.hooks[e] /\ Ours(s.hooks[e][k])
        BY <1>4, <4>1
      <4> QED BY <3>2, <4>2 DEF AtMostOne
    <3>5. settings' = [s EXCEPT !.hooks[e] = q]  BY <1>3, <2>1, <3>1
    <3>6. s \in [is : {"none", "broken", "json"}, hooks : [Events -> Seq(Groups)], other : BOOLEAN] /\ s.is = "json"
          /\ \A d \in Events : AtMostOne(s.hooks[d])
      BY <1>3, <3>1
    <3> QED BY <3>3, <3>4, <3>5, <3>6, Regrouped
  <2>2. ASSUME NEW e \in Events, NEW i \in DOMAIN settings.hooks[e],
               settings' \in {[settings EXCEPT !.hooks[e][i] = @ \cup {"foreign"}],
                              [settings EXCEPT !.hooks[e] = RemoveAt(@, i)]}
        PROVE  SettingsOK(settings')
    <3>1. settings \in [is : {"none", "broken", "json"}, hooks : [Events -> Seq(Groups)], other : BOOLEAN]
          /\ settings.is = "json"
      <4>1. settings.is # "json" => settings.hooks[e] = << >>  BY <1>2 DEF SettingsOK, NoHooks
      <4> QED BY <1>2, <4>1 DEF SettingsOK
    <3>2. settings.hooks[e] \in Seq(Groups) /\ AtMostOne(settings.hooks[e])  BY <1>3, <3>1
    <3>3. CASE settings' = [settings EXCEPT !.hooks[e][i] = @ \cup {"foreign"}]
      <4>1. PICK q : q = [settings.hooks[e] EXCEPT ![i] = settings.hooks[e][i] \cup {"foreign"}]  OBVIOUS
      <4>2. settings' = [settings EXCEPT !.hooks[e] = q]  BY <3>1, <3>3, <4>1
      <4>3. settings.hooks[e][i] \in Groups  BY <3>2
      <4>4. q \in Seq(Groups)
        <5>1. settings.hooks[e][i] \cup {"foreign"} \in Groups  BY <1>4, <4>3
        <5> QED BY <3>2, <4>1, <5>1, Changed
      <4>5. DOMAIN q = DOMAIN settings.hooks[e] /\ \A k \in DOMAIN q : Ours(q[k]) <=> Ours(settings.hooks[e][k])
        BY <1>4, <3>2, <4>1, <4>3
      <4>6. AtMostOne(q)  BY <3>2, <4>5 DEF AtMostOne
      <4> QED BY <1>3, <3>1, <4>2, <4>4, <4>6, Regrouped
    <3>4. CASE settings' = [settings EXCEPT !.hooks[e] = RemoveAt(@, i)]
      <4>1. PICK q : q = RemoveAt(settings.hooks[e], i)  OBVIOUS
      <4>2. settings' = [settings EXCEPT !.hooks[e] = q]  BY <3>1, <3>4, <4>1
      <4>3. q \in Seq(Groups) /\ AtMostOne(q)  BY <3>2, <4>1, Dropped
      <4> QED BY <1>3, <3>1, <4>2, <4>3, Regrouped
    <3> QED BY <2>2, <3>3, <3>4
  <2>3. CASE settings' = [ReadSettings EXCEPT !.other = TRUE]
    <3>1. settings'.is = "json" /\ settings'.hooks = settings.hooks
          /\ settings' \in [is : {"none", "broken", "json"}, hooks : [Events -> Seq(Groups)], other : BOOLEAN]
      BY <1>3, <2>3
    <3> QED BY <1>3, <3>1 DEF SettingsOK
  <2>4. CASE settings' = [Empty EXCEPT !.is = "broken"]
    <3>1. NoHooks \in [Events -> Seq(Groups)] /\ \A e \in Events : AtMostOne(NoHooks[e])
      BY DEF NoHooks, AtMostOne
    <3>2. settings'.is = "broken" /\ settings'.hooks = NoHooks /\ settings'.other = FALSE
          /\ settings' \in [is : {"none", "broken", "json"}, hooks : [Events -> Seq(Groups)], other : BOOLEAN]
      BY <2>4, <3>1 DEF Empty
    <3> QED BY <3>1, <3>2 DEF SettingsOK
  <2> QED BY <2>1, <2>2, <2>3, <2>4 DEF EditSettings
<1>6. FilesInv'  BY <1>1, <1>5 DEF SetupInv, FilesInv
<1> QED BY <1>1, <1>6, DisturbKeeps DEF SetupInv

LEMMA EditMcpKeeps ==
  ASSUME SetupInv, EditMcp
  PROVE  SetupInv'
<1>1. Disturb /\ UNCHANGED <<settings, plugin, ignore, installed>>  BY DEF EditMcp
<1>2. McpOK(mcp)  BY DEF SetupInv, FilesInv
<1>3. /\ ReadMcp \in [is : {"json"}, servers : [Keys -> SUBSET (Places \cup {"extra"})], foreign : BOOLEAN]
      /\ ReadMcp.servers = mcp.servers
  BY <1>2, ReadServers
<1>4. McpOK(mcp')
  <2>1. CASE mcp' = [ReadMcp EXCEPT !.foreign = TRUE]
    <3>1. mcp'.is = "json"
          /\ mcp' \in [is : {"none", "broken", "json"}, servers : [Keys -> SUBSET (Places \cup {"extra"})], foreign : BOOLEAN]
      BY <1>3, <2>1
    <3> QED BY <3>1 DEF McpOK
  <2>2. CASE mcp.servers["patchmesh"] # {} /\ mcp' = [mcp EXCEPT !.servers["patchmesh"] = @ \cup {"extra"}]
    <3>1. mcp \in [is : {"none", "broken", "json"}, servers : [Keys -> SUBSET (Places \cup {"extra"})], foreign : BOOLEAN]
          /\ mcp.is = "json"
      BY <1>2, <2>2, KeysAre DEF McpOK, NoServers
    <3>2. PICK v : v = [mcp.servers EXCEPT !["patchmesh"] = mcp.servers["patchmesh"] \cup {"extra"}]  OBVIOUS
    <3>3. v \in [Keys -> SUBSET (Places \cup {"extra"})]  BY <3>1, <3>2
    <3>4. mcp' = [mcp EXCEPT !.servers = v]  BY <2>2, <3>1, <3>2
    <3>5. mcp'.is = "json"
          /\ mcp' \in [is : {"none", "broken", "json"}, servers : [Keys -> SUBSET (Places \cup {"extra"})], foreign : BOOLEAN]
      BY <3>1, <3>3, <3>4
    <3> QED BY <3>5 DEF McpOK
  <2>3. CASE mcp' = [EmptyMcp EXCEPT !.is = "broken"]
    <3>1. NoServers \in [Keys -> SUBSET (Places \cup {"extra"})]  BY DEF NoServers
    <3>2. mcp'.is = "broken" /\ mcp'.servers = NoServers /\ mcp'.foreign = FALSE
          /\ mcp' \in [is : {"none", "broken", "json"}, servers : [Keys -> SUBSET (Places \cup {"extra"})], foreign : BOOLEAN]
      BY <2>3, <3>1 DEF EmptyMcp
    <3> QED BY <3>2 DEF McpOK
  <2> QED BY <2>1, <2>2, <2>3 DEF EditMcp
<1>5. FilesInv'  BY <1>1, <1>4 DEF SetupInv, FilesInv
<1> QED BY <1>1, <1>5, DisturbKeeps DEF SetupInv

LEMMA EditOtherKeeps ==
  ASSUME SetupInv, EditOther
  PROVE  SetupInv'
<1>1. Disturb /\ UNCHANGED <<settings, mcp, installed>>  BY DEF EditOther
<1>2. PluginOK(plugin')  BY DEF EditOther, SetupInv, FilesInv, PluginOK
<1>3. IgnoreOK(ignore')
  <2>1. ignore \in Seq(Lines)  BY DEF SetupInv, FilesInv, IgnoreOK
  <2>2. PICK I : I = {i \in DOMAIN ignore : ignore[i] # Entry}  OBVIOUS
  <2>3. Select(ignore, I) \in Seq(Lines)  BY <2>1, <2>2, SelectKeeps
  <2>4. <<"user", "">> \in Seq(Lines)
    <3>1. "user" \in Lines /\ "" \in Lines  BY DEF Lines
    <3>2. \A T : \A x, y \in T : <<x, y>> \in Seq(T)  OBVIOUS
    <3> QED BY <3>1, <3>2
  <2>5. ignore' \in {ignore, Select(ignore, I), <<"user", "">>}  BY <2>2 DEF EditOther
  <2> QED BY <2>1, <2>3, <2>4, <2>5 DEF IgnoreOK
<1>4. FilesInv'  BY <1>1, <1>2, <1>3 DEF SetupInv, FilesInv
<1> QED BY <1>1, <1>4, DisturbKeeps DEF SetupInv

LEMMA ReinstallKeeps ==
  ASSUME SetupInv, Reinstall
  PROVE  SetupInv'
<1>1. Disturb /\ UNCHANGED <<settings, mcp, plugin, ignore>> /\ installed' \subseteq Places  BY DEF Reinstall
<1>2. FilesInv'  BY <1>1 DEF SetupInv, FilesInv, SettingsOK, McpOK, PluginOK, IgnoreOK
<1> QED BY <1>1, <1>2, DisturbKeeps

-----------------------------------------------------------------------------
LEMMA SetupStarts ==
  ASSUME Init
  PROVE  SetupInv
<1>1. /\ settings \in {[Empty EXCEPT !.is = "none"], [Empty EXCEPT !.other = TRUE]}
      /\ mcp = IF settings.is = "none" THEN [EmptyMcp EXCEPT !.is = "none"] ELSE [EmptyMcp EXCEPT !.foreign = TRUE]
      /\ plugin = "none" /\ ignore \in {<< >>, <<"user">>} /\ installed = {"global"}
      /\ cli = Nothing /\ finished = Nothing
  BY DEF Init
<1>2. SettingsOK(settings)
  <2>1. NoHooks \in [Events -> Seq(Groups)] /\ \A e \in Events : AtMostOne(NoHooks[e])
    BY DEF NoHooks, AtMostOne
  <2>2. /\ settings.hooks = NoHooks /\ settings.is \in {"none", "json"} /\ settings.other = (settings.is = "json")
        /\ settings \in [is : {"none", "broken", "json"}, hooks : [Events -> Seq(Groups)], other : BOOLEAN]
    <3>1. CASE settings = [Empty EXCEPT !.is = "none"]  BY <2>1, <3>1 DEF Empty
    <3>2. CASE settings = [Empty EXCEPT !.other = TRUE]  BY <2>1, <3>2 DEF Empty
    <3> QED BY <1>1, <3>1, <3>2
  <2> QED BY <2>1, <2>2 DEF SettingsOK
<1>3. McpOK(mcp)
  <2>1. NoServers \in [Keys -> SUBSET (Places \cup {"extra"})]  BY DEF NoServers
  <2>2. CASE mcp = [EmptyMcp EXCEPT !.is = "none"]  BY <2>1, <2>2 DEF EmptyMcp, McpOK
  <2>3. CASE mcp = [EmptyMcp EXCEPT !.foreign = TRUE]  BY <2>1, <2>3 DEF EmptyMcp, McpOK
  <2> QED BY <1>1, <2>2, <2>3
<1>4. IgnoreOK(ignore)
  <2>1. "user" \in Lines  BY DEF Lines
  <2>2. << >> \in Seq(Lines) /\ <<"user">> \in Seq(Lines)  BY <2>1, Listed
  <2> QED BY <1>1, <2>2 DEF IgnoreOK
<1>5. PluginOK(plugin) /\ installed \subseteq Places  BY <1>1 DEF PluginOK, Places
<1>6. CliInv /\ WorkInv  BY <1>1 DEF CliInv, WorkInv
<1> QED BY <1>2, <1>3, <1>4, <1>5, <1>6 DEF SetupInv, FilesInv

LEMMA SetupKeeps ==
  ASSUME SetupInv, [CommandNext]_allVars, SetupAssumption
  PROVE  SetupInv'
<1>1. CASE Start  BY <1>1, StartKeeps
<1>2. CASE Look  BY <1>2, LookKeeps
<1>3. CASE Write  BY <1>3, WriteKeeps
<1>4. CASE Done  BY <1>4, DoneKeeps
<1>5. CASE Killed  BY <1>5, KilledKeeps
<1>6. CASE EditSettings  BY <1>6, EditSettingsKeeps
<1>7. CASE EditMcp  BY <1>7, EditMcpKeeps
<1>8. CASE EditOther  BY <1>8, EditOtherKeeps
<1>9. CASE Reinstall  BY <1>9, ReinstallKeeps
<1>10. CASE OpenSession
  <2>1. Untouched /\ UNCHANGED <<cli, finished>>  BY <1>10 DEF OpenSession, Untouched, files
  <2> QED BY <2>1, OthersKeep
<1>11. CASE CloseSession
  <2>1. Untouched /\ UNCHANGED <<cli, finished>>  BY <1>11 DEF CloseSession, Untouched, files
  <2> QED BY <2>1, OthersKeep
<1>12. CASE RecordCall
  <2>1. Untouched /\ UNCHANGED <<cli, finished>>  BY <1>12 DEF RecordCall, Call, Untouched
  <2> QED BY <2>1, OthersKeep
<1>13. CASE DrainRecords
  <2>1. Untouched /\ UNCHANGED <<cli, finished>>  BY <1>13 DEF DrainRecords, Untouched
  <2> QED BY <2>1, OthersKeep
<1>14. CASE RecordClaim
  <2>1. Untouched /\ UNCHANGED <<cli, finished>>  BY <1>14 DEF RecordClaim, Untouched
  <2> QED BY <2>1, OthersKeep
<1>15. CASE UNCHANGED vars
  <2>1. Untouched /\ UNCHANGED <<cli, finished>>  BY <1>15 DEF vars, files, Untouched
  <2> QED BY <2>1, OthersKeep
<1>16. \/ Start \/ Look \/ Write \/ Done \/ Killed \/ EditSettings \/ EditMcp \/ EditOther \/ Reinstall
       \/ OpenSession \/ CloseSession \/ RecordCall \/ DrainRecords \/ RecordClaim \/ UNCHANGED vars
  <2>1. CASE UNCHANGED allVars  BY <2>1 DEF allVars
  <2>2. CASE SetupStep  BY <2>2 DEF SetupStep
  <2>3. CASE DrainClaims \/ DrainFails  BY <2>3 DEF DrainClaims, DrainFails
  <2>4. CASE Ask \/ Resolve  BY <2>4 DEF Ask, Resolve, Goes, Answers, Replies
  <2>5. CASE CountPending \/ ClaimJournal  BY <2>5 DEF CountPending, ClaimJournal, Goes
  <2>6. CASE OpenLedger  BY <2>6 DEF OpenLedger, Goes, Answers, Replies
  <2>7. CASE Report  BY <2>7 DEF Report, Answers, Replies
  <2>8. CASE Respond  BY <2>8 DEF Respond, Answers, Replies
  <2>9. CASE Prune  BY <2>9 DEF Prune, Answers, Replies
  <2>10. CASE Doctor \/ DoctorJournal \/ Interrupted  BY <2>10 DEF Doctor, DoctorJournal, Interrupted
  <2> QED BY <2>1, <2>2, <2>3, <2>4, <2>5, <2>6, <2>7, <2>8, <2>9, <2>10 DEF CommandNext
<1> QED BY <1>1, <1>2, <1>3, <1>4, <1>5, <1>6, <1>7, <1>8, <1>9, <1>10, <1>11, <1>12, <1>13, <1>14, <1>15, <1>16

LEMMA SetupHolds == CommandSpec => []SetupInv
<1>1. Init => SetupInv  BY SetupStarts
<1>2. SetupInv /\ [CommandNext]_allVars => SetupInv'  BY SetupKeeps, SetupAssumption
<1> QED BY <1>1, <1>2, PTL DEF CommandSpec

-----------------------------------------------------------------------------
(* What a command left alone has done, as InitSettles and ExitClean say.   *)
LEMMA OneGroup ==
  ASSUME SetupInv, NEW e \in Events
  PROVE  Cardinality({i \in DOMAIN settings.hooks[e] : settings.hooks[e][i] \cap Places # {}}) <= 1
<1> DEFINE at == {i \in DOMAIN settings.hooks[e] : settings.hooks[e][i] \cap Places # {}}
<1>1. AtMostOne(settings.hooks[e])  BY DEF SetupInv, FilesInv, SettingsOK
<1>2. \A i \in at : Ours(settings.hooks[e][i])  BY DEF Ours, OwnsCommand
<1>3. \A i, j \in at : i = j  BY <1>1, <1>2 DEF AtMostOne
<1> HIDE DEF at
<1>4. CASE at = {}  BY <1>4, FS_EmptySet DEF at
<1>5. CASE at # {}
  <2>1. PICK i : at = {i}  BY <1>3, <1>5
  <2>2. Cardinality({i}) = 1  BY FS_Singleton
  <2> QED BY <2>1, <2>2 DEF at
<1> QED BY <1>4, <1>5

LEMMA Resolves ==
  ASSUME SetupInv, Hooked(settings, FALSE)
  PROVE  /\ \A e \in Events : InstalledCommand(e) # {}
         /\ InstallHooks(FALSE) = settings
<1>1. SettingsOK(settings)  BY DEF SetupInv, FilesInv
<1>2. ReadSettings.hooks = settings.hooks  BY <1>1, Read
<1>3. \A e \in Events : \E i \in DOMAIN settings.hooks[e] : Ours(settings.hooks[e][i])  BY DEF Hooked
<1>4. InstallHooks(FALSE) = settings  BY <1>2, <1>3 DEF InstallHooks
<1>5. ASSUME NEW e \in Events PROVE InstalledCommand(e) # {}
  <2> DEFINE groups == settings.hooks[e]
             mine == {i \in DOMAIN groups : Ours(groups[i])}
             last == {i \in mine : \A j \in mine : j <= i}
  <2>1. PICK i \in DOMAIN groups : Ours(groups[i])  BY <1>3
  <2>2. \A j \in mine : j = i  BY <1>1, <2>1 DEF SettingsOK, AtMostOne
  <2>3. i \in Nat  BY <1>1, <2>1 DEF SettingsOK
  <2>4. i \in last  BY <2>1, <2>2, <2>3
  <2>5. PICK c \in groups[i] : OwnsCommand(c)  BY <2>1 DEF Ours
  <2>6. c \in {x \in UNION {groups[j] : j \in last} : OwnsCommand(x)}  BY <2>4, <2>5
  <2> QED BY <2>6 DEF InstalledCommand
<1> QED BY <1>4, <1>5

LEMMA Runs ==
  ASSUME SetupInv, Hooked(settings, TRUE), ResolveBinaries \in installed, SetupAssumption
  PROVE  /\ \A e \in Events : InstalledCommand(e) \subseteq installed
         /\ Records(Loaded)
<1>1. SettingsOK(settings)  BY DEF SetupInv, FilesInv
<1>2. ReadSettings.hooks = settings.hooks  BY <1>1, Read
<1>3. /\ \A e \in Events : \E i \in DOMAIN settings.hooks[e] : Ours(settings.hooks[e][i])
      /\ \A e \in Events : \A i \in DOMAIN settings.hooks[e] :
           Ours(settings.hooks[e][i]) => settings.hooks[e][i] \cap Places = {ResolveBinaries}
  BY DEF Hooked
<1>4. ASSUME NEW e \in Events, NEW c \in InstalledCommand(e) PROVE c \in installed
  <2>1. PICK i \in DOMAIN settings.hooks[e] : Ours(settings.hooks[e][i]) /\ c \in settings.hooks[e][i] /\ OwnsCommand(c)
    BY <1>4 DEF InstalledCommand
  <2>2. c \in settings.hooks[e][i] \cap Places  BY <2>1 DEF OwnsCommand
  <2> QED BY <1>3, <2>1, <2>2
<1>5. Records(Loaded)
  <2>1. PICK e \in Events : TRUE  BY DEF SetupAssumption
  <2>2. PICK i \in DOMAIN settings.hooks[e] : Ours(settings.hooks[e][i])  BY <1>3
  <2>3. ResolveBinaries \in settings.hooks[e][i] /\ OwnsCommand(ResolveBinaries)
    BY <1>3, <2>2 DEF OwnsCommand
  <2>4. settings.hooks[e][i] \in Range(settings.hooks[e])  BY <2>2 DEF Range
  <2>5. ResolveBinaries \in Loaded[e]  BY <1>2, <2>3, <2>4 DEF Loaded
  <2> QED BY <2>5 DEF Records
<1> QED BY <1>4, <1>5

LEMMA Diagnosed ==
  ASSUME settings.is = "json", \A e \in Events : InstalledCommand(e) # {}, SetupAssumption
  PROVE  /\ Diagnose.claude \in {"ok", "do not resolve"}
         /\ (\A e \in Events : InstalledCommand(e) \subseteq installed) => Diagnose.claude = "ok"
<1>1. InstalledEvents = Events /\ Events # {}  BY DEF InstalledEvents, SetupAssumption
<1>2. Diagnose.claude = ClaudeCheck  BY DEF Diagnose
<1> QED BY <1>1, <1>2 DEF ClaudeCheck

LEMMA Settles ==
  ASSUME SetupInv, SetupAssumption
  PROVE  InitSettles
<1>1. ASSUME finished.op = "init"
      PROVE  /\ InstallHooks(FALSE) = settings /\ RegisterServer(FALSE) = mcp /\ IgnoreLedger = ignore
             /\ finished.host = "all" /\ "opencode" \in present => plugin # "none"
             /\ Diagnose.claude \in {"ok", "do not resolve"} /\ Diagnose.server /\ Diagnose.gitignore
             /\ finished.force /\ ResolveBinaries \in installed =>
                  /\ Healthy /\ Records(Loaded)
                  /\ finished.host = "opencode" => Diagnose.opencode = "ok"
  <2>1. PICK f, host : f = finished.force /\ host = finished.host  OBVIOUS
  <2>2. finished # Nothing  BY <1>1 DEF Nothing
  <2>3. f \in BOOLEAN /\ \A step \in Aims("init", host) : Achieved(step, f)
    BY <1>1, <2>1, <2>2 DEF SetupInv, WorkInv
  <2>4. Achieved("hooks", f) /\ Achieved("server", f) /\ Achieved("gitignore", f)  BY <2>3 DEF Aims
  <2>5. Hooked(settings, f) /\ mcp.servers["patchmesh"] # {} /\ Contains(ignore, Entry)
    BY <2>4 DEF Achieved, AchievedIn
  <2>6. Hooked(settings, FALSE) /\ settings.is = "json"  BY <2>5 DEF Hooked
  <2>7. InstallHooks(FALSE) = settings /\ \A e \in Events : InstalledCommand(e) # {}  BY <2>6, Resolves
  <2>8. ReadMcp.servers = mcp.servers  BY ReadServers DEF SetupInv, FilesInv
  <2>9. RegisterServer(FALSE) = mcp  BY <2>5, <2>8 DEF RegisterServer, Register
  <2>10. IgnoreLedger = ignore  BY <2>5 DEF IgnoreLedger
  <2>11. host = "all" /\ "opencode" \in present => plugin # "none"
    <3>1. SUFFICES ASSUME host = "all", "opencode" \in present PROVE plugin # "none"  OBVIOUS
    <3>2. Achieved("plugin if there", f)  BY <2>3, <3>1 DEF Aims
    <3> QED BY <3>1, <3>2 DEF Achieved, AchievedIn
  <2>12. Diagnose.server /\ Diagnose.gitignore
    BY <2>5, <2>8 DEF Diagnose, CheckServer, CheckGitignore
  <2>13. Diagnose.claude \in {"ok", "do not resolve"}  BY <2>6, <2>7, Diagnosed
  <2>14. ASSUME f, ResolveBinaries \in installed
         PROVE  Healthy /\ Records(Loaded) /\ (host = "opencode" => Diagnose.opencode = "ok")
    <3>1. Hooked(settings, TRUE)  BY <2>5, <2>14 DEF Hooked
    <3>2. Records(Loaded) /\ \A e \in Events : InstalledCommand(e) \subseteq installed  BY <2>14, <3>1, Runs
    <3>3. Diagnose.claude = "ok"  BY <2>6, <2>7, <3>2, Diagnosed
    <3>4. ASSUME host = "opencode" PROVE Diagnose.opencode = "ok"
      <4>1. Achieved("plugin", f)  BY <2>3, <3>4 DEF Aims
      <4>2. plugin = ResolveBinaries  BY <2>14, <4>1 DEF Achieved, AchievedIn, Plugged
      <4>3. OpencodeCheck = "ok"  BY <2>14, <4>2, PlaceIs DEF OpencodeCheck
      <4>4. Diagnose.opencode = OpencodeCheck  BY DEF Diagnose
      <4> QED BY <4>3, <4>4
    <3> QED BY <3>2, <3>3, <3>4 DEF Healthy
  <2> QED BY <2>1, <2>7, <2>9, <2>10, <2>11, <2>12, <2>13, <2>14
<1>2. \A e \in Events : Cardinality({i \in DOMAIN settings.hooks[e] : settings.hooks[e][i] \cap Places # {}}) <= 1
  BY OneGroup
<1> QED BY <1>1, <1>2 DEF InitSettles

(* However often init is run, interrupted or run from another install, a   *)
(* host event never runs two commands of PatchMesh's, and an init that     *)
(* ended alone left what doctor calls well and a second init would not     *)
(* touch (InitSettles), for any host events, hosts, runs and edits, with   *)
(* everything of CommandLine going on beside it.                           *)
THEOREM SettlesProven == CommandSpec => []InitSettles
<1>1. SetupInv => InitSettles  BY Settles, SetupAssumption
<1> QED BY <1>1, SetupHolds, PTL

LEMMA Clean ==
  ASSUME SetupInv
  PROVE  ExitClean
<1>1. SettingsOK(settings) /\ McpOK(mcp) /\ IgnoreOK(ignore)  BY DEF SetupInv, FilesInv
<1>2. ExitRepositoryDry = <<ledgerDir, RemovePatchmeshHooks # settings, RemoveMcpEntry # mcp,
                            plugin # "none", RemoveGitignoreEntry # ignore>>
  <2>1. PICK a, b, c : a = (RemovePatchmeshHooks # settings) /\ b = (RemoveMcpEntry # mcp) /\ c = (RemoveGitignoreEntry # ignore)
    OBVIOUS
  <2>2. PICK x, y, z : x = DryCheckHooks /\ y = DryCheckMcp /\ z = DryCheckGitignore  OBVIOUS
  <2>3. a = x
    <3>1. RemovePatchmeshHooks # settings <=> DryCheckHooks  BY <1>1, RemovedHooks
    <3>2. (RemovePatchmeshHooks # settings) = DryCheckHooks  BY <3>1 DEF DryCheckHooks
    <3> QED BY <2>1, <2>2, <3>2
  <2>4. b = y
    <3>1. RemoveMcpEntry # mcp <=> DryCheckMcp  BY <1>1, Unregistered
    <3>2. (RemoveMcpEntry # mcp) = DryCheckMcp  BY <3>1 DEF DryCheckMcp
    <3> QED BY <2>1, <2>2, <3>2
  <2>5. c = z
    <3>1. RemoveGitignoreEntry # ignore <=> DryCheckGitignore  BY <1>1, Unignored
    <3>2. (RemoveGitignoreEntry # ignore) = DryCheckGitignore  BY <3>1 DEF DryCheckGitignore
    <3> QED BY <2>1, <2>2, <3>2
  <2>6. ExitRepositoryDry = <<ledgerDir, x, y, plugin # "none", z>>  BY <2>2 DEF ExitRepositoryDry
  <2>7. ExitRepositoryDry = <<ledgerDir, a, b, plugin # "none", c>>  BY <2>3, <2>4, <2>5, <2>6
  <2> QED BY <2>1, <2>7
<1>3. ASSUME finished.op = "exit"
      PROVE  /\ \A e \in Events : Loaded[e] = {}
             /\ ReadMcp.servers["patchmesh"] = {} /\ plugin = "none"
             /\ \A l \in Range(ignore) : l \notin {Comment, Entry}
  <2>1. PICK f, host : f = finished.force /\ host = finished.host  OBVIOUS
  <2>2. finished # Nothing  BY <1>3 DEF Nothing
  <2>3. \A step \in Aims("exit", host) : Achieved(step, f)  BY <1>3, <2>1, <2>2 DEF SetupInv, WorkInv
  <2>4. Achieved("unhook", f) /\ Achieved("unregister", f) /\ Achieved("unplug", f) /\ Achieved("unignore", f)
    BY <2>3 DEF Aims
  <2>5. /\ \A e \in Events : \A i \in DOMAIN settings.hooks[e] : ~Ours(settings.hooks[e][i])
        /\ mcp.servers["patchmesh"] = {} /\ plugin = "none"
        /\ \A i \in DOMAIN ignore : ignore[i] \notin {Comment, Entry}
    BY <2>4 DEF Achieved, AchievedIn
  <2>6. ReadSettings.hooks = settings.hooks /\ ReadMcp.servers = mcp.servers  BY <1>1, Read, ReadServers
  <2>7. \A e \in Events : Loaded[e] = {}
    <3>1. ASSUME NEW e \in Events, NEW c \in Loaded[e] PROVE FALSE
      <4>1. PICK g \in Range(settings.hooks[e]) : c \in g /\ OwnsCommand(c)  BY <2>6, <3>1 DEF Loaded
      <4>2. PICK i \in DOMAIN settings.hooks[e] : settings.hooks[e][i] = g  BY <4>1 DEF Range
      <4>3. Ours(g)  BY <4>1 DEF Ours
      <4> QED BY <2>5, <4>2, <4>3
    <3> QED BY <3>1
  <2>8. \A l \in Range(ignore) : l \notin {Comment, Entry}  BY <2>5 DEF Range
  <2> QED BY <2>5, <2>6, <2>7, <2>8
<1> QED BY <1>2, <1>3 DEF ExitClean

(* The dry run of exit announces what its steps would remove and nothing   *)
(* else, in whatever state the files are, and an exit that ended alone     *)
(* left nothing of PatchMesh's to be loaded, served or ignored (ExitClean).*)
THEOREM ExitProven == CommandSpec => []ExitClean
<1>1. SetupInv => ExitClean  BY Clean
<1> QED BY <1>1, SetupHolds, PTL

(* A file written while nobody else acted keeps what others put in it      *)
(* (ForeignKept): what is written was worked out from the file it replaces.*)
THEOREM KeptProven == CommandSpec => ForeignKept
<1> DEFINE Kept == cli # Nothing /\ cli.held /\ cli.alone /\ cli' # Nothing /\ ~cli'.held =>
              /\ HookedBy(settings) \ {e \in Events : Shared(e)} \subseteq HookedBy(settings')
              /\ settings.other => settings'.other
              /\ mcp.foreign => mcp'.foreign
              /\ cli.op = "init" /\ "extra" \in mcp.servers["patchmesh"] => "extra" \in mcp'.servers["patchmesh"]
              /\ plugin = "edited" => plugin' = "edited" \/ cli.force \/ cli.op = "exit"
              /\ Contains(ignore, "user") => Contains(ignore', "user")
<1>1. ASSUME SetupInv, [CommandNext]_allVars, cli # Nothing, cli.held, cli.alone, cli' # Nothing, ~cli'.held
      PROVE  Write
  <2>1. cli' # cli  BY <1>1
  <2>2. CASE UNCHANGED allVars  BY <2>1, <2>2 DEF allVars, vars
  <2>3. CASE SetupStep
    <3>1. DOMAIN cli = CliFields  BY <1>1 DEF SetupInv, CliInv
    <3>2. CASE Start \/ Look \/ Done \/ Killed  BY <1>1, <3>2 DEF Start, Look, Done, Killed
    <3>3. CASE EditSettings \/ EditMcp \/ EditOther \/ Reinstall
      <4>1. cli' = [cli EXCEPT !.alone = FALSE]  BY <1>1, <3>3 DEF EditSettings, EditMcp, EditOther, Reinstall, Disturb
      <4>2. cli'.held = cli.held  BY <3>1, <4>1 DEF CliFields
      <4> QED BY <1>1, <4>2
    <3>4. CASE OpenSession \/ CloseSession  BY <2>1, <3>4 DEF OpenSession, CloseSession
    <3> QED BY <2>3, <3>2, <3>3, <3>4 DEF SetupStep
  <2>4. CASE RecordCall \/ DrainRecords \/ RecordClaim  BY <2>1, <2>4 DEF RecordCall, Call, DrainRecords, RecordClaim
  <2>5. CASE DrainClaims \/ DrainFails  BY <2>1, <2>5 DEF DrainClaims, DrainFails, vars
  <2>6. CASE Ask \/ Resolve  BY <2>1, <2>6 DEF Ask, Resolve, Goes, Answers, Replies, vars
  <2>7. CASE CountPending \/ ClaimJournal  BY <2>1, <2>7 DEF CountPending, ClaimJournal, Goes, vars
  <2>8. CASE OpenLedger  BY <2>1, <2>8 DEF OpenLedger, Goes, Answers, Replies, vars
  <2>9. CASE Report \/ Respond \/ Prune  BY <2>1, <2>9 DEF Report, Respond, Prune, Answers, Replies, vars
  <2>10. CASE Doctor \/ DoctorJournal \/ Interrupted  BY <2>1, <2>10 DEF Doctor, DoctorJournal, Interrupted, vars
  <2> QED BY <1>1, <2>2, <2>3, <2>4, <2>5, <2>6, <2>7, <2>8, <2>9, <2>10 DEF CommandNext
<1>2. ASSUME SetupInv, [CommandNext]_allVars, cli # Nothing, cli.held, cli.alone, cli' # Nothing, ~cli'.held
      PROVE  /\ HookedBy(settings) \ {e \in Events : Shared(e)} \subseteq HookedBy(settings')
             /\ settings.other => settings'.other
             /\ mcp.foreign => mcp'.foreign
             /\ cli.op = "init" /\ "extra" \in mcp.servers["patchmesh"] => "extra" \in mcp'.servers["patchmesh"]
             /\ plugin = "edited" => plugin' = "edited" \/ cli.force \/ cli.op = "exit"
             /\ Contains(ignore, "user") => Contains(ignore', "user")
  <2>1. PICK w, op, f, h : w = cli.write /\ op = cli.op /\ f = cli.force /\ h = Head(cli.steps)  OBVIOUS
  <2>2. Write  BY <1>1, <1>2
  <2>3. /\ settings' = NewSettings(w) /\ mcp' = NewMcp(w) /\ plugin' = NewPlugin(w) /\ ignore' = NewIgnore(w)
    BY <2>1, <2>2 DEF Write, Into, NewSettings, NewMcp, NewPlugin, NewIgnore
  <2>4. Fits(w, op, h, f)  BY <1>2, <2>1 DEF SetupInv, CliInv
  <2>5. Keeps(NewSettings(w), NewMcp(w), NewPlugin(w), NewIgnore(w), op, f)  BY <2>4 DEF Fits
  <2> QED BY <2>1, <2>3, <2>5 DEF Keeps
<1>3. SetupInv /\ [CommandNext]_allVars => Kept  BY <1>2
<1>4. Kept \/ UNCHANGED vars <=> [Kept]_vars  OBVIOUS
<1>5. SetupInv /\ [CommandNext]_allVars => [Kept]_vars  BY <1>3
<1> QED BY <1>5, SetupHolds, PTL DEF CommandSpec, ForeignKept
=============================================================================
