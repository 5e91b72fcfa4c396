----------------------------- MODULE Detection ------------------------------
(***************************************************************************)
(* The daemon beside the gateway: it replays the log, derives findings     *)
(* from what the events prove, and appends each finding with the decision  *)
(* about it; agents respond to them.  It runs in a process of its own, so  *)
(* the gateway appends between any two of its appends.                     *)
(*                                                                         *)
(* The order of event ids, drawn at random in the code, is that of their   *)
(* numbers, or any where CHOOSE picks.                                     *)
(***************************************************************************)
EXTENDS SiteGateway

CONSTANTS Breaking(_, _),  \* the new signature breaks callers of the old one
          MaxRuns,         \* bound on detection runs and responses together
          Together,        \* bound: whether they may be made where something failed
          States           \* what agents respond to a finding or a decision

VARIABLES detector,   \* the record pairs a detection has still to append
          runs        \* detection runs begun

vars == <<gatewayVars, detector, runs>>

Core == <<"core", "phase2">>
NoRun == <<>>

DetectionInit == Init /\ detector = NoRun /\ runs = 0

(***************************************************************************)
(* What the log proves.                                                    *)
(***************************************************************************)
(* The evidence bound to a target about one event, when it is unambiguous. *)
Assertions(E, i, fact) ==
  {d \in OfType(E, "evidence.derived") : d.body.target # None /\ d.body.of = i /\ d.body.fact = fact}

Asserted(E, S, i, fact) ==
  LET found == Assertions(E, i, fact)
  IN  /\ Cardinality({d.body : d \in found}) = 1
      /\ \A d \in found : Covering(E, S, d.id) # None

Assertion(E, i, fact) == (CHOOSE d \in Assertions(E, i, fact) : TRUE).body

(* Observations of concurrency whose two changes are proven.               *)
Observations(E, S) ==
  {o \in OfType(E, "task.concurrency.observed") :
     /\ o.src[1] # "core"
     /\ Covering(E, S, o.id) = o.body.cov
     /\ \A k \in 1..2 : Asserted(E, S, o.body.change[k], "symbol")
                        /\ Assertion(E, o.body.change[k], "symbol").target = o.body.target}

ObservedWith(O, i) == {o \in O : i \in Range(o.body.change)}

Finding(type, subject, task, deps, evidence, covs) ==
  [type |-> type, subject |-> subject, task |-> task, deps |-> deps,
   evidence |-> evidence, covs |-> covs]

(* Two changes of one symbol, to different versions, each concurrent with  *)
(* the other and with nothing else.                                        *)
SameSymbolFindings(E, S) ==
  LET O == Observations(E, S)
      changes(o) == {At(E, o.body.change[k]) : k \in 1..2}
  IN  {Finding("same_symbol_overlap", At(E, o.body.change[2]).body.res, o.body.task[2], {},
               Range(o.body.change) \cup {o.id},
               {Covering(E, S, c.id) : c \in changes(o)} \cup {o.body.cov}) :
         o \in {p \in O : /\ \A i \in Range(p.body.change) : ObservedWith(O, i) = {p}
                          /\ \A c \in changes(p) : Covering(E, S, c.id) # None
                          /\ Cardinality({c.body.after.val : c \in changes(p)}) = 2}}

Compared(E, b) == TRUE   \* mutant of Outdated
Outdated(E, b) == At(E, b.read).body.ver.val # At(E, b.against).body.after.val

(* A dependent write whose read saw another version than the change it was *)
(* compared with.                                                          *)
StaleReadFindings(E, S) ==
  LET writes == {w \in OfType(E, "write.dependent") : w.body.target # None}
  IN  {Finding("stale_read_before_write", At(E, w.body.read).body.res, w.task, {w.body.dep},
               {w.body.read, w.id, At(E, w.body.against).body.after.ev},
               {Covering(E, S, w.body.read), w.body.cov, w.body.againstCov}) :
         w \in {x \in writes :
           LET b == x.body
           IN  /\ Covering(E, S, x.id) = b.cov /\ Covering(E, S, b.effect) = b.cov
               /\ Covering(E, S, b.against) = b.againstCov
               /\ Covering(E, S, b.read) # None
               /\ Cardinality({y.body.token : y \in {z \in writes : z.body.read = b.read}}) = 1
               /\ Outdated(E, b)}}

Consumers(E, S) ==
  {d \in OfType(E, "dependency.changed") :
     Covering(E, S, d.id) # None /\ Asserted(E, S, d.id, "dependency")}

Symbols(E, S) ==
  {e \in OfType(E, "symbol.changed") :
     Covering(E, S, e.id) # None /\ Asserted(E, S, e.id, "symbol")}

(* The change that gave the symbol the version, and its file the content,  *)
(* that the change e replaced.                                             *)
Priors(E, S, e) ==
  LET replaced == At(E, e.cause).body.before
  IN  {p \in Symbols(E, S) \ {e} :
         LET a == Assertion(E, p.id, "symbol")
         IN  /\ p.body.res = e.body.res
             /\ a.target = Assertion(E, e.id, "symbol").target
             /\ p.body.after.val = e.body.before.val
             /\ a.srcVer.res = replaced.res /\ a.srcVer.val = replaced.val}

ContractBroken(E, S, e) ==
  /\ e.body.kind = "modified" /\ e.body.before # None
  /\ Cardinality(Priors(E, S, e)) = 1
  /\ \A p \in Priors(E, S, e) :
       Breaking(Assertion(E, p.id, "symbol").sig, Assertion(E, e.id, "symbol").sig)

(* The dependency d was resolved against the version the change e replaced.*)
ConsumesReplaced(e, d) ==
  d.body.dependency = e.body.res /\ d.body.ver[3] = e.body.before.val

(* A breaking change of a symbol, and a file analysed against the version  *)
(* it replaced.                                                            *)
ContractFindings(E, S) ==
  {Finding("exported_contract_invalidation", x[1].body.res, x[2].task, {x[2].body.dep},
           {x[1].id, x[2].id, x[1].body.after.ev},
           {Covering(E, S, x[1].id), Covering(E, S, x[2].id)}) :
     x \in {y \in Symbols(E, S) \X Consumers(E, S) :
       /\ ContractBroken(E, S, y[1])
       /\ Assertion(E, y[2].id, "dependency").target = Assertion(E, y[1].id, "symbol").target
       /\ y[1].body.before.val # y[1].body.after.val
       /\ ConsumesReplaced(y[1], y[2])}}

Findings(E) ==
  LET S == Sufficient(E)
  IN  SameSymbolFindings(E, S) \cup StaleReadFindings(E, S) \cup ContractFindings(E, S)

(***************************************************************************)
(* Findings and decisions are events identified by what they say.          *)
(***************************************************************************)
Action(finding) ==
  IF finding.type = "stale_read_before_write" THEN "request_recheck" ELSE "notify"

FindingIdNow(E, finding) == <<finding.type, finding.evidence, Cardinality(E)>>   \* mutant
FindingIdFor(E, finding) == <<finding.type, finding.evidence, finding.covs>>

Records(E, finding) ==
  LET parent == At(E, CHOOSE i \in finding.evidence : TRUE)
      id == FindingIdFor(E, finding)
      fact == [parent EXCEPT !.id = id, !.type = "finding.created", !.src = Core,
                 !.seq = None, !.agent = None, !.task = finding.task, !.cause = parent.id,
                 !.body = [finding |-> id, says |-> finding]]
  IN  <<fact,
        [fact EXCEPT !.id = <<"decision", id>>, !.type = "decision.created", !.cause = id,
           !.body = [decision |-> <<"decision", id>>, finding |-> id,
                     action |-> Action(finding), directive |-> "allow_with_notice"]]>>

Answers == Cardinality(OfType(log, "decision.delivery.changed")
                       \cup OfType(log, "finding.feedback.created"))

MayRun == (Together \/ faults = 0) /\ runs + Answers < MaxRuns

(* A replay that finds the log invalid stops the run before it begins.     *)
Detect ==
  /\ detector = NoRun /\ MayRun
  /\ runs' = runs + 1
  /\ ValidSet(log)
  /\ detector' = SetToSeq({Records(log, f) : f \in Findings(log)})
  /\ UNCHANGED gatewayVars

(* A finding and its decision are appended together, if the log stays      *)
(* valid with them; what is there already is left; a failure stops the run.*)
AppendRecords ==
  /\ detector # NoRun
  /\ LET pair == Head(detector)
         new == {e \in ToSet(pair) : ~Has(log, e.id)}
     IN  \/ /\ ValidSet(log \cup ToSet(pair))
            /\ log' = log \cup new
            /\ detector' = Tail(detector)
         \/ /\ detector' = NoRun
            /\ UNCHANGED log
  /\ UNCHANGED <<disk, seen, lifes, queue, pc, run, seqs, emitted, tokens, faults,
                 together, wrote, runs>>

(* An agent's response is identified by what it says: said twice, it is    *)
(* one event.                                                              *)
Response(of, type, body) ==
  [of EXCEPT !.id = <<type, {body.said}, of.id>>, !.type = type, !.cause = of.id, !.body = body]

Responses(e) ==
  CASE e.type = "decision.created" ->
         {Response(e, "decision.delivery.changed", [said |-> d, decision |-> e.id]) : d \in States}
    [] e.type = "finding.created" ->
         {Response(e, "finding.feedback.created",
            [said |-> d, finding |-> e.id, decision |-> <<"decision", e.id>>, evidence |-> {e.id}]) :
              d \in States}
    [] OTHER -> {}

Respond ==
  /\ runs > 0 /\ MayRun
  /\ \E e \in log : \E r \in Responses(e) : ~Has(log, r.id) /\ log' = log \cup {r}
  /\ UNCHANGED <<disk, seen, lifes, queue, pc, run, seqs, emitted, tokens, faults,
                 together, wrote, detector, runs>>

Next ==
  \/ /\ GatewayNext
     /\ faults' = faults \/ Together \/ runs = 0
     /\ UNCHANGED <<detector, runs>>
  \/ Detect \/ AppendRecords \/ Respond

DetectionSpec == DetectionInit /\ [][Next]_vars
-----------------------------------------------------------------------------
(* What the events of a call without a target state is appended unchecked. *)
Stated == {w \in OfType(log, "write.dependent") : w.body.target = None}
Proofs == OfType(log, "task.concurrency.observed")

(* The gateway, the daemon and the agents append to one log, and each      *)
(* checks only what it adds to what it last read: as long as no caller's   *)
(* unproven statement is in it, the log can be replayed whenever a dispatch*)
(* gives way.                                                              *)
Awaiting == \A c \in Calls :
  pc[c] \notin {"opening", "closing", "changes", "analysing", "completing", "claiming"}

LogReplays == (Awaiting /\ Stated = {}) => ValidSet(log)

(* A proof of concurrency never names lifetimes that were not active at    *)
(* once, nor an agent that did not write the file it is said to have       *)
(* changed: only an edit in its own checkout during its window can be      *)
(* taken for the call's.                                                   *)
ConcurrencySound == \A p \in Proofs :
  /\ {p.body.life[1], p.body.life[2]} \in together
  /\ \A k \in 1..2 :
       LET change == At(log, p.body.change[k])
           file   == change.body.res[2]
       IN  /\ Life[p.body.life[k]].wt = change.wt
           /\ \E c \in Calls :
                /\ change.corr = <<"call", c>> /\ Call[c].as = p.body.life[k]
                /\ {<<c, file>>, <<change.wt, file>>} \cap wrote # {}

(* Lifetimes are of agents and tasks of their own, in worktrees of their   *)
(* own, and their events come from an adapter or the gateway.              *)
LivesApart == \A l, m \in Lifecycles :
  /\ Life[l].agent # None /\ Life[l].task # None /\ Life[l].src[1] \in {"adapter", "gateway"}
  /\ l # m => /\ Life[l].agent # Life[m].agent /\ Life[l].task # Life[m].task
              /\ Life[l].wt # Life[m].wt

(* Whatever the order in which calls finish and lifetimes begin and end,   *)
(* once the gateway is idle and nothing failed every two proven, covered   *)
(* changes of one symbol recorded in lifetimes that overlapped have their  *)
(* proof.                                                                  *)
Recordings == UNION {{l} \X lifes[l].changes : l \in Lifecycles}

OverlapReported == (run = Idle /\ faults = 0) =>
  LET S == Sufficient(log)
  IN  \A x, y \in Recordings :
        (/\ {x[1], y[1]} \in together /\ x[1] # y[1]
         /\ At(log, x[2]).body.res = At(log, y[2]).body.res
         /\ \A z \in {x, y} : ProvenSymbol(At(log, z[2])) /\ Covering(log, S, z[2]) # None)
        => \E p \in Proofs : Range(p.body.change) = {x[2], y[2]}

(* A change is attributed to a call only if its executor wrote the file:   *)
(* edits of others before or during the window leave it unattributed.      *)
AttributedWritten == \A c \in OfType(log, "tool.completed") : \A i \in c.body.attributed :
  <<c.corr[2], At(log, i).body.res[2]>> \in wrote

(* The evidence of a dispatch can be read back whole when it ends,         *)
(* whatever changed on disk meanwhile and whichever appends failed.        *)
SliceWhole == \A c \in Calls : pc[c] # "diagnosed"

(* Every finding in the log has its decision and no finding two, however   *)
(* often detection runs and wherever it stops; the same evidence is        *)
(* reported once.                                                          *)
ReportedOnce ==
  LET findings == OfType(log, "finding.created")
  IN  /\ {f.id : f \in findings} = {d.body.finding : d \in OfType(log, "decision.created")}
      /\ \A f, g \in findings :
           <<f.body.says.type, f.body.says.evidence>> = <<g.body.says.type, g.body.says.evidence>>
             => f = g

(* A same-symbol finding is about two agents and two signatures; a contract*)
(* invalidation about a file analysed against an earlier version of the    *)
(* symbol, not the one the change left; a stale read about a version that  *)
(* some change of what was read has left behind.                           *)
Evidence(says, type) == {e \in OfType(log, type) : e.id \in says.evidence}

Grounded(says) ==
  LET changes == Evidence(says, "symbol.changed")
  IN  CASE says.type = "same_symbol_overlap" ->
             /\ Cardinality({e.body.after.val : e \in changes}) = 2
             /\ Cardinality({e.agent : e \in changes}) = 2
        [] says.type = "exported_contract_invalidation" ->
             \A e \in changes, d \in Evidence(says, "dependency.changed") :
               /\ d.body.dependency = e.body.res
               /\ \E p \in OfType(log, "symbol.changed") \ {e} :
                    /\ p.body.res = e.body.res /\ p.body.after.val = d.body.ver[3]
                    /\ p.id[2] # e.id[2]
        [] says.type = "stale_read_before_write" ->
             \A r \in Evidence(says, "file.read"), c \in Evidence(says, "file.changed") :
               \E e \in OfType(log, "symbol.changed") \cup {c} :
                 /\ e = c \/ e.cause = c.id
                 /\ e.body.res = r.body.res /\ e.body.after.val # r.body.ver.val

FindingsGrounded == \A f \in OfType(log, "finding.created") : Grounded(f.body.says)
=============================================================================
