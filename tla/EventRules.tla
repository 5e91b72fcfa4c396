----------------------------- MODULE EventRules -----------------------------
(***************************************************************************)
(* What makes a set of ledger events valid, and what the events of one     *)
(* tool call prove about its coverage.  Pure operators over a set E of     *)
(* events of one repository, workspace and integration target, so that an  *)
(* event's domain is its worktree.  A digest is modelled by the content it *)
(* is computed from, and schema version 3 by a target that is not None.    *)
(*                                                                         *)
(* An event is [id, type, src, seq, wt, agent, task, corr, cause, body];   *)
(* src is <<kind, instance>>.  A version is [res, wt, val, ev].            *)
(***************************************************************************)
EXTENDS Naturals, FiniteSets

CONSTANT None   \* null and undefined

ChangeTypes == {"file.changed", "symbol.changed"}
ReadTypes   == {"file.read", "symbol.read"}

Has(E, i) == \E e \in E : e.id = i
At(E, i)  == CHOOSE e \in E : e.id = i
IsA(E, i, types) == \E e \in E : e.id = i /\ e.type \in types
OfType(E, t) == {e \in E : e.type = t}

(***************************************************************************)
(* The rules every event obeys.                                            *)
(***************************************************************************)
(* No two events of S agree on F.                                          *)
Distinct(S, F(_)) == Cardinality({F(e) : e \in S}) = Cardinality(S)

OneContent(E) == Distinct(E, LAMBDA e : e.id)

OneRoot(E) == Distinct({e \in E : e.cause = None}, LAMBDA e : e.corr)

SequenceUnique(E) == Distinct({e \in E : e.seq # None}, LAMBDA e : <<e.src, e.seq>>)

CausedProperly(E, e) == e.cause # None =>
  /\ e.cause # e.id
  /\ \E parent \in E :
       /\ parent.id = e.cause /\ parent.corr = e.corr
       /\ (parent.src = e.src /\ parent.seq # None /\ e.seq # None)
            => e.seq > parent.seq

(* Every event reaches a root, or an absent parent, by its causes.         *)
Acyclic(E) ==
  LET all == {e.id : e \in E}
      below[R \in SUBSET E] ==
        LET ids  == {e.id : e \in R}
            next == R \cup {e \in E : e.cause \in ids}
        IN  IF next = R THEN R ELSE below[next]
  IN  below[{e \in E : e.cause \notin all}] = E

VersionFits(e, v) == v # None => v.res = e.body.res /\ v.wt = e.wt

ResourceFits(e) ==
  /\ e.type = "file.read" => VersionFits(e, e.body.ver)
  /\ e.type \in ChangeTypes => VersionFits(e, e.body.before) /\ VersionFits(e, e.body.after)

(***************************************************************************)
(* The rules of single event types.                                        *)
(***************************************************************************)
CompletionValid(E, e) ==
  /\ \E request \in OfType(E, "tool.requested") :
       request.id = e.body.request /\ e.wt = request.wt /\ e.corr = request.corr
  /\ e.cause = e.body.request \/ e.cause \in e.body.effects
  /\ \A i \in e.body.attributed :
       /\ e.body.outcome = "succeeded"
       /\ i \in e.body.effects
       /\ \E effect \in OfType(E, "file.changed") :
            /\ effect.id = i /\ effect.src[1] = "watcher"
            /\ <<e.wt, e.corr, e.agent, e.task>>
                 = <<effect.wt, effect.corr, effect.agent, effect.task>>

FeedbackValid(E, e) ==
  /\ \E f \in OfType(E, "finding.created") :
       /\ f.body.finding = e.body.finding
       /\ f.wt = e.wt /\ f.corr = e.corr
  /\ e.body.decision # None =>
       \E d \in OfType(E, "decision.created") :
         /\ d.body.decision = e.body.decision
         /\ d.body.finding = e.body.finding
         /\ d.wt = e.wt /\ d.corr = e.corr
  /\ \A i \in e.body.evidence : Has(E, i) /\ At(E, i).wt = e.wt /\ At(E, i).corr = e.corr

(* Sufficient evidence derived for one symbol change.                      *)
SymbolEvidence(E, i) ==
  {d \in OfType(E, "evidence.derived") : d.body.of = i /\ d.body.fact = "symbol"}

ComparisonValid(E, e, read) ==
  LET w == e.body
  IN  /\ IsA(E, w.against, ChangeTypes)
      /\ At(E, w.against).body.res = read.body.res
      /\ At(E, w.against).type = "symbol.changed" =>
           Cardinality(SymbolEvidence(E, w.against)) = 1

DependentWriteValid(E, e) ==
  LET w == e.body
  IN  /\ IsA(E, w.read, {"file.read"})
      /\ At(E, w.read).wt = e.wt
      /\ e.task # None /\ At(E, w.read).task = e.task
      /\ \E d \in OfType(E, "dependency.changed") :
           /\ d.body.dep = w.dep
           /\ d.wt = e.wt
           /\ d.body.dependent = w.res
           /\ d.body.dependency = At(E, w.read).body.res
      /\ IsA(E, e.cause, ChangeTypes)
      /\ LET changed == At(E, e.cause)
         IN  /\ changed.body.res = w.res
             /\ <<changed.wt, changed.corr, changed.task>> = <<e.wt, e.corr, e.task>>
      /\ w.against # None => ComparisonValid(E, e, At(E, w.read))

(* What a proof-bearing dependent write binds besides.                     *)
DependentWriteProven(E, e) ==
  LET w == e.body
      token == w.token
  IN  /\ token.read = w.read
      /\ <<token.task, token.wt, token.target>> = <<e.task, e.wt, w.target>>
      /\ <<token.res, token.ver>> = <<At(E, w.read).body.res, At(E, w.read).body.ver>>
      /\ IsA(E, w.effect, {"file.changed"})
      /\ LET effect == At(E, w.effect)
         IN  effect.body.res = w.res /\ effect.wt = e.wt /\ effect.task = e.task
      /\ IsA(E, w.completion, {"tool.completed"})
      /\ LET done == At(E, w.completion)
         IN  /\ done.body.outcome = "succeeded"
             /\ w.effect \in done.body.attributed
             /\ <<done.wt, done.task, done.corr>> = <<e.wt, e.task, e.corr>>

ConcurrencyValid(E, e) ==
  LET o == e.body
  IN  /\ e.src[1] \in {"gateway", "adapter"}
      /\ o.task[1] # o.task[2] /\ o.agent[1] # o.agent[2] /\ o.wt[1] # o.wt[2]
      /\ o.life[1] # o.life[2]
      /\ \A k \in 1..2 :
           /\ IsA(E, o.change[k], {"symbol.changed"})
           /\ LET c == At(E, o.change[k])
              IN  <<c.task, c.agent, c.wt>> = <<o.task[k], o.agent[k], o.wt[k]>>
      /\ At(E, o.change[1]).body.res = At(E, o.change[2]).body.res

EvidenceValid(E, e) ==
  LET d == e.body
  IN  /\ e.src[1] = "analyzer"
      /\ \E target \in OfType(E, IF d.fact = "symbol" THEN "symbol.changed" ELSE "dependency.changed") :
           /\ target.id = d.of /\ target.wt = e.wt /\ target.corr = e.corr /\ e.cause = d.of
           /\ d.stable = IF d.fact = "symbol" THEN target.body.res ELSE target.body.dep
      /\ Has(E, d.source)

(* A proof-bearing piece of evidence is bound to the version analysed.     *)
EvidenceProven(E, e) ==
  LET d == e.body
  IN  /\ \E source \in E :
           /\ source.id = d.source /\ source.type \in ChangeTypes
           /\ source.body.res = d.srcRes /\ source.body.after = d.srcVer
      /\ d.fact = "dependency" =>
           LET target == At(E, d.of).body
           IN  d.srcRes = target.dependent /\ d.contract = target.dependency

UnambiguousProof(E, e) == e.body.target # None =>
  \A d \in OfType(E, "evidence.derived") :
    d.body.of = e.body.of /\ d.body.target = e.body.target => d.id = e.id

(* Schema version 3: proofs, whose attribution is immutable.               *)
Proven(e) == "target" \in DOMAIN e.body /\ e.body.target # None

CorrectionValid(E, e) ==
  /\ Has(E, e.body.of)
  /\ LET target == At(E, e.body.of)
     IN  /\ <<target.wt, target.corr>> = <<e.wt, e.corr>>
         /\ Proven(target) => <<target.agent, target.task>> = <<e.body.agent, e.body.task>>
  /\ e.body.agent # None \/ e.body.task # None

EventValid(E, e) ==
  /\ CausedProperly(E, e)
  /\ ResourceFits(e)
  /\ e.type = "attribution.corrected" => CorrectionValid(E, e)
  /\ e.type = "tool.completed" => CompletionValid(E, e)
  /\ e.type = "finding.feedback.created" => FeedbackValid(E, e)
  /\ e.type = "write.dependent" =>
       DependentWriteValid(E, e) /\ (e.body.target # None => DependentWriteProven(E, e))
  /\ e.type = "task.concurrency.observed" => ConcurrencyValid(E, e)
  /\ e.type = "evidence.derived" =>
       /\ EvidenceValid(E, e) /\ UnambiguousProof(E, e)
       /\ e.body.target # None => EvidenceProven(E, e)

Invalid(E) == {e \in E : ~EventValid(E, e)}

(* validateEventSet finds nothing.                                         *)
ValidSet(E) ==
  /\ OneContent(E) /\ OneRoot(E) /\ SequenceUnique(E)
  /\ Invalid(E) = {}
  /\ Acyclic(E)

(***************************************************************************)
(* Coverage of a tool call.                                                *)
(***************************************************************************)
CompletionsOf(E, request) == {c \in OfType(E, "tool.completed") : c.body.request = request.id}

CausedBy(E, i, types) == {e.id : e \in {x \in E : x.cause = i /\ x.type \in types}}

(* Declared effects that are absent, or seen by the watcher and not        *)
(* attributed to the call.                                                 *)
UnprovenEffects(E, done) ==
  {i \in done.body.effects :
     \/ ~IsA(E, i, ChangeTypes)
     \/ At(E, i).src[1] = "watcher" /\ i \notin done.body.attributed}

Coverage(E, request) ==
  IF CompletionsOf(E, request) = {}
  THEN [scope |-> request.id, ev |-> {request.id}, shown |-> "degraded"]
  ELSE LET done  == CHOOSE c \in CompletionsOf(E, request) : TRUE
           reads == CausedBy(E, request.id, ReadTypes)
           bound == CausedBy(E, done.id, ChangeTypes)
           seen  == {i \in done.body.effects : IsA(E, i, ChangeTypes)}
           whole == UnprovenEffects(E, done) = {}
           effects == done.body.effects # {} \/ bound # {}
       IN  [scope |-> request.id,
            ev    |-> {request.id, done.id} \cup reads \cup bound \cup seen,
            shown |-> CASE ~whole \/ (request.body.opaque /\ ~effects) -> "degraded"
                        [] whole /\ (effects \/ (reads # {} /\ ~request.body.opaque)) -> "sufficient"
                        [] OTHER -> "unknown"]

(* The sufficient coverages of a log; the projection fails closed on an    *)
(* invalid one.                                                            *)
Sufficient(E) ==
  IF ~ValidSet(E) THEN {}
  ELSE {c \in {Coverage(E, r) : r \in OfType(E, "tool.requested")} : c.shown = "sufficient"}

(* The one sufficient coverage in S of the event or of its closest cause   *)
(* that has one.                                                           *)
Covering(E, S, i) ==
  LET of(j) == {c \in S : j \in c.ev}
      climb[j \in {e.id : e \in E} \cup {None}] ==
        IF j = None \/ Cardinality(of(j)) = 1 THEN of(j) ELSE climb[At(E, j).cause]
  IN  IF S = {} \/ climb[i] = {} THEN None ELSE CHOOSE c \in climb[i] : TRUE
=============================================================================
