----------------------------- MODULE WorkGraph ------------------------------
(***************************************************************************)
(* The work graph of a set of ledger events (work-graph.ts): who read and  *)
(* changed what, in which version, and the findings, decisions and coverage*)
(* derived beside it.  Ids of events are numbers: their order is that of   *)
(* the random draws, unrelated to the order of the rows.                   *)
(*                                                                         *)
(* A node or edge keeps the ids of every event that touched it, in `ev`,   *)
(* and in `says` what the first of them said of it.                        *)
(***************************************************************************)
EXTENDS EventRules, Sequences, SequencesExt

(***************************************************************************)
(* Events and their bodies.                                                *)
(***************************************************************************)
Version(res, wt, val, ev) == [res |-> res, wt |-> wt, val |-> val, ev |-> ev]

Event(id, type, src, seq, wt, who, corr, cause, body) ==
  [id |-> id, type |-> type, src |-> src, seq |-> seq, wt |-> wt, agent |-> who[1],
   task |-> who[2], corr |-> corr, cause |-> cause, body |-> body]

RequestBody(opaque) == [opaque |-> opaque]
CompletionBody(request, outcome, effects, attributed) ==
  [request |-> request, outcome |-> outcome, effects |-> effects, attributed |-> attributed]
ReadBody(res, ver) == [res |-> res, ver |-> ver]
ChangeBody(res, before, after, kind) ==
  [res |-> res, before |-> before, after |-> after, kind |-> kind]
TaskBody(product) == [product |-> product]
DependencyBody(dep, dependent, dependency, from, to, evidence) ==
  [dep |-> dep, dependent |-> dependent, dependency |-> dependency,
   dependentVer |-> from, dependencyVer |-> to, evidence |-> evidence]
CorrectionBody(of, who) == [of |-> of, agent |-> who[1], task |-> who[2]]
FindingBody(finding, subject, task) ==
  [finding |-> finding, status |-> "open", says |-> [subject |-> subject, task |-> task]]
FeedbackBody(finding, decision, said, evidence) ==
  [finding |-> finding, decision |-> decision, said |-> said, evidence |-> evidence]
DecisionBody(decision, finding, who) ==
  [decision |-> decision, finding |-> finding, target |-> who]
DeliveryBody(decision, delivery, state, events) ==
  [decision |-> decision, delivery |-> delivery, state |-> state, events |-> events]

(***************************************************************************)
(* Attribution.  `fix` maps a corrected event to the correction.           *)
(***************************************************************************)
Attribution(e, fix) ==
  IF e.id \in DOMAIN fix THEN <<fix[e.id].body.agent, fix[e.id].body.task>>
  ELSE <<e.agent, e.task>>

Effective(e, fix) ==
  IF Proven(e) THEN e
  ELSE [e EXCEPT !.agent = Attribution(e, fix)[1], !.task = Attribution(e, fix)[2]]

(* Of several corrections of one event the last in seq wins.               *)
Corrections(base, seq) ==
  LET made == SelectSeq(seq, LAMBDA e : e.type = "attribution.corrected")
  IN  FoldLeft(LAMBDA fix, c : [i \in DOMAIN fix \cup {c.body.of} |->
                                  IF i = c.body.of THEN c ELSE fix[i]], base, made)

(***************************************************************************)
(* Identities.                                                             *)
(***************************************************************************)
AgentNode(a)    == <<"agent", a>>
TaskNode(t)     == <<"task", t>>
ResourceNode(r) == <<"resource", r>>
VersionNode(v)  == <<"version", v.res, v.wt, v.val>>
EdgeId(kind, from, to, by) == <<kind, from, to, by>>

Kind(id) == id[1]
From(edge) == edge[2]
To(edge) == edge[3]

SourceNode(e) == CASE e.task # None -> TaskNode(e.task)
                   [] e.task = None /\ e.agent # None -> AgentNode(e.agent)
                   [] OTHER -> None

(***************************************************************************)
(* What one event adds.                                                    *)
(***************************************************************************)
Touch(id, says, ev) == [id |-> id, says |-> says, ev |-> ev]
If(cond, seq) == IF cond THEN seq ELSE <<>>
Edge(e, kind, from, to, by, detail, ev) ==
  Touch(EdgeId(kind, from, to, by), [agent |-> e.agent, task |-> e.task, is |-> detail], ev)

EnvelopeNodes(e) ==
  If(e.agent # None, <<Touch(AgentNode(e.agent), None, {e.id})>>)
  \o If(e.task # None, <<Touch(TaskNode(e.task), None, {e.id})>>)

Performs(e) == If(e.agent # None /\ e.task # None,
  <<Edge(e, "performs", AgentNode(e.agent), TaskNode(e.task), "attribution", None, {e.id})>>)

(* The versions an event names, of which a changed resource had the first  *)
(* before, if any.                                                         *)
Versions(e) ==
  CASE e.type \in ReadTypes -> <<e.body.ver>>
    [] e.type \in ChangeTypes -> If(e.body.before # None, <<e.body.before>>) \o <<e.body.after>>
    [] e.type = "dependency.changed" -> <<e.body.dependentVer, e.body.dependencyVer>>
    [] OTHER -> <<>>

VersionNodes(e) ==
  [k \in 1..Len(Versions(e)) |->
     LET v == Versions(e)[k] IN Touch(VersionNode(v), v.ev, {e.id} \cup v.ev)]

ResourceNodes(e) == If(e.type \in ReadTypes \cup ChangeTypes,
  <<Touch(ResourceNode(e.body.res), None, {e.id})>>)

VersionReferences(e) == If(e.type \in ReadTypes \cup ChangeTypes,
  [k \in 1..Len(Versions(e)) |->
     Edge(e, "references_version", ResourceNode(e.body.res), VersionNode(Versions(e)[k]),
          "resource-version", None, {e.id})])

Observed(e) == If(e.type \in ReadTypes,
  <<Edge(e, "reads", SourceNode(e), ResourceNode(e.body.res), e.id, None, {e.id})>>)

Changed(e) == If(e.type \in ChangeTypes,
  <<Edge(e, "changes", SourceNode(e), ResourceNode(e.body.res), e.id,
         [kind |-> e.body.kind,
          before |-> IF e.body.before = None THEN None ELSE VersionNode(e.body.before),
          after |-> VersionNode(e.body.after)],
         {e.id})>>)

DependsOn(e) == If(e.type = "dependency.changed",
  <<Edge(e, "depends_on", ResourceNode(e.body.dependent), ResourceNode(e.body.dependency),
         e.body.dep, [from |-> e.body.dependentVer, to |-> e.body.dependencyVer],
         {e.id} \cup e.body.evidence)>>)

NodesOf(e) == EnvelopeNodes(e) \o ResourceNodes(e) \o VersionNodes(e)
EdgesOf(e) == Performs(e) \o VersionReferences(e) \o Observed(e) \o Changed(e) \o DependsOn(e)

Completed(e) == IF e.type = "task.completed" /\ e.task # None
                THEN {<<e.task, e.id, e.body.product>>} ELSE {}

Upserted(base, touches) ==
  [i \in DOMAIN base \cup {t.id : t \in ToSet(touches)} |->
     LET mine == SelectSeq(touches, LAMBDA t : t.id = i)
         more == UNION {t.ev : t \in ToSet(mine)}
     IN  IF i \in DOMAIN base THEN [base[i] EXCEPT !.ev = @ \cup more]
         ELSE [says |-> mine[1].says, ev |-> more]]

(***************************************************************************)
(* Findings and decisions, with the responses to them, from all events.    *)
(***************************************************************************)
Newest(S) == CHOOSE e \in S : \A f \in S : f.id <= e.id

Feedback(E, finding) == {b \in OfType(E, "finding.feedback.created") : b.body.finding = finding}

FindingViews(E) ==
  LET facts == OfType(E, "finding.created")
  IN  [f \in {e.body.finding : e \in facts} |->
         LET fact == Newest({e \in facts : e.body.finding = f})
             said == Feedback(E, f)
         IN  [says |-> fact.body.says,
              feedback |-> {b.id : b \in said},
              status |-> IF \E b \in said : b.body.said = "dismissed" THEN "dismissed"
                         ELSE fact.body.status,
              ev |-> {fact.id} \cup {b.id : b \in said}]]

(* Of the states of one delivery, the one that names most events is kept,  *)
(* the latest id among those.                                              *)
Delivery(D) ==
  LET most(d) == \A c \in D : Cardinality(c.body.events) <= Cardinality(d.body.events)
  IN  Newest({d \in D : most(d)}).body

DecisionViews(E) ==
  LET facts == OfType(E, "decision.created")
  IN  [d \in {e.body.decision : e \in facts} |->
         LET fact == Newest({e \in facts : e.body.decision = d})
             said == {b \in Feedback(E, fact.body.finding) : b.body.decision = d}
             of   == {x \in OfType(E, "decision.delivery.changed") : x.body.decision = d}
             kept == {Delivery({x \in of : x.body.delivery = y}) : y \in {x.body.delivery : x \in of}}
         IN  [finding |-> fact.body.finding, target |-> fact.body.target,
              deliveries |-> kept,
              feedback |-> {b.id : b \in said},
              ev |-> {fact.id} \cup UNION {x.events : x \in kept} \cup {b.id : b \in said}]]

(***************************************************************************)
(* Coverage: of every call, of changes nobody is known to have made, and of*)
(* sources that skipped sequence numbers.                                  *)
(***************************************************************************)
(* <<source, first number missing>> of every range between two numbers.    *)
SequenceGaps(E) ==
  LET seqs(src) == {e.seq : e \in {x \in E : x.src = src /\ x.seq # None}}
  IN  {<<e.src, e.seq + 1>> : e \in {x \in E : /\ x.seq # None
                                              /\ x.seq + 1 \notin seqs(x.src)
                                              /\ \E k \in seqs(x.src) : k > x.seq}}

Unattributed(E, fix) ==
  {e \in E : e.type \in ChangeTypes /\ e.cause = None /\ Attribution(e, fix) = <<None, None>>}

Degraded(scope, ev) == [scope |-> scope, ev |-> ev, shown |-> "degraded"]

ProjectionCoverage(E, fix, gaps) ==
  {Coverage(E, r) : r \in OfType(E, "tool.requested")}
  \cup {Degraded(e.id, {e.id}) : e \in Unattributed(E, fix)}
  \cup {Degraded(gap, {}) : gap \in gaps}

(***************************************************************************)
(* The graph.                                                              *)
(***************************************************************************)
Nothing == [fix |-> <<>>, nodes |-> <<>>, edges |-> <<>>, done |-> {},
            findings |-> <<>>, decisions |-> <<>>, coverage |-> {}]

(* Both passes over the events of seq, onto a graph: the corrections, then *)
(* what every event adds; the rest is derived anew from all events known.  *)
Extended(base, seq, E) ==
  LET fix  == Corrections(base.fix, seq)
      each == [k \in 1..Len(seq) |-> Effective(seq[k], fix)]
      adds(F(_)) == FlattenSeq([k \in 1..Len(seq) |-> F(each[k])])
      all  == E \cup ToSet(seq)
  IN  [fix |-> fix,
       nodes |-> Upserted(base.nodes, adds(NodesOf)),
       edges |-> Upserted(base.edges, adds(EdgesOf)),
       done |-> base.done \cup UNION {Completed(e) : e \in ToSet(each)},
       findings |-> FindingViews(all), decisions |-> DecisionViews(all),
       coverage |-> ProjectionCoverage(all, fix, {})]

Projected(seq) == Extended(Nothing, seq, {})

(* The reducer: one event at a time, all of it again for a correction.     *)
Applied(seq, graph, e) ==
  IF e.type = "attribution.corrected" THEN Projected(Append(seq, e))
  ELSE Extended(graph, <<e>>, ToSet(seq))

Reduced(seq) ==
  FoldLeft(LAMBDA at, e : <<Append(at[1], e), Applied(at[1], at[2], e)>>,
           <<(<<>>), Nothing>>, seq)[2]

(* causalOrder: the least id first among those whose cause has been placed.*)
CausalOrder(E) ==
  LET ordered[S \in SUBSET E] ==
        IF S = {} THEN <<>>
        ELSE LET ready == {e \in S : ~Has(S, e.cause)}
                 next  == CHOOSE e \in ready : \A f \in ready : e.id <= f.id
             IN  <<next>> \o ordered[S \ {next}]
  IN  ordered[E]

(* The snapshot's coverage, which also knows the sequence gaps.            *)
WithGaps(g, E, gaps) ==
  IF gaps = {} THEN g ELSE [g EXCEPT !.coverage = ProjectionCoverage(E, g.fix, gaps)]

(* projectWorkGraph.                                                       *)
Rebuilt(E) == WithGaps(Projected(CausalOrder(E)), E, SequenceGaps(E))

(* What the graph shows: every event its nodes and edges, or any part of   *)
(* it, rest on.                                                            *)
Mapped(g) ==
  UNION ({g.nodes[i].ev : i \in DOMAIN g.nodes} \cup {g.edges[i].ev : i \in DOMAIN g.edges})

Shown(g) ==
  Mapped(g) \cup
  UNION ({g.findings[i].ev : i \in DOMAIN g.findings}
         \cup {g.decisions[i].ev : i \in DOMAIN g.decisions}
         \cup {c.ev : c \in g.coverage})

(* A graph without what the first event to touch a thing said of it where  *)
(* others said it differently: the sources of a version, the attribution of*)
(* a reference, the versions of a dependency.                              *)
Plain(g) ==
  [g EXCEPT !.nodes = [i \in DOMAIN @ |-> @[i].ev],
            !.edges = [i \in DOMAIN @ |->
                         IF Kind(i) \in {"references_version", "depends_on"}
                         THEN <<@[i].ev, None>> ELSE <<@[i].ev, @[i].says>>]]
=============================================================================
