----------------------------- MODULE GraphPages -----------------------------
(***************************************************************************)
(* What people see of the work graph: the filtered graph, findings and     *)
(* decisions of the query services (packages/query/src/services.ts), the   *)
(* model of the graph page and the lenses of the console (graph-model.ts,  *)
(* console-model.ts and graph-server.ts of apps/cli/src).                  *)
(*                                                                         *)
(* Pure operators on a graph g, a sequence of events L as listEvents gives *)
(* them, and the moments `at` of the events by their ids.  Where the code  *)
(* leaves the order of equals to its input the models do too.              *)
(***************************************************************************)
EXTENDS WorkGraph

CONSTANTS AgentRows, FileRows, EventRows, MapFiles, MapAgents, ChangesPerFile,
          FileIdSample, PathsPerRow,  \* caps of what one page shows
          Tier                        \* what the host of a source claims; None: unknown

Pick(f, S) == [i \in DOMAIN f \cap S |-> f[i]]
First(seq, n) == SubSeq(seq, 1, IF n < Len(seq) THEN n ELSE Len(seq))
LastOf(seq, n) == SubSeq(seq, IF n < Len(seq) THEN Len(seq) - n + 1 ELSE 1, Len(seq))
Least(S) == CHOOSE x \in S : \A y \in S : x <= y
Most(S) == CHOOSE x \in S : \A y \in S : y <= x
Earliest(S) == IF S \ {None} = {} THEN None ELSE Least(S \ {None})
Latest(S) == IF S \ {None} = {} THEN None ELSE Most(S \ {None})

(* The members of S by falling key, those with one key in any fixed order. *)
Ranked(S, key(_)) == SetToSortSeq(S, LAMBDA x, y : key(x) > key(y))

(* A key that may be absent, the absent one being the least.               *)
Moment0(m) == IF m = None THEN 0 ELSE m + 1

(***************************************************************************)
(* The query services.                                                     *)
(***************************************************************************)
NoFilter == [agent |-> None, task |-> None, resource |-> None]

(* The edges the filter itself allows.                                     *)
Allowed(g, f) ==
  {x \in DOMAIN g.edges :
     /\ f.agent # None => g.edges[x].says.agent = f.agent
     /\ f.task # None => g.edges[x].says.task = f.task
     /\ f.resource # None => ResourceNode(f.resource) \in {From(x), To(x)}}

Named(f) ==
  {n \in {AgentNode(f.agent), TaskNode(f.task), ResourceNode(f.resource)} : n[2] # None}

(* All that the allowed edges connect with what the filter names.          *)
Reached(g, f) ==
  LET ends(x) == {From(x), To(x)} \ {None}
      grow[S \in SUBSET (Named(f) \cup UNION {ends(x) : x \in DOMAIN g.edges})] ==
        LET more == S \cup UNION {ends(x) : x \in {y \in Allowed(g, f) : ends(y) \cap S # {}}}
        IN  IF more = S THEN S ELSE grow[more]
  IN  grow[Named(f)]

(* What the filter leaves, once what it reaches is known.                  *)
Narrowed(g, f, reached) ==
  LET edges    == {x \in Allowed(g, f) : {From(x), To(x)} \cap reached # {}}
      nodes    == reached \cup UNION {{From(x), To(x)} : x \in edges}
      findings == {i \in DOMAIN g.findings :
                     /\ f.resource # None => g.findings[i].says.subject = f.resource
                     /\ f.task # None => g.findings[i].says.task = f.task}
      decisions == {d \in DOMAIN g.decisions :
                      \/ g.decisions[d].finding \in findings
                      \/ f.agent # None /\ g.decisions[d].target[1] = f.agent
                      \/ f.task # None /\ g.decisions[d].target[2] = f.task}
  IN  [g EXCEPT !.nodes = Pick(@, nodes), !.edges = Pick(@, edges),
                !.findings = Pick(@, findings), !.decisions = Pick(@, decisions)]

FilterGraph(g, f) == IF f = NoFilter THEN g ELSE Narrowed(g, f, Reached(g, f))

ListFindings(g, status) ==
  {i \in DOMAIN g.findings : status # None => g.findings[i].status = status}

(* A decision nobody made is an error.                                     *)
ExplainDecision(g, d) ==
  IF d \notin DOMAIN g.decisions THEN None
  ELSE [decision |-> g.decisions[d],
        finding |-> IF g.decisions[d].finding \in DOMAIN g.findings
                    THEN g.findings[g.decisions[d].finding] ELSE None]

(* Coverage as a proportion.                                               *)
AggregateCoverage(g) ==
  LET covered == {c \in g.coverage : c.shown # "degraded"}
  IN  [covered |-> Cardinality(covered), total |-> Cardinality(g.coverage),
       presentation |-> CASE g.coverage = {} -> "unknown"
                          [] g.coverage # {} /\ covered = g.coverage -> "sufficient"
                          [] OTHER -> "observational"]

(* The host behind an agent's events: the source of the best tier, of those*)
(* the one that carried most; an unknown source only where none is known.  *)
TierRank == [observed |-> 0, session |-> 1, declared |-> 2]

HostProvenance(L, a) ==
  LET mine     == SelectSeq(L, LAMBDA e : e.agent = a)
      count(s) == Len(SelectSeq(mine, LAMBDA e : e.src = s))
      sources  == {e.src : e \in ToSet(mine)}
      known    == {s \in sources : Tier[s] # None}
      better(s, t) == \/ TierRank[Tier[s]] < TierRank[Tier[t]]
                      \/ Tier[s] = Tier[t] /\ count(s) > count(t)
      best(S, B(_, _)) == CHOOSE s \in S : \A t \in S : ~B(t, s)
  IN  CASE known # {} -> best(known, better)
        [] known = {} /\ sources # {} -> best(sources, LAMBDA s, t : count(s) > count(t))
        [] OTHER -> None

SourceCoverage(L) ==
  LET known == {e.src : e \in {x \in ToSet(L) : Tier[x.src] # None}}
  IN  [observed |-> Cardinality({s \in known : Tier[s] = "observed"}), total |-> Cardinality(known)]

(***************************************************************************)
(* buildGraphSiteModel.  Versions collapse into the changes of their file. *)
(***************************************************************************)
ValueOf(view, id) == IF id \in DOMAIN view.nodes THEN id[4] ELSE None

When(at, i) == IF i \in DOMAIN at THEN at[i] ELSE None

(* The changes or reads of a file, by time.                                *)
Entries(view, kind, file, at) ==
  LET entry(x) ==
        LET edge == view.edges[x]
            i    == Least(edge.ev)
        IN  [at |-> When(at, i), agent |-> edge.says.agent, task |-> edge.says.task, id |-> i,
             before |-> IF kind = "reads" THEN None ELSE ValueOf(view, edge.says.is.before),
             after |-> IF kind = "reads" THEN None ELSE ValueOf(view, edge.says.is.after)]
      all == {entry(x) : x \in {y \in DOMAIN view.edges : Kind(y) = kind /\ To(y) = file}}
  IN  SetToSortSeq(all, LAMBDA c, d : Moment0(c.at) < Moment0(d.at))

FileOf(file, changes, reads) ==
  LET entries == ToSet(changes) \cup ToSet(reads)
  IN  [id |-> file, changes |-> changes, reads |-> reads,
       changedBy |-> {c.agent : c \in ToSet(changes)} \ {None},
       readBy |-> {r.agent : r \in ToSet(reads)} \ {None},
       tasks |-> {e.task : e \in entries} \ {None},
       first |-> Earliest({e.at : e \in entries}), last |-> Latest({e.at : e \in entries})]

FileModel(view, file, at) ==
  FileOf(file, Entries(view, "changes", file, at), Entries(view, "reads", file, at))

(* Who performed what: by the edges that say so, and by who touched a file.*)
Links(view, files) ==
  {<<From(x)[2], To(x)[2]>> : x \in {y \in DOMAIN view.edges : Kind(y) = "performs"}}
  \cup {l \in UNION {{<<e.agent, e.task>> : e \in ToSet(f.changes) \cup ToSet(f.reads)} : f \in files} :
          l[1] # None /\ l[2] # None}

AgentModel(files, links, a) ==
  LET own   == UNION {{c \in ToSet(f.changes) : c.agent = a} : f \in files}
      reads == UNION {{r \in ToSet(f.reads) : r.agent = a} : f \in files}
      times == {e.at : e \in own \cup reads}
  IN  [id |-> a, tasks |-> {l[2] : l \in {k \in links : k[1] = a}},
       changes |-> Cardinality(own), reads |-> Cardinality(reads),
       files |-> {f.id : f \in {g \in files : a \in g.changedBy \cup g.readBy}},
       first |-> Earliest(times), last |-> Latest(times)]

TaskModel(files, links, t) ==
  LET own == UNION {{c \in ToSet(f.changes) : c.task = t} : f \in files}
  IN  [id |-> t, agents |-> {l[1] : l \in {k \in links : k[2] = t}},
       files |-> {f.id : f \in {g \in files : t \in g.tasks}}, changes |-> Cardinality(own),
       first |-> Earliest({c.at : c \in own}), last |-> Latest({c.at : c \in own})]

Ids(view, kind) == {n \in DOMAIN view.nodes : Kind(n) = kind}

(* The page of a view whose files and links are these.                     *)
PageOf(view, files, links, at) ==
  LET agents == {n[2] : n \in Ids(view, "agent")} \cup {l[1] : l \in links}
      tasks  == {n[2] : n \in Ids(view, "task")} \cup {l[2] : l \in links}
      all    == UNION {ToSet(x.changes) : x \in files}
  IN  [files |-> files,
       agents |-> {AgentModel(files, links, a) : a \in agents},
       tasks |-> {TaskModel(files, links, t) : t \in tasks},
       counts |-> [events |-> Cardinality(DOMAIN at), changes |-> Cardinality(all),
                   contested |-> Cardinality({x \in files : Cardinality(x.changedBy) > 1}),
                   unattributed |-> Cardinality({c \in all : c.agent = None})]]

WithLinks(view, files, at) == PageOf(view, files, Links(view, files), at)
WithFiles(view, at) ==
  WithLinks(view, {FileModel(view, n, at) : n \in Ids(view, "resource")}, at)

SiteModel(g, f, at) == WithFiles(FilterGraph(g, f), at)

(***************************************************************************)
(* The lenses of the console.                                              *)
(***************************************************************************)
Bounds(total, shown) ==
  [total |-> total, shown |-> shown, withheld |-> IF total > shown THEN total - shown ELSE 0]

NowLens(L, g) ==
  LET fix == Corrections(<<>>, L)
  IN  [events |-> Len(L), coverage |-> AggregateCoverage(g), sources |-> SourceCoverage(L),
       agents |-> {Effective(e, fix).agent : e \in ToSet(L)} \ {None},
       tasks |-> {Effective(e, fix).task : e \in ToSet(L)} \ {None}]

(* Agents by when they were last here.                                     *)
AgentsLens(m) ==
  LET before(a, b) == \/ Moment0(a.last) > Moment0(b.last)
                      \/ a.last = b.last /\ a.changes > b.changes
      rows == First(SetToSortSeq(m.agents, before), AgentRows)
  IN  [bounds |-> Bounds(Cardinality(m.agents), Len(rows)), rows |-> rows]

Touched(m) == {f \in m.files : f.changes # <<>>}
Churn(f) == Len(f.changes)

FilesLens(m) ==
  LET before(f, h) == \/ Churn(f) > Churn(h)
                      \/ Churn(f) = Churn(h) /\ Moment0(f.last) > Moment0(h.last)
      rows == First(SetToSortSeq(Touched(m), before), FileRows)
  IN  [bounds |-> Bounds(Cardinality(Touched(m)), Len(rows)),
       rows |-> [k \in DOMAIN rows |->
                   [id |-> rows[k].id, changes |-> Churn(rows[k]), agents |-> rows[k].changedBy,
                    unattributed |-> Cardinality({c \in ToSet(rows[k].changes) : c.agent = None}),
                    contested |-> Cardinality(rows[k].changedBy) > 1]]]

MapLens(m) ==
  LET columns == {a.id : a \in ToSet(First(Ranked(m.agents, LAMBDA a : a.changes), MapAgents))}
      drawn   == First(Ranked(Touched(m), Churn), MapFiles)
      by(f, A) == Cardinality({c \in ToSet(f.changes) : c.agent \in A})
      outside(f) == by(f, f.changedBy \ columns)
  IN  [files |-> Bounds(Cardinality(Touched(m)), Len(drawn)),
       rows |-> {[id |-> f.id, cells |-> [a \in columns |-> by(f, {a})],
                  unattributed |-> by(f, {None}), total |-> Churn(f)] : f \in ToSet(drawn)},
       others |-> \E f \in ToSet(drawn) : outside(f) > 0]

(* One row per correlation: the newest moment, the first agent and task.   *)
Folded(L, corr, at) ==
  LET mine == SelectSeq(L, LAMBDA e : e.corr = corr)
      said(F(_)) == LET some == SelectSeq(mine, LAMBDA e : F(e) # None)
                    IN  IF some = <<>> THEN None ELSE F(some[1])
      changed == {e.body.res : e \in {x \in ToSet(mine) : x.type = "file.changed"}}
  IN  [corr |-> corr, at |-> Latest({at[e.id] : e \in ToSet(mine)}),
       agent |-> said(LAMBDA e : e.agent), task |-> said(LAMBDA e : e.task),
       events |-> Len(mine),
       failed |-> \E e \in ToSet(mine) : e.type = "tool.completed" /\ e.body.outcome = "failed",
       changed |-> First(SetToSeq(changed), PathsPerRow),
       more |-> Bounds(Cardinality(changed), PathsPerRow).withheld]

CollapseEvents(L, at, limit) ==
  LET calls == {Folded(L, c, at) : c \in {e.corr : e \in ToSet(L)}}
      rows  == First(Ranked(calls, LAMBDA r : r.at), limit)
  IN  [bounds |-> Bounds(Cardinality(calls), Len(rows)), read |-> Len(L), rows |-> rows]

EventsLens(L, at) == CollapseEvents(L, at, EventRows)

(* The model of the graph page, bounded before it is serialized.           *)
Sampled(entry) ==
  [id |-> entry.id, fileIds |-> First(SetToSeq(entry.files), FileIdSample),
   fileCount |-> Cardinality(entry.files)]

(* Mutated form: the changes that came first are kept.                     *)
KeptFirst(changes) == First(changes, ChangesPerFile)
Kept(changes) == LastOf(changes, ChangesPerFile)

BoundGraphSiteModel(m) ==
  LET kept == First(Ranked(m.files, Churn), FileRows)
  IN  [bounds |-> Bounds(Cardinality(m.files), Len(kept)),
       agents |-> {Sampled(a) : a \in m.agents}, tasks |-> {Sampled(t) : t \in m.tasks},
       files |-> {[id |-> f.id, changes |-> Kept(f.changes),
                   withheld |-> Bounds(Churn(f), ChangesPerFile).withheld,
                   reads |-> Kept(f.reads)] : f \in ToSet(kept)}]

(***************************************************************************)
(* The server: every request reads anew.  All but the landing lens and the *)
(* event stream fail when the ledger cannot be replayed.                   *)
(***************************************************************************)
Answered(path, L, at, graph, model) ==
  CASE path = "/api/now.json" -> NowLens(L, graph)
    [] path = "/api/agents.json" -> AgentsLens(model)
    [] path = "/api/files.json" -> FilesLens(model)
    [] path = "/api/map.json" -> MapLens(model)
    [] path = "/graph.json" -> BoundGraphSiteModel(model)

Lenses == {"/api/agents.json", "/api/files.json", "/api/map.json", "/graph.json"}

Route(path, L, at, f) ==
  LET graph == Rebuilt(ToSet(L))
      body  == IF ValidSet(ToSet(L)) /\ path \in Lenses \cup {"/api/now.json"}
               THEN Answered(path, L, at, graph, SiteModel(graph, f, at)) ELSE None
  IN  CASE path = "/api/events.json" -> [status |-> 200, body |-> EventsLens(L, at)]
        [] path \in {"/api/now.json", "page"} -> [status |-> 200, body |-> body]
        [] path \in Lenses -> [status |-> IF body = None THEN 500 ELSE 200, body |-> body]
        [] OTHER -> [status |-> 404, body |-> None]
=============================================================================
