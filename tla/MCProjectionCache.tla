-------------------------- MODULE MCProjectionCache --------------------------
(* A small instance of ProjectionCache: five short histories of one        *)
(* repository, the first with two readers at once.                         *)
EXTENDS ProjectionCache, GraphPages

CONSTANTS r1, r2, A, B, C, t1, t2

Recorder == <<"adapter", "r">>
Gateway  == <<"gateway", "g">>
Observer == <<"watcher", "w">>
Nobody   == <<None, None>>

V(val, ev) == Version("f", "w", val, ev)
D(res, val) == Version(res, "w", val, {})

(* Ids follow no order: those of causes and effects are mixed.             *)
Made(i, type, src, who, corr, cause, body) ==
  Event(i, type, src, None, "w", who, corr, cause, body)
Made2(i, type, seq, who, corr, cause, body) ==
  Event(i, type, Gateway, seq, "w", who, corr, cause, body)

AllRecords == {
  (* Two changes of one file, the second by nobody known; both corrected.  *)
  Made(5, "file.changed", Recorder, <<A, t1>>, "k1", None, ChangeBody("f", None, V(1, {}), "created")),
  Made(3, "file.changed", Observer, Nobody, "k2", None, ChangeBody("f", V(1, {}), V(2, {}), "modified")),
  Made(2, "attribution.corrected", Recorder, <<A, t1>>, "k2", 3, CorrectionBody(3, <<B, t2>>)),
  Made(4, "attribution.corrected", Recorder, <<A, t1>>, "k1", 5, CorrectionBody(5, <<C, None>>)),
  (* A call that reads and changes, and one whose number skips another.    *)
  Made2(16, "tool.requested", 1, <<A, t1>>, "k3", None, RequestBody(TRUE)),
  Made2(15, "tool.completed", 2, <<A, t1>>, "k3", 16, CompletionBody(16, "succeeded", {}, {})),
  Made(12, "file.read", Recorder, <<A, t1>>, "k3", 16, ReadBody("f", V(1, {16}))),
  Made(11, "file.changed", Observer, <<A, t1>>, "k3", 15, ChangeBody("f", V(1, {15}), V(2, {}), "modified")),
  Made2(14, "tool.requested", 4, <<B, None>>, "k4", None, RequestBody(FALSE)),
  (* A finding, its decision, and what became of them.                     *)
  Made(25, "finding.created", Recorder, <<A, t1>>, "k5", None, FindingBody("F", "f", t1)),
  Made(22, "decision.created", Recorder, <<A, t1>>, "k5", 25, DecisionBody("D", "F", <<A, t1>>)),
  Made(21, "decision.delivery.changed", Recorder, <<A, t1>>, "k5", 22, DeliveryBody("D", "d1", "delivered", {21})),
  Made(24, "finding.feedback.created", Recorder, <<B, t2>>, "k5", 22, FeedbackBody("F", "D", "dismissed", {25})),
  (* A dependency between two files, and a task that ends.                 *)
  Made(33, "symbol.changed", Recorder, <<A, t1>>, "k6", None, ChangeBody("f", None, V(1, {}), "created")),
  Made(34, "dependency.changed", Recorder, <<A, t1>>, "k6", 33,
       DependencyBody("p", "g", "f", D("g", 1), D("f", 1), {33})),
  Made(32, "symbol.read", Recorder, <<B, t2>>, "k6", 33, ReadBody("f", V(1, {33}))),
  Made(31, "task.completed", Recorder, <<A, t1>>, "k6", 33, TaskBody("done")),
  (* Old work, a comment on it that is younger, and work of another task.  *)
  Made(43, "file.changed", Recorder, <<A, t1>>, "k7", None, ChangeBody("f", None, V(1, {}), "created")),
  Made(42, "finding.created", Recorder, <<A, t1>>, "k7", 43, FindingBody("F", "f", t1)),
  Made(41, "finding.feedback.created", Recorder, <<B, t2>>, "k7", 43, FeedbackBody("F", None, "useful", {43})),
  Made(44, "file.changed", Recorder, <<B, t2>>, "k8", None, ChangeBody("f", V(1, {}), V(2, {}), "modified"))}

RecordOf == [i \in {e.id : e \in AllRecords} |-> At(AllRecords, i)]
MomentOf == [i \in DOMAIN RecordOf |-> IF i \in {42, 43} THEN 1 ELSE 2 + (i % 10)]

History(events, readers, cutoffs) ==
  [events |-> events, readers |-> readers, cutoffs |-> cutoffs]
HistoriesOf == {History(2..5, 2, {}), History({11, 12, 14, 15, 16}, 1, {}),
                History({21, 22, 24, 25}, 1, {}), History(31..34, 1, {}),
                History(41..44, 1, {2})}

TierOf == [s \in {Recorder, Gateway, Observer} |->
             IF s = Gateway THEN "declared" ELSE IF s = Recorder THEN "observed" ELSE None]

Symmetry == Permutations(Readers)

(* An undisturbed read answers what a full projection would, and a full    *)
(* projection what the reducer would (work-graph.ts, extendProjection and  *)
(* applyEvent; projection-cache.ts).                                       *)
ReadsExact == QuietReadExact /\ ReducerAgrees

(* Whatever is appended, corrected, pruned or cached between the statements*)
(* of the reads (projection-cache.ts, projectWorkGraphCached): no read     *)
(* omits an event it had to see or shows one that never was, and the       *)
(* checkpoint maps exactly the rows up to its watermark.                   *)
ReadsSound == ReadComplete /\ CheckpointAtWatermark

-----------------------------------------------------------------------------
(* The pages of one ledger against its events.                             *)
Total(F(_), S) == MapThenSumSet(F, S)
Moments(S) == [i \in S |-> Moment[i]]

Of(m) == UNION {ToSet(f.changes) : f \in m.files}
ChangesIn(changes) == {c.id : c \in changes}

(* g is the graph of the ledger S, L its events in order, m the page and   *)
(* mapped the lens of the map, events the stream, bounded what is sent.    *)
Consistent(S, L, g, m, mapped, events, bounded) ==
  LET seen(f) == ChangesIn(Of(SiteModel(g, f, Moments(S))))
      made    == {e \in Rows(S) : e.type \in ChangeTypes}
  IN  (* Each change once, with its moment and whom it is attributed to.   *)
      /\ {<<c.id, c.at, <<c.agent, c.task>> >> : c \in Of(m)}
           = {<<e.id, Moment[e.id], Attribution(e, g.fix)>> : e \in made}
      /\ Total(Churn, m.files) = Cardinality(made)
      (* What agents made and nobody is known to have made is all.         *)
      /\ Total(LAMBDA a : a.changes, m.agents) + m.counts.unattributed = m.counts.changes
      (* A filter keeps exactly the changes it names.                      *)
      /\ \A a \in m.agents :
           seen([NoFilter EXCEPT !.agent = a.id]) = ChangesIn({c \in Of(m) : c.agent = a.id})
      /\ \A t \in m.tasks :
           seen([NoFilter EXCEPT !.task = t.id]) = ChangesIn({c \in Of(m) : c.task = t.id})
      (* The marks of a row add up, unless the map says that some are not  *)
      (* drawn.                                                            *)
      /\ mapped.others \/
         \A r \in mapped.rows :
           Total(LAMBDA a : r.cells[a], DOMAIN r.cells) + r.unattributed = r.total
      (* What a bounded page withholds it counts, and is older.            *)
      /\ \A b \in bounded.files : \E f \in m.files :
           /\ b.id = f.id
           /\ Len(b.changes) + b.withheld = Churn(f)
           /\ \A c \in ToSet(f.changes) \ ToSet(b.changes), d \in ToSet(b.changes) : c.at <= d.at
      /\ bounded.bounds.shown + bounded.bounds.withheld = Cardinality(m.files)
      (* Every event is in one row of the stream, the newest first.        *)
      /\ Total(LAMBDA k : events.rows[k].events, DOMAIN events.rows) = Len(L)
      /\ \A k \in 2..Len(events.rows) : events.rows[k - 1].at >= events.rows[k].at
      /\ \A e \in ToSet(L) : \E k \in DOMAIN events.rows :
           events.rows[k].corr = e.corr /\ events.rows[k].at >= Moment[e.id]
      (* A claim that was observed outranks one that was declared.         *)
      /\ \A e \in ToSet(L) :
           e.agent # None /\ Tier[e.src] = "observed" => Tier[HostProvenance(L, e.agent)] = "observed"
      (* A decision is explained by its finding.                           *)
      /\ \A d \in DOMAIN g.decisions :
           \A f \in {x \in Rows(S) : x.type = "finding.created"} :
             g.decisions[d].finding = f.body.finding =>
               ExplainDecision(g, d).finding # None

Drawn(S, L, g, m) ==
  Consistent(S, L, g, m, MapLens(m), CollapseEvents(L, Moments(S), Len(L)),
             Route("/graph.json", L, Moments(S), NoFilter).body)
PagesAgree(S) ==
  Drawn(S, CausalOrder(Rows(S)), Built[S], SiteModel(Built[S], NoFilter, Moments(S)))

Agreeing == <<>> @@ [S \in Replayable |-> PagesAgree(S)]

(* The graph page and the lenses of the console say the same of a ledger,  *)
(* and what its events say: no change, event or agent's share is lost,     *)
(* doubled or given to another by filters, corrections and caps            *)
(* (graph-model.ts, console-model.ts, filterGraph of services.ts).         *)
LensesAgree == Ledger \in Replayable => Agreeing[Ledger]
=============================================================================
