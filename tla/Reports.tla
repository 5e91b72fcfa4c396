------------------------------ MODULE Reports ------------------------------
(***************************************************************************)
(* What else is read off the same rows: the recap of recent tasks, how     *)
(* long agents took to a first change and how often they asked, what is    *)
(* said of their performance, the agents of the ledger, and its pages.     *)
(***************************************************************************)
EXTENDS Overlaps

CONSTANTS Subagents,   \* agents that are subagents of another
          AskTools,    \* tools that ask PatchMesh
          TaskLimit,   \* tasks a recap names
          Commits,     \* when something was committed
          Target(_),   \* tool -> the file its calls name, or None
          MinSample    \* agents a median needs to be compared

Rows(L, type) == SelectSeq(L, LAMBDA e : e.type = type)
OfAgent(L, a) == SelectSeq(L, LAMBDA e : e.agent = a)
Agents(L)     == {e.agent : e \in ToSet(L)} \ {None}
Times(L)      == {e.at : e \in ToSet(L)}
Index(L, e)   == CHOOSE i \in DOMAIN L : L[i] = e

(***************************************************************************)
(* Recap: one entry per task with calls or changes in the window.          *)
(***************************************************************************)
FailedRequests(W) ==
  {e.what.request : e \in {x \in ToSet(Rows(W, "tool.completed")) : x.what.failed}}

(* A task is said to have committed what landed while it was at work.      *)
CommitsWithin(from, to) == {c \in Commits : from <= c /\ c <= to}

RecappedTask(W, work, task, now) ==
  LET mine  == SelectSeq(work, LAMBDA e : e.task = task)
      calls == Rows(mine, "tool.requested")
  IN  [task |-> task, agents |-> Agents(mine), first |-> Index(work, mine[1]),
       startedAt |-> Min(Times(mine)), endedAt |-> Max(Times(mine)), calls |-> Len(calls),
       failed |-> Cardinality({e \in ToSet(calls) : e.id \in FailedRequests(W)}),
       changed |-> {e.what : e \in ToSet(Rows(mine, "file.changed"))} \ Ignored,
       commits |-> CommitsWithin(Min(Times(mine)), Max(Times(mine))),
       active |-> now - Max(Times(mine)) <= IdleGap]

RecapRecentWork(L, since, now) ==
  LET W    == ReadWindow(L, since, {"tool.requested", "tool.completed", "file.changed"})
      work == SelectSeq(W, LAMBDA e : e.type # "tool.completed")
      all  == SetToSortSeq({RecappedTask(W, work, t, now) : t \in {e.task : e \in ToSet(work)} \ {None}},
                LAMBDA r, s : r.endedAt > s.endedAt \/ (r.endedAt = s.endedAt /\ r.first < s.first))
      some == SubSeq(all, 1, Min({Len(all), TaskLimit}))
  IN  [tasks |-> some, truncated |-> Len(all) - Len(some),
       unattributed |-> Len(SelectSeq(work, LAMBDA e : e.type = "tool.requested" /\ e.task = None))]

(***************************************************************************)
(* Recall: what agents asked for and what changed, of all or of one file,  *)
(* the newest first.  A question is [since, path, except, limit].          *)
(***************************************************************************)
NewestFirst(L) ==
  LET order == SetToSortSeq(DOMAIN L, LAMBDA i, j : L[i].at > L[j].at \/ (L[i].at = L[j].at /\ i < j))
  IN  [k \in DOMAIN L |-> L[order[k]]]

Newest(L, n) == SubSeq(NewestFirst(L), 1, Min({Len(L), n}))

(* The outcome of a call is that of its last completion.                   *)
OutcomeOf(W, e) ==
  LET ends == SelectSeq(Rows(W, "tool.completed"), LAMBDA c : c.what.request = e.id)
  IN  IF ends = <<>> THEN None
      ELSE IF ends[Len(ends)].what.failed THEN "failed" ELSE "succeeded"

RecallRecentActivity(L, q) ==
  LET W == ReadWindow(L, q.since, {"tool.requested", "tool.completed", "file.changed"})
      ours(e) == q.except = None \/ e.agent # q.except
      calls == SelectSeq(Rows(W, "tool.requested"), LAMBDA e :
                 e.agent # None /\ ours(e) /\ q.path \in {None, Target(e.what)})
      changes == SelectSeq(Rows(W, "file.changed"), LAMBDA e :
                   ours(e) /\ q.path \in {None, e.what})
      shown == Newest(calls, q.limit)
  IN  [calls |-> [k \in DOMAIN shown |-> [call |-> shown[k], outcome |-> OutcomeOf(W, shown[k])]],
       changes |-> Newest(changes, q.limit),
       truncated |-> Len(calls) - Len(shown),
       truncatedChanges |-> Len(changes) - Min({Len(changes), q.limit}),
       agents |-> Agents(shown)]

(* The changes are told by worker and task, at the time of the newest.     *)
ByWorker(recall) ==
  {LET mine == SelectSeq(recall.changes, LAMBDA e : <<e.agent, e.task>> = w)
   IN  [agent |-> w[1], task |-> w[2], at |-> mine[1].at, files |-> {e.what : e \in ToSet(mine)}] :
     w \in {<<e.agent, e.task>> : e \in ToSet(recall.changes)}}

(* Of the calls of no file in particular only the failed ones are told.    *)
CallsTold(recall, path) ==
  IF path # None THEN recall.calls
  ELSE SelectSeq(recall.calls, LAMBDA c : c.outcome = "failed")

(***************************************************************************)
(* Time to resume: calls before an agent's first change, as inserted.      *)
(***************************************************************************)
CallsBeforeFirstChange(mine) ==
  LET changes == {i \in DOMAIN mine : mine[i].type = "file.changed"}
  IN  IF changes = {} THEN None
      ELSE Len(Rows(SubSeq(mine, 1, Min(changes)), "tool.requested"))

MeasureTimeToResume(L) ==
  LET W == ReadWindow(L, 0, {"tool.requested", "file.changed"})
  IN  [a \in Agents(W) \ Subagents |->
        [calls |-> Len(Rows(OfAgent(W, a), "tool.requested")),
         before |-> CallsBeforeFirstChange(OfAgent(W, a)),
         firstAt |-> Min(Times(OfAgent(W, a)))]]

(* Twice the median, which may lie between two values.                     *)
TwiceMedian(S, value) ==
  LET sorted == SetToSortSeq(S, LAMBDA a, b : value[a] < value[b])
      middle == Len(sorted) \div 2
  IN  IF S = {} THEN None
      ELSE IF Len(sorted) % 2 = 1 THEN 2 * value[sorted[middle + 1]]
      ELSE value[sorted[middle]] + value[sorted[middle + 1]]

(* Before and after: whom a treatment found at work is not treated.        *)
ResumeArm(resume, members) ==
  LET measured == {a \in members : resume[a].before # None}
  IN  [median |-> TwiceMedian(measured, [a \in measured |-> resume[a].before]),
       measured |-> Cardinality(measured), without |-> Cardinality(members \ measured)]

SplitOnBoundary(resume, boundary) ==
  LET control   == ResumeArm(resume, {a \in DOMAIN resume : resume[a].firstAt < boundary})
      treatment == ResumeArm(resume, {a \in DOMAIN resume : resume[a].firstAt >= boundary})
  IN  [control |-> control, treatment |-> treatment,
       conclusive |-> Min({control.measured, treatment.measured}) >= MinSample]

(***************************************************************************)
(* Adoption: how often agents chose to ask.                                *)
(***************************************************************************)
MeasureAdoption(L) ==
  LET calls == SelectSeq(Rows(L, "tool.requested"), LAMBDA e : e.agent # None)
      asks  == SelectSeq(calls, LAMBDA e : e.what \in AskTools)
  IN  [totalCalls |-> Len(calls), patchmeshCalls |-> Len(asks),
       sessions |-> Agents(calls), sessionsThatAsked |-> Agents(asks)]

(***************************************************************************)
(* Performance of the agents seen in the window.                           *)
(***************************************************************************)
(* Changes of an agent that another agent's follows on the same file.      *)
Follows(C, i, j) ==
  /\ C[i].what = C[j].what /\ Before(C, i, j)
  /\ \A k \in DOMAIN C : C[k].what = C[i].what => ~(Before(C, i, k) /\ Before(C, k, j))

ReworkedLater(C, a) ==   \* mutant of Reworked
  {j \in DOMAIN C : C[j].agent = a /\ \E i \in DOMAIN C : Follows(C, i, j) /\ C[i].agent # a}
Reworked(C, a) ==
  {i \in DOMAIN C : C[i].agent = a /\ \E j \in DOMAIN C : Follows(C, i, j) /\ C[j].agent # a}

(* The source most of the agent's rows in the window came from.            *)
DominantSource(W, a) ==
  LET mine == OfAgent(W, a)
      of(s) == Cardinality({i \in DOMAIN mine : mine[i].src = s})
      first(s) == Min({i \in DOMAIN mine : mine[i].src = s})
  IN  CHOOSE s \in {e.src : e \in ToSet(mine)} : \A r \in {e.src : e \in ToSet(mine)} \ {s} :
        of(s) > of(r) \/ (of(s) = of(r) /\ first(s) < first(r))

Performance(L, since, limit) ==
  LET W == ReadWindow(L, since, {"tool.completed", "file.changed"})
      changes == SelectSeq(Rows(W, "file.changed"), LAMBDA e : e.agent # None)
      done == SelectSeq(Rows(W, "tool.completed"), LAMBDA e : e.agent # None)
      overlaps == FindOverlappingWork(L, [since |-> since, path |-> None, task |-> None,
                                          limit |-> limit]).overlaps
      resume == MeasureTimeToResume(L)
  IN  [a \in Agents(changes) \cup Agents(done) |->
        [writes |-> Len(OfAgent(changes, a)), n |-> Len(OfAgent(done, a)),
         tier |-> Tier(DominantSource(W, a)),
         resume |-> IF a \in DOMAIN resume THEN resume[a].before ELSE None,
         reworked |-> Cardinality(Reworked(changes, a)),
         contention |-> Cardinality({i \in DOMAIN overlaps : overlaps[i].contention.earlier = a}),
         inScope |-> LET role == RoleOf(L, a)
                     IN  IF role = None THEN None
                         ELSE Len(SelectSeq(OfAgent(changes, a), LAMBDA e : e.what \in Roles[role]))]]

(***************************************************************************)
(* The read services.  Corrections of attribution are applied to what the  *)
(* status and the agents say, and to nothing else; the last one counts.    *)
(***************************************************************************)
WithCorrectedAttribution(L) ==
  LET fixes(e) == SelectSeq(L, LAMBDA c : c.type = "attribution.corrected" /\ c.what.target = e.id)
      last(e)  == fixes(e)[Len(fixes(e))].what
  IN  [i \in DOMAIN L |-> IF fixes(L[i]) = <<>> THEN L[i]
                          ELSE [L[i] EXCEPT !.agent = last(L[i]).agent, !.task = last(L[i]).task]]

Status(L) ==
  LET C == WithCorrectedAttribution(L)
  IN  [events |-> Len(L), agents |-> Cardinality(Agents(C)),
       tasks |-> Cardinality({e.task : e \in ToSet(C)} \ {None}),
       unattributed |-> Len(SelectSeq(C, LAMBDA e : e.type # "attribution.corrected"
                                                    /\ None \in {e.agent, e.task}))]

ListAgents(L) ==
  LET C == WithCorrectedAttribution(L)
  IN  [a \in Agents(C) |-> [events |-> Len(OfAgent(C, a)),
                            tasks |-> {e.task : e \in ToSet(OfAgent(C, a))}]]

(* A page after the cursor, an event id that must still be there, of the   *)
(* events that match, and the cursor of the next: the last event looked at.*)
LastLooked(L, from, picked, all) ==   \* mutant of LastScanned
  IF DOMAIN L = {} THEN None ELSE L[Len(L)].id
LastScanned(L, from, picked, all) ==
  CASE picked = all /\ from < Len(L) -> L[Len(L)].id
    [] picked # all -> L[picked[Len(picked)]].id
    [] OTHER -> IF from = 0 THEN None ELSE L[from].id

CursorFound(L, cursor) == cursor = None \/ \E i \in DOMAIN L : L[i].id = cursor

ListEvents(L, cursor, matching, limit) ==
  LET from == IF cursor = None THEN 0 ELSE CHOOSE i \in DOMAIN L : L[i].id = cursor
      all  == Ascending({i \in (from + 1)..Len(L) : L[i] \in matching})
      picked == SubSeq(all, 1, Min({Len(all), limit}))
  IN  [events |-> [k \in DOMAIN picked |-> L[picked[k]]],
       cursor |-> LastScanned(L, from, picked, all)]
=============================================================================
