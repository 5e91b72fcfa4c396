------------------------------ MODULE Answers ------------------------------
(***************************************************************************)
(* Who asks the ledger, while it is written: agents work and are recorded, *)
(* at once or when a journal is drained; the gateway, a long-lived process,*)
(* answers from windows it has cached; the daemon holds the ledger open and*)
(* pages through it for a follower; old rows are pruned.                   *)
(*                                                                         *)
(* The ledger is in WAL mode: rows are appended to a log beside the main   *)
(* file, whose size and time change when the log is checkpointed, at the   *)
(* latest when the last connection closes.  All connections but the        *)
(* daemon's are closed by the end of the step that opens them.             *)
(***************************************************************************)
EXTENDS Reports

CONSTANTS Scenes,      \* bound: what may happen together, one scene a behaviour
          Work,        \* scene -> the acts agents may perform
          Readers,     \* scenes in which the ledger is asked and followed
          Windows,     \* how far back a question looks
          MaxEntries,  \* windows the gateway keeps
          Limit,       \* overlaps, and events of a page
          MaxActs, MaxLate, MaxTime   \* bounds, of each scene

ASSUME AnswersAssumption ==
  /\ Windows \subseteq Nat /\ IdleGap \in Nat
  /\ MaxEntries \in Nat \ {0} /\ Limit \in Nat \ {0}
  /\ \A s \in Scenes : \A x \in Work[s] : x.type # "finding.created"
  /\ None \notin {"evt"} \X Nat

VARIABLES scene,
          now,
          acts,       \* history: what agents did, in order
          journal,    \* acts recorded but not yet in the ledger
          rows,       \* the ledger, in insertion order
          stamp,      \* size and time of its main file: how often it was written
          wal,        \* rows were written that are not in the main file
          held,       \* the daemon has the ledger open
          cache,      \* windows kept by the gateway, the latest used last
          follower    \* [state, cursor, got]: what the daemon sent so far

vars == <<scene, now, acts, journal, rows, stamp, wal, held, cache, follower>>
file == <<rows, stamp, wal>>

Following == [state |-> "following", cursor |-> None, got |-> <<>>]

Init ==
  /\ scene \in Scenes /\ now = 0
  /\ acts = <<>> /\ journal = {}
  /\ rows = <<>> /\ stamp = 0 /\ wal = FALSE
  /\ held = FALSE /\ cache = <<>> /\ follower = Following

Since(w) == IF now > w THEN now - w ELSE 0

(* A connection is opened and closed: the last one to close checkpoints.   *)
Written(L) ==
  /\ rows' = L
  /\ wal' = (wal \/ (held /\ L # rows))
  /\ stamp' = IF held \/ L = rows THEN stamp ELSE stamp + 1

(***************************************************************************)
(* Agents.                                                                 *)
(***************************************************************************)
Open(a) == {e \in ToSet(acts) : e.type = "tool.requested" /\ e.agent = a
                                /\ \A c \in ToSet(acts) : c.type = "tool.completed" => c.what.request # e.id}

Done(x) ==
  LET e == [id |-> <<"evt", Len(acts) + 1>>, type |-> x.type, at |-> now,
            agent |-> x.agent, wt |-> x.wt, task |-> x.task, src |-> x.src, what |-> x.what]
  IN  CASE x.type = "tool.completed" ->
             {[e EXCEPT !.what = [request |-> r.id, failed |-> x.what], !.task = r.task] : r \in Open(x.agent)}
        [] x.type = "attribution.corrected" ->
             {[e EXCEPT !.agent = None, !.what = [target |-> d.id, agent |-> x.agent, task |-> x.what]] :
                d \in {y \in ToSet(acts) : y.type = "file.changed"}}
        [] OTHER -> {e}

Act(x) ==
  /\ Len(acts) < MaxActs[scene]
  /\ \E e \in Done(x) :
       /\ acts' = Append(acts, e)
       /\ \/ Written(Append(rows, e)) /\ UNCHANGED journal
          \/ /\ Cardinality(journal) < MaxLate[scene] /\ x.type = "file.changed"
             /\ journal' = journal \cup {e}
             /\ UNCHANGED file
  /\ UNCHANGED <<scene, now, held, cache, follower>>

Ingest(e) ==
  /\ e \in journal
  /\ journal' = journal \ {e}
  /\ Written(Append(rows, e))
  /\ UNCHANGED <<scene, now, acts, held, cache, follower>>

Tick == now < MaxTime[scene] /\ now' = now + 1
        /\ UNCHANGED <<scene, acts, journal, file, held, cache, follower>>

(***************************************************************************)
(* The gateway asks what overlaps, from a window it has kept if the main   *)
(* file is still what it was, and keeps what it found as findings.         *)
(***************************************************************************)
WindowOnly(since) == [file |-> None, since |-> since]   \* mutant of CacheKey
CacheKey(since) == [file |-> stamp, since |-> since]

Kept(key) == {i \in DOMAIN cache : cache[i].key = key}

Hit(key) == CHOOSE i \in Kept(key) : TRUE

ReadCached(key) == IF Kept(key) = {} THEN rows ELSE cache[Hit(key)].rows

CacheAfter(key) ==
  LET rest == IF Kept(key) = {} THEN cache ELSE RemoveAt(cache, Hit(key))
      all  == Append(rest, [key |-> key, rows |-> ReadCached(key)])
  IN  SubSeq(all, Len(all) - Min({Len(all), MaxEntries}) + 1, Len(all))

Question(since) == [since |-> since, path |-> None, task |-> None, limit |-> Limit]

Ask(w) ==
  /\ scene \in Readers
  /\ LET key == CacheKey(Since(w))
         answer == FindOverlappingWork(ReadCached(key), Question(Since(w)))
     IN  /\ cache' = CacheAfter(key)
         /\ IF answer.overlaps = <<>> THEN UNCHANGED file
            ELSE Written(PersistFindings(rows, answer.overlaps, now))
  /\ UNCHANGED <<scene, now, acts, journal, held, follower>>

(***************************************************************************)
(* The daemon holds a connection, and follows with checked reads: one row  *)
(* the store did not check makes the ledger unavailable to them.           *)
(***************************************************************************)
OpenDaemon ==
  /\ scene \in Readers /\ ~held
  /\ held' = TRUE
  /\ follower' = Following
  /\ UNCHANGED <<scene, now, acts, journal, file, cache>>

Checkpointed == wal' = FALSE /\ stamp' = IF wal THEN stamp + 1 ELSE stamp

CloseDaemon ==
  /\ held /\ held' = FALSE
  /\ Checkpointed
  /\ UNCHANGED <<scene, now, acts, journal, rows, cache, follower>>

Checkpoint ==
  /\ wal /\ Checkpointed
  /\ UNCHANGED <<scene, now, acts, journal, rows, held, cache, follower>>

Readable == \A i \in DOMAIN rows : rows[i].type # "finding.created"

Matches(e) == e.type = "tool.requested"

Poll ==
  /\ held /\ follower.state = "following"
  /\ LET page == ListEvents(rows, follower.cursor, {e \in ToSet(rows) : Matches(e)}, Limit)
     IN  follower' =
           CASE ~Readable -> [follower EXCEPT !.state = "unavailable"]
             [] Readable /\ ~CursorFound(rows, follower.cursor) -> [follower EXCEPT !.state = "cursor"]
             [] OTHER -> [follower EXCEPT !.cursor = page.cursor, !.got = @ \o page.events]
  /\ UNCHANGED <<scene, now, acts, journal, file, held, cache>>

Prune ==
  /\ scene \in Readers /\ now > 0
  /\ Written(Select(rows, {i \in DOMAIN rows : rows[i].at >= now}))
  /\ UNCHANGED <<scene, now, acts, journal, held, cache, follower>>

Next ==
  \/ \E x \in Work[scene] : Act(x)
  \/ \E e \in journal : Ingest(e)
  \/ Tick
  \/ \E w \in Windows : Ask(w)
  \/ OpenDaemon \/ CloseDaemon \/ Checkpoint \/ Poll \/ Prune

Spec == Init /\ [][Next]_vars
-----------------------------------------------------------------------------
Names(S) == {Worker(e) : e \in {x \in S : Known(x)}}
TimesOf(S, w) == {e.at : e \in {x \in S : Worker(x) = w}}

(* Collaboration is not contention: if every worker had finished before    *)
(* the next one began, no question about any window is answered with an    *)
(* overlap, whatever the order in which the ledger got to know.            *)
HandedOver == \A w, v \in Names(ToSet(acts)) :
  w # v => \/ Max(TimesOf(ToSet(acts), w)) < Min(TimesOf(ToSet(acts), v))
           \/ Max(TimesOf(ToSet(acts), v)) < Min(TimesOf(ToSet(acts), w))

HandOffQuiet == HandedOver => \A w \in Windows :
  FindOverlappingWork(rows, Question(Since(w))).overlaps = <<>>

(* Work at once is seen: when two workers, each for a side of its own,     *)
(* first changed a file within the idle gap and the earlier one went on    *)
(* afterwards, every question whose window begins before names the file,   *)
(* if the ledger has these rows and did not learn of a later change of one *)
(* side before its first.                                                  *)
Changed(f) == {e \in ToSet(acts) : e.type = "file.changed" /\ e.what = f}

InOrder(f) == \A e, d \in Changed(f) \cap ToSet(rows) :
  Participant(e) = Participant(d) /\ e.at < d.at => Index(rows, e) < Index(rows, d)

AtOnce(f, since) == \E e, d \in Changed(f), g \in ToSet(acts) :
  /\ Known(e) /\ Known(d) /\ Worker(e) # Worker(d) /\ Participant(e) # Participant(d)
  /\ Worker(g) = Worker(e) /\ g.type \in {"tool.requested", "file.changed"}
  /\ since <= e.at /\ e.at < d.at /\ d.at - e.at <= IdleGap /\ d.at < g.at
  /\ {e, d, g} \subseteq ToSet(rows)
  /\ \A x \in Changed(f), y \in {e, d} : Participant(x) = Participant(y) =>
       \/ x.at < since \/ y.at < x.at
       \/ y.at = x.at /\ Worker(x) = Worker(y)

InterleavingSeen == \A f \in {e.what : e \in {x \in ToSet(rows) : x.type = "file.changed"}} : \A w \in Windows :
  (InOrder(f) /\ f \notin Ignored /\ AtOnce(f, Since(w))) =>
    LET answer == FindOverlappingWork(rows, Question(Since(w)))
    IN  answer.truncated > 0 \/ \E i \in DOMAIN answer.overlaps : answer.overlaps[i].path = f

(* The reports agree with one another: who is said to have caused          *)
(* contention with another agent is said to have been reworked; of the two *)
(* at a boundary one is said to write outside its role; the tasks          *)
(* of an overlap are in the recap of its window, its two changes are told  *)
(* and recalled for its file; what failed in the recap is told as failed;  *)
(* the calls adoption counts                                               *)
(* are those time to resume divides among the agents, each in one arm of   *)
(* any comparison; until one row is                                        *)
(* corrected, the agents listed are those, and who else is named; and the  *)
(* status counts the agents that are listed.  The reports depend on the    *)
(* rows and the time alone, and a held ledger can always be let go of.     *)
ReportsAgree == ~held => \A w \in Windows :
  LET since == Since(w)
      overlaps == FindOverlappingWork(rows, Question(since)).overlaps
      performance == Performance(rows, since, Limit)
      recap == RecapRecentWork(rows, since, now)
      resume == MeasureTimeToResume(rows)
  IN  /\ \A i \in DOMAIN overlaps :
           LET c == overlaps[i].contention
           IN  (None \notin {c.earlier, c.later} /\ c.earlier # c.later) =>
                 performance[c.earlier].reworked > 0
      /\ \A i \in DOMAIN overlaps :
           LET c == overlaps[i].contention
           IN  c.kind = "boundary" => \E a \in {c.earlier, c.later} :
                 performance[a].inScope # None /\ performance[a].inScope < performance[a].writes
      /\ recap.truncated = 0 => \A i \in DOMAIN overlaps :
           {t.task : t \in overlaps[i].tasks} \ {None} \subseteq
             {recap.tasks[k].task : k \in DOMAIN recap.tasks}
      (* The two changes of an overlap are told, and recalled for its file.*)
      /\ \A i \in DOMAIN overlaps :
           LET told   == Told([overlaps |-> overlaps]).blocks[i].pair
               recall == RecallRecentActivity(rows, [since |-> since, path |-> overlaps[i].path,
                                                     except |-> None, limit |-> Len(rows)])
           IN  /\ Cardinality({Worker(e) : e \in told}) >= 2
               /\ told \subseteq ToSet(recall.changes)
               /\ \A e \in told : \E g \in ByWorker(recall) :
                    <<g.agent, g.task>> = <<e.agent, e.task>> /\ g.at >= e.at
      (* The failures of the recapped tasks are those the recall tells.    *)
      /\ recap.truncated = 0 =>
           LET recall == RecallRecentActivity(rows, [since |-> since, path |-> None,
                                                     except |-> None, limit |-> Len(rows) + 1])
           IN  \A k \in DOMAIN recap.tasks : recap.tasks[k].failed =
                 Len(SelectSeq(CallsTold(recall, None), LAMBDA c : c.call.task = recap.tasks[k].task))
      (* Every agent is in one arm, whatever moment divides them.          *)
      /\ \A boundary \in 0..now :
           LET arms == SplitOnBoundary(resume, boundary)
           IN  arms.control.measured + arms.control.without
                 + arms.treatment.measured + arms.treatment.without = Cardinality(DOMAIN resume)
      /\ Subagents = {} => MeasureAdoption(rows).totalCalls =
           MapThenSumSet(LAMBDA a : resume[a].calls, DOMAIN resume)
      /\ Rows(rows, "attribution.corrected") = <<>> =>
           DOMAIN resume \cup DOMAIN performance \subseteq DOMAIN ListAgents(rows)
      /\ Status(rows).agents = Cardinality(DOMAIN ListAgents(rows))

(* A follower is sent every matching row up to its cursor once, in order.  *)
FollowedOnce ==
  LET L    == rows
      upto == IF follower.cursor = None \/ ~CursorFound(L, follower.cursor) THEN 0
              ELSE CHOOSE i \in DOMAIN L : L[i].id = follower.cursor
      got  == follower.got
  IN  /\ \A i, j \in DOMAIN got : i # j => got[i].id # got[j].id
      /\ \A i \in 1..upto : Matches(L[i]) => L[i] \in ToSet(got)
      /\ CursorFound(L, follower.cursor) => \A i \in (upto + 1)..Len(L) : L[i] \notin ToSet(got)

(* While nothing else holds the ledger open, what the gateway has kept     *)
(* under the key it would ask with is what it would read.                  *)
CacheExact == ~held => \A w \in Windows : ReadCached(CacheKey(Since(w))) = rows
=============================================================================
