------------------------------ MODULE Overlaps ------------------------------
(***************************************************************************)
(* The answer to "whose work overlaps": which files more than one worker   *)
(* changed inside a window, and whether they were at it at once or one     *)
(* after the other.  Pure operators over the rows L of the ledger, in      *)
(* insertion order, which need not be the order of their times: a drained  *)
(* journal can insert an older event after a newer one.                    *)
(*                                                                         *)
(* A row is [id, type, at, agent, wt, task, src, what]; what is the file   *)
(* changed, the tool requested, the outcome or the role claimed.           *)
(***************************************************************************)
EXTENDS Selections, SequencesExt, FiniteSetsExt

CONSTANTS None,
          IdleGap,     \* a worker idle for longer had left the keyboard
          Roles,       \* role -> files it owns, or None without a configuration
          Ignored,     \* files git ignores
          Tier(_)      \* source -> "observed", "session", "declared" or None

ReadWindow(L, since, types) == Select(L, {i \in DOMAIN L : L[i].type \in types /\ L[i].at >= since})

(***************************************************************************)
(* Workers and participants.                                               *)
(***************************************************************************)
Worker(e) == <<e.agent, e.wt>>
Known(e)  == Worker(e) # <<None, None>>

(* One side of an overlap: a task, or the worker when it has none.         *)
Participant(e) == IF e.task # None THEN <<"task", e.task>> ELSE <<"worker", Worker(e)>>

(* When a worker was seen doing anything at all.                           *)
AnyActivity(W, worker) == {e.at : e \in {x \in ToSet(W) : Known(x)}}   \* mutant of Activity
Activity(W, worker) == {e.at : e \in {x \in ToSet(W) : Known(x) /\ Worker(x) = worker}}

(* The changes asked about, each by somebody.                              *)
Touches(W, q) == Select(W, {i \in DOMAIN W :
  /\ W[i].type = "file.changed" /\ (W[i].task # None \/ Known(W[i]))
  /\ q.path \in {None, W[i].what}})

(* The first row of each participant of the file.                          *)
LastTouches(T, f) == {i \in DOMAIN T :   \* mutant of FirstTouches
  /\ T[i].what = f
  /\ \A j \in (i + 1)..Len(T) : T[j].what = f => Participant(T[j]) # Participant(T[i])}
FirstTouches(T, f) == {i \in DOMAIN T :
  /\ T[i].what = f
  /\ \A j \in 1..(i - 1) : T[j].what = f => Participant(T[j]) # Participant(T[i])}

Workers(T, I) == {Worker(T[i]) : i \in {j \in I : Known(T[j])}}

(***************************************************************************)
(* Contention: the earlier writer was seen shortly before the other wrote, *)
(* and again after it.                                                     *)
(***************************************************************************)
Before(T, i, j) == T[i].at < T[j].at \/ (T[i].at = T[j].at /\ i < j)

StillThere(W, worker, at) ==
  /\ \E t \in Activity(W, worker) : t <= at /\ at - t <= IdleGap
  /\ \E t \in Activity(W, worker) : t > at

Contends(W, T, i, j) ==
  /\ Known(T[i]) /\ Known(T[j]) /\ Worker(T[i]) # Worker(T[j])
  /\ Before(T, i, j)
  /\ StillThere(W, Worker(T[i]), T[j].at)
Contending(W, T, I) == {p \in I \X I : Contends(W, T, p[1], p[2])}

(* The earliest earlier write, and the earliest later write beside it.     *)
ContentionAmong(W, T, I) == CHOOSE p \in Contending(W, T, I) :
  \A r \in Contending(W, T, I) \ {p} :
    Before(T, p[1], r[1]) \/ (p[1] = r[1] /\ Before(T, p[2], r[2]))

(***************************************************************************)
(* Roles.                                                                  *)
(***************************************************************************)
(* The role an agent claimed last, if it is still configured.              *)
RoleOf(L, agent) ==
  LET claims == SelectSeq(L, LAMBDA e : e.type = "agent.role.claimed" /\ e.agent = agent)
      role   == claims[Len(claims)].what
  IN  IF Roles = None \/ agent = None \/ claims = <<>> \/ role \notin DOMAIN Roles
      THEN None ELSE role

(* Two role holders, one of whom does not own the file.                    *)
Classify(L, e, d) ==
  LET roles == {RoleOf(L, e.agent), RoleOf(L, d.agent)}
  IN  IF None \notin roles /\ \E r \in roles : e.what \notin Roles[r]
      THEN "boundary" ELSE "contention"

(* How precisely the sources behind the changes attribute them.            *)
Precision(sources) ==
  LET tiers == {Tier(s) : s \in sources}
  IN  CASE sources = {} \/ ~(tiers \subseteq {"observed", "session"}) -> "absent"
        [] "session" \in tiers -> "per-window"
        [] OTHER -> "per-call"

(***************************************************************************)
(* The answer.                                                             *)
(***************************************************************************)
Evidence(L, W, T, p) ==
  LET e == T[p[1]]
      d == T[p[2]]
      near == {t \in Activity(W, Worker(e)) : t <= d.at}
  IN  [earlier |-> e.agent, wroteAt |-> e.at, later |-> d.agent, laterAt |-> d.at,
       activeAt |-> Max(near), lastAt |-> Max(Activity(W, Worker(e))), kind |-> Classify(L, e, d)]

Overlap(L, W, T, f) ==
  LET I == FirstTouches(T, f)
      keys == {Participant(T[i]) : i \in I}
  IN  [path |-> f, tasks |-> {T[i] : i \in I},
       contention |-> Evidence(L, W, T, ContentionAmong(W, T, I)),
       precision |-> Precision({T[i].src : i \in {j \in DOMAIN T : Participant(T[j]) \in keys}})]

(* Files of two participants and two workers, one of them the asking task. *)
Shared(T, q) == {f \in {T[i].what : i \in DOMAIN T} \ Ignored :
  LET I == FirstTouches(T, f)
  IN  /\ Cardinality(I) >= 2 /\ Cardinality(Workers(T, I)) >= 2
      /\ q.task # None => \E i \in I : T[i].task = q.task}

FirstRow(T, f) == Min({i \in DOMAIN T : T[i].what = f})

Contested(W, T, q) == {f \in Shared(T, q) : Contending(W, T, FirstTouches(T, f)) # {}}

(* The files F, the one somebody came to last first.                       *)
Latest(T, f) == Max({T[i].at : i \in FirstTouches(T, f)})

ByLatest(T, F) == Ranked(F, {p \in F \X F :
  \/ Latest(T, p[1]) > Latest(T, p[2])
  \/ Latest(T, p[1]) = Latest(T, p[2]) /\ FirstRow(T, p[1]) < FirstRow(T, p[2])})

(* A question is [since, path, task, limit].                               *)
FindOverlappingWork(L, q) ==
  LET W == ReadWindow(L, q.since, {"tool.requested", "file.changed"})
      T == Touches(W, q)
      files == ByLatest(T, Contested(W, T, q))
      all == [n \in DOMAIN files |-> Overlap(L, W, T, files[n])]
      some == SubSeq(all, 1, Min({Len(all), q.limit}))
  IN  [overlaps |-> some, truncated |-> Len(all) - Len(some),
       sequential |-> Cardinality(Shared(T, q) \ Range(files)),
       filesObserved |-> Cardinality({T[i].what : i \in DOMAIN T}), eventsObserved |-> Len(W)]

(* What the reader is told: nothing was seen, nothing was at once (and how *)
(* much in sequence), or for each overlap the two changes it is about, the *)
(* others only counted.                                                    *)
AboutPair(o) == {e \in o.tasks :
  \/ e.at = o.contention.wroteAt /\ e.agent = o.contention.earlier
  \/ e.at = o.contention.laterAt /\ e.agent = o.contention.later}

Told(answer) ==
  CASE answer.overlaps # <<>> ->
         [said |-> "at once", blocks |-> [i \in DOMAIN answer.overlaps |->
            LET o == answer.overlaps[i]
            IN  [pair |-> AboutPair(o), others |-> Cardinality(o.tasks \ AboutPair(o))]]]
    [] answer.overlaps = <<>> /\ answer.filesObserved = 0 ->
         [said |-> IF answer.eventsObserved = 0 THEN "nothing recorded" ELSE "nothing changed"]
    [] OTHER -> [said |-> "not at once", sequential |-> answer.sequential]

(* Overlaps are kept as findings that are written past the store's checks: *)
(* a row no schema knows, identified by its file and its evidence.         *)
FindingRow(o, now) ==
  [id |-> <<"finding", o.path, o.contention>>, type |-> "finding.created", at |-> now,
   agent |-> None, wt |-> "query", task |-> None, src |-> "query", what |-> o.path]

PersistFindings(L, overlaps, now) ==
  LET new == Select(overlaps, {k \in DOMAIN overlaps :
               \A i \in DOMAIN L : L[i].id # FindingRow(overlaps[k], now).id})
  IN  L \o [k \in DOMAIN new |-> FindingRow(new[k], now)]
=============================================================================
