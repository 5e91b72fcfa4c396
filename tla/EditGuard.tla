------------------------------ MODULE EditGuard ------------------------------
(***************************************************************************)
(* The guard around an edit: the PreToolUse and PostToolUse hooks of       *)
(* packages/recorder/src/bin.ts with advisory.ts, leader.ts, claims.ts and *)
(* sidecar.ts, and the claim tools of packages/gateway/src/server.ts.      *)
(*                                                                         *)
(* Every hook is a process of its own and shares only files: the journal,  *)
(* claims/, pending/retry_*, pending-advisories/.  The model has one       *)
(* action per file the hook reads or writes.                               *)
(***************************************************************************)
EXTENDS Integers, FiniteSets

CONSTANTS
    Agents, Paths,
    Calls,      \* tool calls that name a file, each with its tool_use_id;
                \*   no more than MAX_IN_FLIGHT of them
    Writes,     \* the Edit and Write calls among them
    AgentOf, PathOf,
    MaxRetries, \* MAX_RETRIES
    Requests,   \* the claims made: an agent and a set of paths
    Parallel,   \* whether a host runs two calls of one agent at once
    Aging,      \* whether a claim outlives its TTL and a retry file its
                \*   half hour
    MaxAged     \* bound: the calls that outlive ABANDONED_AFTER_MS

ASSUME GuardAssumption ==
    /\ Writes \subseteq Calls
    /\ AgentOf \in [Calls -> Agents]
    /\ PathOf \in [Calls -> Paths]
    /\ MaxRetries \in Nat \ {0}
    /\ Requests \subseteq Agents \X SUBSET Paths
    /\ Parallel \in BOOLEAN /\ Aging \in BOOLEAN
    /\ MaxAged \in Nat

VARIABLES
    pc,         \* where the hooks of each call are
    contended,  \* calls whose PreToolUse hook has found contention
    started,    \* PreToolUse lines in the journal
    aside,      \* the started calls whose line an ingest has taken out
    finished,   \* PostToolUse lines in the journal
    abandoned,  \* starts older than ABANDONED_AFTER_MS
    fresh,      \* paths of others' finished calls past an agent's cursor
    retry,      \* retryCount of the file of each path and agent
    claim,      \* the paths in each agent's claim file
    expired,    \* agents whose claim has outlived its TTL
    sweeping,   \* agents whose claim file a cleanup is about to unlink
    read,       \* what a hook has read and is about to write back
    pending,    \* pending-advisories, by call
    unseen,     \* history: calls that were aside when another checked
    forced,     \* history: calls let through at the retry limit
    refusals    \* history: refusals since the retry file was last removed

hooks == <<pc, contended, read>>
journal == <<started, aside, finished, abandoned>>
claims == <<claim, expired, sweeping>>
history == <<unseen, forced, refusals>>
vars == <<hooks, journal, claims, history, fresh, retry, pending>>

Stages == {"new", "journalled", "scanned", "checked", "counting", "denying",
           "denied", "running", "lost", "posted", "releasing", "clearing",
           "done"}
Idle == {"new", "denied", "lost", "done"}
Keys == Paths \X Agents
Nothing == [fact |-> FALSE, count |-> 0, paths |-> {}, old |-> FALSE]

(* retryHash. Mutated form: the path alone.                                *)
KeyPath(c) == <<PathOf[c], CHOOSE a \in Agents : TRUE>>
Key(c) == <<PathOf[c], AgentOf[c]>>

Conflicts(c, d) == AgentOf[c] # AgentOf[d] /\ PathOf[c] = PathOf[d]

(* readInFlightCalls, as both checks filter it.  A line that a concurrent  *)
(* ingest has renamed, or read and not yet carried forward, is missed.     *)
(* Mutated form: a call not let through yet does not count.                *)
InFlightAdmitted(c) ==
    {d \in started \ (finished \cup abandoned \cup aside) :
        Conflicts(c, d) /\ pc[d] = "running"}
InFlight(c) ==
    {d \in started \ (finished \cup abandoned \cup aside) : Conflicts(c, d)}

Claimed(c) == {a \in Agents \ (expired \cup {AgentOf[c]}) :
                  PathOf[c] \in claim[a]}

(* A look that reports nothing may forget: the first one arms the cursor   *)
(* at now, and the recent window closes.  Reporting a finished call moves  *)
(* the cursor past every older one.                                        *)
Forget(c) ==
    \E lost \in SUBSET fresh[AgentOf[c]] :
        fresh' = [fresh EXCEPT ![AgentOf[c]] = @ \ lost]
Report(c) ==
    \E lost \in SUBSET fresh[AgentOf[c]] :
        fresh' = [fresh EXCEPT ![AgentOf[c]] = @ \ (lost \cup {PathOf[c]})]
Reported(c) == IF read[c].fact THEN Report(c) ELSE UNCHANGED fresh

-----------------------------------------------------------------------------
(* PreToolUse.  The start is journalled before anything is checked.        *)

Journal(c) ==
    /\ pc[c] = "new"
    /\ Parallel \/ \A d \in Calls : AgentOf[d] = AgentOf[c] => pc[d] \in Idle
    /\ pc' = [pc EXCEPT ![c] = "journalled"]
    /\ started' = started \cup {c}
    /\ UNCHANGED <<contended, aside, finished, abandoned, fresh, retry, claims,
                   read, pending, history>>

(* computeContentionAdvisory, of a write: a call in flight, else a call    *)
(* that finished lately.                                                   *)
Scan(c) ==
    /\ pc[c] = "journalled"
    /\ pc' = [pc EXCEPT ![c] = "scanned"]
    /\ LET collision == c \in Writes /\ InFlight(c) # {}
           looked == c \in Writes /\ InFlight(c) = {}
           fact == looked /\ PathOf[c] \in fresh[AgentOf[c]]
       IN  /\ contended' = IF collision \/ fact THEN contended \cup {c}
                           ELSE contended
           /\ read' = [read EXCEPT ![c].fact = fact]
           /\ IF looked /\ ~fact THEN Forget(c) ELSE UNCHANGED fresh
    /\ UNCHANGED <<journal, retry, claims, pending, history>>

(* checkContention, of any call: claims, and the journal once more.        *)
Check(c) ==
    /\ pc[c] = "scanned"
    /\ pc' = [pc EXCEPT ![c] = "checked"]
    /\ contended' = IF Claimed(c) # {} \/ InFlight(c) # {}
                    THEN contended \cup {c} ELSE contended
    /\ unseen' = unseen \cup {d \in aside : Conflicts(c, d)}
    /\ UNCHANGED <<journal, fresh, retry, claims, read, pending, forced,
                   refusals>>

Admit(c) ==
    /\ pc[c] = "checked"
    /\ c \notin contended
    /\ pc' = [pc EXCEPT ![c] = "running"]
    /\ UNCHANGED <<contended, journal, fresh, retry, claims, read, pending,
                   history>>

(* shouldAllow.                                                            *)
Exhausted(c) == retry[Key(c)] >= MaxRetries

Allow(c) ==
    /\ pc[c] = "checked"
    /\ c \in contended
    /\ Exhausted(c)
    /\ pc' = [pc EXCEPT ![c] = "running"]
    /\ forced' = forced \cup {c}
    /\ pending' = pending \cup {c}
    /\ Reported(c)
    /\ read' = [read EXCEPT ![c] = Nothing]
    /\ UNCHANGED <<contended, journal, retry, claims, unseen, refusals>>

Refuse(c) ==
    /\ pc[c] = "checked"
    /\ c \in contended
    /\ ~Exhausted(c)
    /\ pc' = [pc EXCEPT ![c] = "counting"]
    /\ UNCHANGED <<contended, journal, fresh, retry, claims, read, pending,
                   history>>

(* incrementRetry reads the file a second time, and writes it back.        *)
Count(c) ==
    /\ pc[c] = "counting"
    /\ pc' = [pc EXCEPT ![c] = "denying"]
    /\ read' = [read EXCEPT ![c].count = retry[Key(c)]]
    /\ UNCHANGED <<contended, journal, fresh, retry, claims, pending, history>>

(* A denied call never runs, and no PostToolUse hook follows it.           *)
Deny(c) ==
    /\ pc[c] = "denying"
    /\ pc' = [pc EXCEPT ![c] = "denied"]
    /\ retry' = [retry EXCEPT ![Key(c)] = read[c].count + 1]
    /\ refusals' = [refusals EXCEPT ![Key(c)] = @ + 1]
    /\ read' = [read EXCEPT ![c] = Nothing]
    /\ pending' = pending \cup {c}
    /\ Reported(c)
    /\ UNCHANGED <<contended, journal, claims, unseen, forced>>

-----------------------------------------------------------------------------
(* PostToolUse.                                                            *)

Finish(c) ==
    /\ pc[c] = "running"
    /\ pc' = [pc EXCEPT ![c] = "posted"]
    /\ finished' = finished \cup {c}
    /\ fresh' = [a \in Agents |-> IF a = AgentOf[c] THEN fresh[a]
                                  ELSE fresh[a] \cup {PathOf[c]}]
    /\ UNCHANGED <<contended, started, aside, abandoned, retry, claims, read,
                   pending, history>>

(* computePostWriteAdvisory: having printed it the hook returns, with the  *)
(* pending advisory unread and the claim unreleased.                       *)
Advised(c) ==
    c \in Writes /\ (InFlight(c) # {} \/ PathOf[c] \in fresh[AgentOf[c]])

Advise(c) ==
    /\ pc[c] = "posted"
    /\ Advised(c)
    /\ pc' = [pc EXCEPT ![c] = "done"]
    /\ IF InFlight(c) # {} THEN UNCHANGED fresh ELSE Report(c)
    /\ UNCHANGED <<contended, journal, retry, claims, read, pending, history>>

(* readAndDeletePendingAdvisory, under a lock of its own.                  *)
TakePending(c) ==
    /\ pc[c] = "posted"
    /\ ~Advised(c)
    /\ pc' = [pc EXCEPT ![c] = IF c \in Writes THEN "releasing" ELSE "done"]
    /\ pending' = pending \ {c}
    /\ IF c \in Writes THEN Forget(c) ELSE UNCHANGED fresh
    /\ UNCHANGED <<contended, journal, retry, claims, read, history>>

(* releaseClaims: the file is read, then unlinked, or rewritten with the   *)
(* paths that remain and the expiry it had.                                *)
ReleaseRead(c) ==
    /\ pc[c] = "releasing"
    /\ pc' = [pc EXCEPT ![c] = "clearing"]
    /\ read' = [read EXCEPT ![c] =
                    [fact |-> FALSE, count |-> 0, paths |-> claim[AgentOf[c]],
                     old |-> AgentOf[c] \in expired]]
    /\ UNCHANGED <<contended, journal, fresh, retry, claims, pending, history>>

ReleaseWrite(c) ==
    /\ pc[c] = "clearing"
    /\ pc' = [pc EXCEPT ![c] = "done"]
    /\ IF read[c].paths = {} THEN UNCHANGED <<claim, expired>>
       ELSE /\ claim' = [claim EXCEPT ![AgentOf[c]] =
                            read[c].paths \ {PathOf[c]}]
            /\ expired' = IF read[c].old THEN expired \cup {AgentOf[c]}
                          ELSE expired \ {AgentOf[c]}
    /\ read' = [read EXCEPT ![c] = Nothing]
    /\ UNCHANGED <<contended, journal, fresh, retry, sweeping, pending, history>>

-----------------------------------------------------------------------------
(* The tools of the gateway.                                               *)

(* patchmesh_claim: claimFile replaces the agent's file.                   *)
ClaimFile(a, S) ==
    /\ claim' = [claim EXCEPT ![a] = S]
    /\ expired' = expired \ {a}
    /\ UNCHANGED <<hooks, journal, fresh, retry, sweeping, pending, history>>

(* patchmesh_release, of some paths or of all the active claim names.      *)
ReleaseTool(a, S) ==
    /\ claim[a] \cap S # {}
    /\ claim' = [claim EXCEPT ![a] = @ \ S]
    /\ UNCHANGED <<hooks, journal, fresh, retry, expired, sweeping, pending,
                   history>>

(* cleanupExpiredClaims reads a claim file and then unlinks it.            *)
SweepFind(a) ==
    /\ a \in expired \ sweeping
    /\ claim[a] # {}
    /\ sweeping' = sweeping \cup {a}
    /\ UNCHANGED <<hooks, journal, fresh, retry, claim, expired, pending,
                   history>>

SweepUnlink(a) ==
    /\ a \in sweeping
    /\ sweeping' = sweeping \ {a}
    /\ claim' = [claim EXCEPT ![a] = {}]
    /\ UNCHANGED <<hooks, journal, fresh, retry, expired, pending, history>>

(* emitSessionEndCleanup, by any session: every pending advisory, and the  *)
(* retry files half an hour old.                                           *)
SessionEnd ==
    /\ pending' = {}
    /\ \E old \in SUBSET (IF Aging THEN Keys ELSE {}) :
          /\ retry' = [k \in Keys |-> IF k \in old THEN 0 ELSE retry[k]]
          /\ refusals' = [k \in Keys |-> IF k \in old THEN 0 ELSE refusals[k]]
    /\ UNCHANGED <<hooks, journal, fresh, claims, unseen, forced>>

-----------------------------------------------------------------------------
(* Around them: a session killed in a call, time, and an ingest, which     *)
(* drains finished calls out of the journal and puts the lines of the      *)
(* others back (RecorderJournal has it step by step).                      *)

Kill(c) ==
    /\ pc[c] = "running"
    /\ pc' = [pc EXCEPT ![c] = "lost"]
    /\ UNCHANGED <<contended, journal, fresh, retry, claims, read, pending,
                   history>>

Abandon(c) ==
    /\ Cardinality(abandoned) < MaxAged
    /\ c \in (started \ finished) \ abandoned
    /\ abandoned' = abandoned \cup {c}
    /\ UNCHANGED <<hooks, started, aside, finished, fresh, retry, claims,
                   pending, history>>

Expire(a) ==
    /\ Aging
    /\ claim[a] # {} /\ a \notin expired
    /\ expired' = expired \cup {a}
    /\ UNCHANGED <<hooks, journal, fresh, retry, claim, sweeping, pending,
                   history>>

(* The completion is drained with the start, or without it when that is    *)
(* aside, in which case the start comes back to stay.                      *)
Drain(c) ==
    /\ c \in finished
    /\ finished' = finished \ {c}
    /\ started' = IF c \in aside THEN started ELSE started \ {c}
    /\ fresh' = [a \in Agents |->
                   IF a # AgentOf[c] /\ ~\E d \in finished \ {c} :
                        PathOf[d] = PathOf[c] /\ AgentOf[d] # a
                   THEN fresh[a] \ {PathOf[c]} ELSE fresh[a]]
    /\ UNCHANGED <<hooks, aside, abandoned, retry, claims, pending, history>>

TakeAside ==
    /\ started \ (finished \cup aside) # {}
    /\ aside' = aside \cup (started \ finished)
    /\ UNCHANGED <<hooks, started, finished, abandoned, fresh, retry, claims,
                   pending, history>>

CarryForward ==
    /\ aside # {}
    /\ aside' = {}
    /\ UNCHANGED <<hooks, started, finished, abandoned, fresh, retry, claims,
                   pending, history>>

-----------------------------------------------------------------------------
Init ==
    /\ pc = [c \in Calls |-> "new"]
    /\ contended = {}
    /\ started = {} /\ aside = {} /\ finished = {} /\ abandoned = {}
    /\ fresh = [a \in Agents |-> {}]
    /\ retry = [k \in Keys |-> 0]
    /\ claim = [a \in Agents |-> {}]
    /\ expired = {} /\ sweeping = {}
    /\ read = [c \in Calls |-> Nothing]
    /\ pending = {} /\ unseen = {} /\ forced = {}
    /\ refusals = [k \in Keys |-> 0]

Hook(c) ==
    \/ Journal(c) \/ Scan(c) \/ Check(c) \/ Admit(c) \/ Allow(c) \/ Refuse(c)
    \/ Count(c) \/ Deny(c) \/ Finish(c) \/ Advise(c) \/ TakePending(c) \/ ReleaseRead(c)
    \/ ReleaseWrite(c)

Tool(a) ==
    \/ \E S \in SUBSET Paths :
          /\ <<a, S>> \in Requests
          /\ ClaimFile(a, S) \/ ReleaseTool(a, S)
    \/ SweepFind(a) \/ SweepUnlink(a) \/ Expire(a)

Next ==
    \/ \E c \in Calls : Hook(c) \/ Kill(c) \/ Abandon(c) \/ Drain(c)
    \/ \E a \in Agents : Tool(a)
    \/ SessionEnd \/ TakeAside \/ CarryForward

Spec == Init /\ [][Next]_vars

-----------------------------------------------------------------------------
(* Properties.                                                             *)

DeniedLike(c) == {d \in Calls : /\ pc[d] = "denied"
                                /\ AgentOf[d] = AgentOf[c]
                                /\ PathOf[d] = PathOf[c]}

(* Every variable keeps its type; only a contended call leaves a pending   *)
(* advisory or is forced.                                                  *)
TypeOK ==
    /\ pc \in [Calls -> Stages]
    /\ contended \subseteq Calls
    /\ started \subseteq Calls /\ aside \subseteq started
    /\ finished \subseteq Calls /\ abandoned \subseteq Calls
    /\ fresh \in [Agents -> SUBSET Paths]
    /\ retry \in [Keys -> Nat]
    /\ claim \in [Agents -> SUBSET Paths]
    /\ expired \subseteq Agents /\ sweeping \subseteq Agents
    /\ read \in [Calls -> [fact : BOOLEAN, count : Nat,
                       paths : SUBSET Paths, old : BOOLEAN]]
    /\ pending \subseteq contended
    /\ unseen \subseteq Calls
    /\ forced \subseteq contended
    /\ refusals \in [Keys -> Nat]

(* Two agents are in one file at once only if one of them was told of the  *)
(* other and came in by the retry limit, or its start had come to look     *)
(* abandoned or was in an ingest's hands when the other checked: because a *)
(* start is journalled before the journal is read, of two hooks at least   *)
(* one sees the other.                                                     *)
GuardedEdits ==
    \A c, d \in Calls :
        pc[c] = "running" /\ pc[d] = "running" /\ Conflicts(c, d) =>
            {c, d} \cap (forced \cup abandoned \cup unseen) # {}

(* The retry limit is earned: a call passes it only after its agent was    *)
(* refused that often on that path.                                        *)
EarnedFailOpen ==
    \A c \in forced : Cardinality(DeniedLike(c)) >= MaxRetries

(* "If retry >= MAX_RETRIES, allow": an agent that runs one call at a time *)
(* is refused no more often than that until its retry file is removed.     *)
BoundedDenials ==
    \/ Parallel
    \/ \A k \in Keys : refusals[k] <= MaxRetries

(* The guard's way out (leader.ts, shouldBlockWrite): the retry limit is   *)
(* passed only after as many refusals of that agent on that path, and no   *)
(* agent that runs one call at a time is refused more often than that.     *)
FailOpen == EarnedFailOpen /\ BoundedDenials

-----------------------------------------------------------------------------
(* The strengthening of GuardedEdits that every step keeps.  A call whose  *)
(* hook has started and not finished has its start in the journal; two     *)
(* conflicting calls that both have checked did not both miss the other.   *)

Open == {"journalled", "scanned", "checked", "counting", "denying", "running"}
Decided == {"checked", "running"}

Journalled ==
    \A c \in Calls :
        /\ pc[c] = "new" => c \notin finished
        /\ pc[c] \in Open => c \in started /\ c \notin finished
Passed ==
    \A c \in contended : pc[c] = "running" => c \in forced
Refused ==
    \A c \in Calls : pc[c] \in {"counting", "denying"} => c \in contended
OneSees ==
    \A c, d \in Calls :
        pc[c] \in Decided /\ pc[d] \in Decided /\ Conflicts(c, d) =>
            {c, d} \cap (contended \cup abandoned \cup unseen) # {}

GuardInv == TypeOK /\ Journalled /\ Passed /\ Refused /\ OneSees

(* That of FailOpen.  What a retry file counts, or a hook has read from it *)
(* and is about to write back, are calls that were denied.                 *)
Denied(k) == {d \in Calls : pc[d] = "denied" /\ Key(d) = k}
CountsDenied ==
    /\ IsFiniteSet({d \in Calls : pc[d] = "denied"})
    /\ \A k \in Keys : retry[k] <= Cardinality(Denied(k))
    /\ \A c \in Calls :
          pc[c] = "denying" => read[c].count <= Cardinality(Denied(Key(c)))
    /\ \A c \in forced : MaxRetries <= Cardinality(Denied(Key(c)))

(* One call of an agent at a time; and then no refusal is lost between the *)
(* two reads of a retry file and its write, and the write is in bounds.    *)
OneAtATime ==
    \A c, d \in Calls :
        AgentOf[c] = AgentOf[d] /\ c # d => pc[c] \in Idle \/ pc[d] \in Idle
CountsRefused ==
    /\ \A k \in Keys : refusals[k] <= retry[k] /\ retry[k] <= MaxRetries
    /\ \A c \in Calls :
          /\ pc[c] = "counting" => retry[Key(c)] < MaxRetries
          /\ pc[c] = "denying" => /\ refusals[Key(c)] <= read[c].count
                                  /\ read[c].count < MaxRetries
DenialInv == CountsDenied /\ (~Parallel => OneAtATime /\ CountsRefused)
=============================================================================
