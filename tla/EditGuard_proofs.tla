--------------------------- MODULE EditGuard_proofs ---------------------------
(* Theorems of EditGuard, for every set of agents, paths and calls, parallel *)
(* calls of one agent included, and every value of the bounds.               *)
EXTENDS EditGuard, FiniteSetTheorems, TLAPS

LEMMA KeyTypes == \A c \in Calls : Key(c) \in Keys /\ AgentOf[c] \in Agents
                                   /\ PathOf[c] \in Paths
  BY GuardAssumption DEF Key, Keys

LEMMA InitInv == Init => GuardInv
  <1> SUFFICES ASSUME Init PROVE GuardInv
    OBVIOUS
  <1>1. TypeOK
    BY DEF Init, TypeOK, Stages, Nothing
  <1>2. Journalled /\ Passed /\ Refused /\ OneSees
    BY DEF Init, Journalled, Passed, Refused, OneSees, Open, Decided
  <1> QED BY <1>1, <1>2 DEF GuardInv

(* What is left of `fresh` after a look or a report has its type.            *)
LEMMA FreshTypes ==
  ASSUME TypeOK, NEW c \in Calls,
         \/ Forget(c) \/ Report(c) \/ Reported(c) \/ UNCHANGED fresh
  PROVE  fresh' \in [Agents -> SUBSET Paths]
  <1>1. \A lost \in SUBSET fresh[AgentOf[c]] :
          /\ fresh[AgentOf[c]] \ lost \in SUBSET Paths
          /\ fresh[AgentOf[c]] \ (lost \cup {PathOf[c]}) \in SUBSET Paths
    BY KeyTypes DEF TypeOK
  <1> QED BY <1>1 DEF TypeOK, Forget, Report, Reported

-----------------------------------------------------------------------------
(* Type correctness, action by action.                                       *)

LEMMA CheckTypes ==
  ASSUME GuardInv, NEW c \in Calls,
         Journal(c) \/ Scan(c) \/ Check(c) \/ Admit(c)
  PROVE  TypeOK'
  <1> USE DEF GuardInv, TypeOK, hooks, journal, claims, history
  <1>1. CASE Journal(c)
    BY <1>1 DEF Journal, Stages
  <1>2. CASE Scan(c)
    <2>1. fresh' \in [Agents -> SUBSET Paths]
      BY <1>2, FreshTypes DEF Scan
    <2>2. read' \in [Calls -> [fact : BOOLEAN, count : Nat,
                               paths : SUBSET Paths, old : BOOLEAN]]
      BY <1>2 DEF Scan
    <2> QED BY <1>2, <2>1, <2>2 DEF Scan, Stages
  <1>3. CASE Check(c)
    BY <1>3 DEF Check, Stages
  <1>4. CASE Admit(c)
    BY <1>4 DEF Admit, Stages
  <1> QED BY <1>1, <1>2, <1>3, <1>4

LEMMA DenyTypes ==
  ASSUME GuardInv, NEW c \in Calls,
         Allow(c) \/ Refuse(c) \/ Count(c) \/ Deny(c)
  PROVE  TypeOK'
  <1> USE DEF GuardInv, TypeOK, hooks, journal, claims, history
  <1>0. Nothing \in [fact : BOOLEAN, count : Nat, paths : SUBSET Paths,
                     old : BOOLEAN]
    BY DEF Nothing
  <1>1. CASE Allow(c)
    <2>1. fresh' \in [Agents -> SUBSET Paths]
      BY <1>1, FreshTypes DEF Allow
    <2> QED BY <1>0, <1>1, <2>1 DEF Allow, Stages
  <1>2. CASE Refuse(c)
    BY <1>2 DEF Refuse, Stages
  <1>3. CASE Count(c)
    <2>1. read' \in [Calls -> [fact : BOOLEAN, count : Nat,
                               paths : SUBSET Paths, old : BOOLEAN]]
      BY <1>3, KeyTypes DEF Count
    <2> QED BY <1>3, <2>1 DEF Count, Stages
  <1>4. CASE Deny(c)
    <2>1. fresh' \in [Agents -> SUBSET Paths]
      BY <1>4, FreshTypes DEF Deny
    <2>2. retry' \in [Keys -> Nat] /\ refusals' \in [Keys -> Nat]
      BY <1>4, KeyTypes DEF Deny
    <2>3. pending' \subseteq contended'
      BY <1>4 DEF Deny, Refused
    <2> QED BY <1>0, <1>4, <2>1, <2>2, <2>3 DEF Deny, Stages
  <1> QED BY <1>1, <1>2, <1>3, <1>4

LEMMA PostTypes ==
  ASSUME GuardInv, NEW c \in Calls,
         \/ Finish(c) \/ Advise(c) \/ TakePending(c) \/ ReleaseRead(c)
         \/ ReleaseWrite(c)
  PROVE  TypeOK'
  <1> USE DEF GuardInv, TypeOK, hooks, journal, claims, history
  <1>1. CASE Finish(c)
    <2>1. fresh' \in [Agents -> SUBSET Paths]
      BY <1>1, KeyTypes DEF Finish
    <2> QED BY <1>1, <2>1 DEF Finish, Stages
  <1>2. CASE Advise(c)
    <2>1. fresh' \in [Agents -> SUBSET Paths]
      BY <1>2, FreshTypes DEF Advise
    <2> QED BY <1>2, <2>1 DEF Advise, Stages
  <1>3. CASE TakePending(c)
    <2>1. fresh' \in [Agents -> SUBSET Paths]
      BY <1>3, FreshTypes DEF TakePending
    <2> QED BY <1>3, <2>1 DEF TakePending, Stages
  <1>4. CASE ReleaseRead(c)
    <2>1. [fact |-> FALSE, count |-> 0, paths |-> claim[AgentOf[c]],
           old |-> AgentOf[c] \in expired]
            \in [fact : BOOLEAN, count : Nat, paths : SUBSET Paths,
                 old : BOOLEAN]
      BY KeyTypes
    <2>2. read' \in [Calls -> [fact : BOOLEAN, count : Nat,
                               paths : SUBSET Paths, old : BOOLEAN]]
      BY <1>4, <2>1 DEF ReleaseRead
    <2> QED BY <1>4, <2>2 DEF ReleaseRead, Stages
  <1>5. CASE ReleaseWrite(c)
    <2>1. claim' \in [Agents -> SUBSET Paths] /\ expired' \subseteq Agents
      BY <1>5, KeyTypes DEF ReleaseWrite
    <2>2. read' \in [Calls -> [fact : BOOLEAN, count : Nat,
                               paths : SUBSET Paths, old : BOOLEAN]]
      BY <1>5 DEF ReleaseWrite, Nothing
    <2> QED BY <1>5, <2>1, <2>2 DEF ReleaseWrite, Stages
  <1> QED BY <1>1, <1>2, <1>3, <1>4, <1>5

LEMMA ToolTypes ==
  ASSUME GuardInv, NEW a \in Agents, Tool(a)
  PROVE  TypeOK'
  <1> USE DEF GuardInv, TypeOK, hooks, journal, claims, history
  <1>1. ASSUME NEW S \in SUBSET Paths, ClaimFile(a, S) PROVE TypeOK'
    BY <1>1 DEF ClaimFile
  <1>2. ASSUME NEW S \in SUBSET Paths, ReleaseTool(a, S) PROVE TypeOK'
    BY <1>2 DEF ReleaseTool
  <1>3. CASE SweepFind(a)
    BY <1>3 DEF SweepFind
  <1>4. CASE SweepUnlink(a)
    BY <1>4 DEF SweepUnlink
  <1>5. CASE Expire(a)
    BY <1>5 DEF Expire
  <1> QED BY <1>1, <1>2, <1>3, <1>4, <1>5 DEF Tool

LEMMA AroundTypes ==
  ASSUME GuardInv,
         \/ \E c \in Calls : Kill(c) \/ Abandon(c) \/ Drain(c)
         \/ SessionEnd \/ TakeAside \/ CarryForward
  PROVE  TypeOK'
  <1> USE DEF GuardInv, TypeOK, hooks, journal, claims, history
  <1>1. ASSUME NEW c \in Calls, Kill(c) PROVE TypeOK'
    BY <1>1 DEF Kill, Stages
  <1>2. ASSUME NEW c \in Calls, Abandon(c) PROVE TypeOK'
    BY <1>2 DEF Abandon
  <1>3. ASSUME NEW c \in Calls, Drain(c) PROVE TypeOK'
    <2>1. fresh' \in [Agents -> SUBSET Paths]
      BY <1>3 DEF Drain
    <2> QED BY <1>3, <2>1 DEF Drain
  <1>4. CASE SessionEnd
    BY <1>4 DEF SessionEnd
  <1>5. CASE TakeAside
    BY <1>5 DEF TakeAside
  <1>6. CASE CarryForward
    BY <1>6 DEF CarryForward
  <1> QED BY <1>1, <1>2, <1>3, <1>4, <1>5, <1>6
-----------------------------------------------------------------------------
(* The hook's own steps: what they do to the calls' stages and to the sets   *)
(* the guard is about.                                                       *)

(* A step that lets no call decide, and adds to the sets that excuse one,    *)
(* keeps OneSees.                                                            *)
LEMMA SeesMonotone ==
  ASSUME OneSees,
         \A c \in Calls : pc'[c] \in Decided => pc[c] \in Decided,
         contended \subseteq contended', abandoned \subseteq abandoned',
         unseen \subseteq unseen'
  PROVE  OneSees'
  <1> SUFFICES ASSUME NEW c \in Calls, NEW d \in Calls,
                      pc'[c] \in Decided, pc'[d] \in Decided, Conflicts(c, d)
               PROVE  {c, d} \cap (contended' \cup abandoned' \cup unseen') # {}
    BY DEF OneSees, Conflicts
  <1>1. {c, d} \cap (contended \cup abandoned \cup unseen) # {}
    BY DEF OneSees
  <1> QED BY <1>1

(* The call that checks sees every other that has: its start is in the       *)
(* journal, unless it looks abandoned or is behind an ingest.                *)
LEMMA CheckSees ==
  ASSUME GuardInv, NEW c \in Calls, Check(c)
  PROVE  OneSees'
  <1>1. /\ pc \in [Calls -> Stages] /\ pc' = [pc EXCEPT ![c] = "checked"]
        /\ pc[c] = "scanned"
    BY DEF GuardInv, TypeOK, Check
  <1>2. /\ contended \subseteq contended' /\ unseen \subseteq unseen'
        /\ abandoned' = abandoned
    BY DEF Check, journal
  <1>3. ASSUME NEW d \in Calls, pc[d] \in Decided,
               Conflicts(c, d) \/ Conflicts(d, c)
        PROVE  {c, d} \cap (contended' \cup abandoned' \cup unseen') # {}
    <2>1. Conflicts(c, d)
      BY <1>3 DEF Conflicts
    <2>2. d \in started /\ d \notin finished
      BY <1>3 DEF GuardInv, Journalled, Open, Decided
    <2>3. CASE d \in abandoned
      BY <1>2, <2>3
    <2>4. CASE d \in aside
      BY <2>1, <2>4 DEF Check
    <2>5. CASE d \notin abandoned /\ d \notin aside
      <3>1. d \in InFlight(c)
        BY <2>1, <2>2, <2>5 DEF InFlight
      <3>2. c \in contended'
        BY <3>1 DEF Check
      <3> QED BY <3>2
    <2> QED BY <2>3, <2>4, <2>5
  <1> SUFFICES ASSUME NEW x \in Calls, NEW y \in Calls,
                      pc'[x] \in Decided, pc'[y] \in Decided, Conflicts(x, y)
               PROVE  {x, y} \cap (contended' \cup abandoned' \cup unseen') # {}
    BY DEF OneSees, Conflicts
  <1>4. x # y
    BY DEF Conflicts
  <1>5. CASE x = c
    BY <1>1, <1>3, <1>4, <1>5
  <1>6. CASE y = c
    BY <1>1, <1>3, <1>4, <1>6
  <1>7. CASE x # c /\ y # c
    <2>1. pc[x] \in Decided /\ pc[y] \in Decided
      BY <1>1, <1>7
    <2>2. {x, y} \cap (contended \cup abandoned \cup unseen) # {}
      BY <2>1 DEF GuardInv, OneSees
    <2> QED BY <1>2, <2>2
  <1> QED BY <1>5, <1>6, <1>7

LEMMA CheckKeeps ==
  ASSUME GuardInv, NEW c \in Calls,
         Journal(c) \/ Scan(c) \/ Check(c) \/ Admit(c)
  PROVE  Journalled' /\ Passed' /\ Refused' /\ OneSees'
  <1> USE DEF journal, history
  <1>0. pc \in [Calls -> Stages]
    BY DEF GuardInv, TypeOK
  <1>1. CASE Journal(c)
    <2>1. Journalled' /\ Passed' /\ Refused'
      BY <1>0, <1>1 DEF GuardInv, Journal, Journalled, Passed, Refused, Open
    <2>2. \A d \in Calls : pc'[d] \in Decided => pc[d] \in Decided
      BY <1>0, <1>1 DEF Journal, Decided
    <2>3. OneSees'
      BY <1>1, <2>2, SeesMonotone DEF GuardInv, Journal
    <2> QED BY <2>1, <2>3
  <1>2. CASE Scan(c)
    <2>1. contended \subseteq contended' /\ contended' \subseteq contended \cup {c}
      BY <1>2 DEF Scan
    <2>2. Journalled' /\ Passed' /\ Refused'
      BY <1>0, <1>2, <2>1 DEF GuardInv, Scan, Journalled, Passed, Refused, Open
    <2>3. \A d \in Calls : pc'[d] \in Decided => pc[d] \in Decided
      BY <1>0, <1>2 DEF Scan, Decided
    <2>4. OneSees'
      BY <1>2, <2>1, <2>3, SeesMonotone DEF GuardInv, Scan
    <2> QED BY <2>2, <2>4
  <1>3. CASE Check(c)
    <2>1. contended \subseteq contended' /\ contended' \subseteq contended \cup {c}
      BY <1>3 DEF Check
    <2>2. Journalled' /\ Passed' /\ Refused'
      BY <1>0, <1>3, <2>1 DEF GuardInv, Check, Journalled, Passed, Refused, Open
    <2> QED BY <1>3, <2>2, CheckSees
  <1>4. CASE Admit(c)
    <2>1. Journalled' /\ Passed' /\ Refused'
      BY <1>0, <1>4 DEF GuardInv, Admit, Journalled, Passed, Refused, Open
    <2>2. \A d \in Calls : pc'[d] \in Decided => pc[d] \in Decided
      BY <1>0, <1>4 DEF Admit, Decided
    <2>3. OneSees'
      BY <1>4, <2>2, SeesMonotone DEF GuardInv, Admit
    <2> QED BY <2>1, <2>3
  <1> QED BY <1>1, <1>2, <1>3, <1>4

LEMMA DenyKeeps ==
  ASSUME GuardInv, NEW c \in Calls,
         Allow(c) \/ Refuse(c) \/ Count(c) \/ Deny(c)
  PROVE  Journalled' /\ Passed' /\ Refused' /\ OneSees'
  <1> USE DEF journal, history
  <1>0. pc \in [Calls -> Stages]
    BY DEF GuardInv, TypeOK
  <1>1. \A d \in Calls : pc'[d] \in Decided => pc[d] \in Decided
    BY <1>0 DEF Allow, Refuse, Count, Deny, Decided
  <1>2. contended' = contended /\ abandoned' = abandoned /\ unseen' = unseen
    BY DEF Allow, Refuse, Count, Deny
  <1>3. OneSees'
    BY <1>1, <1>2, SeesMonotone DEF GuardInv
  <1>4. CASE Allow(c)
    BY <1>0, <1>3, <1>4 DEF GuardInv, Allow, Journalled, Passed, Refused, Open
  <1>5. CASE Refuse(c)
    BY <1>0, <1>3, <1>5 DEF GuardInv, Refuse, Journalled, Passed, Refused, Open
  <1>6. CASE Count(c)
    BY <1>0, <1>3, <1>6 DEF GuardInv, Count, Journalled, Passed, Refused, Open
  <1>7. CASE Deny(c)
    BY <1>0, <1>3, <1>7 DEF GuardInv, Deny, Journalled, Passed, Refused, Open
  <1> QED BY <1>4, <1>5, <1>6, <1>7

LEMMA PostKeeps ==
  ASSUME GuardInv, NEW c \in Calls,
         \/ Finish(c) \/ Advise(c) \/ TakePending(c) \/ ReleaseRead(c)
         \/ ReleaseWrite(c)
  PROVE  Journalled' /\ Passed' /\ Refused' /\ OneSees'
  <1> USE DEF journal, history
  <1>0. pc \in [Calls -> Stages]
    BY DEF GuardInv, TypeOK
  <1>1. \A d \in Calls : pc'[d] \in Decided => pc[d] \in Decided
    BY <1>0 DEF Finish, Advise, TakePending, ReleaseRead, ReleaseWrite, Decided
  <1>2. contended' = contended /\ abandoned' = abandoned /\ unseen' = unseen
    BY DEF Finish, Advise, TakePending, ReleaseRead, ReleaseWrite
  <1>3. OneSees'
    BY <1>1, <1>2, SeesMonotone DEF GuardInv
  <1>4. CASE Finish(c)
    BY <1>0, <1>3, <1>4 DEF GuardInv, Finish, Journalled, Passed, Refused, Open
  <1>5. CASE Advise(c)
    BY <1>0, <1>3, <1>5 DEF GuardInv, Advise, Journalled, Passed, Refused, Open
  <1>6. CASE TakePending(c)
    BY <1>0, <1>3, <1>6 DEF GuardInv, TakePending, Journalled, Passed, Refused,
       Open
  <1>7. CASE ReleaseRead(c)
    BY <1>0, <1>3, <1>7 DEF GuardInv, ReleaseRead, Journalled, Passed, Refused,
       Open
  <1>8. CASE ReleaseWrite(c)
    BY <1>0, <1>3, <1>8 DEF GuardInv, ReleaseWrite, Journalled, Passed, Refused,
       Open
  <1> QED BY <1>4, <1>5, <1>6, <1>7, <1>8

(* The tools and the session end leave the hooks and the journal alone.      *)
LEMMA ToolKeeps ==
  ASSUME GuardInv,
         \/ \E a \in Agents : Tool(a)
         \/ SessionEnd
  PROVE  Journalled' /\ Passed' /\ Refused' /\ OneSees'
  <1>1. UNCHANGED <<pc, contended, started, finished, abandoned, unseen, forced>>
    BY DEF Tool, ClaimFile, ReleaseTool, SweepFind, SweepUnlink, Expire,
       SessionEnd, hooks, journal, history
  <1>2. OneSees'
    BY <1>1, SeesMonotone DEF GuardInv
  <1> QED BY <1>1, <1>2 DEF GuardInv, Journalled, Passed, Refused

LEMMA AroundKeeps ==
  ASSUME GuardInv,
         \/ \E c \in Calls : Kill(c) \/ Abandon(c) \/ Drain(c)
         \/ TakeAside \/ CarryForward
  PROVE  Journalled' /\ Passed' /\ Refused' /\ OneSees'
  <1> USE DEF journal, history, hooks
  <1>0. pc \in [Calls -> Stages]
    BY DEF GuardInv, TypeOK
  <1>1. ASSUME NEW c \in Calls, Kill(c)
        PROVE  Journalled' /\ Passed' /\ Refused' /\ OneSees'
    <2>1. \A d \in Calls : pc'[d] \in Decided => pc[d] \in Decided
      BY <1>0, <1>1 DEF Kill, Decided
    <2>2. OneSees'
      BY <1>1, <2>1, SeesMonotone DEF GuardInv, Kill
    <2> QED BY <1>0, <1>1, <2>2 DEF GuardInv, Kill, Journalled, Passed, Refused,
              Open
  <1>2. ASSUME NEW c \in Calls, Abandon(c)
        PROVE  Journalled' /\ Passed' /\ Refused' /\ OneSees'
    <2>1. OneSees'
      BY <1>2, SeesMonotone DEF GuardInv, Abandon
    <2> QED BY <1>2, <2>1 DEF GuardInv, Abandon, Journalled, Passed, Refused
  <1>3. ASSUME NEW c \in Calls, Drain(c)
        PROVE  Journalled' /\ Passed' /\ Refused' /\ OneSees'
    <2>1. OneSees'
      BY <1>3, SeesMonotone DEF GuardInv, Drain
    <2> QED BY <1>3, <2>1 DEF GuardInv, Drain, Journalled, Passed, Refused
  <1>4. CASE TakeAside \/ CarryForward
    <2>1. OneSees'
      BY <1>4, SeesMonotone DEF GuardInv, TakeAside, CarryForward
    <2> QED BY <1>4, <2>1 DEF GuardInv, TakeAside, CarryForward, Journalled,
              Passed, Refused
  <1> QED BY <1>1, <1>2, <1>3, <1>4

-----------------------------------------------------------------------------
LEMMA StepInv == GuardInv /\ [Next]_vars => GuardInv'
  <1> SUFFICES ASSUME GuardInv, [Next]_vars PROVE GuardInv'
    OBVIOUS
  <1>1. ASSUME NEW c \in Calls, Hook(c) PROVE GuardInv'
    <2>1. CASE Journal(c) \/ Scan(c) \/ Check(c) \/ Admit(c)
      BY <2>1, CheckTypes, CheckKeeps DEF GuardInv
    <2>2. CASE Allow(c) \/ Refuse(c) \/ Count(c) \/ Deny(c)
      BY <2>2, DenyTypes, DenyKeeps DEF GuardInv
    <2>3. CASE \/ Finish(c) \/ Advise(c) \/ TakePending(c) \/ ReleaseRead(c)
               \/ ReleaseWrite(c)
      BY <2>3, PostTypes, PostKeeps DEF GuardInv
    <2> QED BY <1>1, <2>1, <2>2, <2>3 DEF Hook
  <1>2. ASSUME NEW c \in Calls, Kill(c) \/ Abandon(c) \/ Drain(c)
        PROVE  GuardInv'
    BY <1>2, AroundTypes, AroundKeeps DEF GuardInv
  <1>3. ASSUME NEW a \in Agents, Tool(a) PROVE GuardInv'
    BY <1>3, ToolTypes, ToolKeeps DEF GuardInv
  <1>4. CASE SessionEnd
    BY <1>4, AroundTypes, ToolKeeps DEF GuardInv
  <1>5. CASE TakeAside \/ CarryForward
    BY <1>5, AroundTypes, AroundKeeps DEF GuardInv
  <1>6. CASE UNCHANGED vars
    BY <1>6 DEF vars, hooks, journal, claims, history, GuardInv, TypeOK,
       Journalled, Passed, Refused, OneSees
  <1> QED BY <1>1, <1>2, <1>3, <1>4, <1>5, <1>6 DEF Next

(* Two calls that run have both checked: one of them is excused, and a       *)
(* contended call that runs was forced.                                      *)
LEMMA InvGuards == GuardInv => GuardedEdits
  <1> SUFFICES ASSUME GuardInv, NEW c \in Calls, NEW d \in Calls,
                      pc[c] = "running", pc[d] = "running", Conflicts(c, d)
               PROVE  {c, d} \cap (forced \cup abandoned \cup unseen) # {}
    BY DEF GuardedEdits
  <1>1. {c, d} \cap (contended \cup abandoned \cup unseen) # {}
    BY DEF GuardInv, OneSees, Decided
  <1>2. \A x \in {c, d} : x \in contended => x \in forced
    BY DEF GuardInv, Passed
  <1> QED BY <1>1, <1>2

(* The inductive invariant of the guard holds in every reachable state: no   *)
(* step of a hook, of the MCP tools, of the claim sweep or of a drain, and   *)
(* no killed or abandoned call, breaks it.                                   *)
THEOREM GuardHolds == Spec => []GuardInv
  BY InitInv, StepInv, PTL DEF Spec

(* Every variable keeps its type; what TypeOK says of pending advisories and *)
(* forced calls needs that only a contended call is refused.                 *)
THEOREM TypeCorrect == Spec => []TypeOK
  <1>1. GuardInv => TypeOK
    BY DEF GuardInv
  <1> QED BY <1>1, GuardHolds, PTL

(* The order in bin.ts main, journal first and check after, is what keeps    *)
(* two agents out of one file: without a denial overridden, a start too old  *)
(* or an ingest at work, they never edit it at once.                         *)
THEOREM EditsGuarded == Spec => []GuardedEdits
  BY InvGuards, GuardHolds, PTL

-----------------------------------------------------------------------------
(* The way out.                                                              *)

LEMMA InitDenials == Init => DenialInv
  <1> SUFFICES ASSUME Init PROVE DenialInv
    OBVIOUS
  <1>1. \A c \in Calls : pc[c] = "new"
    BY DEF Init
  <1>2. \A k \in Keys : retry[k] = 0 /\ refusals[k] = 0
    BY DEF Init
  <1>3. {d \in Calls : pc[d] = "denied"} = {} /\ \A k : Denied(k) = {}
    BY <1>1 DEF Denied
  <1>4. CountsDenied
    BY <1>1, <1>2, <1>3, FS_EmptySet DEF CountsDenied, Init
  <1>5. OneAtATime /\ CountsRefused
    BY <1>1, <1>2, GuardAssumption DEF OneAtATime, CountsRefused, Idle
  <1> QED BY <1>4, <1>5 DEF DenialInv

(* The denied calls of a key are as many as some number.                     *)
LEMMA DeniedCount ==
  ASSUME CountsDenied, NEW k
  PROVE  IsFiniteSet(Denied(k)) /\ Cardinality(Denied(k)) \in Nat
  <1>1. Denied(k) \subseteq {d \in Calls : pc[d] = "denied"}
    BY DEF Denied
  <1> QED BY <1>1, FS_Subset, FS_CardinalityType DEF CountsDenied

(* What every step but a denial does: it denies nobody, leaves the count of  *)
(* a key and its history alone or resets both, and a hook that refuses, or   *)
(* has read the count, or passes, does so by the count there is.             *)
Quiet ==
  /\ \A c \in Calls : pc'[c] = "denied" <=> pc[c] = "denied"
  /\ \A k \in Keys : \/ retry'[k] = retry[k] /\ refusals'[k] = refusals[k]
                     \/ retry'[k] = 0 /\ refusals'[k] = 0
  /\ \A c \in Calls : pc'[c] = "counting" =>
        pc[c] = "counting" \/ retry[Key(c)] < MaxRetries
  /\ \A c \in Calls : pc'[c] = "denying" =>
        \/ pc[c] = "denying" /\ read'[c].count = read[c].count
        \/ pc[c] = "counting" /\ read'[c].count = retry[Key(c)]
  /\ \A c \in forced' :
        c \in Calls /\ (c \in forced \/ MaxRetries <= retry[Key(c)])

LEMMA QuietKeeps ==
  ASSUME GuardInv, DenialInv, Quiet
  PROVE  CountsDenied' /\ (~Parallel => CountsRefused')
  <1>1. /\ {d \in Calls : pc'[d] = "denied"} = {d \in Calls : pc[d] = "denied"}
        /\ \A k : Denied(k)' = Denied(k)
    BY DEF Quiet, Denied, Key
  <1>2. \A c \in Calls : Key(c) \in Keys
    BY KeyTypes
  <1>3. /\ \A k \in Keys : retry[k] \in Nat
        /\ \A c \in Calls : read[c].count \in Nat
        /\ MaxRetries \in Nat \ {0}
    BY GuardAssumption DEF GuardInv, TypeOK
  <1>4. \A k : Cardinality(Denied(k)) \in Nat
    BY DeniedCount DEF DenialInv
  <1>5. \A k \in Keys : retry[k] <= Cardinality(Denied(k))
    BY DEF DenialInv, CountsDenied
  <1>6. \A k \in Keys : retry'[k] <= Cardinality(Denied(k))
    BY <1>3, <1>4, <1>5 DEF Quiet
  <1>7. \A c \in Calls : pc'[c] = "denying" =>
            read'[c].count <= Cardinality(Denied(Key(c)))
    BY <1>2, <1>5 DEF Quiet, DenialInv, CountsDenied
  <1>8. \A c \in forced' : MaxRetries <= Cardinality(Denied(Key(c)))
    <2> SUFFICES ASSUME NEW c \in forced'
                 PROVE  MaxRetries <= Cardinality(Denied(Key(c)))
      OBVIOUS
    <2>1. c \in Calls
      BY DEF Quiet
    <2>2. CASE c \in forced
      BY <2>2 DEF DenialInv, CountsDenied
    <2>3. CASE MaxRetries <= retry[Key(c)]
      <3>1. /\ retry[Key(c)] \in Nat /\ Cardinality(Denied(Key(c))) \in Nat
            /\ retry[Key(c)] <= Cardinality(Denied(Key(c)))
        BY <1>2, <1>3, <1>4, <1>5, <2>1
      <3> QED BY <1>3, <2>3, <3>1
    <2> QED BY <2>2, <2>3 DEF Quiet
  <1>9. CountsDenied'
    BY <1>1, <1>6, <1>7, <1>8 DEF DenialInv, CountsDenied, Key
  <1>10. ASSUME ~Parallel
         PROVE  CountsRefused'
    <2>1. \A k \in Keys : refusals'[k] <= retry'[k] /\ retry'[k] <= MaxRetries
      BY <1>3, <1>10 DEF Quiet, DenialInv, CountsRefused
    <2>2. \A c \in Calls : pc'[c] = "counting" => retry'[Key(c)] < MaxRetries
      BY <1>2, <1>3, <1>10 DEF Quiet, DenialInv, CountsRefused
    <2>3. \A c \in Calls : pc'[c] = "denying" =>
             refusals'[Key(c)] <= read'[c].count /\ read'[c].count < MaxRetries
      <3> SUFFICES ASSUME NEW c \in Calls, pc'[c] = "denying"
                   PROVE  /\ refusals'[Key(c)] <= read'[c].count
                          /\ read'[c].count < MaxRetries
        OBVIOUS
      <3>1. /\ refusals[Key(c)] <= read'[c].count
            /\ read'[c].count < MaxRetries /\ read'[c].count \in Nat
        BY <1>2, <1>3, <1>10 DEF Quiet, DenialInv, CountsRefused
      <3> QED BY <1>2, <3>1 DEF Quiet
    <2> QED BY <2>1, <2>2, <2>3 DEF CountsRefused, Key
  <1> QED BY <1>9, <1>10

(* A denial writes back the count the hook read plus one, for one more       *)
(* denied call; no other call of the agent is near its retry files.          *)
LEMMA DenyCounts ==
  ASSUME GuardInv, DenialInv, NEW c \in Calls, Deny(c)
  PROVE  CountsDenied' /\ (~Parallel => CountsRefused')
  <1> DEFINE K == Key(c)
             n == read[c].count
             All == {d \in Calls : pc[d] = "denied"}
  <1>0. /\ pc \in [Calls -> Stages] /\ pc[c] = "denying" /\ K \in Keys
        /\ pc' = [pc EXCEPT ![c] = "denied"] /\ n \in Nat
        /\ \A k \in Keys : retry[k] \in Nat /\ refusals[k] \in Nat
        /\ MaxRetries \in Nat \ {0} /\ forced' = forced
        /\ forced \subseteq Calls
    BY KeyTypes, GuardAssumption DEF GuardInv, TypeOK, Deny
  <1>1. /\ \A k \in Keys : retry'[k] = IF k = K THEN n + 1 ELSE retry[k]
        /\ \A k \in Keys : refusals'[k] = IF k = K THEN refusals[k] + 1
                                                   ELSE refusals[k]
        /\ \A d \in Calls : d # c => read'[d].count = read[d].count
    BY DEF Deny, GuardInv, TypeOK
  <1>2. /\ {d \in Calls : pc'[d] = "denied"} = All \cup {c} /\ c \notin All
        /\ IsFiniteSet(All \cup {c})
    BY <1>0, FS_AddElement DEF DenialInv, CountsDenied
  <1>3. /\ Denied(K)' = Denied(K) \cup {c} /\ c \notin Denied(K)
        /\ \A k : k # K => Denied(k)' = Denied(k)
    BY <1>0 DEF Denied, Key
  <1>4. /\ Cardinality(Denied(K) \cup {c}) = Cardinality(Denied(K)) + 1
        /\ \A k : Cardinality(Denied(k)) \in Nat
    BY <1>3, DeniedCount, FS_AddElement DEF DenialInv
  <1>5. \A k : Cardinality(Denied(k)) <= Cardinality(Denied(k)')
    BY <1>3, <1>4
  <1>6. n <= Cardinality(Denied(K))
    BY <1>0 DEF DenialInv, CountsDenied
  <1>7. n + 1 <= Cardinality(Denied(K)')
    BY <1>0, <1>3, <1>4, <1>6
  <1>8. CountsDenied'
    <2>1. \A k \in Keys : retry'[k] <= Cardinality(Denied(k)')
      BY <1>1, <1>3, <1>7 DEF DenialInv, CountsDenied
    <2>2. \A d \in Calls : pc'[d] = "denying" =>
              read'[d].count <= Cardinality(Denied(Key(d))')
      <3> SUFFICES ASSUME NEW d \in Calls, pc'[d] = "denying"
                   PROVE  read'[d].count <= Cardinality(Denied(Key(d))')
        OBVIOUS
      <3>1. d # c /\ pc[d] = "denying"
        BY <1>0
      <3>2. /\ read'[d].count = read[d].count /\ read[d].count \in Nat
            /\ read[d].count <= Cardinality(Denied(Key(d)))
        BY <1>1, <3>1 DEF GuardInv, TypeOK, DenialInv, CountsDenied
      <3>3. /\ Cardinality(Denied(Key(d))) \in Nat
            /\ \/ Denied(Key(d))' = Denied(Key(d))
               \/ Cardinality(Denied(Key(d))') = Cardinality(Denied(Key(d))) + 1
        BY <1>3, <1>4
      <3> QED BY <3>2, <3>3
    <2>3. \A d \in forced' : MaxRetries <= Cardinality(Denied(Key(d))')
      <3> SUFFICES ASSUME NEW d \in forced
                   PROVE  MaxRetries <= Cardinality(Denied(Key(d))')
        BY <1>0
      <3>1. MaxRetries <= Cardinality(Denied(Key(d)))
        BY DEF DenialInv, CountsDenied
      <3>2. /\ Cardinality(Denied(Key(d))) \in Nat
            /\ \/ Denied(Key(d))' = Denied(Key(d))
               \/ Cardinality(Denied(Key(d))') = Cardinality(Denied(Key(d))) + 1
        BY <1>3, <1>4
      <3> QED BY <1>0, <3>1, <3>2
    <2> QED BY <1>2, <2>1, <2>2, <2>3 DEF CountsDenied, Key
  <1>9. ASSUME ~Parallel
        PROVE  CountsRefused'
    <2>1. refusals[K] <= n /\ n < MaxRetries
      BY <1>0, <1>9 DEF DenialInv, CountsRefused
    <2>2. \A k \in Keys : refusals'[k] <= retry'[k] /\ retry'[k] <= MaxRetries
      BY <1>0, <1>1, <1>9, <2>1 DEF DenialInv, CountsRefused
    <2>3. \A d \in Calls : pc'[d] \in {"counting", "denying"} =>
             /\ pc'[d] = pc[d] /\ read'[d].count = read[d].count
             /\ retry'[Key(d)] = retry[Key(d)]
             /\ refusals'[Key(d)] = refusals[Key(d)]
      <3> SUFFICES ASSUME NEW d \in Calls, pc'[d] \in {"counting", "denying"}
                   PROVE  /\ pc'[d] = pc[d] /\ read'[d].count = read[d].count
                          /\ retry'[Key(d)] = retry[Key(d)]
                          /\ refusals'[Key(d)] = refusals[Key(d)]
        OBVIOUS
      <3>1. d # c /\ pc'[d] = pc[d]
        BY <1>0
      <3>2. AgentOf[d] # AgentOf[c]
        BY <1>0, <1>9, <3>1 DEF DenialInv, OneAtATime, Idle
      <3>3. Key(d) # K /\ Key(d) \in Keys
        BY <3>2, KeyTypes DEF Key
      <3> QED BY <1>1, <3>1, <3>3
    <2> QED BY <1>9, <2>2, <2>3 DEF DenialInv, CountsRefused, Key
  <1> QED BY <1>8, <1>9

(* Every step but a denial is quiet, action by action.                       *)
LEMMA HookQuiet ==
  ASSUME GuardInv, NEW c \in Calls, Hook(c), ~Deny(c)
  PROVE  Quiet
  <1>0. /\ pc \in [Calls -> Stages] /\ forced \subseteq Calls
        /\ read \in [Calls -> [fact : BOOLEAN, count : Nat,
                               paths : SUBSET Paths, old : BOOLEAN]]
        /\ retry[Key(c)] \in Nat /\ MaxRetries \in Nat
    BY KeyTypes, GuardAssumption DEF GuardInv, TypeOK
  <1> USE DEF Quiet, history
  <1>1. CASE Journal(c)
    BY <1>0, <1>1 DEF Journal
  <1>2. CASE Scan(c)
    BY <1>0, <1>2 DEF Scan
  <1>3. CASE Check(c) \/ Admit(c)
    BY <1>0, <1>3 DEF Check, Admit
  <1>4. CASE Allow(c)
    BY <1>0, <1>4 DEF Allow, Exhausted
  <1>5. CASE Refuse(c)
    BY <1>0, <1>5 DEF Refuse, Exhausted
  <1>6. CASE Count(c)
    BY <1>0, <1>6 DEF Count
  <1>7. CASE Finish(c) \/ Advise(c) \/ TakePending(c)
    BY <1>0, <1>7 DEF Finish, Advise, TakePending
  <1>8. CASE ReleaseRead(c) \/ ReleaseWrite(c)
    BY <1>0, <1>8 DEF ReleaseRead, ReleaseWrite
  <1> QED
    BY <1>1, <1>2, <1>3, <1>4, <1>5, <1>6, <1>7, <1>8 DEF Hook

LEMMA AroundQuiet ==
  ASSUME GuardInv,
         \/ \E c \in Calls : Kill(c) \/ Abandon(c) \/ Drain(c)
         \/ \E a \in Agents : Tool(a)
         \/ SessionEnd \/ TakeAside \/ CarryForward \/ UNCHANGED vars
  PROVE  Quiet
  <1>0. pc \in [Calls -> Stages] /\ forced \subseteq Calls
    BY DEF GuardInv, TypeOK
  <1> USE DEF Quiet, history, hooks
  <1>1. ASSUME NEW c \in Calls, Kill(c) \/ Abandon(c) \/ Drain(c)
        PROVE  Quiet
    BY <1>0, <1>1 DEF Kill, Abandon, Drain
  <1>2. ASSUME NEW a \in Agents, Tool(a) PROVE Quiet
    BY <1>0, <1>2 DEF Tool, ClaimFile, ReleaseTool, SweepFind, SweepUnlink,
       Expire
  <1>3. CASE SessionEnd
    BY <1>0, <1>3 DEF SessionEnd
  <1>4. CASE TakeAside \/ CarryForward \/ UNCHANGED vars
    BY <1>0, <1>4 DEF TakeAside, CarryForward, vars
  <1> QED BY <1>1, <1>2, <1>3, <1>4

(* A host that runs one call of an agent at a time starts none while another *)
(* is on its way.                                                            *)
LEMMA OneStarts ==
  ASSUME GuardInv, OneAtATime, ~Parallel, [Next]_vars
  PROVE  OneAtATime'
  <1>0. pc \in [Calls -> Stages]
    BY DEF GuardInv, TypeOK
  <1>1. ASSUME \A c \in Calls : pc[c] \in Idle => pc'[c] \in Idle
        PROVE  OneAtATime'
    BY <1>1 DEF OneAtATime
  <1>2. ASSUME NEW c \in Calls, Hook(c) PROVE OneAtATime'
    <2>1. CASE Journal(c)
      BY <1>0, <2>1 DEF Journal, OneAtATime, Idle
    <2>2. CASE ~Journal(c)
      <3>1. \A d \in Calls : d # c => pc'[d] = pc[d]
        BY <1>0, <1>2, <2>2 DEF Hook, Scan, Check, Admit, Allow, Refuse, Count,
           Deny, Finish, Advise, TakePending, ReleaseRead, ReleaseWrite
      <3>2. pc[c] \notin Idle
        BY <1>2, <2>2 DEF Hook, Scan, Check, Admit, Allow, Refuse, Count, Deny,
           Finish, Advise, TakePending, ReleaseRead, ReleaseWrite, Idle
      <3> QED BY <1>1, <3>1, <3>2
    <2> QED BY <2>1, <2>2
  <1>3. ASSUME NEW c \in Calls, Kill(c) PROVE OneAtATime'
    BY <1>0, <1>1, <1>3 DEF Kill, Idle
  <1>4. ASSUME UNCHANGED pc PROVE OneAtATime'
    BY <1>1, <1>4
  <1>5. ASSUME \/ \E c \in Calls : Abandon(c) \/ Drain(c)
               \/ \E a \in Agents : Tool(a)
               \/ SessionEnd \/ TakeAside \/ CarryForward \/ UNCHANGED vars
        PROVE  UNCHANGED pc
    BY <1>5 DEF Abandon, Drain, Tool, ClaimFile, ReleaseTool, SweepFind,
       SweepUnlink, Expire, SessionEnd, TakeAside, CarryForward, vars, hooks
  <1> QED BY <1>2, <1>3, <1>4, <1>5 DEF Next

LEMMA StepDenials == GuardInv /\ DenialInv /\ [Next]_vars => DenialInv'
  <1> SUFFICES ASSUME GuardInv, DenialInv, [Next]_vars PROVE DenialInv'
    OBVIOUS
  <1>1. ~Parallel => OneAtATime'
    BY OneStarts DEF DenialInv
  <1>2. CountsDenied' /\ (~Parallel => CountsRefused')
    <2>1. ASSUME NEW c \in Calls, Deny(c)
          PROVE  CountsDenied' /\ (~Parallel => CountsRefused')
      BY <2>1, DenyCounts
    <2>2. ASSUME NEW c \in Calls, Hook(c), ~Deny(c) PROVE Quiet
      BY <2>2, HookQuiet
    <2>3. ASSUME \/ \E c \in Calls : Kill(c) \/ Abandon(c) \/ Drain(c)
                 \/ \E a \in Agents : Tool(a)
                 \/ SessionEnd \/ TakeAside \/ CarryForward \/ UNCHANGED vars
          PROVE  Quiet
      BY <2>3, AroundQuiet
    <2> QED BY <2>1, <2>2, <2>3, QuietKeeps DEF Next
  <1> QED BY <1>1, <1>2 DEF DenialInv

(* The retry limit is earned (leader.ts, shouldBlockWrite): whoever passes   *)
(* it was refused that often, and the agents that run one call at a time are *)
(* refused no oftener, whatever hooks of others, cleanups and session ends   *)
(* come between the two reads of a retry file and its write.                 *)
THEOREM LimitEarned == Spec => []FailOpen
  <1>1. Init => GuardInv /\ DenialInv
    BY InitInv, InitDenials
  <1>2. GuardInv /\ DenialInv /\ [Next]_vars => (GuardInv /\ DenialInv)'
    BY StepInv, StepDenials
  <1>3. GuardInv /\ DenialInv => FailOpen
    <2> SUFFICES ASSUME GuardInv, DenialInv PROVE FailOpen
      OBVIOUS
    <2>1. \A c : DeniedLike(c) = Denied(Key(c))
      BY DEF DeniedLike, Denied, Key
    <2>2. EarnedFailOpen
      <3> SUFFICES ASSUME NEW c \in forced
                   PROVE  Cardinality(DeniedLike(c)) >= MaxRetries
        BY DEF EarnedFailOpen
      <3>1. /\ Cardinality(Denied(Key(c))) \in Nat
            /\ MaxRetries <= Cardinality(Denied(Key(c)))
        BY DeniedCount DEF DenialInv, CountsDenied
      <3> QED BY <2>1, <3>1, GuardAssumption
    <2>3. BoundedDenials
      <3> SUFFICES ASSUME ~Parallel, NEW k \in Keys
                   PROVE  refusals[k] <= MaxRetries
        BY DEF BoundedDenials
      <3>1. refusals[k] <= retry[k] /\ retry[k] <= MaxRetries
        BY DEF DenialInv, CountsRefused
      <3> QED BY <3>1, GuardAssumption DEF GuardInv, TypeOK
    <2> QED BY <2>2, <2>3 DEF FailOpen
  <1> QED BY <1>1, <1>2, <1>3, PTL DEF Spec
=============================================================================
