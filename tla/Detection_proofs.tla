--------------------------- MODULE Detection_proofs ---------------------------
(***************************************************************************)
(* Theorems of Detection, for any tasks, calls, files, symbols and any     *)
(* order of the gateway's dispatches and the detector's passes.            *)
(***************************************************************************)
EXTENDS Detection, Integers, TLAPS, FiniteSetTheorems, SequenceTheorems,
        WellFoundedInduction, NaturalsInduction

-------------------------------------------------------------------------------
(* Sets of events: what EventRules asks of them.                           *)

(* Every set of numbers has a least one.                                   *)
LEMMA Least ==
  ASSUME NEW S, S \subseteq Nat, S # {}
  PROVE  \E n \in S : \A m \in S : n <= m
<1>1. IsWellFoundedOn(OpToRel(<, Nat), Nat)  BY NatLessThanWellFounded
<1>2. \E n \in S : \A m \in S : ~ (<<m, n>> \in OpToRel(<, Nat))
  BY <1>1, WFMin, Zenon
<1>3. \A m, n \in Nat : <<m, n>> \in OpToRel(<, Nat) <=> <<m, n>> \in {ss \in Nat \X Nat : ss[1] < ss[2]}
  BY Zenon DEF OpToRel
<1>4. \E n \in S : \A m \in S : ~ (<<m, n>> \in {ss \in Nat \X Nat : ss[1] < ss[2]})
  BY <1>2, <1>3, Zenon
<1>5. PICK n \in S : \A m \in S : ~ (<<m, n>> \in {ss \in Nat \X Nat : ss[1] < ss[2]})
  BY <1>4
<1>6. ASSUME NEW m \in S PROVE n <= m
  <2>1. m \in Nat /\ n \in Nat  OBVIOUS
  <2>2. ~ (m < n)  BY <1>5, <2>1
  <2> QED  BY <2>1, <2>2
<1> QED  BY <1>6

Children(E, R) == R \cup {e \in E : e.cause \in {d.id : d \in R}}
Closed(E, R) == \A e \in E : e.cause \in {d.id : d \in R} => e \in R
Roots(E) == {e \in E : e.cause \notin {d.id : d \in E}}
Below(E) == CHOOSE below : below =
  [R \in SUBSET E |-> IF Children(E, R) = R THEN R ELSE below[Children(E, R)]]

LEMMA AcyclicBelow == \A E : Acyclic(E) <=> Below(E)[Roots(E)] = E
  BY DEF Acyclic, Below, Children, Roots

(* The recursive function of EventRules!Acyclic exists: by induction on    *)
(* how many events its argument leaves out.                                *)
LEMMA BelowDefined ==
  ASSUME NEW E, IsFiniteSet(E)
  PROVE  Below(E) = [R \in SUBSET E |-> IF Children(E, R) = R THEN R ELSE Below(E)[Children(E, R)]]
<1> DEFINE Size(R) == Cardinality(E \ R)
           Near(n) == {R \in SUBSET E : Size(R) <= n}
           Good(n) == \E g : g = [R \in Near(n) |-> IF Children(E, R) = R THEN R ELSE g[Children(E, R)]]
           Bad == {n \in Nat : ~ Good(n)}
<1>1. \A R \in SUBSET E : Size(R) \in Nat /\ Size(R) <= Cardinality(E)
  BY FS_Subset, FS_CardinalityType
<1>2. \A R \in SUBSET E : Children(E, R) \in SUBSET E  BY DEF Children
<1>3. ASSUME NEW R \in SUBSET E, Children(E, R) # R
      PROVE  Size(Children(E, R)) < Size(R)
  <2>1. E \ Children(E, R) \subseteq E \ R /\ E \ Children(E, R) # E \ R
    BY <1>2, <1>3 DEF Children
  <2>2. IsFiniteSet(E \ R) BY FS_Subset
  <2>3. /\ Cardinality(E \ Children(E, R)) <= Cardinality(E \ R)
        /\ Cardinality(E \ Children(E, R)) # Cardinality(E \ R)
    BY <2>1, <2>2, FS_Subset
  <2> QED  BY <1>1, <1>2, <2>3
<1>4. ASSUME NEW n \in Nat, n = 0 \/ Good(n - 1)
      PROVE  Good(n)
  <2>1. PICK g : n # 0 => g = [R \in Near(n - 1) |-> IF Children(E, R) = R THEN R ELSE g[Children(E, R)]]
    BY <1>4
  <2> DEFINE h == [R \in Near(n) |-> IF Children(E, R) = R THEN R ELSE g[Children(E, R)]]
  <2>2. \A R \in Near(n) : Children(E, R) # R => n # 0 /\ Children(E, R) \in Near(n - 1)
    <3> SUFFICES ASSUME NEW R \in Near(n), Children(E, R) # R
                 PROVE  n # 0 /\ Children(E, R) \in Near(n - 1)
      OBVIOUS
    <3>1. R \in SUBSET E /\ Size(R) <= n  OBVIOUS
    <3>2. Size(Children(E, R)) < Size(R)  BY <1>3, <3>1
    <3>3. Size(R) \in Nat /\ Size(Children(E, R)) \in Nat  BY <1>1, <1>2, <3>1
    <3>4. n # 0 /\ Size(Children(E, R)) <= n - 1
      <4> HIDE DEF Size
      <4> QED  BY <3>1, <3>2, <3>3
    <3> QED  BY <1>2, <3>1, <3>4
  <2>3. Near(n - 1) \subseteq Near(n)
    BY <1>1
  <2>4. \A R \in Near(n - 1) : n # 0 => h[R] = g[R]
    <3> SUFFICES ASSUME NEW R \in Near(n - 1), n # 0 PROVE h[R] = g[R]  OBVIOUS
    <3>1. g[R] = IF Children(E, R) = R THEN R ELSE g[Children(E, R)]  BY <2>1
    <3> HIDE DEF Near
    <3> QED  BY <2>3, <3>1
  <2>5. \A R \in Near(n) : h[R] = IF Children(E, R) = R THEN R ELSE h[Children(E, R)]
    <3> HIDE DEF Near
    <3> QED  BY <2>2, <2>4
  <2>6. h = [R \in Near(n) |-> IF Children(E, R) = R THEN R ELSE h[Children(E, R)]]
    <3> HIDE DEF Near
    <3> QED BY <2>5
  <2> QED  BY <2>6
<1>5. Bad = {}
  <2> SUFFICES ASSUME Bad # {} PROVE FALSE OBVIOUS
  <2> HIDE DEF Good
  <2>1. PICK n \in Bad : \A m \in Bad : n <= m  BY Least
  <2>2. n = 0 \/ Good(n - 1)  BY <2>1
  <2> QED  BY <1>4, <2>2
<1>6. Cardinality(E) \in Nat /\ Near(Cardinality(E)) = SUBSET E  BY <1>1, FS_CardinalityType
<1>7. Good(Cardinality(E))
  <2> HIDE DEF Good, Near
  <2> QED BY <1>5, <1>6
<1>8. \E g : g = [R \in SUBSET E |-> IF Children(E, R) = R THEN R ELSE g[Children(E, R)]]
  BY <1>6, <1>7, Zenon
<1> QED  BY <1>8, Zenon DEF Below

(* An event set is acyclic when only the whole of it holds its roots and   *)
(* all that its events cause.                                              *)
LEMMA AcyclicClosed ==
  ASSUME NEW E, IsFiniteSet(E)
  PROVE  Acyclic(E) <=> \A R \in SUBSET E : Roots(E) \subseteq R /\ Closed(E, R) => R = E
<1> DEFINE Hull(R) == /\ R \subseteq Below(E)[R] /\ Below(E)[R] \in SUBSET E /\ Closed(E, Below(E)[R])
                       /\ \A X \in SUBSET E : R \subseteq X /\ Closed(E, X) => Below(E)[R] \subseteq X
           Size(R) == Cardinality(E \ R)
           Bad == {n \in Nat : \E R \in SUBSET E : Size(R) = n /\ ~ Hull(R)}
<1>1. \A R \in SUBSET E : Size(R) \in Nat /\ IsFiniteSet(E \ R)
  BY FS_Subset, FS_CardinalityType
<1>2. \A R \in SUBSET E : Children(E, R) \in SUBSET E  BY DEF Children
<1>3. ASSUME NEW R \in SUBSET E, Children(E, R) # R
      PROVE  Size(Children(E, R)) < Size(R)
  <2>1. E \ Children(E, R) \subseteq E \ R /\ E \ Children(E, R) # E \ R
    BY <1>2, <1>3 DEF Children
  <2>3. /\ Cardinality(E \ Children(E, R)) <= Cardinality(E \ R)
        /\ Cardinality(E \ Children(E, R)) # Cardinality(E \ R)
    BY <2>1, <1>1, FS_Subset
  <2> QED  BY <1>1, <1>2, <2>3
<1>4. \A R \in SUBSET E : Below(E)[R] = IF Children(E, R) = R THEN R ELSE Below(E)[Children(E, R)]
  BY BelowDefined
<1>5. ASSUME NEW R \in SUBSET E, Children(E, R) # R => Hull(Children(E, R))
      PROVE  Hull(R)
  <2>1. CASE Children(E, R) = R
    <3>1. Below(E)[R] = R BY <1>4, <2>1
    <3>2. Closed(E, R) BY <2>1 DEF Children, Closed
    <3> QED BY <3>1, <3>2
  <2>2. CASE Children(E, R) # R
    <3>1. Below(E)[R] = Below(E)[Children(E, R)]  BY <1>4, <2>2
    <3>2. R \subseteq Children(E, R) BY DEF Children
    <3>3. \A X \in SUBSET E : R \subseteq X /\ Closed(E, X) => Children(E, R) \subseteq X
      BY DEF Children, Closed
    <3> QED BY <1>5, <2>2, <3>1, <3>2, <3>3
  <2> QED BY <2>1, <2>2
<1>6. Bad = {}
  <2> SUFFICES ASSUME Bad # {} PROVE FALSE OBVIOUS
  <2> HIDE DEF Hull
  <2>1. PICK n \in Bad : \A m \in Bad : n <= m  BY Least
  <2>2. PICK R \in SUBSET E : Size(R) = n /\ ~ Hull(R) BY <2>1
  <2>3. Children(E, R) # R => Hull(Children(E, R))
    <3> SUFFICES ASSUME Children(E, R) # R, ~ Hull(Children(E, R)) PROVE FALSE  OBVIOUS
    <3>1. Size(Children(E, R)) < n /\ Size(Children(E, R)) \in Nat /\ n \in Nat
      BY <1>1, <1>2, <1>3, <2>2
    <3>2. Size(Children(E, R)) \in Bad  BY <1>2, <3>1
    <3> HIDE DEF Bad, Size
    <3> QED  BY <2>1, <3>1, <3>2
  <2> QED  BY <1>5, <2>2, <2>3
<1>7. Hull(Roots(E))
  <2>1. Roots(E) \in SUBSET E BY DEF Roots
  <2> HIDE DEF Hull
  <2> QED BY <1>1, <1>6, <2>1
<1> QED  BY <1>7, AcyclicBelow
-----------------------------------------------------------------------------
(* As many values as elements: a function that takes no value twice.       *)
LEMMA CountedApart ==
  ASSUME NEW S, IsFiniteSet(S), NEW f, f = [x \in S |-> f[x]]
  PROVE  Cardinality({f[x] : x \in S}) = Cardinality(S) <=> \A x, y \in S : f[x] = f[y] => x = y
<1> DEFINE T == {f[x] : x \in S}
<1>1. f \in Surjection(S, T)  BY DEF Surjection
<1>2. Cardinality(T) = Cardinality(S) <=> f \in Injection(S, T)  BY <1>1, FS_Surjection
<1>3. f \in Injection(S, T) <=> \A x, y \in S : f[x] = f[y] => x = y
  BY <1>1 DEF Injection, IsInjective, Surjection
<1> QED  BY <1>2, <1>3

IdsUnique(E) == \A d, e \in E : d.id = e.id => d = e
RootsUnique(E) == \A d, e \in E : d.cause = None /\ e.cause = None /\ d.corr = e.corr => d = e
SeqsUnique(E) == \A d, e \in E : d.seq # None /\ e.seq # None /\ d.src = e.src /\ d.seq = e.seq => d = e

(* The counting rules of EventRules, as uniqueness.                        *)
LEMMA RuleOfIds ==
  ASSUME NEW E, IsFiniteSet(E)
  PROVE  OneContent(E) <=> IdsUnique(E)
<1> DEFINE f == [e \in E |-> e.id]
<1>1. \A e \in E : f[e] = e.id  OBVIOUS
<1>2. {f[e] : e \in E} = {e.id : e \in E}  BY <1>1
<1>3. Cardinality({f[e] : e \in E}) = Cardinality(E) <=> \A d, e \in E : f[d] = f[e] => d = e
  BY CountedApart
<1> QED  BY <1>1, <1>2, <1>3 DEF OneContent, Distinct, IdsUnique

LEMMA RuleOfRoots ==
  ASSUME NEW E, IsFiniteSet(E)
  PROVE  OneRoot(E) <=> RootsUnique(E)
<1> DEFINE S == {e \in E : e.cause = None}
           f == [e \in S |-> e.corr]
<1>1. \A e \in S : f[e] = e.corr  OBVIOUS
<1>2. {f[e] : e \in S} = {e.corr : e \in S}  BY <1>1
<1>3. IsFiniteSet(S)  BY FS_Subset
<1>4. Cardinality({f[e] : e \in S}) = Cardinality(S) <=> \A d, e \in S : f[d] = f[e] => d = e
  BY <1>3, CountedApart
<1> QED  BY <1>1, <1>2, <1>4 DEF OneRoot, Distinct, RootsUnique

LEMMA RuleOfSequences ==
  ASSUME NEW E, IsFiniteSet(E)
  PROVE  SequenceUnique(E) <=> SeqsUnique(E)
<1> DEFINE S == {e \in E : e.seq # None}
           f == [e \in S |-> <<e.src, e.seq>>]
<1>1. \A e \in S : f[e] = <<e.src, e.seq>>  OBVIOUS
<1>2. {f[e] : e \in S} = {<<e.src, e.seq>> : e \in S}  BY <1>1
<1>3. IsFiniteSet(S)  BY FS_Subset
<1>4. Cardinality({f[e] : e \in S}) = Cardinality(S) <=> \A d, e \in S : f[d] = f[e] => d = e
  BY <1>3, CountedApart
<1> QED  BY <1>1, <1>2, <1>4 DEF SequenceUnique, Distinct, SeqsUnique

(* Looking an event up by its id.                                          *)
LEMMA AtId ==
  ASSUME NEW E, IdsUnique(E), NEW e \in E
  PROVE  At(E, e.id) = e /\ Has(E, e.id)
  BY DEF At, Has, IdsUnique

LEMMA AtHas ==
  ASSUME NEW E, NEW i, Has(E, i)
  PROVE  At(E, i) \in E /\ At(E, i).id = i
  BY DEF At, Has

(* What a larger set of events says of an event that was there before.     *)
LEMMA AtStays ==
  ASSUME NEW E, NEW F, E \subseteq F, IdsUnique(F), NEW i, Has(E, i)
  PROVE  Has(F, i) /\ At(F, i) = At(E, i) /\ At(E, i) \in E /\ At(E, i).id = i
<1>1. At(E, i) \in E /\ At(E, i).id = i  BY AtHas
<1>2. At(F, At(E, i).id) = At(E, i) /\ Has(F, At(E, i).id)  BY <1>1, AtId
<1> QED  BY <1>1, <1>2

LEMMA IsAStays ==
  ASSUME NEW E, NEW F, E \subseteq F, IdsUnique(F), NEW i, NEW types, IsA(E, i, types)
  PROVE  /\ IsA(F, i, types) /\ Has(E, i)
         /\ At(F, i) = At(E, i) /\ At(E, i) \in E /\ At(E, i).id = i /\ At(E, i).type \in types
<1>1. Has(E, i) BY DEF IsA, Has
<1>2. At(F, i) = At(E, i) /\ At(E, i) \in E /\ At(E, i).id = i  BY <1>1, AtStays
<1>3. At(E, i).type \in types  BY <1>2 DEF IsA, IdsUnique
<1> QED BY <1>1, <1>2, <1>3 DEF IsA

(***************************************************************************)
(* What is valid stays valid when more is appended that is no evidence.    *)
(***************************************************************************)
LEMMA EventStays ==
  ASSUME NEW E, NEW F, E \subseteq F, IdsUnique(F),
         \A e \in F \ E : e.type # "evidence.derived",
         NEW e \in E, EventValid(E, e)
  PROVE  EventValid(F, e)
<1>0. \A t : OfType(E, t) \subseteq OfType(F, t)  BY DEF OfType
<1>0a. OfType(E, "evidence.derived") = OfType(F, "evidence.derived")  BY DEF OfType
<1>1. CausedProperly(F, e)  BY DEF EventValid, CausedProperly
<1>2. ResourceFits(e)  BY DEF EventValid
<1>3. ASSUME e.type = "attribution.corrected" PROVE CorrectionValid(F, e)
  <2>1. CorrectionValid(E, e) BY <1>3 DEF EventValid
  <2>2. Has(E, e.body.of) BY <2>1 DEF CorrectionValid
  <2>3. At(F, e.body.of) = At(E, e.body.of) /\ Has(F, e.body.of)  BY <2>2, AtStays
  <2> QED BY <2>1, <2>3 DEF CorrectionValid
<1>4. ASSUME e.type = "tool.completed" PROVE CompletionValid(F, e)
  <2>1. CompletionValid(E, e) BY <1>4 DEF EventValid
  <2> QED BY <2>1, <1>0 DEF CompletionValid
<1>5. ASSUME e.type = "finding.feedback.created" PROVE FeedbackValid(F, e)
  <2>1. FeedbackValid(E, e) BY <1>5 DEF EventValid
  <2>2. \A i \in e.body.evidence : Has(F, i) /\ At(F, i).wt = e.wt /\ At(F, i).corr = e.corr
    BY <2>1, AtStays DEF FeedbackValid
  <2> QED BY <2>1, <2>2, <1>0 DEF FeedbackValid
<1>6. ASSUME e.type = "write.dependent" PROVE DependentWriteValid(F, e)
  <2> DEFINE w == e.body
  <2>1. DependentWriteValid(E, e) BY <1>6 DEF EventValid
  <2>2. IsA(F, w.read, {"file.read"}) /\ At(F, w.read) = At(E, w.read)
    BY <2>1, IsAStays DEF DependentWriteValid
  <2>3. IsA(F, e.cause, ChangeTypes) /\ At(F, e.cause) = At(E, e.cause)
    BY <2>1, IsAStays DEF DependentWriteValid
  <2>4. ASSUME w.against # None PROVE ComparisonValid(F, e, At(F, w.read))
    <3>1. ComparisonValid(E, e, At(E, w.read)) BY <2>1, <2>4 DEF DependentWriteValid
    <3>2. IsA(F, w.against, ChangeTypes) /\ At(F, w.against) = At(E, w.against)
      BY <3>1, IsAStays DEF ComparisonValid
    <3>3. SymbolEvidence(F, w.against) = SymbolEvidence(E, w.against)  BY <1>0a DEF SymbolEvidence
    <3> QED BY <3>1, <3>2, <3>3, <2>2 DEF ComparisonValid
  <2> QED BY <2>1, <2>2, <2>3, <2>4, <1>0 DEF DependentWriteValid
<1>7. ASSUME e.type = "write.dependent", e.body.target # None PROVE DependentWriteProven(F, e)
  <2> DEFINE w == e.body
  <2>1. DependentWriteValid(E, e) /\ DependentWriteProven(E, e) BY <1>7 DEF EventValid
  <2>0. IsA(E, w.read, {"file.read"})  BY <2>1 DEF DependentWriteValid
  <2>2. IsA(F, w.read, {"file.read"}) /\ At(F, w.read) = At(E, w.read)  BY <2>0, IsAStays
  <2>3. IsA(F, w.effect, {"file.changed"}) /\ At(F, w.effect) = At(E, w.effect)
    BY <2>1, IsAStays DEF DependentWriteProven
  <2>4. IsA(F, w.completion, {"tool.completed"}) /\ At(F, w.completion) = At(E, w.completion)
    BY <2>1, IsAStays DEF DependentWriteProven
  <2> QED BY <2>1, <2>2, <2>3, <2>4 DEF DependentWriteProven
<1>8. ASSUME e.type = "task.concurrency.observed" PROVE ConcurrencyValid(F, e)
  <2>1. ConcurrencyValid(E, e) BY <1>8 DEF EventValid
  <2>2. \A k \in 1..2 : /\ IsA(F, e.body.change[k], {"symbol.changed"})
                        /\ At(F, e.body.change[k]) = At(E, e.body.change[k])
    <3> TAKE k \in 1..2
    <3>1. IsA(E, e.body.change[k], {"symbol.changed"})  BY <2>1 DEF ConcurrencyValid
    <3> QED  BY <3>1, IsAStays
  <2> QED BY <2>1, <2>2 DEF ConcurrencyValid
<1>9. ASSUME e.type = "evidence.derived"
      PROVE  EvidenceValid(F, e) /\ UnambiguousProof(F, e) /\ (e.body.target # None => EvidenceProven(F, e))
  <2>1. /\ EvidenceValid(E, e) /\ UnambiguousProof(E, e)
        /\ e.body.target # None => EvidenceProven(E, e)
    BY <1>9 DEF EventValid
  <2>2. EvidenceValid(F, e)  BY <2>1, <1>0 DEF EvidenceValid, Has
  <2>3. UnambiguousProof(F, e)  BY <2>1, <1>0a DEF UnambiguousProof
  <2>4. ASSUME e.body.target # None PROVE EvidenceProven(F, e)
    <3>1. Has(E, e.body.of) BY <2>1 DEF EvidenceValid, Has, OfType
    <3>2. At(F, e.body.of) = At(E, e.body.of)  BY <3>1, AtStays
    <3> QED BY <2>1, <2>4, <3>2 DEF EvidenceProven
  <2> QED BY <2>2, <2>3, <2>4
<1> QED  BY <1>1, <1>2, <1>3, <1>4, <1>5, <1>6, <1>7, <1>8, <1>9 DEF EventValid

(* The rules a valid set obeys, and the empty set obeys them.              *)
LEMMA ValidRules ==
  ASSUME NEW E, IsFiniteSet(E)
  PROVE  ValidSet(E) <=> /\ IdsUnique(E) /\ RootsUnique(E) /\ SeqsUnique(E)
                         /\ \A e \in E : EventValid(E, e)
                         /\ Acyclic(E)
  BY RuleOfIds, RuleOfRoots, RuleOfSequences DEF ValidSet, Invalid

(* Events with new ids, caused by what is there or the root of a           *)
(* correlation of their own, none of them evidence.                        *)
LEMMA ValidGrows ==
  ASSUME NEW E, IsFiniteSet(E), ValidSet(E), NEW N, IsFiniteSet(N),
         IdsUnique(E \cup N), SeqsUnique(E \cup N), RootsUnique(E \cup N),
         \A e \in E \cup N : e.id # None,
         \A e \in N : /\ EventValid(E \cup N, e) /\ e.type # "evidence.derived"
                      /\ e.cause # None => Has(E, e.cause)
  PROVE  ValidSet(E \cup N)
<1> DEFINE F == E \cup N
<1>1. IsFiniteSet(F)  BY FS_Union
<1>2. \A e \in E : EventValid(E, e)  BY ValidRules
<1>3. \A e \in E : EventValid(F, e)  BY <1>2, EventStays
<1>4. Acyclic(F)
  <2> SUFFICES ASSUME NEW R \in SUBSET F, Roots(F) \subseteq R, Closed(F, R)
               PROVE  R = F
    BY <1>1, AcyclicClosed
  <2>1. Closed(E, R \cap E)  BY DEF Closed
  <2>2. \A e \in E : e.cause # None => Has(E, e.cause)
    BY <1>2 DEF EventValid, CausedProperly, Has
  <2>3. \A e \in F : e.cause = None => e \in R
    BY DEF Roots
  <2>4. Roots(E) \subseteq R \cap E  BY <2>2, <2>3 DEF Roots, Has
  <2>5. R \cap E = E
    <3>1. Acyclic(E) BY ValidRules
    <3> QED BY <3>1, <2>1, <2>4, AcyclicClosed
  <2>6. \A e \in N : e \in R
    <3> SUFFICES ASSUME NEW e \in N, e.cause # None PROVE e \in R  BY <2>3
    <3>1. Has(E, e.cause) OBVIOUS
    <3> QED BY <3>1, <2>5 DEF Closed, Has
  <2> QED BY <2>5, <2>6
<1> QED  BY <1>1, <1>3, <1>4, ValidRules

(* No event at all is a valid set.                                         *)
LEMMA ValidEmpty == ValidSet({})
<1>1. IsFiniteSet({}) BY FS_EmptySet
<1>2. Acyclic({}) BY <1>1, AcyclicClosed
<1> QED BY <1>1, <1>2, ValidRules DEF IdsUnique, RootsUnique, SeqsUnique

-------------------------------------------------------------------------------
(* The inductive invariant.                                                *)

(***************************************************************************)
(* Event ids are numbered by the size of the log, or made from other ids.  *)
(***************************************************************************)
Drawn(i, n) ==
  \/ Len(i) = 3
  \/ i[1] \in {"proof", "decision"}
  \/ i[1] \in {"evt", "read"} /\ \E k \in 1..n : i[2] = {k}

Identified(L) == IsFiniteSet(L) /\ IdsUnique(L) /\ \A e \in L : Drawn(e.id, Cardinality(L))

BegunCalls == {c \in Calls : pc[c] \notin {"new", "queued"}}
Stages == {"opening", "executing", "closing", "changes", "analysing", "completing",
           "claiming", "proving"}
Early == {"opening", "executing", "closing"}
Late == {"claiming", "proving"}

Touched(c, w, f) == {<<c, f>>, <<w, f>>} \cap wrote # {}

(* Every correlation is that of a call that was begun, or of a change seen *)
(* outside one.                                                            *)
Correlated(e) == \/ \E c \in BegunCalls : e.corr = <<"call", c>>
                 \/ \E d \in log : e.corr = <<"outside", d.id>>

Unsequenced == {"finding.created", "decision.created", "symbol.changed", "file.changed"}
Sequenced(e) == /\ e.seq # None => e.src \in Producers /\ e.seq \in Nat /\ e.seq < seqs[e.src]
                /\ e.type \in Unsequenced => e.seq = None

(* A change of a file is the evidence of its version, and of the versions  *)
(* of symbols it causes.                                                   *)
Versioned(e) ==
  /\ e.type = "file.changed" => e.body.after.ev = e.id
  /\ e.type = "symbol.changed" => /\ e.id[1] = "evt" /\ e.id = <<"evt", e.id[2]>>
                                  /\ e.body.after.ev = e.cause
                                  /\ IsA(log, e.cause, {"file.changed"})

ComparesRead(e) == (e.type = "write.dependent" /\ e.body.target # None) =>
  \E r, a \in log : /\ r.id = e.body.read /\ r.type = "file.read"
                    /\ a.id = e.body.against /\ a.type \in ChangeTypes
                    /\ a.body.res = r.body.res

(* A change of a lifetime is one a call of it made, in its context.        *)
ChangeOf(l, e) ==
  /\ e.type = "symbol.changed"
  /\ <<e.wt, e.agent, e.task>> = <<Life[l].wt, Life[l].agent, Life[l].task>>
  /\ \E c \in Calls : e.corr = <<"call", c>> /\ Call[c].as = l /\ Touched(c, e.wt, e.body.res[2])

Credited(e) == e.type = "tool.completed" => \A i \in e.body.attributed :
  \E d \in log : d.id = i /\ <<e.corr[2], d.body.res[2]>> \in wrote

ProofHolds(p) == p.type = "task.concurrency.observed" =>
  /\ {p.body.life[1], p.body.life[2]} \in together
  /\ DOMAIN p.body.change = 1..2
  /\ p.body.agent[1] # p.body.agent[2]
  /\ \A k \in 1..2 : \E e \in log :
       /\ e.id = p.body.change[k] /\ e.type = "symbol.changed" /\ e.agent = p.body.agent[k]
       /\ Life[p.body.life[k]].wt = e.wt
       /\ \E c \in Calls : /\ e.corr = <<"call", c>> /\ Call[c].as = p.body.life[k]
                           /\ Touched(c, e.wt, e.body.res[2])

Decides(f, d) == /\ d.type = "decision.created" /\ d.body.decision = <<"decision", f.id>>
                 /\ d.body.finding = f.id /\ d.wt = f.wt /\ d.corr = f.corr

FindingTypes == {"same_symbol_overlap", "exported_contract_invalidation", "stale_read_before_write"}
Supported(says) == /\ says.type \in FindingTypes /\ Grounded(says)
                   /\ \A i \in says.evidence : Has(log, i)

FindingHolds(f) == f.type = "finding.created" =>
  /\ f.body.finding = f.id /\ Supported(f.body.says)
  /\ \E d \in log : Decides(f, d)

EventFields == {"id", "type", "src", "seq", "wt", "agent", "task", "corr", "cause", "body"}

EventInv(e) ==
  /\ DOMAIN e = EventFields
  /\ Correlated(e) /\ Sequenced(e) /\ Versioned(e) /\ ComparesRead(e)
  /\ Credited(e) /\ ProofHolds(e) /\ FindingHolds(e)
LogInv == Identified(log) /\ \A e \in log : EventInv(e)

Shapes == /\ disk = [w \in Worktrees |-> [f \in Files |-> disk[w][f]]]
          /\ pc = [c \in Calls |-> pc[c]]
          /\ seqs \in [Producers -> Nat]
          /\ lifes = [l \in Lifecycles |-> [state |-> lifes[l].state, overlaps |-> lifes[l].overlaps,
                                            changes |-> lifes[l].changes]]

LifeInv == \A l \in Lifecycles :
  /\ \A m \in lifes[l].overlaps : {l, m} \in together
  /\ \A i \in lifes[l].changes : \E e \in log : e.id = i /\ ChangeOf(l, e)

(***************************************************************************)
(* The dispatch in progress.                                               *)
(***************************************************************************)
InContext(r, e) ==
  /\ e.wt = r.who.wt /\ e.agent = r.who.agent /\ e.task = r.who.task
  /\ e.corr = <<"call", r.call>>

OwnChange(r, e) ==
  /\ e \in log /\ e.type = "file.changed" /\ e.src = Watcher /\ e.cause = r.request
  /\ InContext(r, e) /\ e.id \in r.effects
  /\ \E f \in Files : e.body.res = File(f) /\ Touched(r.call, r.who.wt, f)

Effect(r, i) == \E e \in log : e.id = i /\
  \/ e \in r.own
  \/ e.type = "symbol.changed" /\ InContext(r, e) /\ Touched(r.call, e.wt, e.body.res[2])

DoneOf(r, d) ==
  /\ d.id = r.done /\ d.type = "tool.completed" /\ InContext(r, d) /\ d.cause = r.request
  /\ d.body.request = r.request /\ d.body.effects = r.effects
  /\ d.body.outcome = r.outcome

RunFields == {"call", "who", "target", "seq", "request", "read", "meta", "before", "foreign",
              "outcome", "todo", "change", "effects", "own", "outside", "analysed", "whole",
              "gap", "done"}

RunBegun(r) ==
  /\ DOMAIN r = RunFields
  /\ r.call \in Calls /\ pc[r.call] \in Stages
  /\ r.who = Life[Call[r.call].as]
  /\ r.seq \in Nat /\ r.seq + 1 < seqs[r.who.src]
  /\ ToolRequested(r) \in log

RunEnding(r) ==
  /\ pc[r.call] \notin Late => \A e \in log : e.src = r.who.src /\ e.seq # None => e.seq <= r.seq
  /\ pc[r.call] \in Late => \E d \in log : DoneOf(r, d)

RunEffects(r) ==
  /\ pc[r.call] \in Early => r.own = {} /\ r.effects = {} /\ r.analysed = {}
  /\ \A e \in r.own : OwnChange(r, e)
  /\ IsFiniteSet(r.own)
  /\ \A e, d \in r.own : e.body.res = d.body.res => e = d
  /\ \A i \in r.effects : Effect(r, i)
  /\ r.analysed \subseteq {e \in log : e.type = "file.changed"}
  /\ pc[r.call] = "analysing" =>
       /\ r.change \in log /\ r.change.type = "file.changed"
       /\ r.change.id \in r.effects => r.change \in r.own

RunWindow(r) ==
  /\ pc[r.call] \in Stages \ {"opening", "executing"} =>
       (r.outcome = "succeeded" => \A w \in Call[r.call].writes : <<r.call, w[1]>> \in wrote)
  /\ pc[r.call] \in Early => (r.before # None => \A f \in Files :
       disk[r.who.wt][f] # r.before[f] => Touched(r.call, r.who.wt, f))
  /\ pc[r.call] = "opening" => r.before = None
  /\ IsFiniteSet(r.foreign) /\ \A x \in r.foreign : ~x.own

RunTodo(r) == pc[r.call] \in {"changes", "analysing"} =>
  /\ r.todo \in Seq(Range(r.todo))
  /\ \A k \in DOMAIN r.todo : r.todo[k].own =>
       /\ r.todo[k].file \in Files /\ Touched(r.call, r.who.wt, r.todo[k].file)
       /\ \A e \in r.own : e.body.res # File(r.todo[k].file)
  /\ \A j, k \in DOMAIN r.todo :
       r.todo[j].own /\ r.todo[k].own /\ r.todo[j].file = r.todo[k].file => j = k

RunInv == run # Idle =>
  RunBegun(run) /\ RunEnding(run) /\ RunEffects(run) /\ RunWindow(run) /\ RunTodo(run)

(***************************************************************************)
(* The record pairs a detection has still to append.                       *)
(***************************************************************************)
PairHolds(p) ==
  /\ ToSet(p) = {p[1], p[2]}
  /\ DOMAIN p[1] = EventFields /\ DOMAIN p[2] = EventFields
  /\ p[1].type = "finding.created" /\ p[1].seq = None
  /\ \E x, y, z : p[1].id = <<x, y, z>>
  /\ p[1].body.finding = p[1].id /\ Supported(p[1].body.says)
  /\ \E e \in log : e.corr = p[1].corr
  /\ p[2].seq = None /\ p[2].id = <<"decision", p[1].id>> /\ Decides(p[1], p[2])

DetectorInv == detector \in Seq(Range(detector)) /\ \A k \in DOMAIN detector : PairHolds(detector[k])

IInv == LogInv /\ Shapes /\ LifeInv /\ RunInv /\ DetectorInv

-------------------------------------------------------------------------------
(* What a longer log keeps.                                                *)

(* Numbered from above the size of the log, an id is new.                  *)
LEMMA FreshIds ==
  ASSUME NEW L, Identified(L), NEW k \in Nat, k > Cardinality(L)
  PROVE  /\ ~ Has(L, <<"evt", {k}>>) /\ ~ Has(L, <<"read", {k}>>)
         /\ Drawn(<<"evt", {k}>>, k) /\ Drawn(<<"read", {k}>>, k)
<1>1. Cardinality(L) \in Nat  BY FS_CardinalityType DEF Identified
<1>2. ASSUME NEW t \in {"evt", "read"}, NEW e \in L, e.id = <<t, {k}>> PROVE FALSE
  <2>1. Drawn(<<t, {k}>>, Cardinality(L)) BY <1>2 DEF Identified
  <2>2. <<t, {k}>>[1] = t /\ <<t, {k}>>[2] = {k} /\ Len(<<t, {k}>>) = 2  OBVIOUS
  <2>3. PICK j \in 1..Cardinality(L) : {k} = {j}  BY <2>1, <2>2 DEF Drawn
  <2>4. k = j  BY <2>3
  <2> QED BY <1>1, <2>4
<1>3. ASSUME NEW t \in {"evt", "read"} PROVE Drawn(<<t, {k}>>, k)
  <2>1. <<t, {k}>>[1] = t /\ <<t, {k}>>[2] = {k}  OBVIOUS
  <2>2. k \in 1..k  BY <1>1
  <2> QED BY <2>1, <2>2 DEF Drawn
<1> QED  BY <1>2, <1>3 DEF Has

LEMMA DrawnMore ==
  ASSUME NEW i, NEW m \in Nat, NEW n \in Nat, m <= n, Drawn(i, m)
  PROVE  Drawn(i, n)
  BY DEF Drawn

(* What appending keeps of the identities.                                 *)
LEMMA AddMany ==
  ASSUME NEW L, Identified(L), NEW N, IsFiniteSet(N), IdsUnique(L \cup N),
         \A e \in N : Drawn(e.id, Cardinality(L \cup N))
  PROVE  Identified(L \cup N)
<1>1. IsFiniteSet(L \cup N) /\ IsFiniteSet(L)  BY FS_Union DEF Identified
<1>2. Cardinality(L) \in Nat /\ Cardinality(L \cup N) \in Nat /\ Cardinality(L) <= Cardinality(L \cup N)
  BY <1>1, FS_CardinalityType, FS_Subset
<1>3. \A e \in L : Drawn(e.id, Cardinality(L \cup N))
  BY <1>2, DrawnMore DEF Identified
<1> QED BY <1>1, <1>3 DEF Identified

LEMMA AddOne ==
  ASSUME NEW L, Identified(L), NEW e, ~ Has(L, e.id), Drawn(e.id, Cardinality(L) + 1)
  PROVE  /\ Identified(L \cup {e})
         /\ Cardinality(L) \in Nat /\ Cardinality(L \cup {e}) = Cardinality(L) + 1
<1>1. e \notin L  BY DEF Has
<1>2. Cardinality(L) \in Nat /\ Cardinality(L \cup {e}) = Cardinality(L) + 1
  BY <1>1, FS_AddElement, FS_CardinalityType DEF Identified
<1>3. IdsUnique(L \cup {e})  BY DEF Has, IdsUnique, Identified
<1>4. IsFiniteSet({e})  BY FS_Singleton
<1> QED BY <1>2, <1>3, <1>4, AddMany

Grows ==
  /\ log \subseteq log' /\ IdsUnique(log') /\ wrote \subseteq wrote' /\ together \subseteq together'
  /\ BegunCalls \subseteq BegunCalls'
  /\ seqs \in [Producers -> Nat] /\ seqs' \in [Producers -> Nat]
  /\ \A p \in Producers : seqs[p] <= seqs'[p]

(* What is said of the log stays true of a longer one.                     *)
LEMMA HasStays ==
  ASSUME Grows, NEW i, Has(log, i)
  PROVE  Has(log', i) /\ At(log', i) = At(log, i)
  BY AtStays DEF Grows

LEMMA IsAKept ==
  ASSUME Grows, NEW i, NEW t, IsA(log, i, t)
  PROVE  IsA(log', i, t) /\ At(log', i) = At(log, i)
  BY IsAStays DEF Grows

LEMMA TouchedStays ==
  ASSUME Grows, NEW c, NEW w, NEW f, Touched(c, w, f)
  PROVE  Touched(c, w, f)'
  BY DEF Grows, Touched

LEMMA EvidenceStays ==
  ASSUME Grows, NEW says, \A i \in says.evidence : Has(log, i), NEW type
  PROVE  Evidence(says, type)' = Evidence(says, type)
<1>1. \A i \in says.evidence : \A e \in log' : e.id = i => e \in log
  <2> TAKE i \in says.evidence
  <2>1. PICK d \in log : d.id = i  BY DEF Has
  <2> QED BY <2>1 DEF Grows, IdsUnique
<1> QED BY <1>1 DEF Evidence, OfType, Grows

LEMMA SupportedStays ==
  ASSUME Grows, NEW says, Supported(says)
  PROVE  Supported(says)'
<1>1. \A i \in says.evidence : Has(log, i)  BY DEF Supported
<1>2. \A t : Evidence(says, t)' = Evidence(says, t)  BY <1>1, EvidenceStays
<1>3. \A t : OfType(log, t) \subseteq OfType(log, t)'  BY DEF OfType, Grows
<1>4. \A i \in says.evidence : Has(log, i)'  BY <1>1, HasStays
<1>5. CASE says.type = "same_symbol_overlap"
  BY <1>2, <1>4, <1>5 DEF Supported, Grounded, FindingTypes
<1>6. CASE says.type = "exported_contract_invalidation"
  BY <1>2, <1>3, <1>4, <1>6 DEF Supported, Grounded, FindingTypes
<1>7. CASE says.type = "stale_read_before_write"
  BY <1>2, <1>3, <1>4, <1>7 DEF Supported, Grounded, FindingTypes
<1> QED BY <1>5, <1>6, <1>7 DEF Supported, FindingTypes

(* Each event, once appended, keeps its part of the invariant.             *)
LEMMA EventInvStays ==
  ASSUME Grows, NEW e, EventInv(e)
  PROVE  EventInv(e)'
<1>1. Correlated(e)'  BY DEF Grows, EventInv, Correlated
<1>2. Sequenced(e)'  BY DEF Grows, EventInv, Sequenced
<1>3. Versioned(e)'  BY IsAKept DEF EventInv, Versioned
<1>4. ComparesRead(e)'  BY DEF Grows, EventInv, ComparesRead
<1>5. Credited(e)'  BY DEF Grows, EventInv, Credited
<1>6. ProofHolds(e)'
  <2> SUFFICES ASSUME e.type = "task.concurrency.observed" PROVE ProofHolds(e)'
    BY DEF ProofHolds
  <2>1. ProofHolds(e) BY DEF EventInv
  <2>2. ASSUME NEW k \in 1..2
        PROVE \E d \in log' :
       /\ d.id = e.body.change[k] /\ d.type = "symbol.changed" /\ d.agent = e.body.agent[k]
       /\ Life[e.body.life[k]].wt = d.wt
       /\ \E c \in Calls : /\ d.corr = <<"call", c>> /\ Call[c].as = e.body.life[k]
                           /\ Touched(c, d.wt, d.body.res[2])'
    <3>1. PICK d \in log :
       /\ d.id = e.body.change[k] /\ d.type = "symbol.changed" /\ d.agent = e.body.agent[k]
       /\ Life[e.body.life[k]].wt = d.wt
       /\ \E c \in Calls : /\ d.corr = <<"call", c>> /\ Call[c].as = e.body.life[k]
                           /\ Touched(c, d.wt, d.body.res[2])
      BY <2>1 DEF ProofHolds
    <3> QED BY <3>1, TouchedStays DEF Grows
  <2> QED BY <2>1, <2>2 DEF ProofHolds, Grows
<1>7. FindingHolds(e)'
  BY SupportedStays DEF EventInv, FindingHolds, Grows, Decides
<1> QED BY <1>1, <1>2, <1>3, <1>4, <1>5, <1>6, <1>7 DEF EventInv

(* The parts of the invariant, when the log only grows.                    *)
LEMMA LogStays ==
  ASSUME LogInv, Grows, Identified(log'), \A e \in log' \ log : EventInv(e)'
  PROVE  LogInv'
  BY EventInvStays DEF LogInv

LEMMA LifeStays ==
  ASSUME LifeInv, Grows, UNCHANGED lifes
  PROVE  LifeInv'
<1> SUFFICES ASSUME NEW l \in Lifecycles
             PROVE  /\ \A m \in lifes[l].overlaps : {l, m} \in together'
                    /\ \A i \in lifes[l].changes : \E e \in log' : e.id = i /\ ChangeOf(l, e)'
  BY DEF LifeInv
<1>1. \A m \in lifes[l].overlaps : {l, m} \in together'  BY DEF LifeInv, Grows
<1>2. \A e : ChangeOf(l, e) => ChangeOf(l, e)'  BY TouchedStays DEF ChangeOf
<1>3. \A i \in lifes[l].changes : \E e \in log : e.id = i /\ ChangeOf(l, e)  BY DEF LifeInv
<1> QED BY <1>1, <1>2, <1>3 DEF Grows

LEMMA PairStays ==
  ASSUME Grows, NEW p, PairHolds(p)
  PROVE  PairHolds(p)'
  BY SupportedStays DEF Grows, PairHolds, Decides

LEMMA DetectorStays ==
  ASSUME DetectorInv, Grows, UNCHANGED detector
  PROVE  DetectorInv'
  BY PairStays DEF DetectorInv

(* The dispatch in progress stays as it is while others act.               *)
LEMMA RunStays ==
  ASSUME RunInv, Grows, UNCHANGED <<run, pc>>,
         run # Idle => \A e \in log' \ log : e.seq = None,
         run # Idle => \A f \in Files : disk'[run.who.wt][f] # disk[run.who.wt][f] => <<run.who.wt, f>> \in wrote'
  PROVE  RunInv'
<1> SUFFICES ASSUME run # Idle
             PROVE  RunBegun(run)' /\ RunEnding(run)' /\ RunEffects(run)' /\ RunWindow(run)' /\ RunTodo(run)'
  BY DEF RunInv
<1>0. RunBegun(run) /\ RunEnding(run) /\ RunEffects(run) /\ RunWindow(run) /\ RunTodo(run)
  BY DEF RunInv
<1>1. RunBegun(run)'
  <2>1. run.call \in Calls /\ run.who = Life[Call[run.call].as] BY <1>0 DEF RunBegun
  <2>2. run.who.src \in Producers BY <2>1, CallAssumption DEF Producers
  <2>3. seqs[run.who.src] \in Nat /\ seqs'[run.who.src] \in Nat /\ seqs[run.who.src] <= seqs'[run.who.src]
    BY <2>2 DEF Grows
  <2>4. run.seq \in Nat /\ run.seq + 1 < seqs[run.who.src]  BY <1>0 DEF RunBegun
  <2>6. run.seq + 1 < seqs'[run.who.src]  BY <2>3, <2>4
  <2>5. ToolRequested(run) \in log'  BY <1>0 DEF RunBegun, Grows
  <2> QED BY <1>0, <2>1, <2>4, <2>5, <2>6 DEF RunBegun
<1>2. RunEnding(run)'
  BY <1>0 DEF RunEnding, Grows, DoneOf, InContext
<1>3. RunEffects(run)'
  <2>1. \A e \in run.own : OwnChange(run, e)'
    BY <1>0, TouchedStays DEF RunEffects, OwnChange, InContext, Grows
  <2>2. \A i \in run.effects : Effect(run, i)'
    <3>1. \A i \in run.effects : Effect(run, i)  BY <1>0 DEF RunEffects
    <3>2. \A i : Effect(run, i) => Effect(run, i)'
      BY TouchedStays DEF Effect, InContext, Grows
    <3> QED BY <3>1, <3>2
  <2> QED BY <1>0, <2>1, <2>2 DEF RunEffects, Grows
<1>4. RunWindow(run)'
  <2>1. (pc[run.call] \in Early)' => (run.before # None => \A f \in Files :
           disk'[run.who.wt][f] # run.before[f] => Touched(run.call, run.who.wt, f)')
    <3> SUFFICES ASSUME pc[run.call] \in Early, run.before # None, NEW f \in Files,
                        disk'[run.who.wt][f] # run.before[f]
                 PROVE  Touched(run.call, run.who.wt, f)'
      OBVIOUS
    <3>1. CASE disk'[run.who.wt][f] = disk[run.who.wt][f]
      BY <1>0, <3>1, TouchedStays DEF RunWindow
    <3>2. CASE disk'[run.who.wt][f] # disk[run.who.wt][f]
      BY <3>2 DEF Touched
    <3> QED BY <3>1, <3>2
  <2> QED BY <1>0, <2>1 DEF RunWindow, Grows
<1>5. RunTodo(run)'
  BY <1>0, TouchedStays DEF RunTodo
<1> QED BY <1>1, <1>2, <1>3, <1>4, <1>5

-------------------------------------------------------------------------------
(* The steps that append nothing.                                          *)

(* A step that appends nothing.                                            *)
LEMMA SameLog ==
  ASSUME IInv, UNCHANGED <<log, seqs>>, wrote \subseteq wrote', together \subseteq together',
         BegunCalls \subseteq BegunCalls'
  PROVE  /\ Grows /\ LogInv'
         /\ UNCHANGED detector => DetectorInv'
         /\ UNCHANGED lifes => LifeInv'
<1>1. Grows  BY DEF Grows, IInv, LogInv, Identified, Shapes
<1>2. Identified(log')  BY DEF IInv, LogInv
<1>3. LogInv'  BY <1>1, <1>2, LogStays DEF IInv
<1> QED BY <1>1, <1>3, DetectorStays, LifeStays DEF IInv

(* The actions that append nothing, one by one.                            *)
LEMMA BeginTaskKeeps ==
  ASSUME IInv, NEW l \in Lifecycles, BeginTask(l), UNCHANGED detector
  PROVE  IInv'
<1>1. Grows /\ LogInv' /\ DetectorInv'
  BY SameLog DEF BeginTask, BegunCalls
<1>2. RunInv'
  BY <1>1, RunStays DEF BeginTask, IInv
<1>3. lifes' = [m \in Lifecycles |->
       CASE m = l        -> [state |-> "active", overlaps |-> Active, changes |-> {}]
         [] m \in Active -> [lifes[m] EXCEPT !.overlaps = @ \cup {l}]
         [] OTHER        -> lifes[m]]
  BY DEF BeginTask
<1>4. l \notin Active  BY DEF BeginTask, Active
<1>5. \A m \in Lifecycles : lifes[m] = [state |-> lifes[m].state, overlaps |-> lifes[m].overlaps,
                                        changes |-> lifes[m].changes]
  BY DEF IInv, Shapes
<1>6. \A m \in Lifecycles :
        /\ lifes'[m] = [state |-> lifes'[m].state, overlaps |-> lifes'[m].overlaps,
                        changes |-> lifes'[m].changes]
        /\ lifes'[m].changes \subseteq lifes[m].changes
        /\ m = l => lifes'[m].overlaps = Active
        /\ m # l => lifes'[m].overlaps \subseteq lifes[m].overlaps \cup (IF m \in Active THEN {l} ELSE {})
  <2> TAKE m \in Lifecycles
  <2>1. CASE m = l
    <3>1. lifes'[m] = [state |-> "active", overlaps |-> Active, changes |-> {}]  BY <1>3, <1>4, <2>1
    <3> QED BY <2>1, <3>1
  <2>2. CASE m # l /\ m \in Active
    <3>1. lifes'[m] = [lifes[m] EXCEPT !.overlaps = @ \cup {l}]  BY <1>3, <2>2
    <3> QED BY <1>5, <2>2, <3>1
  <2>3. CASE m # l /\ m \notin Active  BY <1>3, <1>5, <2>3
  <2> QED BY <2>1, <2>2, <2>3
<1>7. Shapes'
  <2>1. lifes' = [m \in Lifecycles |-> lifes'[m]]  BY <1>3
  <2>2. lifes' = [m \in Lifecycles |-> [state |-> lifes'[m].state, overlaps |-> lifes'[m].overlaps,
                                        changes |-> lifes'[m].changes]]
    BY <1>6, <2>1
  <2> QED BY <2>2 DEF IInv, Shapes, BeginTask
<1>8. LifeInv'
  <2> SUFFICES ASSUME NEW m \in Lifecycles
               PROVE  /\ \A n \in lifes'[m].overlaps : {m, n} \in together'
                      /\ \A i \in lifes'[m].changes : \E e \in log' : e.id = i /\ ChangeOf(m, e)'
    BY DEF LifeInv
  <2>1. together' = together \cup {{l, n} : n \in Active}  BY DEF BeginTask, Active
  <2>2. \A n \in lifes[m].overlaps : {m, n} \in together  BY DEF IInv, LifeInv
  <2>3. \A n \in lifes'[m].overlaps : {m, n} \in together'
    <3>1. CASE m = l  BY <1>6, <2>1, <3>1
    <3>2. CASE m # l
      <4> TAKE n \in lifes'[m].overlaps
      <4>1. CASE n \in lifes[m].overlaps  BY <2>1, <2>2, <4>1
      <4>2. CASE n \notin lifes[m].overlaps
        <5>1. m \in Active /\ n = l  BY <1>6, <3>2, <4>2
        <5>2. {m, l} = {l, m} OBVIOUS
        <5> QED BY <2>1, <5>1, <5>2
      <4> QED BY <4>1, <4>2
    <3> QED BY <3>1, <3>2
  <2>4. \A e : ChangeOf(m, e) => ChangeOf(m, e)'  BY <1>1, TouchedStays DEF ChangeOf
  <2>5. ASSUME NEW i \in lifes'[m].changes PROVE \E e \in log' : e.id = i /\ ChangeOf(m, e)'
    <3>1. i \in lifes[m].changes  BY <1>6
    <3>2. PICK e \in log : e.id = i /\ ChangeOf(m, e)  BY <3>1 DEF IInv, LifeInv
    <3> QED BY <2>4, <3>2 DEF BeginTask
  <2> QED BY <2>3, <2>5
<1> QED BY <1>1, <1>2, <1>7, <1>8 DEF IInv

LEMMA EndTaskKeeps ==
  ASSUME IInv, NEW l \in Lifecycles, EndTask(l), UNCHANGED detector
  PROVE  IInv'
<1>1. Grows /\ LogInv' /\ DetectorInv'
  BY SameLog DEF EndTask, BegunCalls
<1>2. RunInv'
  BY <1>1, RunStays DEF EndTask, IInv
<1>3. lifes' = [lifes EXCEPT ![l].state = "ended"]  BY DEF EndTask
<1>4. lifes = [m \in Lifecycles |-> [state |-> lifes[m].state, overlaps |-> lifes[m].overlaps,
                                     changes |-> lifes[m].changes]]
  BY DEF IInv, Shapes
<1>5. \A m \in Lifecycles :
        lifes'[m] = [state |-> IF m = l THEN "ended" ELSE lifes[m].state,
                     overlaps |-> lifes[m].overlaps, changes |-> lifes[m].changes]
  BY <1>3, <1>4
<1>6. \A m \in Lifecycles :
        /\ lifes'[m].overlaps = lifes[m].overlaps /\ lifes'[m].changes = lifes[m].changes
        /\ lifes'[m] = [state |-> lifes'[m].state, overlaps |-> lifes'[m].overlaps,
                        changes |-> lifes'[m].changes]
  <2> TAKE m \in Lifecycles
  <2>1. lifes'[m] = [state |-> IF m = l THEN "ended" ELSE lifes[m].state,
                     overlaps |-> lifes[m].overlaps, changes |-> lifes[m].changes]
    BY <1>5
  <2> QED BY <2>1
<1>7. Shapes'
  <2>1. lifes' = [m \in Lifecycles |-> lifes'[m]]  BY <1>3, <1>4
  <2>2. \A m \in Lifecycles : lifes'[m] = [state |-> lifes'[m].state, overlaps |-> lifes'[m].overlaps,
                                        changes |-> lifes'[m].changes]
    BY <1>6
  <2>3. lifes' = [m \in Lifecycles |-> [state |-> lifes'[m].state, overlaps |-> lifes'[m].overlaps,
                                        changes |-> lifes'[m].changes]]
    BY <2>1, <2>2
  <2> QED BY <2>3 DEF IInv, Shapes, EndTask
<1>8. LifeInv'
  <2>1. \A m, e : ChangeOf(m, e) => ChangeOf(m, e)'  BY <1>1, TouchedStays DEF ChangeOf
  <2> QED BY <1>6, <2>1 DEF IInv, LifeInv, EndTask
<1> QED BY <1>1, <1>2, <1>7, <1>8 DEF IInv

LEMMA DispatchKeeps ==
  ASSUME IInv, NEW c \in Calls, Dispatch(c), UNCHANGED detector
  PROVE  IInv'
<1>1. pc' = [pc EXCEPT ![c] = "queued"] /\ pc = [d \in Calls |-> pc[d]]  BY DEF Dispatch, IInv, Shapes
<1>2. BegunCalls \subseteq BegunCalls'  BY <1>1 DEF Dispatch, BegunCalls
<1>3. Grows /\ LogInv' /\ DetectorInv' /\ LifeInv'
  BY <1>2, SameLog DEF Dispatch
<1>4. RunInv'  BY DEF Dispatch, RunInv
<1>5. Shapes'  BY <1>1 DEF Dispatch, IInv, Shapes
<1> QED BY <1>3, <1>4, <1>5 DEF IInv

LEMMA RefuseKeeps ==
  ASSUME IInv, NEW c \in Calls, Refuse(c), UNCHANGED detector
  PROVE  IInv'
<1>1. pc' = [pc EXCEPT ![c] = "refused"] /\ pc = [d \in Calls |-> pc[d]]
  BY DEF Refuse, Leave, IInv, Shapes
<1>2. BegunCalls \subseteq BegunCalls'  BY <1>1 DEF BegunCalls
<1>3. Grows /\ LogInv' /\ DetectorInv' /\ LifeInv'
  BY <1>2, SameLog DEF Refuse
<1>4. RunInv'  BY DEF Refuse, Leave, RunInv
<1>5. Shapes'  BY <1>1 DEF Refuse, IInv, Shapes
<1> QED BY <1>3, <1>4, <1>5 DEF IInv

LEMMA OutsideEditKeeps ==
  ASSUME IInv, NEW w \in Worktrees, NEW f, NEW v, OutsideEdit(w, f, v), UNCHANGED detector
  PROVE  IInv'
<1>1. Grows /\ LogInv' /\ DetectorInv' /\ LifeInv'
  BY SameLog DEF OutsideEdit, BegunCalls
<1>2. disk = [x \in Worktrees |-> [g \in Files |-> disk[x][g]]]  BY DEF IInv, Shapes
<1>3. disk' = [disk EXCEPT ![w][f] = v]  BY DEF OutsideEdit
<1>4. Shapes'
  <2>1. disk' = [x \in Worktrees |-> disk'[x]]  BY <1>2, <1>3
  <2>2. \A x \in Worktrees : disk[x] = [g \in Files |-> disk[x][g]]  BY <1>2
  <2>3. \A x \in Worktrees : disk'[x] = IF x = w THEN [disk[x] EXCEPT ![f] = v] ELSE disk[x]
    BY <1>2, <1>3
  <2>4. \A x \in Worktrees : disk'[x] = [g \in Files |-> disk'[x][g]]
    BY <2>2, <2>3
  <2>5. disk' = [x \in Worktrees |-> [g \in Files |-> disk'[x][g]]]  BY <2>1, <2>4
  <2> QED BY <2>5 DEF OutsideEdit, IInv, Shapes
<1>5. run # Idle => \A g \in Files : disk'[run.who.wt][g] # disk[run.who.wt][g] => <<run.who.wt, g>> \in wrote'
  <2> SUFFICES ASSUME run # Idle, NEW g \in Files, disk'[w][g] # disk[w][g]
               PROVE  <<w, g>> \in wrote'
    BY DEF OutsideEdit
  <2>1. disk[w] = [h \in Files |-> disk[w][h]] /\ disk'[w] = [disk[w] EXCEPT ![f] = v]  BY <1>2, <1>3
  <2>2. g = f  BY <2>1
  <2> QED BY <2>2 DEF OutsideEdit
<1>6. RunInv'  BY <1>1, <1>5, RunStays DEF OutsideEdit, IInv
<1> QED BY <1>1, <1>4, <1>6 DEF IInv

-------------------------------------------------------------------------------
(* The dispatch in progress: its window.                                   *)

(* Finite images.                                                          *)
LEMMA ImageFinite ==
  ASSUME NEW S, IsFiniteSet(S), NEW f, f = [x \in S |-> f[x]]
  PROVE  IsFiniteSet({f[x] : x \in S})
<1>1. f \in Surjection(S, {f[x] : x \in S})  BY DEF Surjection
<1> QED BY <1>1, FS_Surjection

(* What a window changed is finite.                                        *)
LEMMA ChangesFinite ==
  ASSUME NEW old, NEW new, NEW own
  PROVE  IsFiniteSet(Changes(old, new, own))
<1> DEFINE S == {g \in Files : old[g] # new[g]}
           f == [g \in S |-> [file |-> g, before |-> old[g], after |-> new[g], own |-> own]]
<1>1. IsFiniteSet(S)  BY CallAssumption, FS_Subset
<1>2. IsFiniteSet({f[x] : x \in S})  BY <1>1, ImageFinite
<1>3. {f[x] : x \in S} = Changes(old, new, own)  BY DEF Changes
<1> QED BY <1>2, <1>3

(* A set listed by SetToSeq is listed once.                                *)
LEMMA ListedOnce ==
  ASSUME NEW S, IsFiniteSet(S)
  PROVE  /\ Cardinality(S) \in Nat
         /\ SetToSeq(S) \in [1..Cardinality(S) -> S]
         /\ \A j, k \in 1..Cardinality(S) : SetToSeq(S)[j] = SetToSeq(S)[k] => j = k
<1>1. Cardinality(S) \in Nat /\ ExistsBijection(1..Cardinality(S), S)  BY FS_CardinalityType
<1>2. \E f \in [1..Cardinality(S) -> S] : IsInjective(f)
  BY <1>1 DEF ExistsBijection, Bijection, Injection
<1>3. SetToSeq(S) \in [1..Cardinality(S) -> S] /\ IsInjective(SetToSeq(S))
  BY <1>2 DEF SetToSeq
<1> QED BY <1>1, <1>3 DEF IsInjective

(* The dispatch in progress is the only one that moves.                    *)
LEMMA StepTo ==
  ASSUME Shapes, NEW c \in Calls, pc[c] \in Stages, NEW to \in Stages, pc' = [pc EXCEPT ![c] = to]
  PROVE  /\ pc'[c] = to /\ BegunCalls' = BegunCalls
         /\ pc' = [d \in Calls |-> pc'[d]]
<1>1. pc = [d \in Calls |-> pc[d]]  BY DEF Shapes
<1>2. \A d \in Calls : pc'[d] = IF d = c THEN to ELSE pc[d]  BY <1>1
<1>3. pc' = [d \in Calls |-> pc'[d]]  BY <1>1
<1>4. pc'[c] = to  BY <1>2
<1>5. \A d \in Calls : pc'[d] \notin {"new", "queued"} <=> pc[d] \notin {"new", "queued"}
  BY <1>2 DEF Stages
<1>6. BegunCalls' = BegunCalls  BY <1>5 DEF BegunCalls
<1> QED BY <1>3, <1>4, <1>6

(* What the invariant says of the dispatch in progress.                    *)
LEMMA RunFacts ==
  ASSUME IInv, NEW c \in Calls, NEW at \in Stages, Running(c, at)
  PROVE  /\ run # Idle /\ run.call = c /\ pc[c] = at /\ DOMAIN run = RunFields
         /\ RunBegun(run) /\ RunEnding(run) /\ RunEffects(run) /\ RunWindow(run) /\ RunTodo(run)
         /\ run.who = Life[Call[c].as] /\ Call[c].as \in Lifecycles
         /\ run.who.src \in Producers /\ run.who.wt \in Worktrees
<1>1. run.call = c /\ pc[c] = at  BY DEF Running
<1>2. Idle.call = None  BY DEF Idle
<1>3. run # Idle  BY <1>1, <1>2, CallAssumption
<1>4. RunBegun(run) /\ RunEnding(run) /\ RunEffects(run) /\ RunWindow(run) /\ RunTodo(run)
  BY <1>3 DEF IInv, RunInv
<1>5. run.who = Life[Call[c].as] /\ DOMAIN run = RunFields  BY <1>1, <1>4 DEF RunBegun
<1>6. Call[c].as \in Lifecycles  BY CallAssumption
<1> QED BY <1>1, <1>3, <1>4, <1>5, <1>6 DEF Producers, Worktrees

SameCall == /\ DOMAIN run' = RunFields /\ run'.call = run.call /\ run'.who = run.who
            /\ run'.seq = run.seq /\ run'.request = run.request
SameEffects == run'.own = run.own /\ run'.effects = run.effects /\ run'.analysed = run.analysed

(* The parts of RunInv that a later stage keeps.                           *)
LEMMA BegunOn ==
  ASSUME Grows, RunBegun(run), run.who.src \in Producers, SameCall, pc'[run.call] \in Stages
  PROVE  RunBegun(run)'
<1>1. seqs[run.who.src] \in Nat /\ seqs'[run.who.src] \in Nat /\ seqs[run.who.src] <= seqs'[run.who.src]
  BY DEF Grows
<1>2. run.seq \in Nat /\ run.seq + 1 < seqs[run.who.src]  BY DEF RunBegun
<1>3. run.seq + 1 < seqs'[run.who.src]  BY <1>1, <1>2
<1>4. ToolRequested(run)' = ToolRequested(run)
  BY DEF SameCall, ToolRequested, Event
<1>5. ToolRequested(run) \in log'  BY DEF RunBegun, Grows
<1> QED BY <1>2, <1>3, <1>4, <1>5 DEF RunBegun, SameCall

LEMMA EndingOn ==
  ASSUME Grows, RunEnding(run), SameCall, pc[run.call] \notin Late, pc'[run.call] \notin Late,
         \A e \in log' \ log : e.seq = None
  PROVE  RunEnding(run)'
  BY DEF Grows, RunEnding, SameCall

LEMMA EffectsOn ==
  ASSUME Grows, RunEffects(run), SameCall, SameEffects, pc'[run.call] # "analysing",
         pc'[run.call] \in Early => pc[run.call] \in Early
  PROVE  RunEffects(run)'
<1>1. \A e : OwnChange(run, e) => OwnChange(run, e)'
  BY TouchedStays DEF OwnChange, InContext, Grows, SameCall, SameEffects
<1>2. \A i : Effect(run, i) => Effect(run, i)'
  BY TouchedStays DEF Effect, InContext, Grows, SameCall, SameEffects
<1> QED BY <1>1, <1>2 DEF RunEffects, Grows, SameCall, SameEffects

(* The snapshot before, the call itself, the snapshot after.               *)
LEMMA BeginWindowKeeps ==
  ASSUME IInv, NEW c \in Calls, BeginWindow(c), UNCHANGED detector
  PROVE  IInv'
<1> DEFINE w == run.who.wt
<1>0. Running(c, "opening") /\ pc' = [pc EXCEPT ![c] = "executing"]  BY DEF BeginWindow, Step
<1>1. /\ run # Idle /\ run.call = c /\ pc[c] = "opening" /\ DOMAIN run = RunFields
      /\ RunBegun(run) /\ RunEnding(run) /\ RunEffects(run) /\ RunWindow(run)
      /\ run.who.src \in Producers
  BY <1>0, RunFacts DEF Stages
<1>2. pc'[c] = "executing" /\ BegunCalls' = BegunCalls /\ pc' = [d \in Calls |-> pc'[d]]
  BY <1>0, <1>1, StepTo DEF IInv, Stages
<1>3. Grows /\ LogInv' /\ DetectorInv' /\ LifeInv'
  BY <1>2, SameLog DEF BeginWindow
<1>4. Shapes'  BY <1>2 DEF BeginWindow, IInv, Shapes
<1>5. SameCall /\ SameEffects /\ run'.outcome = run.outcome
  BY <1>1 DEF BeginWindow, SameCall, SameEffects, RunFields
<1>6. RunWindow(run)'
  <2>1. run'.before = None \/ run'.before = disk[w]
    BY <1>1 DEF BeginWindow, RunFields, RunWindow
  <2>2. IsFiniteSet(run'.foreign) /\ \A x \in run'.foreign : ~x.own
    <3>1. run'.foreign = run.foreign \/ run'.foreign = Changes(seen[w], disk[w], FALSE)
      BY <1>1 DEF BeginWindow, RunFields
    <3>2. \A x \in Changes(seen[w], disk[w], FALSE) : ~x.own  BY DEF Changes
    <3> QED BY <1>1, <3>1, <3>2, ChangesFinite DEF RunWindow
  <2>3. disk' = disk /\ run'.who.wt = w  BY <1>5 DEF BeginWindow, SameCall
  <2>4. run'.call = c  BY <1>1, <1>5 DEF SameCall
  <2> QED BY <1>2, <2>1, <2>2, <2>3, <2>4 DEF RunWindow
<1>7. RunBegun(run)' /\ RunEnding(run)' /\ RunEffects(run)'
  BY <1>1, <1>2, <1>3, <1>5, BegunOn, EndingOn, EffectsOn DEF Late, Stages, Early, BeginWindow
<1>8. RunTodo(run)'  BY <1>1, <1>2, <1>5 DEF RunTodo, SameCall
<1>9. RunInv'  BY <1>6, <1>7, <1>8 DEF RunInv
<1> QED BY <1>3, <1>4, <1>9 DEF IInv

LEMMA ExecuteKeeps ==
  ASSUME IInv, NEW c \in Calls, Execute(c), UNCHANGED detector
  PROVE  IInv'
<1>w. PICK w : w = run.who.wt  OBVIOUS
<1>0. Running(c, "executing") /\ pc' = [pc EXCEPT ![c] = "closing"]  BY DEF Execute, Step
<1>1. /\ run # Idle /\ run.call = c /\ pc[c] = "executing" /\ DOMAIN run = RunFields
      /\ RunBegun(run) /\ RunEnding(run) /\ RunEffects(run) /\ RunWindow(run)
      /\ run.who.src \in Producers /\ w \in Worktrees
  BY <1>0, <1>w, RunFacts DEF Stages
<1>2. pc'[c] = "closing" /\ BegunCalls' = BegunCalls /\ pc' = [d \in Calls |-> pc'[d]]
  BY <1>0, <1>1, StepTo DEF IInv, Stages
<1>3. PICK outcome \in {"succeeded", "failed"}, writes \in {{}, Call[c].writes} :
       /\ outcome = "succeeded" => writes = Call[c].writes
       /\ disk' = [disk EXCEPT ![w] = [f \in Files |->
            IF \E v \in writes : v[1] = f THEN (CHOOSE v \in writes : v[1] = f)[2] ELSE @[f]]]
       /\ wrote' = wrote \cup {<<c, v[1]>> : v \in writes}
       /\ run' = [run EXCEPT !.outcome = outcome]
  BY <1>w DEF Execute
<1>4. Grows /\ LogInv' /\ DetectorInv' /\ LifeInv'
  BY <1>2, <1>3, SameLog DEF Execute
<1>5. disk = [x \in Worktrees |-> [f \in Files |-> disk[x][f]]]  BY DEF IInv, Shapes
<1>6. \A x \in Worktrees : disk'[x] = IF x = w
        THEN [f \in Files |-> IF \E v \in writes : v[1] = f THEN (CHOOSE v \in writes : v[1] = f)[2]
                              ELSE disk[w][f]]
        ELSE disk[x]
  BY <1>3, <1>5
<1>7. Shapes'
  <2>1. \A x \in Worktrees : disk'[x] = [f \in Files |-> disk'[x][f]]
    <3> TAKE x \in Worktrees
    <3>1. CASE x = w  BY <1>6, <3>1
    <3>2. CASE x # w  BY <1>5, <1>6, <3>2
    <3> QED BY <3>1, <3>2
  <2>2. disk' = [x \in Worktrees |-> disk'[x]]  BY <1>3, <1>5
  <2>3. disk' = [x \in Worktrees |-> [f \in Files |-> disk'[x][f]]]  BY <2>1, <2>2
  <2> QED BY <1>2, <2>3 DEF Execute, IInv, Shapes
<1>8. /\ SameCall /\ SameEffects /\ run'.before = run.before /\ run'.foreign = run.foreign
      /\ run'.outcome = outcome
  BY <1>1, <1>3 DEF SameCall, SameEffects, RunFields
<1>9. RunWindow(run)'
  <2>1. outcome = "succeeded" => \A v \in Call[c].writes : <<c, v[1]>> \in wrote'
    BY <1>3
  <2>2. run.before # None => \A f \in Files : disk'[w][f] # run.before[f] => Touched(c, w, f)'
    <3> SUFFICES ASSUME run.before # None, NEW f \in Files, disk'[w][f] # run.before[f]
                 PROVE  Touched(c, w, f)'
      OBVIOUS
    <3>0. run.before # None /\ disk'[w][f] # run.before[f]  OBVIOUS
    <3>1. CASE \E v \in writes : v[1] = f
      <4>1. <<c, f>> \in wrote'  BY <1>3, <3>1
      <4> QED BY <4>1 DEF Touched
    <3>2. CASE ~ \E v \in writes : v[1] = f
      <4>1. disk'[w][f] = disk[w][f]  BY <1>1, <1>6, <3>2
      <4>2. Touched(c, w, f)  BY <1>1, <1>w, <3>0, <4>1 DEF RunWindow, Early
      <4> QED BY <1>4, <4>2, TouchedStays
    <3> QED BY <3>1, <3>2
  <2>3. run'.call = c /\ run'.who.wt = w  BY <1>1, <1>8, <1>w DEF SameCall
  <2> QED BY <1>1, <1>2, <1>8, <2>1, <2>2, <2>3 DEF RunWindow
<1>10. RunBegun(run)' /\ RunEnding(run)' /\ RunEffects(run)'
  BY <1>1, <1>2, <1>4, <1>8, BegunOn, EndingOn, EffectsOn DEF Late, Stages, Early, Execute
<1>11. RunTodo(run)'  BY <1>1, <1>2, <1>8 DEF RunTodo, SameCall
<1>12. RunInv'  BY <1>9, <1>10, <1>11 DEF RunInv
<1> QED BY <1>4, <1>7, <1>12 DEF IInv

LEMMA EndWindowKeeps ==
  ASSUME IInv, NEW c \in Calls, EndWindow(c), UNCHANGED detector
  PROVE  IInv'
<1>w. PICK w : w = run.who.wt  OBVIOUS
<1> DEFINE both == run.before # None
           own == IF both THEN Changes(run.before, disk[w], TRUE) ELSE {}
<1>0. Running(c, "closing") /\ pc' = [pc EXCEPT ![c] = "changes"]  BY DEF EndWindow, Step
<1>1. /\ run # Idle /\ run.call = c /\ pc[c] = "closing" /\ DOMAIN run = RunFields
      /\ RunBegun(run) /\ RunEnding(run) /\ RunEffects(run) /\ RunWindow(run)
      /\ run.who.src \in Producers
  BY <1>0, RunFacts DEF Stages
<1>2. pc'[c] = "changes" /\ BegunCalls' = BegunCalls /\ pc' = [d \in Calls |-> pc'[d]]
  BY <1>0, <1>1, StepTo DEF IInv, Stages
<1>3. Grows /\ LogInv' /\ DetectorInv' /\ LifeInv'
  BY <1>2, SameLog DEF EndWindow
<1>4. Shapes'  BY <1>2 DEF EndWindow, IInv, Shapes
<1>5. /\ SameCall /\ SameEffects /\ run'.before = run.before /\ run'.foreign = run.foreign
      /\ run'.outcome = run.outcome
      /\ \/ run'.todo = SetToSeq(own) \o SetToSeq(run.foreign)
         \/ run'.todo = SetToSeq(run.foreign)
  <2>1. PICK after, gap :
          /\ after = [run EXCEPT !.todo = SetToSeq(own) \o SetToSeq(run.foreign), !.whole = both, !.gap = gap]
          /\ \/ run' = after
             \/ run' = [after EXCEPT !.gap = TRUE]
             \/ run' = [run EXCEPT !.todo = SetToSeq(run.foreign), !.gap = TRUE]
    BY <1>w DEF EndWindow
  <2> HIDE DEF own, both
  <2>2. CASE run' = after
    BY <1>1, <2>1, <2>2 DEF SameCall, SameEffects, RunFields
  <2>3. CASE run' = [after EXCEPT !.gap = TRUE]
    BY <1>1, <2>1, <2>3 DEF SameCall, SameEffects, RunFields
  <2>4. CASE run' = [run EXCEPT !.todo = SetToSeq(run.foreign), !.gap = TRUE]
    BY <1>1, <2>4 DEF SameCall, SameEffects, RunFields
  <2> QED BY <2>1, <2>2, <2>3, <2>4
<1>6. run'.call = c /\ run'.who = run.who  BY <1>1, <1>5 DEF SameCall
<1>7. RunWindow(run)'
  BY <1>1, <1>2, <1>5, <1>6 DEF RunWindow, Early, Stages, EndWindow
<1>8. RunBegun(run)' /\ RunEnding(run)' /\ RunEffects(run)'
  BY <1>1, <1>2, <1>3, <1>5, BegunOn, EndingOn, EffectsOn DEF Late, Stages, Early, EndWindow
<1>9. RunTodo(run)'
  <2> DEFINE S == SetToSeq(own)
             T == SetToSeq(run.foreign)
  <2>1. IsFiniteSet(own) /\ IsFiniteSet(run.foreign)
    BY <1>1, ChangesFinite, FS_EmptySet DEF RunWindow
  <2>2. PICK m \in Nat : S \in [1..m -> own] /\ \A j, k \in 1..m : S[j] = S[k] => j = k
    <3> HIDE DEF own
    <3> QED  BY <2>1, ListedOnce
  <2>3. PICK n \in Nat : T \in [1..n -> run.foreign]
    BY <2>1, ListedOnce
  <2>4. \A x \in own : x.own /\ x.file \in Files /\ Touched(c, w, x.file)
    <3>1. \A f \in Files : both /\ disk[w][f] # run.before[f] => Touched(c, w, f)
      BY <1>1, <1>w DEF RunWindow, Early
    <3> QED BY <3>1 DEF Changes
  <2>5. \A x, y \in own : x.file = y.file => x = y
    <3> SUFFICES ASSUME both, NEW x \in Changes(run.before, disk[w], TRUE),
                        NEW y \in Changes(run.before, disk[w], TRUE), x.file = y.file
                 PROVE  x = y
      OBVIOUS
    <3>1. PICK f : x = [file |-> f, before |-> run.before[f], after |-> disk[w][f], own |-> TRUE]
      BY DEF Changes
    <3>2. PICK g : y = [file |-> g, before |-> run.before[g], after |-> disk[w][g], own |-> TRUE]
      BY DEF Changes
    <3> QED BY <3>1, <3>2
  <2>6. \A x \in run.foreign : ~ x.own  BY <1>1 DEF RunWindow
  <2>7. \A x \in own : Touched(c, w, x.file)'
    <3>1. \A f : Touched(c, w, f) => Touched(c, w, f)'  BY <1>3, TouchedStays
    <3> HIDE DEF own
    <3> QED  BY <2>4, <3>1 DEF Touched
  <2>8. run'.own = {}  BY <1>1, <1>5 DEF RunEffects, Early, SameEffects
  <2> HIDE DEF own, S, T
  <2>9. S \in Seq(own) /\ Len(S) = m /\ T \in Seq(run.foreign) /\ Len(T) = n
    BY <2>2, <2>3
  <2>10. CASE run'.todo = S \o T
    <3>0. S \in Seq(own \cup run.foreign) /\ T \in Seq(own \cup run.foreign)  BY <2>2, <2>3
    <3>0a. S \o T \in Seq(own \cup run.foreign) /\ Len(S \o T) = m + n
      BY <2>9, <3>0, ConcatProperties
    <3>1. run'.todo \in Seq(Range(run'.todo)) /\ DOMAIN run'.todo = 1..(m + n)
      BY <3>0a, <2>10, SeqOfRange, LenProperties
    <3>2. \A k \in 1..(m + n) : run'.todo[k] = IF k <= m THEN S[k] ELSE T[k - m]
      <4>1. \A k \in 1..Len(S) + Len(T) : (S \o T)[k] = IF k <= Len(S) THEN S[k] ELSE T[k - Len(S)]
        BY <3>0, ConcatProperties
      <4> QED  BY <2>9, <2>10, <4>1
    <3>3. \A k \in 1..(m + n) : run'.todo[k].own => k \in 1..m /\ run'.todo[k] = S[k] /\ S[k] \in own
      <4> TAKE k \in 1..(m + n)
      <4>1. CASE k <= m  BY <2>2, <3>2, <4>1
      <4>2. CASE k > m
        <5>1. k - m \in 1..n /\ run'.todo[k] = T[k - m]  BY <3>2, <4>2
        <5>2. T[k - m] \in run.foreign  BY <2>3, <5>1
        <5> QED BY <2>6, <5>1, <5>2
      <4> QED BY <4>1, <4>2
    <3> QED BY <1>6, <1>w, <2>2, <2>4, <2>5, <2>7, <2>8, <3>1, <3>3 DEF RunTodo
  <2>11. CASE run'.todo = T
    <3>1. run'.todo \in Seq(Range(run'.todo)) /\ DOMAIN run'.todo = 1..n
      BY <2>3, <2>9, <2>11 DEF Range
    <3>2. \A k \in 1..n : ~ run'.todo[k].own  BY <2>3, <2>6, <2>11
    <3> QED BY <3>1, <3>2 DEF RunTodo
  <2>12. run'.todo = S \o T \/ run'.todo = T  BY <1>5 DEF S, T, own
  <2> QED BY <2>10, <2>11, <2>12
<1>10. RunInv'  BY <1>7, <1>8, <1>9 DEF RunInv
<1> QED BY <1>3, <1>4, <1>10 DEF IInv

-------------------------------------------------------------------------------
(* The request, and the changes of files.                                  *)

(* The next two ids are new.                                               *)
LEMMA FreshNow ==
  ASSUME Identified(log)
  PROVE  /\ Cardinality(log) \in Nat
         /\ ~ Has(log, Fresh(1)) /\ Drawn(Fresh(1), Cardinality(log) + 1)
<1>1. Cardinality(log) \in Nat  BY FS_CardinalityType DEF Identified
<1>2. PICK k \in Nat : k = Cardinality(log) + 1 /\ k > Cardinality(log)  BY <1>1
<1>3. ~ Has(log, <<"evt", {k}>>) /\ Drawn(<<"evt", {k}>>, k)  BY <1>2, FreshIds
<1> QED BY <1>1, <1>2, <1>3 DEF Fresh

(* Start appends the request of the tool, and the event of its read.       *)
LEMMA StartKeeps ==
  ASSUME IInv, NEW c \in Calls, Start(c), UNCHANGED detector
  PROVE  IInv'
<1>1. /\ run = Idle /\ pc[c] = "queued"
      /\ UNCHANGED <<disk, lifes, together, wrote>>
  BY DEF Start, Turn
<1>2. PICK bound \in Call[c].bound, meta \in Metadata(c) :
       LET r == Entering(c, bound, meta)
           reading == [r EXCEPT !.read = FileRead(r)]
       IN  /\ seqs' = [seqs EXCEPT ![r.who.src] = Reserved(@)]
           /\ \/ Leave(c, "failed") /\ UNCHANGED log
              \/ /\ log' = log \cup {ToolRequested(r)}
                 /\ run' = r /\ Step(c, "opening")
              \/ /\ log' = log \cup {ToolRequested(r), reading.read}
                 /\ run' = reading /\ Step(c, "opening")
              \/ /\ log' = log \cup {ToolRequested(r)}
                 /\ run' = [reading EXCEPT !.gap = TRUE] /\ Step(c, "opening")
  BY Zenon DEF Start
<1> DEFINE r == Entering(c, bound, meta)
           reading == [r EXCEPT !.read = FileRead(r)]
<1>3. /\ DOMAIN r = RunFields /\ r.call = c /\ r.who = Life[Call[c].as] /\ r.seq = seqs[r.who.src]
      /\ r.request = Fresh(1) /\ r.before = None /\ r.foreign = {} /\ r.todo = <<>>
      /\ r.effects = {} /\ r.own = {} /\ r.analysed = {} /\ r.done = None
  BY DEF Entering, RunFields
<1>4. r.who.src \in Producers  BY <1>3, CallAssumption DEF Producers
<1>5. /\ seqs \in [Producers -> Nat] /\ seqs' \in [Producers -> Nat]
      /\ seqs'[r.who.src] = r.seq + 2 /\ r.seq \in Nat
      /\ \A p \in Producers : seqs[p] <= seqs'[p]
  <2>1. seqs \in [Producers -> Nat]  BY DEF IInv, Shapes
  <2>2. seqs' = [seqs EXCEPT ![r.who.src] = seqs[r.who.src] + 2]  BY <1>2 DEF Reserved
  <2> HIDE DEF r
  <2>3. seqs[r.who.src] \in Nat  BY <1>4, <2>1
  <2>4. seqs' \in [Producers -> Nat]  BY <1>4, <2>1, <2>2, <2>3
  <2>5. \A p \in Producers : seqs'[p] = IF p = r.who.src THEN seqs[p] + 2 ELSE seqs[p]
    BY <1>4, <2>1, <2>2
  <2>6. \A p \in Producers : seqs[p] \in Nat /\ seqs[p] <= seqs'[p]  BY <2>1, <2>5
  <2>7. seqs'[r.who.src] = r.seq + 2 /\ r.seq \in Nat  BY <1>3, <1>4, <2>3, <2>5
  <2> QED BY <2>1, <2>4, <2>6, <2>7
<1>tr. PICK tr : tr = ToolRequested(r)  OBVIOUS
<1>fr. PICK fr : fr = FileRead(r)  OBVIOUS
<1>6. /\ DOMAIN tr = EventFields /\ tr.id = Fresh(1) /\ tr.type = "tool.requested" /\ tr.src = r.who.src
      /\ tr.seq = r.seq /\ tr.corr = <<"call", c>>
  BY <1>3, <1>tr DEF ToolRequested, Event, EventFields
<1>7. /\ DOMAIN fr = EventFields /\ fr.id = <<"read", {Cardinality(log) + 1}>> /\ fr.type = "file.read"
      /\ fr.seq = None /\ fr.corr = <<"call", c>>
  BY <1>3, <1>fr DEF FileRead, Event, EventFields, Fresh
<1>8. pc = [d \in Calls |-> pc[d]]  BY DEF IInv, Shapes
<1>9. Identified(log) /\ Cardinality(log) \in Nat  BY FreshNow DEF IInv, LogInv
<1>10. CASE Leave(c, "failed") /\ UNCHANGED log
  <2>1. pc' = [pc EXCEPT ![c] = "failed"] /\ run' = Idle  BY <1>10 DEF Leave
  <2>2. BegunCalls \subseteq BegunCalls' /\ pc' = [d \in Calls |-> pc'[d]]  BY <1>8, <2>1 DEF BegunCalls
  <2>3. Grows  BY <1>1, <1>5, <1>9, <1>10, <2>2 DEF Grows, Identified
  <2>4. LogInv' /\ LifeInv' /\ DetectorInv'
    BY <1>1, <1>9, <1>10, <2>3, LogStays, LifeStays, DetectorStays DEF IInv
  <2>5. Shapes'  BY <1>1, <1>5, <2>2 DEF IInv, Shapes
  <2>6. RunInv'  BY <2>1 DEF RunInv
  <2> QED BY <2>4, <2>5, <2>6 DEF IInv
<1>11. CASE ~ (Leave(c, "failed") /\ UNCHANGED log)
  <2>1. /\ log' = log \cup {tr} \/ log' = log \cup {tr, fr}
        /\ Step(c, "opening")
        /\ run' = r \/ run' = reading \/ run' = [reading EXCEPT !.gap = TRUE]
    <3>1. reading.read = fr
      <4> HIDE DEF r
      <4> QED BY <1>3, <1>fr DEF RunFields
    <3> QED BY <1>2, <1>11, <1>tr, <3>1, Zenon
  <2>2. /\ DOMAIN run' = RunFields /\ run'.call = c /\ run'.who = r.who /\ run'.seq = r.seq
        /\ run'.request = r.request /\ run'.before = None /\ run'.foreign = {}
        /\ run'.effects = {} /\ run'.own = {} /\ run'.analysed = {}
    <3> HIDE DEF r
    <3> QED BY <1>3, <2>1 DEF RunFields
  <2>3. pc' = [pc EXCEPT ![c] = "opening"]  BY <2>1 DEF Step
  <2>4. BegunCalls \subseteq BegunCalls' /\ pc' = [d \in Calls |-> pc'[d]] /\ pc'[c] = "opening" /\ c \in BegunCalls'
    BY <1>8, <2>3 DEF BegunCalls
  <2> HIDE DEF r, reading
  <2>5. Identified(log') /\ log \subseteq log'
    <3>1. Identified(log \cup {tr}) /\ Cardinality(log \cup {tr}) = Cardinality(log) + 1
      BY <1>6, <1>9, FreshNow, AddOne
    <3>2. Identified((log \cup {tr}) \cup {fr})
      <4>1. fr.id # tr.id  BY <1>6, <1>7 DEF Fresh
      <4>2. ~ Has(log, fr.id) /\ Drawn(fr.id, Cardinality(log) + 1)
        <5>1. PICK k \in Nat : k = Cardinality(log) + 1 /\ k > Cardinality(log)  BY <1>9
        <5> QED BY <1>7, <1>9, <5>1, FreshIds
      <4>3. ~ Has(log \cup {tr}, fr.id)  BY <4>1, <4>2 DEF Has
      <4>4. Drawn(fr.id, Cardinality(log \cup {tr}) + 1)  BY <1>9, <3>1, <4>2, DrawnMore
      <4> QED BY <3>1, <4>3, <4>4, AddOne
    <3>3. (log \cup {tr}) \cup {fr} = log \cup {tr, fr}  OBVIOUS
    <3> QED BY <2>1, <3>1, <3>2, <3>3
  <2>6. Grows  BY <1>1, <1>5, <2>4, <2>5 DEF Grows, Identified
  <2>7. EventInv(tr)'
    BY <1>4, <1>5, <1>6, <2>4
       DEF EventInv, Correlated, Sequenced, Unsequenced, Versioned, ComparesRead, Credited, ProofHolds, FindingHolds
  <2>8. EventInv(fr)'
    BY <1>7, <2>4
       DEF EventInv, Correlated, Sequenced, Unsequenced, Versioned, ComparesRead, Credited, ProofHolds, FindingHolds
  <2>9. LogInv' /\ LifeInv' /\ DetectorInv'
    BY <1>1, <2>1, <2>5, <2>6, <2>7, <2>8, LogStays, LifeStays, DetectorStays DEF IInv
  <2>10. Shapes'  BY <1>1, <1>5, <2>4 DEF IInv, Shapes
  <2>11. RunBegun(run)'
    <3>1. ToolRequested(run)' = tr  BY <1>3, <1>tr, <2>2 DEF ToolRequested, Event
    <3>2. r.seq + 1 < seqs'[r.who.src]  BY <1>5
    <3> QED BY <1>3, <1>5, <2>1, <2>2, <2>4, <3>1, <3>2 DEF RunBegun, Stages
  <2>12. RunEnding(run)'
    <3>1. \A e \in log : e.src = r.who.src /\ e.seq # None => e.seq <= r.seq
      <4>1. \A e \in log : e.seq # None => e.seq \in Nat /\ e.seq < seqs[e.src]
        BY DEF IInv, LogInv, EventInv, Sequenced
      <4>2. r.seq = seqs[r.who.src]  BY <1>3
      <4> QED BY <1>5, <4>1, <4>2
    <3>2. tr.seq <= r.seq  BY <1>5, <1>6
    <3>3. \A e \in log' : e.src = r.who.src /\ e.seq # None => e.seq <= r.seq
      BY <1>7, <2>1, <3>1, <3>2
    <3> QED BY <2>2, <2>4, <3>3 DEF RunEnding, Late
  <2>13. RunEffects(run)'  BY <2>2, <2>4, FS_EmptySet DEF RunEffects
  <2>14. RunWindow(run)'  BY <2>2, <2>4, FS_EmptySet DEF RunWindow, Stages
  <2>15. RunTodo(run)'  BY <2>2, <2>4 DEF RunTodo
  <2>16. RunInv'  BY <2>11, <2>12, <2>13, <2>14, <2>15 DEF RunInv
  <2> QED BY <2>9, <2>10, <2>16 DEF IInv
<1> QED BY <1>10, <1>11

(* An effect of the dispatch is one of its own changes, or a change of a   *)
(* symbol.                                                                 *)
LEMMA EffectOwn ==
  ASSUME NEW i, NEW d \in log', d.id = i, d \in run'.own
  PROVE  Effect(run, i)'
  BY DEF Effect

LEMMA EffectOther ==
  ASSUME NEW i, NEW d \in log', d.id = i, d.type = "symbol.changed",
         InContext(run, d)', Touched(run.call, d.wt, d.body.res[2])'
  PROVE  Effect(run, i)'
  BY DEF Effect

(* AppendChange appends a change of a file, of the call or from outside    *)
(* it.                                                                     *)
LEMMA AppendChangeKeeps ==
  ASSUME IInv, NEW c \in Calls, AppendChange(c), UNCHANGED detector
  PROVE  IInv'
<1>0. Running(c, "changes") /\ run.todo # <<>>  BY DEF AppendChange
<1>1. /\ run # Idle /\ run.call = c /\ pc[c] = "changes" /\ DOMAIN run = RunFields
      /\ RunBegun(run) /\ RunEnding(run) /\ RunEffects(run) /\ RunWindow(run) /\ RunTodo(run)
      /\ run.who.src \in Producers
  BY <1>0, RunFacts DEF Stages
<1>2. PICK ch : ch = Head(run.todo)  OBVIOUS
<1>3. PICK e : e = FileChanged(run, Fresh(1), ch)  OBVIOUS
<1>w. PICK w : w = run.who.wt  OBVIOUS
<1> DEFINE next == [run EXCEPT !.todo = Tail(@), !.gap = @ \/ ~ch.own]
<1>4. /\ UNCHANGED <<disk, lifes, seqs, together, wrote>>
      /\ \/ log' = log \cup {e} /\ run' = Noted(next, e, ch.own) /\ Step(c, "analysing")
         \/ run' = [next EXCEPT !.gap = TRUE] /\ UNCHANGED <<log, pc, queue>>
  BY <1>2, <1>3 DEF AppendChange
<1>5. /\ DOMAIN next = RunFields /\ next.call = c /\ next.who = run.who /\ next.seq = run.seq
      /\ next.request = run.request /\ next.before = run.before /\ next.foreign = run.foreign
      /\ next.outcome = run.outcome /\ next.todo = Tail(run.todo) /\ next.effects = run.effects
      /\ next.own = run.own /\ next.analysed = run.analysed
  BY <1>1 DEF RunFields
<1>6. /\ ch.own => /\ ch.file \in Files /\ Touched(c, w, ch.file)
                   /\ \A d \in run.own : d.body.res # File(ch.file)
      /\ Tail(run.todo) \in Seq(Range(Tail(run.todo)))
      /\ \A k \in DOMAIN Tail(run.todo) : k + 1 \in DOMAIN run.todo /\ Tail(run.todo)[k] = run.todo[k + 1]
      /\ ch.own => \A k \in DOMAIN Tail(run.todo) : Tail(run.todo)[k].own => Tail(run.todo)[k].file # ch.file
  <2> DEFINE s == run.todo
             t == Tail(run.todo)
  <2>1. s \in Seq(Range(s))  BY <1>1 DEF RunTodo
  <2> HIDE DEF s
  <2>2. Len(s) \in Nat /\ Len(s) # 0 /\ DOMAIN s = 1..Len(s) /\ s # <<>>
    BY <1>0, <2>1, LenProperties, EmptySeq DEF s
  <2>3. t \in Seq(Range(s)) /\ Len(t) = Len(s) - 1 /\ \A k \in 1..Len(t) : t[k] = s[k + 1]
    BY <2>1, <2>2, HeadTailProperties DEF s
  <2> HIDE DEF t
  <2>4. t \in Seq(Range(t)) /\ DOMAIN t = 1..Len(t)  BY <2>3, SeqOfRange, LenProperties
  <2>5. ch = s[1] /\ 1 \in DOMAIN s  BY <1>2, <2>2 DEF s
  <2>6. \A k \in DOMAIN t : k + 1 \in DOMAIN s /\ k + 1 # 1 /\ t[k] = s[k + 1]  BY <2>2, <2>3, <2>4
  <2>7. /\ \A k \in DOMAIN s : s[k].own =>
            /\ s[k].file \in Files /\ Touched(c, w, s[k].file)
            /\ \A d \in run.own : d.body.res # File(s[k].file)
        /\ \A j, k \in DOMAIN s : s[j].own /\ s[k].own /\ s[j].file = s[k].file => j = k
    BY <1>1, <1>w DEF RunTodo, s
  <2>8. ch.own => /\ ch.file \in Files /\ Touched(c, w, ch.file)
                   /\ \A d \in run.own : d.body.res # File(ch.file)
    BY <2>5, <2>7
  <2>9. ch.own => \A k \in DOMAIN t : t[k].own => t[k].file # ch.file
    BY <2>5, <2>6, <2>7
  <2> QED BY <2>4, <2>6, <2>8, <2>9 DEF s, t
<1> HIDE DEF next
<1>7. Identified(log)  BY DEF IInv, LogInv
<1>8. /\ DOMAIN e = EventFields /\ e.id = Fresh(1) /\ e.type = "file.changed" /\ e.src = Watcher
      /\ e.seq = None /\ e.body.res = File(ch.file) /\ e.body.after.ev = e.id
      /\ e.wt = run.who.wt
      /\ ch.own => InContext(run, e) /\ e.cause = run.request
      /\ ~ ch.own => e.corr = <<"outside", e.id>>
  BY <1>3 DEF FileChanged, Event, EventFields, InContext, Version
<1>9. CASE run' = [next EXCEPT !.gap = TRUE] /\ UNCHANGED <<log, pc, queue>>
  <2>1. /\ SameCall /\ SameEffects /\ run'.before = run.before /\ run'.foreign = run.foreign
        /\ run'.outcome = run.outcome /\ run'.todo = Tail(run.todo)
    BY <1>1, <1>5, <1>9 DEF SameCall, SameEffects, RunFields
  <2>2. Grows /\ LogInv' /\ DetectorInv' /\ LifeInv'
    BY <1>4, <1>9, SameLog DEF BegunCalls
  <2>3. Shapes'  BY <1>4, <1>9 DEF IInv, Shapes
  <2>4. RunBegun(run)' /\ RunEnding(run)' /\ RunEffects(run)'
    BY <1>1, <1>9, <2>1, <2>2, BegunOn, EndingOn, EffectsOn DEF Late, Stages, Early
  <2>5. RunWindow(run)'
    BY <1>1, <1>4, <1>9, <2>1 DEF RunWindow, Early, Stages, SameCall
  <2>6. RunTodo(run)'
    <3>1. run'.call = c /\ run'.who.wt = w /\ run'.own = run.own  BY <1>1, <1>w, <2>1 DEF SameCall, SameEffects
    <3>2. /\ \A k \in DOMAIN run.todo : run.todo[k].own =>
            /\ run.todo[k].file \in Files /\ Touched(c, w, run.todo[k].file)
            /\ \A d \in run.own : d.body.res # File(run.todo[k].file)
        /\ \A j, k \in DOMAIN run.todo : run.todo[j].own /\ run.todo[k].own /\ run.todo[j].file = run.todo[k].file => j = k
      BY <1>1, <1>w DEF RunTodo
    <3>3. \A f : Touched(c, w, f) => Touched(c, w, f)'  BY <2>2, TouchedStays
    <3>4. \A j, k \in DOMAIN Tail(run.todo) : j + 1 = k + 1 => j = k
      BY <1>6, SMT
    <3> QED BY <1>6, <2>1, <3>1, <3>2, <3>3, <3>4 DEF RunTodo
  <2>7. RunInv'  BY <2>4, <2>5, <2>6 DEF RunInv
  <2> QED BY <2>2, <2>3, <2>7 DEF IInv
<1>10. CASE log' = log \cup {e} /\ run' = Noted(next, e, ch.own) /\ Step(c, "analysing")
  <2>1. /\ SameCall /\ run'.before = run.before /\ run'.foreign = run.foreign
        /\ run'.outcome = run.outcome /\ run'.todo = Tail(run.todo) /\ run'.change = e
        /\ run'.analysed = run.analysed
        /\ ch.own => run'.effects = run.effects \cup {e.id} /\ run'.own = run.own \cup {e}
        /\ ~ ch.own => run'.effects = run.effects /\ run'.own = run.own
    <3>1. CASE ch.own
      <4>1. run' = [next EXCEPT !.change = e, !.effects = @ \cup {e.id}, !.own = @ \cup {e}]
        BY <1>10, <3>1 DEF Noted
      <4> QED BY <1>1, <1>5, <3>1, <4>1 DEF SameCall, RunFields
    <3>2. CASE ~ ch.own
      <4>1. run' = [next EXCEPT !.change = e, !.outside = @ \cup {e.id}]
        BY <1>10, <3>2 DEF Noted
      <4> QED BY <1>1, <1>5, <3>2, <4>1 DEF SameCall, RunFields
    <3> QED BY <3>1, <3>2
  <2>2. /\ pc'[c] = "analysing" /\ BegunCalls' = BegunCalls /\ pc' = [d \in Calls |-> pc'[d]]
        /\ c \in BegunCalls'
    <3>1. pc'[c] = "analysing" /\ BegunCalls' = BegunCalls /\ pc' = [d \in Calls |-> pc'[d]]
      BY <1>1, <1>10, StepTo DEF IInv, Stages, Step
    <3> QED BY <3>1 DEF BegunCalls
  <2>3. ~ Has(log, e.id) /\ Identified(log')  BY <1>7, <1>8, <1>10, FreshNow, AddOne
  <2>4. Grows  BY <1>4, <1>10, <2>2, <2>3 DEF Grows, Identified, IInv, Shapes
  <2>5. EventInv(e)'
    <3>1. Correlated(e)'  BY <1>1, <1>8, <1>10, <2>2 DEF Correlated, InContext
    <3>2. e.seq = None /\ Versioned(e)'  BY <1>8 DEF Versioned
    <3> QED BY <1>8, <3>1, <3>2 DEF EventInv, Sequenced, ComparesRead, Credited, ProofHolds, FindingHolds
  <2>6. LogInv' /\ LifeInv' /\ DetectorInv'
    BY <1>4, <1>10, <2>3, <2>4, <2>5, LogStays, LifeStays, DetectorStays DEF IInv
  <2>7. Shapes'  BY <1>4, <2>2 DEF IInv, Shapes
  <2>8. RunBegun(run)' /\ RunEnding(run)'
    BY <1>1, <1>8, <1>10, <2>1, <2>2, <2>4, BegunOn, EndingOn DEF Late, Stages, SameCall
  <2>w. run'.call = c /\ run'.who.wt = w /\ run'.who = run.who /\ run'.request = run.request
    BY <1>1, <1>w, <2>1 DEF SameCall
  <2>9. RunEffects(run)'
    <3>1. ASSUME NEW d \in run.own PROVE OwnChange(run, d)'
      <4>1. OwnChange(run, d)  BY <1>1 DEF RunEffects
      <4>2. run.effects \subseteq run'.effects  BY <2>1
      <4>3. \A f : Touched(c, w, f) => Touched(c, w, f)'  BY <2>4, TouchedStays
      <4> QED BY <1>1, <1>w, <2>w, <2>4, <4>1, <4>2, <4>3 DEF OwnChange, InContext, Grows
    <3>2. ASSUME ch.own PROVE OwnChange(run, e)'
      <4>1. Touched(c, w, ch.file)'  BY <1>6, <2>4, <3>2, TouchedStays
      <4>2. InContext(run, e)'  BY <1>1, <1>8, <2>w, <3>2 DEF InContext
      <4> QED BY <1>6, <1>8, <1>10, <2>1, <2>w, <3>2, <4>1, <4>2 DEF OwnChange
    <3>3. \A d \in run'.own : OwnChange(run, d)'  BY <2>1, <3>1, <3>2
    <3>4. IsFiniteSet(run'.own)  BY <1>1, <2>1, FS_AddElement DEF RunEffects
    <3>5. \A d1, d2 \in run'.own : d1.body.res = d2.body.res => d1 = d2
      BY <1>1, <1>6, <1>8, <2>1 DEF RunEffects
    <3>6. \A i \in run.effects : Effect(run, i) /\ Has(log, i)
      BY <1>1 DEF RunEffects, Effect, Has
    <3>7. \A i \in run'.effects : Effect(run, i)'
      <4>1. run.own \subseteq run'.own  BY <2>1
      <4>2. \A d : Touched(run.call, d.wt, d.body.res[2]) => Touched(run.call, d.wt, d.body.res[2])'
        <5> TAKE d
        <5>1. PICK cc, ww, f : cc = run.call /\ ww = d.wt /\ f = d.body.res[2]  OBVIOUS
        <5> QED BY <1>1, <2>4, <2>w, <5>1, TouchedStays
      <4>3. \A i \in run.effects : Effect(run, i)'
        <5> TAKE i \in run.effects
        <5>1. PICK d \in log :
                /\ d.id = i
                /\ \/ d \in run.own
                   \/ /\ d.type = "symbol.changed" /\ InContext(run, d)
                      /\ Touched(run.call, d.wt, d.body.res[2])
          BY <3>6 DEF Effect
        <5>2. InContext(run, d)' <=> InContext(run, d)  BY <1>1, <2>w DEF InContext
        <5>3. d \in log'  BY <2>4 DEF Grows
        <5>4. CASE d \in run.own  BY <4>1, <5>1, <5>3, <5>4, EffectOwn
        <5>5. CASE d \notin run.own
          <6>1. Touched(run.call, d.wt, d.body.res[2])'  BY <4>2, <5>1, <5>5
          <6> QED BY <5>1, <5>2, <5>3, <5>5, <6>1, EffectOther
        <5> QED BY <5>4, <5>5
      <4>4. ch.own => Effect(run, e.id)'
        BY <1>10, <2>1 DEF Effect
      <4> QED BY <2>1, <4>3, <4>4
    <3>8. run'.change.id \in run'.effects => run'.change \in run'.own
      BY <2>1, <2>3, <3>6
    <3> QED BY <1>1, <1>8, <1>10, <2>1, <2>2, <2>w, <3>3, <3>4, <3>5, <3>7, <3>8
       DEF RunEffects, Early
  <2>10. RunWindow(run)'
    BY <1>1, <1>4, <2>1, <2>2, <2>w DEF RunWindow, Early, Stages
  <2>11. RunTodo(run)'
    <3>2. /\ \A k \in DOMAIN run.todo : run.todo[k].own =>
            /\ run.todo[k].file \in Files /\ Touched(c, w, run.todo[k].file)
            /\ \A d \in run.own : d.body.res # File(run.todo[k].file)
        /\ \A j, k \in DOMAIN run.todo : run.todo[j].own /\ run.todo[k].own /\ run.todo[j].file = run.todo[k].file => j = k
      BY <1>1, <1>w DEF RunTodo
    <3>3. \A f : Touched(c, w, f) => Touched(c, w, f)'  BY <2>4, TouchedStays
    <3>4. \A j, k \in DOMAIN Tail(run.todo) : j + 1 = k + 1 => j = k
      BY <1>6, SMT
    <3>5. \A k \in DOMAIN Tail(run.todo) : Tail(run.todo)[k].own =>
             \A d \in run'.own : d.body.res # File(Tail(run.todo)[k].file)
      BY <1>6, <1>8, <2>1, <3>2 DEF File
    <3> QED BY <1>6, <2>1, <2>w, <3>2, <3>3, <3>4, <3>5 DEF RunTodo
  <2>12. RunInv'  BY <2>8, <2>9, <2>10, <2>11 DEF RunInv
  <2> QED BY <2>6, <2>7, <2>12 DEF IInv
<1> QED BY <1>4, <1>9, <1>10 DEF next

-------------------------------------------------------------------------------
(* The changes of symbols.                                                 *)

(* Events numbered from the size of the log on have new ids.               *)
LEMMA FreshMany ==
  ASSUME Identified(log), NEW n \in Nat, NEW N, IdsUnique(N),
         \A x \in N : \E j \in 1..n : x.id = Fresh(j),
         \A j \in 1..n : \E x \in N : x.id = Fresh(j)
  PROVE  Identified(log \cup N) /\ IsFiniteSet(N)
<1> DEFINE g == [j \in 1..n |-> CHOOSE x \in N : x.id = Fresh(j)]
<1>1. Cardinality(log) \in Nat  BY FreshNow
<1>2. \A j \in 1..n : g[j] \in N /\ g[j].id = Fresh(j)  OBVIOUS
<1>3. \A i, j \in 1..n : Fresh(i) = Fresh(j) => i = j
  <2> TAKE i, j \in 1..n
  <2> HAVE Fresh(i) = Fresh(j)
  <2>1. {Cardinality(log) + i} = {Cardinality(log) + j}  BY DEF Fresh
  <2>2. Cardinality(log) + i = Cardinality(log) + j  BY <2>1
  <2> QED BY <1>1, <2>2
<1>4. g \in Bijection(1..n, N)
  <2>0. g \in [1..n -> N]  BY <1>2
  <2> HIDE DEF g
  <2>1. \A i, j \in 1..n : g[i] = g[j] => i = j  BY <1>2, <1>3
  <2>2. \A x \in N : \E j \in 1..n : g[j] = x
    <3> TAKE x \in N
    <3>1. PICK j \in 1..n : x.id = Fresh(j)  OBVIOUS
    <3> QED BY <1>2, <3>1 DEF IdsUnique
  <2> QED BY <2>0, <2>1, <2>2 DEF Bijection, Injection, Surjection, IsInjective
<1>5. IsFiniteSet(1..n) /\ Cardinality(1..n) = n
  <2>1. IsFiniteSet(1..n) /\ Cardinality(1..n) = IF 1 > n THEN 0 ELSE n - 1 + 1  BY FS_Interval
  <2> QED BY <2>1
<1>6. IsFiniteSet(N) /\ Cardinality(N) = n
  BY <1>4, <1>5, FS_Bijection DEF ExistsBijection
<1>7. \A x \in N : ~ Has(log, x.id)
  <2> TAKE x \in N
  <2>1. PICK j \in 1..n : x.id = Fresh(j)  OBVIOUS
  <2>2. PICK k \in Nat : k = Cardinality(log) + j /\ k > Cardinality(log)  BY <1>1
  <2>3. ~ Has(log, <<"evt", {k}>>)  BY <2>2, FreshIds
  <2> QED BY <2>1, <2>2, <2>3 DEF Fresh
<1>8. Cardinality(log \cup N) = Cardinality(log) + n
  <2>1. log \cap N = {}  BY <1>7 DEF Has
  <2>2. IsFiniteSet(log)  BY DEF Identified
  <2>3. Cardinality(log \cup N) = Cardinality(log) + Cardinality(N) - Cardinality(log \cap N)
    BY <1>6, <2>2, FS_Union
  <2>4. Cardinality(log \cap N) = 0  BY <2>1, FS_EmptySet
  <2> QED BY <1>1, <1>6, <2>3, <2>4
<1>9. \A x \in N : Drawn(x.id, Cardinality(log \cup N))
  <2> TAKE x \in N
  <2>1. PICK j \in 1..n : x.id = Fresh(j)  OBVIOUS
  <2>2. PICK k \in Nat : k = Cardinality(log) + j /\ k <= Cardinality(log) + n /\ k > Cardinality(log)
    BY <1>1
  <2>3. Drawn(<<"evt", {k}>>, k)  BY <2>2, FreshIds
  <2>4. Cardinality(log) + n \in Nat  BY <1>1
  <2>5. Drawn(<<"evt", {k}>>, Cardinality(log) + n)  BY <2>2, <2>3, <2>4, DrawnMore
  <2> QED BY <1>8, <2>1, <2>2, <2>5 DEF Fresh
<1>10. IdsUnique(log \cup N)
  BY <1>7 DEF IdsUnique, Has, Identified
<1> QED BY <1>6, <1>9, <1>10, AddMany

LEMMA FreshTwo ==
  ASSUME Identified(log), NEW a, a.id = Fresh(1), NEW b, b.id = Fresh(2)
  PROVE  Identified(log \cup {a, b})
<1>1. Cardinality(log) \in Nat  BY FreshNow
<1>2. Fresh(1) # Fresh(2)
  <2>1. Cardinality(log) + 1 # Cardinality(log) + 2  BY <1>1
  <2>2. {Cardinality(log) + 1} # {Cardinality(log) + 2}  BY <2>1
  <2> QED BY <2>2 DEF Fresh
<1>3. IdsUnique({a, b})  BY <1>2 DEF IdsUnique
<1>4. \A j \in 1..2 : j = 1 \/ j = 2  OBVIOUS
<1> QED BY <1>3, <1>4, FreshMany

(* Effects stay effects.                                                   *)
LEMMA EffectStays ==
  ASSUME Grows, SameCall, run.own \subseteq run'.own, NEW i, Effect(run, i)
  PROVE  Effect(run, i)'
<1>1. PICK d \in log :
        /\ d.id = i
        /\ \/ d \in run.own
           \/ d.type = "symbol.changed" /\ InContext(run, d) /\ Touched(run.call, d.wt, d.body.res[2])
  BY DEF Effect
<1>2. d \in log'  BY DEF Grows
<1>3. CASE d \in run.own  BY <1>1, <1>2, <1>3, EffectOwn
<1>4. CASE d \notin run.own
  <2>1. PICK c, w, f : c = run.call /\ w = d.wt /\ f = d.body.res[2]  OBVIOUS
  <2>2. Touched(c, w, f)'  BY <1>1, <1>4, <2>1, TouchedStays
  <2>3. Touched(run.call, d.wt, d.body.res[2])'  BY <2>1, <2>2 DEF SameCall
  <2>4. InContext(run, d)'  BY <1>1, <1>4 DEF InContext, SameCall
  <2> QED BY <1>1, <1>2, <1>4, <2>3, <2>4, EffectOther
<1> QED BY <1>3, <1>4

LEMMA EffectsMore ==
  ASSUME Grows, RunEffects(run), SameCall, run'.own = run.own, run.effects \subseteq run'.effects,
         \A i \in run'.effects \ run.effects : Effect(run, i)',
         run'.analysed \subseteq {e \in log' : e.type = "file.changed"},
         pc'[run.call] # "analysing", pc'[run.call] \notin Early
  PROVE  RunEffects(run)'
<1>1. \A i \in run.effects : Effect(run, i)  BY DEF RunEffects
<1>2. \A i \in run'.effects : Effect(run, i)'  BY <1>1, EffectStays
<1>3. \A e : OwnChange(run, e) => OwnChange(run, e)'
  BY TouchedStays DEF OwnChange, InContext, Grows, SameCall
<1> QED BY <1>2, <1>3 DEF RunEffects, SameCall

LEMMA WindowOn ==
  ASSUME Grows, RunWindow(run), SameCall, run'.outcome = run.outcome, run'.foreign = run.foreign,
         pc[run.call] \in Stages \ Early, pc'[run.call] \in Stages \ Early
  PROVE  RunWindow(run)'
  BY DEF Grows, RunWindow, SameCall, Early, Stages

LEMMA TodoOn ==
  ASSUME Grows, RunTodo(run), SameCall, run'.own = run.own, run'.todo = run.todo,
         pc[run.call] \in {"changes", "analysing"}
  PROVE  RunTodo(run)'
<1>w. PICK c, w : c = run.call /\ w = run.who.wt  OBVIOUS
<1>1. \A f : Touched(c, w, f) => Touched(c, w, f)'  BY TouchedStays
<1>2. \A k \in DOMAIN run.todo : run.todo[k].own =>
       /\ run.todo[k].file \in Files /\ Touched(c, w, run.todo[k].file)
       /\ \A e \in run.own : e.body.res # File(run.todo[k].file)
  BY <1>w DEF RunTodo
<1>3. run'.call = c /\ run'.who.wt = w  BY <1>w DEF SameCall
<1> QED BY <1>1, <1>2, <1>3 DEF RunTodo

(* Analyse appends what the analyzer says of the symbols of a changed      *)
(* file.                                                                   *)
LEMMA AnalyseKeeps ==
  ASSUME IInv, NEW c \in Calls, Analyse(c), UNCHANGED detector
  PROVE  IInv'
<1>0. Running(c, "analysing") /\ Step(c, "changes")  BY DEF Analyse
<1>1. /\ run # Idle /\ run.call = c /\ pc[c] = "analysing" /\ DOMAIN run = RunFields
      /\ RunBegun(run) /\ RunEnding(run) /\ RunEffects(run) /\ RunWindow(run) /\ RunTodo(run)
      /\ run.who.src \in Producers
  BY <1>0, RunFacts DEF Stages
<1>2. PICK e : e = run.change  OBVIOUS
<1>3. PICK s : s = SymbolChanged(run, Fresh(1), e, e.body.res[2])  OBVIOUS
<1>4. PICK d : d = DerivedEvidence(run, Fresh(2), s, e, s.body.after.val)  OBVIOUS
<1> DEFINE done == [run EXCEPT !.change = None, !.analysed = @ \cup {e},
                               !.effects = IF e.id \in @ THEN @ \cup {s.id} ELSE @]
           failed == [run EXCEPT !.change = None, !.gap = TRUE]
<1>5. /\ UNCHANGED <<disk, lifes, seqs, together, wrote>>
      /\ \/ run' = failed /\ UNCHANGED log
         \/ run' = done /\ log' = log \cup ToSet(<<s, d>>)
  BY <1>2, <1>3, <1>4, Zenon DEF Analyse
<1>6. ToSet(<<s, d>>) = {s, d}
  BY DEF ToSet
<1>7. /\ e \in log /\ e.type = "file.changed" /\ (e.id \in run.effects => e \in run.own)
      /\ EventInv(e) /\ DOMAIN e = EventFields /\ e.seq = None
  <2>1. e \in log /\ e.type = "file.changed" /\ (e.id \in run.effects => e \in run.own)
    BY <1>1, <1>2 DEF RunEffects
  <2>2. EventInv(e)  BY <2>1 DEF IInv, LogInv
  <2> QED BY <2>1, <2>2 DEF EventInv, Sequenced, Unsequenced
<1>8. /\ DOMAIN s = EventFields /\ s.id = Fresh(1) /\ s.type = "symbol.changed" /\ s.seq = None
      /\ s.wt = e.wt /\ s.agent = e.agent /\ s.task = e.task /\ s.corr = e.corr /\ s.cause = e.id
      /\ s.body.res = Symbol(e.body.res[2]) /\ s.body.after.ev = e.id
  BY <1>3, <1>7 DEF SymbolChanged, Version, EventFields
<1>9. /\ DOMAIN d = EventFields /\ d.id = Fresh(2) /\ d.type = "evidence.derived" /\ d.seq = None
      /\ d.corr = e.corr
  BY <1>4, <1>8 DEF DerivedEvidence, EventFields
<1>10. /\ pc'[c] = "changes" /\ BegunCalls' = BegunCalls /\ pc' = [x \in Calls |-> pc'[x]]
  BY <1>0, <1>1, StepTo DEF IInv, Stages, Step
<1>11. Identified(log)  BY DEF IInv, LogInv
<1>12. CASE run' = failed /\ UNCHANGED log
  <2>1. /\ SameCall /\ SameEffects /\ run'.foreign = run.foreign
        /\ run'.outcome = run.outcome /\ run'.todo = run.todo
    BY <1>1, <1>12 DEF SameCall, SameEffects, RunFields
  <2>2. Grows /\ LogInv' /\ DetectorInv' /\ LifeInv'
    BY <1>5, <1>10, <1>12, SameLog
  <2>3. Shapes'  BY <1>5, <1>10 DEF IInv, Shapes
  <2>4. RunBegun(run)' /\ RunEnding(run)' /\ RunEffects(run)' /\ RunWindow(run)' /\ RunTodo(run)'
    BY <1>1, <1>10, <1>12, <2>1, <2>2, BegunOn, EndingOn, EffectsOn, WindowOn, TodoOn
       DEF Late, Stages, Early, SameEffects
  <2> QED BY <2>2, <2>3, <2>4 DEF IInv, RunInv
<1>13. CASE run' = done /\ log' = log \cup {s, d}
  <2>1. /\ SameCall /\ run'.foreign = run.foreign
        /\ run'.outcome = run.outcome /\ run'.todo = run.todo /\ run'.own = run.own
        /\ run'.analysed = run.analysed \cup {e}
        /\ run'.effects = IF e.id \in run.effects THEN run.effects \cup {s.id} ELSE run.effects
    BY <1>1, <1>13 DEF SameCall, RunFields
  <2>2. Identified(log')  BY <1>8, <1>9, <1>11, <1>13, FreshTwo
  <2>3. Grows  BY <1>5, <1>10, <1>13, <2>2 DEF Grows, Identified, IInv, Shapes
  <2>4. EventInv(e)' /\ Correlated(e)'
    <3>1. EventInv(e)'  BY <1>7, <2>3, EventInvStays
    <3> QED BY <3>1 DEF EventInv
  <2>5. EventInv(s)'
    <3>1. Correlated(s)'  BY <1>8, <2>4 DEF Correlated
    <3>2. s.id[1] = "evt" /\ s.id = <<"evt", s.id[2]>>  BY <1>8 DEF Fresh
    <3>3. IsA(log', s.cause, {"file.changed"})  BY <1>7, <1>8, <1>13 DEF IsA
    <3>4. Versioned(s)'  BY <1>8, <3>2, <3>3 DEF Versioned
    <3> QED BY <1>8, <3>1, <3>4 DEF EventInv, Sequenced, ComparesRead, Credited, ProofHolds, FindingHolds
  <2>6. EventInv(d)'
    <3>1. Correlated(d)'  BY <1>9, <2>4 DEF Correlated
    <3> QED BY <1>9, <3>1 DEF EventInv, Sequenced, Versioned, ComparesRead, Credited, ProofHolds, FindingHolds
  <2>7. LogInv' /\ LifeInv' /\ DetectorInv'
    BY <1>5, <1>13, <2>2, <2>3, <2>5, <2>6, LogStays, LifeStays, DetectorStays DEF IInv
  <2>8. Shapes'  BY <1>5, <1>10 DEF IInv, Shapes
  <2>9. RunBegun(run)' /\ RunEnding(run)' /\ RunWindow(run)' /\ RunTodo(run)'
    BY <1>1, <1>8, <1>9, <1>10, <1>13, <2>1, <2>3, BegunOn, EndingOn, WindowOn, TodoOn
       DEF Late, Stages, Early
  <2>10. RunEffects(run)'
    <3>1. ASSUME e.id \in run.effects PROVE Effect(run, s.id)'
      <4>1. OwnChange(run, e)  BY <1>1, <1>7, <3>1 DEF RunEffects
      <4>2. PICK f \in Files : e.body.res = File(f) /\ Touched(c, run.who.wt, f)
        BY <1>1, <4>1 DEF OwnChange
      <4>3. InContext(run, e)  BY <4>1 DEF OwnChange
      <4>4. InContext(run, s)'  BY <1>8, <2>1, <4>3 DEF InContext, SameCall
      <4>5. s.body.res[2] = f  BY <1>8, <4>2 DEF Symbol, File
      <4>6. PICK w : w = run.who.wt  OBVIOUS
      <4>7. Touched(c, w, f)'  BY <2>3, <4>2, <4>6, TouchedStays
      <4>8. s.wt = w  BY <1>8, <4>3, <4>6 DEF InContext
      <4>9. Touched(run.call, s.wt, s.body.res[2])'
        BY <1>1, <2>1, <4>5, <4>7, <4>8 DEF SameCall
      <4> QED BY <1>8, <1>13, <4>4, <4>9, EffectOther
    <3>2. run.effects \subseteq run'.effects /\ \A i \in run'.effects \ run.effects : Effect(run, i)'
      BY <2>1, <3>1
    <3>3. run'.analysed \subseteq {x \in log' : x.type = "file.changed"}
      BY <1>1, <1>7, <1>13, <2>1 DEF RunEffects
    <3> QED BY <1>1, <1>10, <2>1, <2>3, <3>2, <3>3, EffectsMore DEF Early
  <2> QED BY <2>7, <2>8, <2>9, <2>10 DEF IInv, RunInv
<1> QED BY <1>5, <1>6, <1>12, <1>13

-------------------------------------------------------------------------------
(* Dependencies and the completion.                                        *)

(* A dispatch that ends leaves nothing behind but the log.                 *)
LEMMA Leaves ==
  ASSUME Shapes, NEW c \in Calls, NEW how \in {"done", "diagnosed", "failed", "refused"}, Leave(c, how)
  PROVE  BegunCalls \subseteq BegunCalls' /\ pc' = [d \in Calls |-> pc'[d]] /\ RunInv'
<1>1. pc' = [pc EXCEPT ![c] = how] /\ pc = [d \in Calls |-> pc[d]] /\ run' = Idle
  BY DEF Leave, Shapes
<1>2. BegunCalls \subseteq BegunCalls' /\ pc' = [d \in Calls |-> pc'[d]]  BY <1>1 DEF BegunCalls
<1>3. RunInv'  BY <1>1 DEF RunInv
<1> QED BY <1>2, <1>3

(* What is derived from an event, in its correlation.                       *)
Derived(x, e) == /\ DOMAIN x = EventFields /\ x.seq = None /\ x.corr = e.corr
                 /\ x.type \in {"dependency.changed", "evidence.derived"}

Paired(facts) == \E n, found, ch, ev :
  /\ n \in Nat
  /\ facts = UNION {{ch[k], ev[k]} : k \in 1..n}
  /\ \A k \in 1..n : /\ found[k] \in log /\ EventInv(found[k])
                     /\ ch[k].id = Fresh(2 * k - 1) /\ Derived(ch[k], found[k])
                     /\ ev[k].id = Fresh(2 * k) /\ Derived(ev[k], found[k])

(* The dependencies resolved are numbered in pairs, each derived from a    *)
(* change in the log.                                                      *)
LEMMA DependenciesAre ==
  ASSUME IInv, NEW c \in Calls, Running(c, "changes"), NEW facts, facts = Dependencies(run)
  PROVE  Paired(facts)
<1>1. RunEffects(run)  BY RunFacts DEF Stages
<1>6. Identified(log)  BY DEF IInv, LogInv
<1> DEFINE R == Resolved(run)
           n == Cardinality(R)
           found == SetToSeq(R)
<1>7. n \in Nat /\ found \in [1..n -> R]
  <2>1. IsFiniteSet(run.analysed)
    BY <1>1, <1>6, FS_Subset DEF RunEffects, Identified
  <2>2. IsFiniteSet(run.analysed \X Files)  BY <2>1, CallAssumption, FS_Product
  <2>3. R \subseteq run.analysed \X Files  BY DEF Resolved
  <2>4. IsFiniteSet(R)  BY <2>2, <2>3, FS_Subset
  <2> HIDE DEF R
  <2> QED BY <2>4, ListedOnce
<1>8. \A k \in 1..n : LET e == found[k][1] IN
        e \in log /\ e.type = "file.changed" /\ EventInv(e) /\ DOMAIN e = EventFields /\ e.seq = None
  <2> TAKE k \in 1..n
  <2> DEFINE e == found[k][1]
  <2>1. found[k] \in R  BY <1>7
  <2>2. e \in run.analysed  BY <2>1 DEF Resolved
  <2> HIDE DEF e
  <2>3. e \in log /\ e.type = "file.changed"  BY <1>1, <2>2 DEF RunEffects
  <2>4. EventInv(e)  BY <2>3 DEF IInv, LogInv
  <2>5. DOMAIN e = EventFields /\ e.seq = None  BY <2>3, <2>4 DEF EventInv, Sequenced, Unsequenced
  <2> QED BY <2>3, <2>4, <2>5 DEF e
<1>9. PICK ch, ev :
        /\ facts = UNION {{ch[k], ev[k]} : k \in 1..n}
        /\ \A k \in 1..n : /\ ch[k].id = Fresh(2 * k - 1) /\ Derived(ch[k], found[k][1])
                           /\ ev[k].id = Fresh(2 * k) /\ Derived(ev[k], found[k][1])
  <2> DEFINE
      change(k) == DependencyChanged(Fresh(2 * k - 1), found[k][1], found[k][2],
                                     CHOOSE v \in Matching(run, found[k][2]) : TRUE)
      evidence(k) == DerivedEvidence(run, Fresh(2 * k), change(k), found[k][1], change(k).body.ver[3])
      ch == [k \in 1..n |-> change(k)]
      ev == [k \in 1..n |-> evidence(k)]
  <2>1. facts = UNION {{change(k), evidence(k)} : k \in 1..n}
    BY DEF Dependencies
  <2>2. ASSUME NEW k \in 1..n
        PROVE  /\ change(k).id = Fresh(2 * k - 1) /\ Derived(change(k), found[k][1])
               /\ evidence(k).id = Fresh(2 * k) /\ Derived(evidence(k), found[k][1])
    <3>1. PICK e, x, v : e = found[k][1] /\ x = change(k) /\ v = evidence(k)  OBVIOUS
    <3>2. DOMAIN e = EventFields /\ e.seq = None  BY <1>8, <3>1
    <3>3. PICK f, ver : x = DependencyChanged(Fresh(2 * k - 1), e, f, ver)  BY <3>1
    <3>4. /\ x.id = Fresh(2 * k - 1) /\ DOMAIN x = EventFields /\ x.seq = None /\ x.corr = e.corr
          /\ x.type = "dependency.changed"
      BY <3>2, <3>3 DEF DependencyChanged, EventFields
    <3>5. PICK sig : v = DerivedEvidence(run, Fresh(2 * k), x, e, sig)  BY <3>1
    <3>6. /\ v.id = Fresh(2 * k) /\ DOMAIN v = EventFields /\ v.seq = None /\ v.corr = e.corr
          /\ v.type = "evidence.derived"
      BY <3>4, <3>5 DEF DerivedEvidence, EventFields
    <3> HIDE DEF change, evidence
    <3> QED BY <3>1, <3>4, <3>6 DEF Derived
  <2> HIDE DEF change, evidence, n, found
  <2>3. \A k \in 1..n : ch[k] = change(k) /\ ev[k] = evidence(k)  OBVIOUS
  <2>4. facts = UNION {{ch[k], ev[k]} : k \in 1..n}  BY <2>1, <2>3
  <2> HIDE DEF ch, ev, Derived
  <2>5. \A k \in 1..n : /\ ch[k].id = Fresh(2 * k - 1) /\ Derived(ch[k], found[k][1])
                           /\ ev[k].id = Fresh(2 * k) /\ Derived(ev[k], found[k][1])
    BY <2>2, <2>3
  <2> QED BY <2>4, <2>5
<1> HIDE DEF n
<1>10. PICK from : from = [k \in 1..n |-> found[k][1]]  OBVIOUS
<1>11. \A k \in 1..n : from[k] \in log /\ EventInv(from[k])
  BY <1>8, <1>10
<1>12. \A k \in 1..n : /\ ch[k].id = Fresh(2 * k - 1) /\ Derived(ch[k], from[k])
                       /\ ev[k].id = Fresh(2 * k) /\ Derived(ev[k], from[k])
  BY <1>9, <1>10
<1>13. n \in Nat  BY <1>7 DEF n
<1>14. facts = UNION {{ch[k], ev[k]} : k \in 1..n}  BY <1>9
<1>15. \A k \in 1..n :
         /\ from[k] \in log /\ EventInv(from[k])
         /\ ch[k].id = Fresh(2 * k - 1) /\ Derived(ch[k], from[k])
         /\ ev[k].id = Fresh(2 * k) /\ Derived(ev[k], from[k])
  BY <1>11, <1>12
<1> HIDE DEF n
<1> QED BY <1>13, <1>14, <1>15, Zenon DEF Paired

(* Resolve appends the dependencies, or the diagnosis the dispatch fails   *)
(* with.                                                                   *)
LEMMA ResolveKeeps ==
  ASSUME IInv, NEW c \in Calls, Resolve(c), UNCHANGED detector
  PROVE  IInv'
<1>0. Running(c, "changes") /\ Step(c, "completing")  BY DEF Resolve
<1>1. /\ run # Idle /\ run.call = c /\ pc[c] = "changes" /\ DOMAIN run = RunFields
      /\ RunBegun(run) /\ RunEnding(run) /\ RunEffects(run) /\ RunWindow(run) /\ RunTodo(run)
      /\ run.who.src \in Producers
  BY <1>0, RunFacts DEF Stages
<1>2. PICK facts : facts = Dependencies(run)  OBVIOUS
<1>3. /\ UNCHANGED <<disk, lifes, seqs, together, wrote>>
      /\ \/ UNCHANGED run /\ log' = log \cup facts
         \/ run' = [run EXCEPT !.gap = TRUE] /\ UNCHANGED log
  BY <1>2 DEF Resolve
<1>4. /\ pc'[c] = "completing" /\ BegunCalls' = BegunCalls /\ pc' = [x \in Calls |-> pc'[x]]
  BY <1>0, <1>1, StepTo DEF IInv, Stages, Step
<1>5. /\ SameCall /\ SameEffects /\ run'.foreign = run.foreign
      /\ run'.outcome = run.outcome /\ run'.todo = run.todo
  BY <1>1, <1>3 DEF SameCall, SameEffects, RunFields
<1>6. Identified(log)  BY DEF IInv, LogInv
<1>7. PICK n, found, ch, ev :
        /\ n \in Nat
        /\ facts = UNION {{ch[k], ev[k]} : k \in 1..n}
        /\ \A k \in 1..n :
             /\ found[k] \in log /\ EventInv(found[k])
             /\ ch[k].id = Fresh(2 * k - 1) /\ Derived(ch[k], found[k])
             /\ ev[k].id = Fresh(2 * k) /\ Derived(ev[k], found[k])
  <2>1. Paired(facts)  BY <1>0, <1>2, DependenciesAre
  <2> QED BY <2>1, Zenon DEF Paired
<1>8. n \in Nat  BY <1>7
<1>10. CASE run' = [run EXCEPT !.gap = TRUE] /\ UNCHANGED log
  <2>2. Grows /\ LogInv' /\ DetectorInv' /\ LifeInv'
    BY <1>3, <1>4, <1>10, SameLog
  <2>3. Shapes'  BY <1>3, <1>4 DEF IInv, Shapes
  <2>4. RunBegun(run)' /\ RunEnding(run)' /\ RunEffects(run)' /\ RunWindow(run)'
    BY <1>1, <1>4, <1>5, <1>10, <2>2, BegunOn, EndingOn, EffectsOn, WindowOn
       DEF Late, Stages, Early
  <2>5. RunTodo(run)'  BY <1>1, <1>4, <1>5 DEF RunTodo, SameCall
  <2> QED BY <2>2, <2>3, <2>4, <2>5 DEF IInv, RunInv
<1>11. CASE UNCHANGED run /\ log' = log \cup facts
  <2>1. \A x \in facts : \E k \in 1..n :
          \/ x = ch[k] /\ x.id = Fresh(2 * k - 1) /\ Derived(x, found[k])
          \/ x = ev[k] /\ x.id = Fresh(2 * k) /\ Derived(x, found[k])
    <3> TAKE x \in facts
    <3>1. PICK k \in 1..n : x \in {ch[k], ev[k]}  BY <1>7
    <3> QED BY <1>7, <3>1
  <2>2. Cardinality(log) \in Nat  BY <1>6, FreshNow
  <2>3. \A i, j \in Nat : Fresh(i) = Fresh(j) => i = j
    <3> TAKE i, j \in Nat
    <3> HAVE Fresh(i) = Fresh(j)
    <3>1. {Cardinality(log) + i} = {Cardinality(log) + j}  BY DEF Fresh
    <3>2. Cardinality(log) + i = Cardinality(log) + j  BY <3>1
    <3> QED BY <2>2, <3>2
  <2>4. 2 * n \in Nat /\ \A k \in 1..n : 2 * k \in 1..(2 * n) /\ 2 * k - 1 \in 1..(2 * n)
    BY <1>8
  <2>5. \A x \in facts : \E j \in 1..(2 * n) : x.id = Fresh(j)
    BY <2>1, <2>4
  <2>6. \A j \in 1..(2 * n) : \E x \in facts : x.id = Fresh(j)
    <3> TAKE j \in 1..(2 * n)
    <3>1. \E k \in 1..n : j = 2 * k \/ j = 2 * k - 1
      <4>1. n \in Nat  BY <1>8
      <4>2. (j + 1) \div 2 \in 1..n /\ (j = 2 * ((j + 1) \div 2) \/ j = 2 * ((j + 1) \div 2) - 1)
        BY <4>1
      <4> QED BY <4>2
    <3>2. PICK k \in 1..n : j = 2 * k \/ j = 2 * k - 1  BY <3>1
    <3>3. ch[k] \in facts /\ ev[k] \in facts  BY <1>7
    <3> QED BY <1>7, <3>2, <3>3
  <2>7. IdsUnique(facts)
    <3> SUFFICES ASSUME NEW x \in facts, NEW y \in facts, x.id = y.id PROVE x = y
      BY DEF IdsUnique
    <3>1. PICK k \in 1..n : \/ x = ch[k] /\ x.id = Fresh(2 * k - 1)
                            \/ x = ev[k] /\ x.id = Fresh(2 * k)
      BY <2>1
    <3>2. PICK m \in 1..n : \/ y = ch[m] /\ y.id = Fresh(2 * m - 1)
                            \/ y = ev[m] /\ y.id = Fresh(2 * m)
      BY <2>1
    <3>3. /\ 2 * k - 1 = 2 * m - 1 => k = m
          /\ 2 * k = 2 * m => k = m
          /\ 2 * k # 2 * m - 1 /\ 2 * k - 1 # 2 * m
          /\ 2 * k \in Nat /\ 2 * k - 1 \in Nat /\ 2 * m \in Nat /\ 2 * m - 1 \in Nat
      OBVIOUS
    <3> QED BY <2>3, <3>1, <3>2, <3>3
  <2>8. Identified(log')  BY <1>6, <1>11, <2>4, <2>5, <2>6, <2>7, FreshMany
  <2>9. Grows  BY <1>3, <1>4, <1>11, <2>8 DEF Grows, Identified, IInv, Shapes
  <2>10. ASSUME NEW x \in facts PROVE EventInv(x)' /\ x.seq = None
    <3>1. PICK k \in 1..n : Derived(x, found[k])  BY <2>1
    <3>2. PICK e : e = found[k]  OBVIOUS
    <3>3. EventInv(e)  BY <1>7, <3>2
    <3>4. Correlated(e)'  BY <2>9, <3>3, EventInvStays DEF EventInv
    <3>5. Correlated(x)'  BY <3>1, <3>2, <3>4 DEF Correlated, Derived
    <3> QED BY <3>1, <3>5
       DEF Derived, EventInv, Sequenced, Versioned, ComparesRead, Credited, ProofHolds, FindingHolds
  <2>11. LogInv' /\ LifeInv' /\ DetectorInv'
    BY <1>3, <1>11, <2>8, <2>9, <2>10, LogStays, LifeStays, DetectorStays DEF IInv
  <2>12. Shapes'  BY <1>3, <1>4 DEF IInv, Shapes
  <2>13. RunBegun(run)' /\ RunEnding(run)' /\ RunEffects(run)' /\ RunWindow(run)'
    BY <1>1, <1>4, <1>5, <1>11, <2>9, <2>10, BegunOn, EndingOn, EffectsOn, WindowOn
       DEF Late, Stages, Early
  <2>14. RunTodo(run)'  BY <1>1, <1>4, <1>5 DEF RunTodo, SameCall
  <2> QED BY <2>11, <2>12, <2>13, <2>14 DEF IInv, RunInv
<1> QED BY <1>3, <1>10, <1>11

(* Complete appends the completion, crediting only what the call wrote.    *)
LEMMA CompleteKeeps ==
  ASSUME IInv, NEW c \in Calls, Complete(c), UNCHANGED detector
  PROVE  IInv'
<1>0. Running(c, "completing")  BY DEF Complete
<1>1. /\ run # Idle /\ run.call = c /\ pc[c] = "completing" /\ DOMAIN run = RunFields
      /\ RunBegun(run) /\ RunEnding(run) /\ RunEffects(run) /\ RunWindow(run) /\ RunTodo(run)
      /\ run.who.src \in Producers
  BY <1>0, RunFacts DEF Stages
<1>2. PICK r : r = [run EXCEPT !.gap = @ \/ MetadataGap(run)]  OBVIOUS
<1>3. PICK d : d = ToolCompleted(r)  OBVIOUS
<1>4. /\ UNCHANGED <<disk, lifes, seqs, together, wrote>>
      /\ \/ log' = log \cup {d} /\ run' = [r EXCEPT !.done = Fresh(1)] /\ Step(c, "claiming")
         \/ Leave(c, "failed") /\ UNCHANGED log
  BY <1>2, <1>3 DEF Complete
<1>5. /\ DOMAIN r = RunFields /\ r.call = c /\ r.who = run.who /\ r.seq = run.seq /\ r.request = run.request
      /\ r.outcome = run.outcome /\ r.own = run.own /\ r.effects = run.effects
      /\ r.analysed = run.analysed /\ r.foreign = run.foreign /\ r.todo = run.todo
  BY <1>1, <1>2 DEF RunFields
<1>6. Identified(log)  BY DEF IInv, LogInv
<1>7. CASE Leave(c, "failed") /\ UNCHANGED log
  <2>1. BegunCalls \subseteq BegunCalls' /\ pc' = [x \in Calls |-> pc'[x]] /\ RunInv'
    BY <1>7, Leaves DEF IInv
  <2>2. Grows /\ LogInv' /\ DetectorInv' /\ LifeInv'  BY <1>4, <1>7, <2>1, SameLog
  <2>3. Shapes'  BY <1>4, <2>1 DEF IInv, Shapes
  <2> QED BY <2>1, <2>2, <2>3 DEF IInv
<1>8. CASE log' = log \cup {d} /\ run' = [r EXCEPT !.done = Fresh(1)] /\ Step(c, "claiming")
  <2>1. /\ pc'[c] = "claiming" /\ BegunCalls' = BegunCalls /\ pc' = [x \in Calls |-> pc'[x]] /\ c \in BegunCalls'
    <3>1. pc'[c] = "claiming" /\ BegunCalls' = BegunCalls /\ pc' = [x \in Calls |-> pc'[x]]
      BY <1>1, <1>8, StepTo DEF IInv, Stages, Step
    <3> QED BY <3>1 DEF BegunCalls
  <2>2. /\ SameCall /\ SameEffects /\ run'.foreign = run.foreign
        /\ run'.outcome = run.outcome /\ run'.todo = run.todo /\ run'.done = Fresh(1)
    BY <1>1, <1>5, <1>8 DEF SameCall, SameEffects, RunFields
  <2>3. /\ DOMAIN d = EventFields /\ d.id = Fresh(1) /\ d.type = "tool.completed"
        /\ d.src = run.who.src /\ d.seq = run.seq + 1 /\ d.wt = run.who.wt /\ d.agent = run.who.agent
        /\ d.task = run.who.task /\ d.corr = <<"call", c>> /\ d.cause = run.request
        /\ d.body.request = run.request /\ d.body.outcome = run.outcome
        /\ d.body.effects = run.effects /\ d.body.attributed = Attributed(r)
    BY <1>3, <1>5 DEF ToolCompleted, Event, EventFields
  <2>4. ~ Has(log, d.id) /\ Identified(log')  BY <1>6, <1>8, <2>3, FreshNow, AddOne
  <2>5. Grows  BY <1>4, <1>8, <2>1, <2>4 DEF Grows, Identified, IInv, Shapes
  <2>6. EventInv(d)'
    <3>1. Correlated(d)'  BY <2>1, <2>3 DEF Correlated
    <3>2. Sequenced(d)'
      <4>1. run.seq + 1 \in Nat /\ run.seq + 1 < seqs[run.who.src] /\ seqs' = seqs  BY <1>1, <1>4 DEF RunBegun
      <4> QED BY <1>1, <2>3, <4>1 DEF Sequenced, Unsequenced
    <3>3. Credited(d)'
      <4> SUFFICES ASSUME NEW i \in Attributed(r)
                   PROVE  \E x \in log' : x.id = i /\ <<d.corr[2], x.body.res[2]>> \in wrote'
        BY <2>3 DEF Credited
      <4>1. PICK e \in run.own : i = e.id  BY <1>5 DEF Attributed
      <4>2. /\ run.outcome = "succeeded"
            /\ {x.body.res : x \in run.own} = {File(f) : f \in Call[c].reports}
        BY <1>5 DEF Attributed
      <4>3. PICK f \in Call[c].reports : e.body.res = File(f)  BY <4>2
      <4>4. PICK v \in Call[c].writes : f = v[1]  BY CallAssumption
      <4>5. <<c, v[1]>> \in wrote  BY <1>1, <4>2 DEF RunWindow, Stages
      <4>6. e.body.res[2] = f  BY <4>3 DEF File
      <4>7. e \in log  BY <1>1 DEF RunEffects, OwnChange
      <4>8. d.corr[2] = c  BY <2>3
      <4> QED BY <1>4, <1>8, <4>1, <4>4, <4>5, <4>6, <4>7, <4>8
    <3> QED BY <2>3, <3>1, <3>2, <3>3 DEF EventInv, Versioned, ComparesRead, ProofHolds, FindingHolds
  <2>7. LogInv' /\ LifeInv' /\ DetectorInv'
    BY <1>4, <1>8, <2>4, <2>5, <2>6, LogStays, LifeStays, DetectorStays DEF IInv
  <2>8. Shapes'  BY <1>4, <2>1 DEF IInv, Shapes
  <2>9. RunEnding(run)'
    <3>1. DoneOf(run, d)'
      BY <1>1, <2>2, <2>3 DEF DoneOf, SameCall, SameEffects, InContext
    <3>2. run'.call = c  BY <1>1, <2>2 DEF SameCall
    <3> QED BY <1>8, <2>1, <3>1, <3>2 DEF RunEnding, Late
  <2>10. RunBegun(run)' /\ RunEffects(run)' /\ RunWindow(run)'
    BY <1>1, <2>1, <2>2, <2>5, BegunOn, EffectsOn, WindowOn DEF Stages, Early
  <2>11. RunTodo(run)'  BY <1>1, <2>1, <2>2 DEF RunTodo, SameCall
  <2> QED BY <2>7, <2>8, <2>9, <2>10, <2>11 DEF IInv, RunInv
<1> QED BY <1>4, <1>7, <1>8

-------------------------------------------------------------------------------
(* The dependent write, and what the lifetimes recorded.                   *)

(* A dispatch claims at most one dependent write.                          *)
LEMMA ClaimsAre ==
  ASSUME IInv, NEW c \in Calls, Running(c, "claiming"), NEW claims, claims = Claims(run)
  PROVE  /\ \A x \in claims :
             /\ DOMAIN x = EventFields /\ x.id = Fresh(1) /\ x.type = "write.dependent" /\ x.seq = None
             /\ x.corr = <<"call", c>> /\ x.body.target = run.target
             /\ x.body.read = run.meta.token.read /\ x.body.against = run.meta.against
         /\ \A x, y \in claims : x = y
<1>1. run.call = c /\ RunEffects(run)  BY RunFacts DEF Stages
<1>2. \A x \in claims : \E e \in DependentWriteChanges(run) : \E cov : x = DependentWrite(run, e, cov)
  BY DEF Claims, WriteStatements, WriteProofs
<1>3. \A d, e \in DependentWriteChanges(run) : d = e
  BY <1>1 DEF DependentWriteChanges, RunEffects
<1>4. \A x \in claims :
        /\ DOMAIN x = EventFields /\ x.id = Fresh(1) /\ x.type = "write.dependent" /\ x.seq = None
        /\ x.corr = <<"call", c>> /\ x.body.target = run.target
        /\ x.body.read = run.meta.token.read /\ x.body.against = run.meta.against
  <2> TAKE x \in claims
  <2>1. PICK e, cov : x = DependentWrite(run, e, cov)  BY <1>2
  <2> QED BY <1>1, <2>1 DEF DependentWrite, Event, EventFields
<1>5. \A x, y \in claims : x = y
  <2>1. CASE run.meta = None  BY <2>1 DEF Claims
  <2>2. CASE run.target = None /\ run.meta # None
    <3>1. claims = WriteStatements(run)  BY <2>2 DEF Claims
    <3> QED BY <1>3, <3>1 DEF WriteStatements
  <2>3. CASE run.target # None /\ run.meta # None
    <3>1. claims = WriteProofs(run)  BY <2>3 DEF Claims
    <3>2. PICK S : S = Sufficient(log)  OBVIOUS
    <3>3. \A x \in claims : \E e \in DependentWriteChanges(run) :
             x = DependentWrite(run, e, Covering(log, S, e.id))
      BY <3>1, <3>2 DEF WriteProofs
    <3> QED BY <1>3, <3>3
  <2> QED BY <2>1, <2>2, <2>3
<1> QED BY <1>4, <1>5

(* Claim appends the dependent write.                                      *)
LEMMA ClaimKeeps ==
  ASSUME IInv, NEW c \in Calls, Claim(c), UNCHANGED detector
  PROVE  IInv'
<1>0. Running(c, "claiming")  BY DEF Claim
<1>1. /\ run # Idle /\ run.call = c /\ pc[c] = "claiming" /\ DOMAIN run = RunFields
      /\ RunBegun(run) /\ RunEnding(run) /\ RunEffects(run) /\ RunWindow(run) /\ RunTodo(run)
      /\ run.who.src \in Producers
  BY <1>0, RunFacts DEF Stages
<1>2. PICK claims : claims = Claims(run)  OBVIOUS
<1>3. /\ UNCHANGED <<disk, lifes, seqs, together, wrote>>
      /\ \/ log' = log \cup claims /\ Step(c, "proving") /\ UNCHANGED run
         \/ Leave(c, "failed") /\ UNCHANGED log
  BY <1>2 DEF Claim
<1>4. Identified(log)  BY DEF IInv, LogInv
<1>5. CASE Leave(c, "failed") /\ UNCHANGED log
  <2>1. BegunCalls \subseteq BegunCalls' /\ pc' = [x \in Calls |-> pc'[x]] /\ RunInv'
    BY <1>5, Leaves DEF IInv
  <2>2. Grows /\ LogInv' /\ DetectorInv' /\ LifeInv'  BY <1>3, <1>5, <2>1, SameLog
  <2>3. Shapes'  BY <1>3, <2>1 DEF IInv, Shapes
  <2> QED BY <2>1, <2>2, <2>3 DEF IInv
<1>6. CASE log' = log \cup claims /\ Step(c, "proving") /\ UNCHANGED run
  <2>1. /\ pc'[c] = "proving" /\ BegunCalls' = BegunCalls /\ pc' = [x \in Calls |-> pc'[x]] /\ c \in BegunCalls'
    <3>1. pc'[c] = "proving" /\ BegunCalls' = BegunCalls /\ pc' = [x \in Calls |-> pc'[x]]
      BY <1>1, <1>6, StepTo DEF IInv, Stages, Step
    <3> QED BY <3>1 DEF BegunCalls
  <2>4. \A x \in claims :
          /\ DOMAIN x = EventFields /\ x.id = Fresh(1) /\ x.type = "write.dependent" /\ x.seq = None
          /\ x.corr = <<"call", c>> /\ x.body.target = run.target
          /\ x.body.read = run.meta.token.read /\ x.body.against = run.meta.against
    BY <1>0, <1>2, ClaimsAre
  <2>5. \A x, y \in claims : x = y  BY <1>0, <1>2, ClaimsAre
  <2>6. Identified(log')
    <3>1. CASE claims = {}  BY <1>4, <1>6, <3>1
    <3>2. CASE claims # {}
      <4>1. PICK x \in claims : claims = {x}  BY <2>5, <3>2
      <4>2. x.id = Fresh(1)  BY <2>4
      <4>3. Identified(log \cup {x})  BY <1>4, <4>2, FreshNow, AddOne
      <4> QED BY <1>6, <4>1, <4>3
    <3> QED BY <3>1, <3>2
  <2>7. Grows  BY <1>3, <1>6, <2>1, <2>6 DEF Grows, Identified, IInv, Shapes
  <2>8. ASSUME NEW x \in claims PROVE EventInv(x)'
    <3>1. Correlated(x)'  BY <2>1, <2>4 DEF Correlated
    <3>2. Sequenced(x)'  BY <2>4 DEF Sequenced, Unsequenced
    <3>3. ComparesRead(x)'
      <4> SUFFICES ASSUME run.target # None
                   PROVE \E r, a \in log' : /\ r.id = x.body.read /\ r.type = "file.read"
                                            /\ a.id = x.body.against /\ a.type \in ChangeTypes
                                            /\ a.body.res = r.body.res
        BY <2>4 DEF ComparesRead
      <4>1. x \in WriteProofs(run)  BY <1>2 DEF Claims
      <4>2. TokenFits(run) /\ \E S : CandidateFits(run, S)  BY <4>1 DEF WriteProofs
      <4>3. /\ IsA(log, run.meta.token.read, {"file.read"})
            /\ At(log, run.meta.token.read).body.res = run.meta.token.res
        BY <4>2 DEF TokenFits
      <4>4. IsA(log, run.meta.against, ChangeTypes) /\ At(log, run.meta.against).body.res = run.meta.token.res
        BY <4>2 DEF CandidateFits
      <4>5. IdsUnique(log)  BY <1>4 DEF Identified
      <4>6. /\ At(log, run.meta.token.read) \in log /\ At(log, run.meta.token.read).id = run.meta.token.read
            /\ At(log, run.meta.token.read).type = "file.read"
        BY <4>3, <4>5, IsAStays
      <4>7. /\ At(log, run.meta.against) \in log /\ At(log, run.meta.against).id = run.meta.against
            /\ At(log, run.meta.against).type \in ChangeTypes
        BY <4>4, <4>5, IsAStays
      <4> QED BY <1>6, <2>4, <4>3, <4>4, <4>6, <4>7
    <3> QED BY <2>4, <3>1, <3>2, <3>3 DEF EventInv, Versioned, Credited, ProofHolds, FindingHolds
  <2>9. LogInv' /\ LifeInv' /\ DetectorInv'
    BY <1>3, <1>6, <2>6, <2>7, <2>8, LogStays, LifeStays, DetectorStays DEF IInv
  <2>10. Shapes'  BY <1>3, <2>1 DEF IInv, Shapes
  <2>11. /\ SameCall /\ SameEffects /\ run'.foreign = run.foreign /\ run'.outcome = run.outcome
    BY <1>1, <1>6 DEF SameCall, SameEffects
  <2>12. RunEnding(run)'
    <3>1. PICK d \in log : DoneOf(run, d)  BY <1>1 DEF RunEnding, Late
    <3>2. DoneOf(run, d)'  BY <1>6, <3>1 DEF DoneOf, InContext
    <3> QED BY <1>1, <1>6, <2>1, <3>2 DEF RunEnding, Late
  <2>13. RunBegun(run)' /\ RunEffects(run)' /\ RunWindow(run)'
    BY <1>1, <2>1, <2>7, <2>11, BegunOn, EffectsOn, WindowOn DEF Stages, Early
  <2>14. RunTodo(run)'  BY <1>1, <2>1, <1>6 DEF RunTodo
  <2> QED BY <2>9, <2>10, <2>12, <2>13, <2>14 DEF IInv, RunInv
<1> QED BY <1>3, <1>5, <1>6

(* The completion of the dispatch, and what its effects are.               *)
LEMMA DoneIs ==
  ASSUME IInv, NEW c \in Calls, Running(c, "proving")
  PROVE  /\ At(log, run.done) \in log /\ DoneOf(run, At(log, run.done))
         /\ ToolRequested(run) \in log /\ At(log, run.request) = ToolRequested(run)
         /\ \A i \in run.effects : Effect(run, i)
         /\ \A e \in run.own : OwnChange(run, e)
<1>1. /\ run.call = c /\ pc[c] = "proving"
      /\ RunBegun(run) /\ RunEnding(run) /\ RunEffects(run)
  BY RunFacts DEF Stages
<1>2. IdsUnique(log)  BY DEF IInv, LogInv, Identified
<1>3. PICK d \in log : DoneOf(run, d)  BY <1>1 DEF RunEnding, Late
<1>4. At(log, run.done) = d  BY <1>2, <1>3, AtId DEF DoneOf
<1>5. ToolRequested(run) \in log  BY <1>1 DEF RunBegun
<1>6. ToolRequested(run).id = run.request  BY DEF ToolRequested, Event
<1>7. At(log, run.request) = ToolRequested(run)  BY <1>2, <1>5, <1>6, AtId
<1> QED BY <1>1, <1>3, <1>4, <1>5, <1>7 DEF RunEffects

(* What is read of the ledger in memory is the log.                        *)
LEMMA SliceIsReadable ==
  ASSUME IInv, NEW c \in Calls, Running(c, "proving")
  PROVE  SliceReadable(run)
<1>1. PICK d : d = At(log, run.done)  OBVIOUS
<1>2. PICK q : q = ToolRequested(run)  OBVIOUS
<1>3. /\ d \in log /\ DoneOf(run, d) /\ q \in log /\ At(log, run.request) = q
      /\ \A i \in run.effects : Effect(run, i)
      /\ \A e \in run.own : OwnChange(run, e)
  BY <1>1, <1>2, DoneIs
<1>4. /\ d.body.request = run.request /\ d.cause = run.request /\ d.body.effects = run.effects
      /\ InContext(run, d)
  BY <1>3 DEF DoneOf
<1>5. q.id = run.request /\ q.type = "tool.requested" /\ InContext(run, q)
  BY <1>2 DEF ToolRequested, Event, InContext
<1>6. IsA(log, run.request, {"tool.requested"})  BY <1>3, <1>5 DEF IsA
<1>7. SameContext(q, d)  BY <1>4, <1>5 DEF SameContext, InContext
<1>8. ASSUME NEW i \in run.effects
      PROVE  Has(log, i) /\ (IsA(log, i, {"file.changed"}) =>
                               At(log, i).cause = run.request /\ SameContext(At(log, i), d))
  <2>1. PICK e \in log : /\ e.id = i
                         /\ e \in run.own \/ e.type = "symbol.changed"
    BY <1>3 DEF Effect
  <2>2. IdsUnique(log)  BY DEF IInv, LogInv, Identified
  <2>3. At(log, i) = e /\ Has(log, i)  BY <2>1, <2>2, AtId
  <2>4. IsA(log, i, {"file.changed"}) => e \in run.own  BY <2>1, <2>2 DEF IsA, IdsUnique
  <2>5. e \in run.own => e.cause = run.request /\ SameContext(e, d)
    BY <1>3, <1>4 DEF OwnChange, InContext, SameContext
  <2> QED BY <2>3, <2>4, <2>5
<1> QED BY <1>1, <1>3, <1>4, <1>6, <1>7, <1>8 DEF SliceReadable

(* What joins a lifetime are changes that its calls made.                  *)
LEMMA RecordedHolds ==
  ASSUME IInv, NEW c \in Calls, Running(c, "proving")
  PROVE  /\ Recorded(run) = [m \in Lifecycles |->
                [state |-> Recorded(run)[m].state, overlaps |-> Recorded(run)[m].overlaps,
                 changes |-> Recorded(run)[m].changes]]
         /\ \A m \in Lifecycles :
              /\ \A n \in Recorded(run)[m].overlaps : {m, n} \in together
              /\ \A i \in Recorded(run)[m].changes : \E e \in log : e.id = i /\ ChangeOf(m, e)
<1>1. PICK l : l = Call[c].as  OBVIOUS
<1>2. PICK X : X = EffectChanges(run)  OBVIOUS
<1>3. /\ run.call = c /\ run.who = Life[l] /\ l \in Lifecycles
  BY <1>1, RunFacts DEF Stages
<1>4. \A i \in X : \E e \in log : e.id = i /\ ChangeOf(l, e)
  <2> TAKE i \in X
  <2>1. PICK d : d = At(log, run.done)  OBVIOUS
  <2>2. /\ DoneOf(run, d) /\ \A j \in run.effects : Effect(run, j)
        /\ \A e \in run.own : OwnChange(run, e)
    BY <2>1, DoneIs
  <2>3. i \in run.effects /\ IsA(log, i, {"symbol.changed"})
    BY <1>2, <2>1, <2>2 DEF EffectChanges, DoneOf
  <2>4. PICK e \in log :
          /\ e.id = i
          /\ \/ e \in run.own
             \/ e.type = "symbol.changed" /\ InContext(run, e) /\ Touched(run.call, e.wt, e.body.res[2])
    BY <2>2, <2>3 DEF Effect
  <2>5. IdsUnique(log)  BY DEF IInv, LogInv, Identified
  <2>6. e.type = "symbol.changed"  BY <2>3, <2>4, <2>5 DEF IsA, IdsUnique
  <2>7. e \notin run.own  BY <2>2, <2>6 DEF OwnChange
  <2> QED BY <1>1, <1>3, <2>4, <2>6, <2>7 DEF ChangeOf, InContext
<1>5. PICK ls : ls = Recorded(run)  OBVIOUS
<1>6. ls = lifes \/ ls = [lifes EXCEPT ![l].changes = @ \cup X]
  BY <1>1, <1>2, <1>3, <1>5 DEF Recorded
<1>7. lifes = [m \in Lifecycles |-> [state |-> lifes[m].state, overlaps |-> lifes[m].overlaps,
                                     changes |-> lifes[m].changes]]
  BY DEF IInv, Shapes
<1>8. CASE ls = lifes
  <2>1. \A m \in Lifecycles :
              /\ \A n \in lifes[m].overlaps : {m, n} \in together
              /\ \A i \in lifes[m].changes : \E e \in log : e.id = i /\ ChangeOf(m, e)
    BY DEF IInv, LifeInv
  <2> QED BY <1>5, <1>7, <1>8, <2>1
<1>9. CASE ls = [lifes EXCEPT ![l].changes = @ \cup X]
  <2>1. \A m \in Lifecycles :
          ls[m] = [state |-> lifes[m].state, overlaps |-> lifes[m].overlaps,
                   changes |-> IF m = l THEN lifes[m].changes \cup X ELSE lifes[m].changes]
    <3> TAKE m \in Lifecycles
    <3>1. lifes[m] = [state |-> lifes[m].state, overlaps |-> lifes[m].overlaps, changes |-> lifes[m].changes]
      BY <1>7
    <3>2. CASE m = l
      <4>1. ls[m] = [lifes[m] EXCEPT !.changes = @ \cup X]  BY <1>3, <1>7, <1>9, <3>2
      <4>2. PICK s, o, h : lifes[m] = [state |-> s, overlaps |-> o, changes |-> h]  BY <3>1
      <4>3. ls[m] = [state |-> s, overlaps |-> o, changes |-> h \cup X]
        <5>1. lifes[m].changes = h  BY <4>2
        <5>2. ls[m] = [lifes[m] EXCEPT !.changes = h \cup X]  BY <4>1, <5>1
        <5> QED BY <4>2, <5>2
      <4> QED BY <3>2, <4>2, <4>3
    <3>3. CASE m # l
      <4>1. ls[m] = lifes[m]  BY <1>7, <1>9, <3>3
      <4> QED BY <3>1, <3>3, <4>1
    <3> QED BY <3>2, <3>3
  <2>2. \A m \in Lifecycles :
          /\ ls[m].overlaps = lifes[m].overlaps
          /\ ls[m].changes = IF m = l THEN lifes[m].changes \cup X ELSE lifes[m].changes
          /\ ls[m] = [state |-> ls[m].state, overlaps |-> ls[m].overlaps, changes |-> ls[m].changes]
    <3> TAKE m \in Lifecycles
    <3>1. ls[m] = [state |-> lifes[m].state, overlaps |-> lifes[m].overlaps,
                   changes |-> IF m = l THEN lifes[m].changes \cup X ELSE lifes[m].changes]
      BY <2>1
    <3> QED BY <3>1
  <2>3. ls = [m \in Lifecycles |-> ls[m]]  BY <1>7, <1>9
  <2>4. ls = [m \in Lifecycles |-> [state |-> ls[m].state, overlaps |-> ls[m].overlaps, changes |-> ls[m].changes]]
    BY <2>2, <2>3
  <2>5. \A m \in Lifecycles :
              /\ \A n \in ls[m].overlaps : {m, n} \in together
              /\ \A i \in ls[m].changes : \E e \in log : e.id = i /\ ChangeOf(m, e)
    BY <1>4, <2>2 DEF IInv, LifeInv
  <2> QED BY <1>5, <2>4, <2>5
<1> QED BY <1>6, <1>8, <1>9

-------------------------------------------------------------------------------
(* Proofs of concurrency.                                                  *)

OwnerOf(ls, l, y) == CHOOSE o \in Owners(ls, l, y) : TRUE
Proving(c, l, ls) == c \in Calls /\ Running(c, "proving") /\ l = Call[c].as /\ ls = Recorded(run)

(* A pair of concurrent changes: one of the lifetime, one of another that  *)
(* overlapped with it, in another worktree.                                *)
LEMMA ConcursMeans ==
  ASSUME IInv, NEW c, NEW l, NEW ls, Proving(c, l, ls), NEW S, NEW x \in log, NEW y \in log,
         Concurs(ls, l, S, x, y)
  PROVE  /\ l \in Lifecycles /\ ChangeOf(l, x)
         /\ x.id # y.id /\ x.wt # y.wt /\ x.agent # y.agent
         /\ \A m \in Owners(ls, l, y) : m \in Lifecycles /\ m # l /\ {l, m} \in together /\ ChangeOf(m, y)
         /\ OwnerOf(ls, l, y) \in Owners(ls, l, y)
<1>0. c \in Calls /\ Running(c, "proving") /\ l = Call[c].as /\ ls = Recorded(run)  BY DEF Proving
<1>1. l \in Lifecycles  BY <1>0, RunFacts DEF Stages
<1>2. \A m \in Lifecycles :
              /\ \A n \in ls[m].overlaps : {m, n} \in together
              /\ \A i \in ls[m].changes : \E e \in log : e.id = i /\ ChangeOf(m, e)
  BY <1>0, RecordedHolds
<1>3. IdsUnique(log)  BY DEF IInv, LogInv, Identified
<1>4. \A m \in Lifecycles : \A e \in log : e.id \in ls[m].changes => ChangeOf(m, e)
  BY <1>2, <1>3 DEF IdsUnique
<1>5. ChangeOf(l, x)  BY <1>1, <1>4 DEF Concurs
<1>6. x.wt = Life[l].wt /\ x.agent = Life[l].agent  BY <1>5 DEF ChangeOf
<1>7. x.id # y.id /\ x.wt # y.wt /\ x.agent # y.agent  BY <1>6 DEF Concurs
<1>8. \A m \in Owners(ls, l, y) : m \in Lifecycles /\ m # l /\ {l, m} \in together /\ ChangeOf(m, y)
  BY <1>1, <1>2, <1>4 DEF Owners, Concurs
<1>9. Owners(ls, l, y) # {}  BY FS_EmptySet DEF Concurs
<1> QED BY <1>1, <1>5, <1>7, <1>8, <1>9 DEF OwnerOf

(* The event that proves a pair concurrent.                                *)
LEMMA ProofIs ==
  ASSUME NEW ls, NEW l, NEW x, NEW y, DOMAIN x = EventFields, NEW p, p = ConcurrencyProof(ls, l, x, y),
         NEW m, m = OwnerOf(ls, l, y), x.id # y.id
  PROVE  /\ DOMAIN p = EventFields /\ p.id = <<"proof", {x.id, y.id}>>
         /\ p.type = "task.concurrency.observed" /\ p.seq = x.seq /\ p.corr = x.corr /\ p.cause = x.id
         /\ p.wt = x.wt /\ p.src = Life[l].src
         /\ DOMAIN p.body.change = 1..2
         /\ \E both : /\ both = <<x, y>> \/ both = <<y, x>>
                      /\ \A k \in 1..2 :
                           /\ p.body.task[k] = both[k].task /\ p.body.agent[k] = both[k].agent
                           /\ p.body.change[k] = both[k].id /\ p.body.wt[k] = both[k].wt
                           /\ p.body.life[k] = IF both[k].task = Life[l].task THEN l ELSE m
<1> DEFINE
      first == IF \A i \in x.id[2], j \in y.id[2] : i < j THEN x ELSE y
      both  == <<first, IF first = x THEN y ELSE x>>
      life(e) == IF e.task = Life[l].task THEN l ELSE m
<1>1. both = <<x, y>> \/ both = <<y, x>>  OBVIOUS
<1>2. PICK b : b = both /\ (b = <<x, y>> \/ b = <<y, x>>)  BY <1>1
<1>c. PICK cov : cov = Covering(log, Sufficient(log), x.id)  OBVIOUS
<1>3. p = [x EXCEPT !.id = ProofId(x, y), !.type = "task.concurrency.observed", !.src = Life[l].src,
         !.cause = x.id,
         !.body = [task |-> <<both[1].task, both[2].task>>, agent |-> <<both[1].agent, both[2].agent>>,
                   wt |-> <<both[1].wt, both[2].wt>>, change |-> <<both[1].id, both[2].id>>,
                   life |-> <<life(both[1]), life(both[2])>>, cov |-> cov,
                   target |-> Target]]
  BY <1>c DEF ConcurrencyProof, OwnerOf
<1> HIDE DEF life, both
<1>4. /\ DOMAIN p = EventFields /\ p.id = <<"proof", {x.id, y.id}>>
      /\ p.type = "task.concurrency.observed" /\ p.seq = x.seq /\ p.corr = x.corr /\ p.cause = x.id
      /\ p.wt = x.wt /\ p.src = Life[l].src /\ p.body.wt = <<b[1].wt, b[2].wt>>
      /\ p.body.task = <<b[1].task, b[2].task>> /\ p.body.agent = <<b[1].agent, b[2].agent>>
      /\ p.body.change = <<b[1].id, b[2].id>> /\ p.body.life = <<life(b[1]), life(b[2])>>
  BY <1>2, <1>3 DEF EventFields, ProofId
<1>5. \A k \in 1..2 : /\ p.body.task[k] = b[k].task /\ p.body.agent[k] = b[k].agent
                      /\ p.body.change[k] = b[k].id /\ p.body.wt[k] = b[k].wt
                      /\ p.body.life[k] = life(b[k])
  <2> TAKE k \in 1..2
  <2>1. k = 1 \/ k = 2  OBVIOUS
  <2> QED BY <1>4, <2>1
<1>6. DOMAIN p.body.change = 1..2  BY <1>4
<1> QED BY <1>2, <1>4, <1>5, <1>6 DEF life

(* It says what happened.                                                  *)
LEMMA ProofSound ==
  ASSUME IInv, NEW c, NEW l, NEW ls, Proving(c, l, ls), NEW S, NEW x \in log, NEW y \in log,
         x.type = "symbol.changed", y.type = "symbol.changed",
         Concurs(ls, l, S, x, y), NEW p, p = ConcurrencyProof(ls, l, x, y), Accepted(p)
  PROVE  /\ EventInv(p) /\ p.seq = None /\ p.id = <<"proof", {x.id, y.id}>> /\ ~ Has(log, p.id)
         /\ p.type = "task.concurrency.observed"
<1>1. /\ l \in Lifecycles /\ ChangeOf(l, x)
      /\ x.id # y.id /\ x.wt # y.wt /\ x.agent # y.agent
      /\ \A m \in Owners(ls, l, y) : m \in Lifecycles /\ m # l /\ {l, m} \in together /\ ChangeOf(m, y)
      /\ OwnerOf(ls, l, y) \in Owners(ls, l, y)
  BY ConcursMeans
<1>2. PICK m : m = OwnerOf(ls, l, y)  OBVIOUS
<1>3. m \in Lifecycles /\ m # l /\ {l, m} \in together /\ ChangeOf(m, y)  BY <1>1, <1>2
<1>4. EventInv(x)  BY DEF IInv, LogInv
<1>5. DOMAIN x = EventFields /\ x.seq = None /\ Correlated(x)
  BY <1>4 DEF EventInv, Sequenced, Unsequenced
<1>6. /\ DOMAIN p = EventFields /\ p.id = <<"proof", {x.id, y.id}>>
      /\ p.type = "task.concurrency.observed" /\ p.seq = None /\ p.corr = x.corr
      /\ DOMAIN p.body.change = 1..2
      /\ \E both : /\ both = <<x, y>> \/ both = <<y, x>>
                   /\ \A k \in 1..2 :
                           /\ p.body.task[k] = both[k].task /\ p.body.agent[k] = both[k].agent
                           /\ p.body.change[k] = both[k].id
                           /\ p.body.life[k] = IF both[k].task = Life[l].task THEN l ELSE m
  BY <1>1, <1>2, <1>5, ProofIs
<1>7. PICK b : /\ b = <<x, y>> \/ b = <<y, x>>
               /\ \A k \in 1..2 :
                           /\ p.body.task[k] = b[k].task /\ p.body.agent[k] = b[k].agent
                           /\ p.body.change[k] = b[k].id
                           /\ p.body.life[k] = IF b[k].task = Life[l].task THEN l ELSE m
  BY <1>6
<1>8. ~ Has(log, p.id) /\ p.body.task[1] # p.body.task[2] /\ p.body.agent[1] # p.body.agent[2]
  <2>1. ~ Has(log, p.id) /\ ValidSet(log \cup {p})  BY DEF Accepted
  <2>2. EventValid(log \cup {p}, p)  BY <2>1 DEF ValidSet, Invalid
  <2>3. ConcurrencyValid(log \cup {p}, p)  BY <1>6, <2>2 DEF EventValid
  <2> QED BY <2>1, <2>3 DEF ConcurrencyValid
<1>9. x.task = Life[l].task /\ x.task # y.task
  <2>1. x.task = Life[l].task  BY <1>1 DEF ChangeOf
  <2>2. 1 \in 1..2 /\ 2 \in 1..2  OBVIOUS
  <2>3. b[1].task # b[2].task  BY <1>7, <1>8, <2>2
  <2>4. (b[1] = x /\ b[2] = y) \/ (b[1] = y /\ b[2] = x)  BY <1>7
  <2> QED BY <2>1, <2>3, <2>4
<1>10. \A k \in 1..2 : \/ b[k] = x /\ p.body.life[k] = l
                       \/ b[k] = y /\ p.body.life[k] = m
  <2> TAKE k \in 1..2
  <2>1. b[k] = x \/ b[k] = y  BY <1>7
  <2> QED BY <1>7, <1>9, <2>1
<1>11. {p.body.life[1], p.body.life[2]} = {l, m}
  <2>1. 1 \in 1..2 /\ 2 \in 1..2  OBVIOUS
  <2>2. (b[1] = x /\ b[2] = y) \/ (b[1] = y /\ b[2] = x)  BY <1>7
  <2>3. x # y  BY <1>1
  <2> QED BY <1>10, <2>1, <2>2, <2>3
<1>12. ProofHolds(p)
  <2>1. ASSUME NEW k \in 1..2
        PROVE  \E e \in log :
                 /\ e.id = p.body.change[k] /\ e.type = "symbol.changed" /\ e.agent = p.body.agent[k]
                 /\ Life[p.body.life[k]].wt = e.wt
                 /\ \E d \in Calls : /\ e.corr = <<"call", d>> /\ Call[d].as = p.body.life[k]
                                     /\ Touched(d, e.wt, e.body.res[2])
    <3>1. CASE b[k] = x /\ p.body.life[k] = l
      BY <1>1, <1>7, <3>1 DEF ChangeOf
    <3>2. CASE b[k] = y /\ p.body.life[k] = m
      BY <1>3, <1>7, <3>2 DEF ChangeOf
    <3> QED BY <1>10, <3>1, <3>2
  <2> QED BY <1>3, <1>6, <1>8, <1>11, <2>1 DEF ProofHolds
<1> QED BY <1>5, <1>6, <1>8, <1>12
     DEF EventInv, Correlated, Sequenced, Unsequenced, Versioned, ComparesRead, Credited, FindingHolds

(* Prove appends a proof for each pair of concurrent changes, and the      *)
(* dispatch is done.                                                       *)
LEMMA ProveKeeps ==
  ASSUME IInv, NEW c \in Calls, Prove(c), UNCHANGED detector
  PROVE  IInv'
<1>0. Running(c, "proving")  BY DEF Prove
<1>1. PICK l, ls : l = Call[c].as /\ ls = Recorded(run)  OBVIOUS
<1>p. Proving(c, l, ls)  BY <1>0, <1>1 DEF Proving
<1>2. PICK S : S = Sufficient(log)  OBVIOUS
<1>3. PICK pairs : pairs = IF run.target # None THEN Concurrent(ls, l) ELSE {}  OBVIOUS
<1>4. /\ UNCHANGED <<disk, seqs, together, wrote>> /\ lifes' = ls
      /\ \E lost : log' = log \cup {p \in {ConcurrencyProof(ls, l, q[1], q[2]) : q \in pairs \ lost} : Accepted(p)}
      /\ Leave(c, "done") \/ Leave(c, "diagnosed")
  BY <1>1, <1>3 DEF Prove
<1>5. PICK lost :
        log' = log \cup {p \in {ConcurrencyProof(ls, l, q[1], q[2]) : q \in pairs \ lost} : Accepted(p)}
  BY <1>4
<1>6. PICK P : P = {p \in {ConcurrencyProof(ls, l, q[1], q[2]) : q \in pairs \ lost} : Accepted(p)}
  OBVIOUS
<1>7. \A q \in pairs : q[1] \in log /\ q[2] \in log /\ q[1].type = "symbol.changed"
                       /\ q[2].type = "symbol.changed" /\ Concurs(ls, l, S, q[1], q[2])
  BY <1>2, <1>3 DEF Concurrent, OfType
<1>8. \A p \in P : \E q \in pairs : p = ConcurrencyProof(ls, l, q[1], q[2]) /\ Accepted(p)
  BY <1>6
<1>9. ASSUME NEW p \in P
      PROVE  /\ EventInv(p) /\ p.seq = None /\ ~ Has(log, p.id)
             /\ \E q \in pairs : p = ConcurrencyProof(ls, l, q[1], q[2]) /\ p.id = <<"proof", {q[1].id, q[2].id}>>
  <2>1. PICK q \in pairs : p = ConcurrencyProof(ls, l, q[1], q[2]) /\ Accepted(p)  BY <1>8
  <2>2. PICK x, y : x = q[1] /\ y = q[2]  OBVIOUS
  <2>3. x \in log /\ y \in log /\ x.type = "symbol.changed" /\ y.type = "symbol.changed"
        /\ Concurs(ls, l, S, x, y) /\ p = ConcurrencyProof(ls, l, x, y)
    BY <1>7, <2>1, <2>2
  <2>4. /\ EventInv(p) /\ p.seq = None /\ p.id = <<"proof", {x.id, y.id}>> /\ ~ Has(log, p.id)
    BY <1>p, <2>1, <2>3, ProofSound
  <2> QED BY <2>1, <2>2, <2>4
<1>10. Identified(log)  BY DEF IInv, LogInv
<1>11. ASSUME NEW p \in P, NEW r \in P, p.id = r.id PROVE p = r
  <2>1. PICK q \in pairs : p = ConcurrencyProof(ls, l, q[1], q[2]) /\ p.id = <<"proof", {q[1].id, q[2].id}>>
    BY <1>9
  <2>2. PICK s \in pairs : r = ConcurrencyProof(ls, l, s[1], s[2]) /\ r.id = <<"proof", {s[1].id, s[2].id}>>
    BY <1>9
  <2>3. PICK x, y, u, v : x = q[1] /\ y = q[2] /\ u = s[1] /\ v = s[2]  OBVIOUS
  <2>4. /\ x \in log /\ y \in log /\ u \in log /\ v \in log
        /\ Concurs(ls, l, S, x, y) /\ Concurs(ls, l, S, u, v)
    BY <1>7, <2>3
  <2>5. ChangeOf(l, x) /\ x.wt # y.wt  BY <1>p, <2>4, ConcursMeans
  <2>6. ChangeOf(l, u) /\ u.wt # v.wt  BY <1>p, <2>4, ConcursMeans
  <2>7. x.wt = u.wt /\ x.wt # v.wt /\ u.wt # y.wt  BY <2>5, <2>6 DEF ChangeOf
  <2>8. {x.id, y.id} = {u.id, v.id}  BY <1>11, <2>1, <2>2, <2>3
  <2>9. x.id # v.id /\ u.id # y.id  BY <1>10, <2>4, <2>7 DEF Identified, IdsUnique
  <2>10. x.id = u.id /\ y.id = v.id  BY <2>8, <2>9
  <2>11. x = u /\ y = v  BY <1>10, <2>4, <2>10 DEF Identified, IdsUnique
  <2> QED BY <2>1, <2>2, <2>3, <2>11
<1>12. Identified(log')
  <2>1. IsFiniteSet(P)
    <3> DEFINE T == pairs \ lost
               f == [q \in T |-> ConcurrencyProof(ls, l, q[1], q[2])]
    <3>1. IsFiniteSet(log \X log)  BY <1>10, FS_Product DEF Identified
    <3>2. Concurrent(ls, l) \subseteq log \X log  BY DEF Concurrent, OfType
    <3>3. T \subseteq log \X log  BY <1>3, <3>2
    <3>4. IsFiniteSet(T)  BY <3>1, <3>3, FS_Subset
    <3> HIDE DEF T
    <3>5. IsFiniteSet({f[q] : q \in T})  BY <3>4, ImageFinite
    <3>6. P \subseteq {f[q] : q \in T}  BY <1>6 DEF T
    <3> QED BY <3>5, <3>6, FS_Subset
  <2>2. \A p \in P : Drawn(p.id, Cardinality(log \cup P))
    <3> TAKE p \in P
    <3>1. PICK z : p.id = <<"proof", z>>  BY <1>9
    <3>2. p.id[1] = "proof"  BY <3>1
    <3> QED BY <3>2 DEF Drawn
  <2>3. \A p \in P : ~ Has(log, p.id)  BY <1>9
  <2>4. IdsUnique(log \cup P)  BY <1>10, <1>11, <2>3 DEF Identified, IdsUnique, Has
  <2> QED BY <1>5, <1>6, <1>10, <2>1, <2>2, <2>4, AddMany
<1>13. BegunCalls \subseteq BegunCalls' /\ pc' = [x \in Calls |-> pc'[x]] /\ RunInv'
  BY <1>4, Leaves DEF IInv
<1>14. Grows  BY <1>4, <1>5, <1>12, <1>13 DEF Grows, Identified, IInv, Shapes
<1>15. \A p \in P : EventInv(p)'  BY <1>9, <1>14, EventInvStays
<1>16. LogInv' /\ DetectorInv'
  BY <1>5, <1>6, <1>12, <1>14, <1>15, LogStays, DetectorStays DEF IInv
<1>17. /\ ls = [m \in Lifecycles |-> [state |-> ls[m].state, overlaps |-> ls[m].overlaps,
                                      changes |-> ls[m].changes]]
       /\ \A m \in Lifecycles :
              /\ \A n \in ls[m].overlaps : {m, n} \in together
              /\ \A i \in ls[m].changes : \E e \in log : e.id = i /\ ChangeOf(m, e)
  BY <1>0, <1>1, RecordedHolds
<1>18. Shapes'  BY <1>4, <1>13, <1>17 DEF IInv, Shapes
<1>19. LifeInv'
  <2>1. \A m, e : ChangeOf(m, e) => ChangeOf(m, e)'  BY <1>14, TouchedStays DEF ChangeOf
  <2> QED BY <1>4, <1>14, <1>17, <2>1 DEF LifeInv, Grows
<1> QED BY <1>13, <1>16, <1>18, <1>19 DEF IInv

-------------------------------------------------------------------------------
(* The rules of the detectors.                                             *)

(* Two are two.                                                            *)
LEMMA PairCounted ==
  ASSUME NEW a, NEW b, a # b
  PROVE  Cardinality({a, b}) = 2
<1>1. IsFiniteSet({a}) /\ Cardinality({a}) = 1  BY FS_Singleton
<1>2. b \notin {a}  OBVIOUS
<1>3. Cardinality({a} \cup {b}) = Cardinality({a}) + 1  BY <1>1, <1>2, FS_AddElement
<1>4. {a} \cup {b} = {a, b}  OBVIOUS
<1> QED BY <1>1, <1>3, <1>4

(* What each of the three rules finds has the evidence it cites.           *)
LEMMA SameSymbolSupported ==
  ASSUME LogInv, NEW S, NEW f \in SameSymbolFindings(log, S)
  PROVE  Supported(f) /\ f.evidence # {}
<1> DEFINE changes(o) == {At(log, o.body.change[k]) : k \in 1..2}
<1>0. PICK o \in Observations(log, S) :
        /\ Cardinality({c.body.after.val : c \in changes(o)}) = 2
        /\ f = Finding("same_symbol_overlap", At(log, o.body.change[2]).body.res, o.body.task[2], {},
               Range(o.body.change) \cup {o.id},
               {Covering(log, S, c.id) : c \in changes(o)} \cup {o.body.cov})
  BY DEF SameSymbolFindings
<1>1. /\ Cardinality({c.body.after.val : c \in {At(log, o.body.change[k]) : k \in 1..2}}) = 2
      /\ f.type = "same_symbol_overlap"
      /\ f.evidence = Range(o.body.change) \cup {o.id}
  BY <1>0 DEF Finding
<1>2. o \in log /\ o.type = "task.concurrency.observed"  BY DEF Observations, OfType
<1>3. /\ DOMAIN o.body.change = 1..2 /\ o.body.agent[1] # o.body.agent[2]
      /\ \A k \in 1..2 : \E e \in log :
       /\ e.id = o.body.change[k] /\ e.type = "symbol.changed" /\ e.agent = o.body.agent[k]
  BY <1>2 DEF LogInv, EventInv, ProofHolds
<1>4. PICK a \in log : a.id = o.body.change[1] /\ a.type = "symbol.changed" /\ a.agent = o.body.agent[1]
  BY <1>3
<1>5. PICK b \in log : b.id = o.body.change[2] /\ b.type = "symbol.changed" /\ b.agent = o.body.agent[2]
  BY <1>3
<1>6. IdsUnique(log)  BY DEF LogInv, Identified
<1>7. At(log, o.body.change[1]) = a /\ At(log, o.body.change[2]) = b  BY <1>4, <1>5, <1>6, AtId
<1>8. \A k \in 1..2 : k = 1 \/ k = 2  OBVIOUS
<1>9. Range(o.body.change) = {a.id, b.id}  BY <1>3, <1>4, <1>5, <1>8 DEF Range
<1>10. \A i \in f.evidence : Has(log, i)  BY <1>1, <1>2, <1>9 DEF Has
<1>11. Evidence(f, "symbol.changed") = {a, b}
  <2>1. ASSUME NEW e \in Evidence(f, "symbol.changed") PROVE e \in {a, b}
    <3>1. e \in log /\ e.type = "symbol.changed" /\ e.id \in f.evidence  BY DEF Evidence, OfType
    <3>2. e.id # o.id  BY <1>2, <1>6, <3>1 DEF IdsUnique
    <3>3. e.id = a.id \/ e.id = b.id  BY <1>1, <1>9, <3>1, <3>2
    <3> QED BY <1>6, <3>1, <3>3 DEF IdsUnique
  <2>2. a \in Evidence(f, "symbol.changed") /\ b \in Evidence(f, "symbol.changed")
    BY <1>1, <1>4, <1>5, <1>9 DEF Evidence, OfType
  <2> QED BY <2>1, <2>2
<1>12. {At(log, o.body.change[k]) : k \in 1..2} = {a, b}  BY <1>7, <1>8
<1>13. Cardinality({e.body.after.val : e \in Evidence(f, "symbol.changed")}) = 2
  BY <1>1, <1>11, <1>12
<1>14. Cardinality({e.agent : e \in Evidence(f, "symbol.changed")}) = 2
  <2>1. {e.agent : e \in {a, b}} = {a.agent, b.agent}  OBVIOUS
  <2>2. a.agent # b.agent  BY <1>3, <1>4, <1>5
  <2> QED BY <1>11, <2>1, <2>2, PairCounted
<1>15. Grounded(f)  BY <1>1, <1>13, <1>14 DEF Grounded
<1> QED BY <1>1, <1>9, <1>10, <1>15 DEF Supported, FindingTypes

LEMMA ContractSupported ==
  ASSUME LogInv, NEW S, NEW f \in ContractFindings(log, S)
  PROVE  Supported(f) /\ f.evidence # {}
<1>1. PICK x \in Symbols(log, S) \X Consumers(log, S) :
        /\ ContractBroken(log, S, x[1]) /\ ConsumesReplaced(x[1], x[2])
        /\ f.type = "exported_contract_invalidation"
        /\ f.evidence = {x[1].id, x[2].id, x[1].body.after.ev}
  BY DEF ContractFindings, Finding
<1>2. PICK e, d : e = x[1] /\ d = x[2]  OBVIOUS
<1>3. e \in log /\ e.type = "symbol.changed" /\ d \in log /\ d.type = "dependency.changed"
  BY <1>1, <1>2 DEF Symbols, Consumers, OfType
<1>4. IdsUnique(log)  BY DEF LogInv, Identified
<1>5. \A p \in log : p.type = "symbol.changed" =>
        /\ p.id = <<"evt", p.id[2]>>
        /\ p.body.after.ev = p.cause /\ IsA(log, p.cause, {"file.changed"})
  BY DEF LogInv, EventInv, Versioned
<1>6. PICK c \in log : c.id = e.body.after.ev /\ c.type = "file.changed"
  BY <1>3, <1>5 DEF IsA
<1>7. f.evidence = {e.id, d.id, c.id}  BY <1>1, <1>2, <1>6
<1>8. \A i \in f.evidence : Has(log, i)  BY <1>3, <1>7 DEF Has
<1>9. \A z \in Evidence(f, "symbol.changed") : z = e
  BY <1>3, <1>4, <1>6, <1>7 DEF Evidence, OfType, IdsUnique
<1>10. \A z \in Evidence(f, "dependency.changed") : z = d
  BY <1>3, <1>4, <1>6, <1>7 DEF Evidence, OfType, IdsUnique
<1>11. d.body.dependency = e.body.res /\ d.body.ver[3] = e.body.before.val
  BY <1>1, <1>2 DEF ConsumesReplaced
<1>12. Priors(log, S, e) # {}
  <2>1. Cardinality(Priors(log, S, e)) = 1  BY <1>1, <1>2 DEF ContractBroken
  <2> QED BY <2>1, FS_EmptySet
<1>13. PICK p \in Priors(log, S, e) : TRUE  BY <1>12
<1>14. /\ p \in log /\ p.type = "symbol.changed" /\ p # e
       /\ p.body.res = e.body.res /\ p.body.after.val = e.body.before.val
  BY <1>13 DEF Priors, Symbols, OfType
<1>15. p.id[2] # e.id[2]
  <2> SUFFICES ASSUME p.id[2] = e.id[2] PROVE FALSE  OBVIOUS
  <2>1. p.id = <<"evt", p.id[2]>> /\ e.id = <<"evt", e.id[2]>>  BY <1>3, <1>5, <1>14
  <2>2. p.id = e.id  BY <2>1
  <2> QED BY <1>3, <1>4, <1>14, <2>2 DEF IdsUnique
<1>16. Grounded(f)
  <2>1. p \in OfType(log, "symbol.changed") \ {e}  BY <1>14 DEF OfType
  <2> QED BY <1>1, <1>9, <1>10, <1>11, <1>14, <1>15, <2>1 DEF Grounded
<1> QED BY <1>1, <1>7, <1>8, <1>16 DEF Supported, FindingTypes

LEMMA StaleSupported ==
  ASSUME LogInv, NEW S, NEW f \in StaleReadFindings(log, S)
  PROVE  Supported(f) /\ f.evidence # {}
<1> DEFINE writes == {w \in OfType(log, "write.dependent") : w.body.target # None}
<1>0. PICK w \in writes :
        /\ Outdated(log, w.body)
        /\ f = Finding("stale_read_before_write", At(log, w.body.read).body.res, w.task, {w.body.dep},
               {w.body.read, w.id, At(log, w.body.against).body.after.ev},
               {Covering(log, S, w.body.read), w.body.cov, w.body.againstCov})
  BY DEF StaleReadFindings
<1>1. /\ w \in log /\ w.type = "write.dependent" /\ w.body.target # None /\ Outdated(log, w.body)
      /\ f.type = "stale_read_before_write"
      /\ f.evidence = {w.body.read, w.id, At(log, w.body.against).body.after.ev}
  BY <1>0 DEF Finding, OfType
<1>2. PICK r, a \in log : /\ r.id = w.body.read /\ r.type = "file.read"
                          /\ a.id = w.body.against /\ a.type \in ChangeTypes
                          /\ a.body.res = r.body.res
  BY <1>1 DEF LogInv, EventInv, ComparesRead
<1>3. IdsUnique(log)  BY DEF LogInv, Identified
<1>4. At(log, w.body.read) = r /\ At(log, w.body.against) = a  BY <1>2, <1>3, AtId
<1>5. a.body.after.val # r.body.ver.val  BY <1>1, <1>4 DEF Outdated
<1>6. PICK c \in log : /\ c.id = a.body.after.ev /\ c.type = "file.changed"
                       /\ a = c \/ (a.type = "symbol.changed" /\ a.cause = c.id)
  <2>1. Versioned(a)  BY DEF LogInv, EventInv
  <2>2. CASE a.type = "file.changed"  BY <2>1, <2>2 DEF Versioned
  <2>3. CASE a.type = "symbol.changed"  BY <2>1, <2>3 DEF Versioned, IsA
  <2> QED BY <1>2, <2>2, <2>3 DEF ChangeTypes
<1>7. f.evidence = {r.id, w.id, c.id}  BY <1>1, <1>2, <1>4, <1>6
<1>8. \A i \in f.evidence : Has(log, i)  BY <1>1, <1>2, <1>6, <1>7 DEF Has
<1>9. \A z \in Evidence(f, "file.read") : z = r
  BY <1>1, <1>2, <1>3, <1>6, <1>7 DEF Evidence, OfType, IdsUnique
<1>10. \A z \in Evidence(f, "file.changed") : z = c
  BY <1>1, <1>2, <1>3, <1>6, <1>7 DEF Evidence, OfType, IdsUnique
<1>11. Grounded(f)
  <2>1. a \in OfType(log, "symbol.changed") \cup {c}  BY <1>6 DEF OfType
  <2> QED BY <1>1, <1>2, <1>5, <1>6, <1>9, <1>10, <2>1 DEF Grounded
<1> QED BY <1>1, <1>7, <1>8, <1>11 DEF Supported, FindingTypes

-------------------------------------------------------------------------------
(* What the detectors append.                                              *)

(* Finitely many findings, which the detector may list.                    *)
LEMMA FindingsFinite ==
  ASSUME IsFiniteSet(log)
  PROVE  IsFiniteSet(Findings(log))
<1>1. PICK S : S = Sufficient(log)  OBVIOUS
<1>2. IsFiniteSet(SameSymbolFindings(log, S))
  <2> DEFINE changes(o) == {At(log, o.body.change[k]) : k \in 1..2}
             f == [o \in log |->
                    Finding("same_symbol_overlap", At(log, o.body.change[2]).body.res, o.body.task[2], {},
               Range(o.body.change) \cup {o.id},
               {Covering(log, S, c.id) : c \in changes(o)} \cup {o.body.cov})]
  <2>1. IsFiniteSet({f[x] : x \in log})  BY ImageFinite
  <2>2. SameSymbolFindings(log, S) \subseteq {f[x] : x \in log}
    BY DEF SameSymbolFindings, Observations, OfType
  <2> HIDE DEF f
  <2> QED BY <2>1, <2>2, FS_Subset
<1>3. IsFiniteSet(StaleReadFindings(log, S))
  <2> DEFINE f == [w \in log |->
        Finding("stale_read_before_write", At(log, w.body.read).body.res, w.task, {w.body.dep},
               {w.body.read, w.id, At(log, w.body.against).body.after.ev},
               {Covering(log, S, w.body.read), w.body.cov, w.body.againstCov})]
  <2>1. IsFiniteSet({f[x] : x \in log})  BY ImageFinite
  <2>2. StaleReadFindings(log, S) \subseteq {f[x] : x \in log}
    BY DEF StaleReadFindings, OfType
  <2> HIDE DEF f
  <2> QED BY <2>1, <2>2, FS_Subset
<1>4. IsFiniteSet(ContractFindings(log, S))
  <2>0a. PICK D : D = log \X log  OBVIOUS
  <2> DEFINE f == [x \in D |->
        Finding("exported_contract_invalidation", x[1].body.res, x[2].task, {x[2].body.dep},
           {x[1].id, x[2].id, x[1].body.after.ev},
           {Covering(log, S, x[1].id), Covering(log, S, x[2].id)})]
  <2>0. IsFiniteSet(D)  BY <2>0a, FS_Product
  <2>1. IsFiniteSet({f[x] : x \in D})  BY <2>0, ImageFinite
  <2>2. ContractFindings(log, S) \subseteq {f[x] : x \in D}
    BY <2>0a DEF ContractFindings, Symbols, Consumers, OfType
  <2> HIDE DEF f
  <2> QED BY <2>1, <2>2, FS_Subset
<1> QED BY <1>1, <1>2, <1>3, <1>4, FS_Union DEF Findings

(* The record pair of a finding that the log supports.                     *)
LEMMA RecordsHold ==
  ASSUME LogInv, NEW f, Supported(f), f.evidence # {}, NEW p, p = Records(log, f)
  PROVE  PairHolds(p)
<1>1. PICK parent : parent = At(log, CHOOSE i \in f.evidence : TRUE)  OBVIOUS
<1>2. parent \in log /\ DOMAIN parent = EventFields
  <2>1. PICK i : i = CHOOSE j \in f.evidence : TRUE  OBVIOUS
  <2>2. i \in f.evidence  BY <2>1
  <2>3. Has(log, i)  BY <2>2 DEF Supported
  <2>4. parent \in log  BY <1>1, <2>1, <2>3, AtHas
  <2> QED BY <2>4 DEF LogInv, EventInv
<1>3. PICK id : id = FindingIdFor(log, f)  OBVIOUS
<1>4. PICK fact : fact = [parent EXCEPT !.id = id, !.type = "finding.created", !.src = Core,
                 !.seq = None, !.agent = None, !.task = f.task, !.cause = parent.id,
                 !.body = [finding |-> id, says |-> f]]
  OBVIOUS
<1>5. PICK dec : dec = [fact EXCEPT !.id = <<"decision", id>>, !.type = "decision.created", !.cause = id,
           !.body = [decision |-> <<"decision", id>>, finding |-> id,
                     action |-> Action(f), directive |-> "allow_with_notice"]]
  OBVIOUS
<1>6. p = <<fact, dec>>  BY <1>1, <1>3, <1>4, <1>5 DEF Records
<1>7. /\ DOMAIN fact = EventFields /\ fact.id = id /\ fact.type = "finding.created" /\ fact.seq = None
      /\ fact.body.finding = id /\ fact.body.says = f /\ fact.corr = parent.corr
  BY <1>2, <1>4 DEF EventFields
<1>8. /\ DOMAIN dec = EventFields /\ dec.id = <<"decision", id>> /\ dec.type = "decision.created"
      /\ dec.seq = None /\ dec.corr = fact.corr /\ dec.wt = fact.wt
      /\ dec.body.decision = <<"decision", id>> /\ dec.body.finding = id
  BY <1>5, <1>7 DEF EventFields
<1>9. \E x, y, z : id = <<x, y, z>>  BY <1>3 DEF FindingIdFor
<1>10. p[1] = fact /\ p[2] = dec /\ ToSet(p) = {fact, dec}  BY <1>6 DEF ToSet
<1> QED BY <1>2, <1>7, <1>8, <1>9, <1>10 DEF PairHolds, Decides

(* Detect lists them, AppendRecords appends a finding with its decision,   *)
(* Respond the answer to a delivered one.                                  *)
LEMMA DetectKeeps ==
  ASSUME IInv, Detect
  PROVE  IInv'
<1>1. Grows /\ LogInv' /\ LifeInv'
  BY SameLog DEF Detect, gatewayVars, BegunCalls
<1>2. RunInv'  BY <1>1, RunStays DEF Detect, gatewayVars, IInv
<1>3. Shapes'  BY DEF Detect, gatewayVars, IInv, Shapes
<1>4. PICK R : R = {Records(log, f) : f \in Findings(log)}  OBVIOUS
<1>5. IsFiniteSet(R)
  <2> DEFINE F == Findings(log)
             g == [f \in F |-> Records(log, f)]
  <2>1. IsFiniteSet(F)  BY FindingsFinite DEF IInv, LogInv, Identified
  <2>2. R = {g[f] : f \in F}  BY <1>4
  <2> HIDE DEF F
  <2>3. IsFiniteSet({g[f] : f \in F})  BY <2>1, ImageFinite
  <2> QED BY <2>2, <2>3
<1>6. ASSUME NEW p \in R PROVE PairHolds(p)
  <2>1. PICK f \in Findings(log) : p = Records(log, f)  BY <1>4
  <2>2. Supported(f) /\ f.evidence # {}
    BY SameSymbolSupported, ContractSupported, StaleSupported DEF Findings, IInv
  <2> QED BY <2>1, <2>2, RecordsHold DEF IInv
<1>7. detector' = SetToSeq(R)  BY <1>4 DEF Detect
<1>8. PICK n \in Nat : detector' \in [1..n -> R]  BY <1>5, <1>7, ListedOnce
<1>9. DetectorInv'
  <2>1. \A p \in R : PairHolds(p)'  BY <1>1, <1>6, PairStays
  <2>2. detector' \in Seq(Range(detector')) /\ DOMAIN detector' = 1..n
    BY <1>8 DEF Range
  <2> QED BY <1>8, <2>1, <2>2 DEF DetectorInv
<1> QED BY <1>1, <1>2, <1>3, <1>9 DEF IInv

LEMMA AppendRecordsKeeps ==
  ASSUME IInv, AppendRecords
  PROVE  IInv'
<1>1. PICK p : p = Head(detector)  OBVIOUS
<1>2. /\ detector # NoRun
      /\ UNCHANGED <<disk, lifes, pc, run, seqs, together, wrote>>
      /\ \/ /\ ValidSet(log \cup ToSet(p)) /\ detector' = Tail(detector)
            /\ log' = log \cup {e \in ToSet(p) : ~Has(log, e.id)}
         \/ detector' = NoRun /\ UNCHANGED log
  BY <1>1 DEF AppendRecords
<1>3. detector \in Seq(Range(detector)) /\ \A k \in DOMAIN detector : PairHolds(detector[k])
  BY DEF IInv, DetectorInv
<1>4. CASE detector' = NoRun /\ UNCHANGED log
  <2>1. Grows /\ LogInv' /\ LifeInv'  BY <1>2, <1>4, SameLog DEF BegunCalls
  <2>2. RunInv'  BY <1>2, <1>4, <2>1, RunStays DEF IInv
  <2>3. Shapes'  BY <1>2 DEF IInv, Shapes
  <2>4. DetectorInv'
    <3>1. detector' = <<>> /\ <<>> \in Seq(Range(<<>>))  BY <1>4 DEF NoRun
    <3>2. DOMAIN detector' = {}  BY <3>1
    <3> QED BY <3>1, <3>2 DEF DetectorInv
  <2> QED BY <2>1, <2>2, <2>3, <2>4 DEF IInv
<1>5. CASE /\ ValidSet(log \cup ToSet(p)) /\ detector' = Tail(detector)
           /\ log' = log \cup {e \in ToSet(p) : ~Has(log, e.id)}
  <2>0. PICK s, t : s = detector /\ t = Tail(detector)  OBVIOUS
  <2>1. s \in Seq(Range(s))  BY <1>3, <2>0
  <2>2. Len(s) \in Nat /\ Len(s) # 0 /\ DOMAIN s = 1..Len(s) /\ s # <<>>
    BY <1>2, <2>1, LenProperties, EmptySeq, <2>0 DEF NoRun
  <2>3. t \in Seq(Range(s)) /\ Len(t) = Len(s) - 1 /\ \A k \in 1..Len(t) : t[k] = s[k + 1]
    BY <2>0, <2>1, <2>2, HeadTailProperties
  <2>4. t \in Seq(Range(t)) /\ DOMAIN t = 1..Len(t)  BY <2>3, SeqOfRange, LenProperties
  <2>5. p = s[1] /\ 1 \in DOMAIN s  BY <1>1, <2>0, <2>2
  <2>6. \A k \in DOMAIN t : k + 1 \in DOMAIN s /\ t[k] = s[k + 1]  BY <2>2, <2>3, <2>4
  <2>7. PairHolds(p)  BY <1>3, <2>0, <2>5
  <2>8. PICK f, d : f = p[1] /\ d = p[2]  OBVIOUS
  <2>9. /\ ToSet(p) = {f, d}
        /\ DOMAIN f = EventFields /\ DOMAIN d = EventFields
        /\ f.type = "finding.created" /\ f.seq = None /\ \E x, y, z : f.id = <<x, y, z>>
        /\ f.body.finding = f.id /\ Supported(f.body.says)
        /\ \E e \in log : e.corr = f.corr
        /\ d.seq = None /\ d.id = <<"decision", f.id>> /\ Decides(f, d)
    BY <2>7, <2>8 DEF PairHolds
  <2>10. IsFiniteSet(log) /\ IsFiniteSet({f, d}) /\ IsFiniteSet(log \cup {f, d})
    <3>1. IsFiniteSet(log)  BY DEF IInv, LogInv, Identified
    <3>2. IsFiniteSet({f} \cup {d})  BY FS_Singleton, FS_Union
    <3>3. {f} \cup {d} = {f, d}  OBVIOUS
    <3> QED BY <3>1, <3>2, <3>3, FS_Union
  <2>11. IdsUnique(log \cup {f, d})
    BY <1>5, <2>9, <2>10, ValidRules
  <2>12. log' = log \cup {f, d}
    BY <1>5, <2>9, <2>11 DEF Has, IdsUnique
  <2>13. Identified(log')
    <3>1. \A e \in {f, d} : Drawn(e.id, Cardinality(log \cup {f, d}))
      <4>1. d.id[1] = "decision"  BY <2>9
      <4>2. Len(f.id) = 3  BY <2>9
      <4> QED BY <4>1, <4>2 DEF Drawn
    <3>2. Identified(log)  BY DEF IInv, LogInv
    <3> QED BY <2>10, <2>11, <2>12, <3>1, <3>2, AddMany
  <2>14. Grows  BY <1>2, <2>12, <2>13 DEF Grows, Identified, IInv, Shapes, BegunCalls
  <2>15. Correlated(f)' /\ Correlated(d)'
    <3>1. PICK e \in log : e.corr = f.corr  BY <2>9
    <3>2. EventInv(e)  BY DEF IInv, LogInv
    <3>3. Correlated(e)'  BY <2>14, <3>2, EventInvStays DEF EventInv
    <3> QED BY <2>9, <3>1, <3>3 DEF Correlated, Decides
  <2>16. EventInv(f)'
    <3>1. FindingHolds(f)'
      <4>1. Supported(f.body.says)'
        <5>1. PICK says : says = f.body.says  OBVIOUS
        <5> QED BY <2>9, <2>14, <5>1, SupportedStays
      <4> QED BY <2>9, <2>12, <4>1 DEF FindingHolds
    <3> QED BY <2>9, <2>15, <3>1
       DEF EventInv, Sequenced, Versioned, ComparesRead, Credited, ProofHolds
  <2>17. EventInv(d)'
    BY <2>9, <2>15 DEF Decides, EventInv, Sequenced, Versioned, ComparesRead, Credited, ProofHolds, FindingHolds
  <2>18. LogInv' /\ LifeInv'
    BY <1>2, <2>12, <2>13, <2>14, <2>16, <2>17, LogStays, LifeStays DEF IInv
  <2>19. DetectorInv'
    <3>1. \A k \in DOMAIN t : PairHolds(t[k])  BY <1>3, <2>0, <2>6
    <3>2. \A k \in DOMAIN t : PairHolds(t[k])'
      <4> TAKE k \in DOMAIN t
      <4>1. PICK q : q = t[k]  OBVIOUS
      <4>2. PairHolds(q)'  BY <2>14, <3>1, <4>1, PairStays
      <4> QED BY <4>1, <4>2
    <3> QED BY <1>5, <2>0, <2>4, <3>2 DEF DetectorInv
  <2>20. Shapes'  BY <1>2 DEF IInv, Shapes
  <2>21. RunInv'  BY <1>2, <2>9, <2>12, <2>14, RunStays DEF IInv
  <2> QED BY <2>18, <2>19, <2>20, <2>21 DEF IInv
<1> QED BY <1>2, <1>4, <1>5

LEMMA RespondKeeps ==
  ASSUME IInv, Respond
  PROVE  IInv'
<1>1. /\ UNCHANGED <<disk, lifes, pc, run, seqs, together, wrote, detector>>
      /\ \E e \in log : \E r \in Responses(e) : ~Has(log, r.id) /\ log' = log \cup {r}
  BY DEF Respond
<1>2. PICK e \in log : \E r \in Responses(e) : ~Has(log, r.id) /\ log' = log \cup {r}
  BY <1>1
<1>3. PICK r \in Responses(e) : ~Has(log, r.id) /\ log' = log \cup {r}
  BY <1>2
<1>4. EventInv(e)  BY DEF IInv, LogInv
<1>5. /\ e.type \in {"decision.created", "finding.created"}
      /\ \E t \in {"decision.delivery.changed", "finding.feedback.created"} : \E body : r = Response(e, t, body)
  <2>1. CASE e.type = "decision.created"
    <3>1. \E s \in States : r = Response(e, "decision.delivery.changed", [said |-> s, decision |-> e.id])
      BY <1>3, <2>1 DEF Responses
    <3> QED BY <2>1, <3>1
  <2>2. CASE e.type = "finding.created"
    <3>1. \E s \in States : r = Response(e, "finding.feedback.created",
            [said |-> s, finding |-> e.id, decision |-> <<"decision", e.id>>, evidence |-> {e.id}])
      BY <1>3, <2>2 DEF Responses
    <3> QED BY <2>2, <3>1
  <2>3. e.type \in {"decision.created", "finding.created"}
    BY <1>3 DEF Responses
  <2> QED BY <2>1, <2>2, <2>3
<1>6. PICK t \in {"decision.delivery.changed", "finding.feedback.created"} : \E body : r = Response(e, t, body)
  BY <1>5
<1>7. /\ DOMAIN r = EventFields /\ Len(r.id) = 3 /\ r.type = t /\ r.seq = None /\ r.corr = e.corr
  <2>1. DOMAIN e = EventFields /\ e.seq = None
    BY <1>4, <1>5 DEF EventInv, Sequenced, Unsequenced
  <2> QED BY <1>6, <2>1 DEF Response, EventFields
<1>8. Identified(log) /\ Identified(log')
  <2>1. Drawn(r.id, Cardinality(log) + 1)  BY <1>7 DEF Drawn
  <2> QED BY <1>3, <2>1, AddOne DEF IInv, LogInv
<1>9. Grows  BY <1>1, <1>3, <1>8 DEF Grows, Identified, IInv, Shapes, BegunCalls
<1>10. EventInv(r)'
  <2>1. Correlated(e)'  BY <1>4, <1>9, EventInvStays DEF EventInv
  <2>2. Correlated(r)'  BY <1>7, <2>1 DEF Correlated
  <2> QED BY <1>6, <1>7, <2>2
     DEF EventInv, Sequenced, Unsequenced, Versioned, ComparesRead, Credited, ProofHolds, FindingHolds
<1>11. LogInv' /\ LifeInv' /\ DetectorInv'
  BY <1>1, <1>3, <1>8, <1>9, <1>10, LogStays, LifeStays, DetectorStays DEF IInv
<1>12. Shapes'  BY <1>1 DEF IInv, Shapes
<1>13. RunInv'  BY <1>1, <1>3, <1>7, <1>9, RunStays DEF IInv
<1> QED BY <1>11, <1>12, <1>13 DEF IInv

-------------------------------------------------------------------------------
(* The theorems of the invariant.                                          *)

(* The invariant holds at first, and every step keeps it.                  *)
LEMMA InitHolds == DetectionInit => IInv
<1> SUFFICES ASSUME DetectionInit PROVE IInv  OBVIOUS
<1>1. log = {} /\ run = Idle /\ detector = <<>>
  BY DEF DetectionInit, Init, NoRun
<1>2. LogInv
  <2>1. IsFiniteSet(log)  BY <1>1, FS_EmptySet
  <2> QED BY <1>1, <2>1 DEF LogInv, Identified, IdsUnique
<1>3. Shapes
  <2>1. disk = [w \in Worktrees |-> [f \in Files |-> Empty]]  BY DEF DetectionInit, Init
  <2>2. lifes = [l \in Lifecycles |-> [state |-> "unknown", overlaps |-> {}, changes |-> {}]]
    BY DEF DetectionInit, Init
  <2>3. \A l \in Lifecycles : lifes[l] = [state |-> lifes[l].state, overlaps |-> lifes[l].overlaps,
                                          changes |-> lifes[l].changes]
    BY <2>2
  <2>4. lifes = [l \in Lifecycles |-> [state |-> lifes[l].state, overlaps |-> lifes[l].overlaps,
                                       changes |-> lifes[l].changes]]
    BY <2>2, <2>3
  <2>5. disk = [w \in Worktrees |-> [f \in Files |-> disk[w][f]]]  BY <2>1
  <2>6. pc = [c \in Calls |-> pc[c]] /\ seqs \in [Producers -> Nat]  BY DEF DetectionInit, Init
  <2> QED BY <2>4, <2>5, <2>6 DEF Shapes
<1>4. LifeInv
  <2>1. \A l \in Lifecycles : lifes[l].overlaps = {} /\ lifes[l].changes = {}  BY DEF DetectionInit, Init
  <2> QED BY <2>1 DEF LifeInv
<1>5. RunInv  BY <1>1 DEF RunInv
<1>6. DetectorInv
  <2>1. <<>> \in Seq(Range(<<>>)) /\ DOMAIN <<>> = {}  OBVIOUS
  <2> QED BY <1>1, <2>1 DEF DetectorInv
<1> QED BY <1>2, <1>3, <1>4, <1>5, <1>6 DEF IInv

LEMMA GatewayKeeps ==
  ASSUME IInv, GatewayNext, UNCHANGED detector
  PROVE  IInv'
<1>1. ASSUME NEW l \in Lifecycles, BeginTask(l) \/ EndTask(l) PROVE IInv'
  BY <1>1, BeginTaskKeeps, EndTaskKeeps
<1>2. ASSUME NEW c \in Calls,
             \/ Dispatch(c) \/ Refuse(c) \/ Start(c) \/ BeginWindow(c) \/ Execute(c)
             \/ EndWindow(c) \/ AppendChange(c) \/ Analyse(c) \/ Resolve(c)
             \/ Complete(c) \/ Claim(c) \/ Prove(c)
      PROVE  IInv'
  BY <1>2, DispatchKeeps, RefuseKeeps, StartKeeps, BeginWindowKeeps, ExecuteKeeps, EndWindowKeeps,
     AppendChangeKeeps, AnalyseKeeps, ResolveKeeps, CompleteKeeps, ClaimKeeps, ProveKeeps
<1>3. ASSUME NEW w \in Worktrees, NEW x \in Foreign, OutsideEdit(w, x[1], x[2]) PROVE IInv'
  <2>1. PICK f, v : f = x[1] /\ v = x[2]  OBVIOUS
  <2>2. OutsideEdit(w, f, v)  BY <1>3, <2>1
  <2> QED BY <2>2, OutsideEditKeeps
<1> QED BY <1>1, <1>2, <1>3 DEF GatewayNext

LEMMA StepHolds == IInv /\ [Next]_vars => IInv'
<1> SUFFICES ASSUME IInv, [Next]_vars PROVE IInv'  OBVIOUS
<1>1. CASE GatewayNext /\ UNCHANGED detector  BY <1>1, GatewayKeeps
<1>2. CASE Detect  BY <1>2, DetectKeeps
<1>3. CASE AppendRecords  BY <1>3, AppendRecordsKeeps
<1>4. CASE Respond  BY <1>4, RespondKeeps
<1>5. CASE UNCHANGED vars
  <2>1. UNCHANGED <<log, disk, lifes, pc, run, seqs, together, wrote, detector>>
    BY <1>5 DEF vars, gatewayVars
  <2>2. Grows /\ LogInv' /\ LifeInv' /\ DetectorInv'  BY <2>1, SameLog DEF BegunCalls
  <2>3. RunInv'  BY <2>1, <2>2, RunStays DEF IInv
  <2>4. Shapes'  BY <2>1 DEF IInv, Shapes
  <2> QED BY <2>2, <2>3, <2>4 DEF IInv
<1> QED BY <1>1, <1>2, <1>3, <1>4, <1>5 DEF Next

(* Whatever the gateway and the detector do, in any order of their calls:  *)
(* what is logged, recorded of the lifetimes, held by the dispatch in      *)
(* progress and listed by the detector fit together. The other theorems    *)
(* rest on it.                                                             *)
THEOREM Inductive == DetectionSpec => []IInv
<1> QED BY InitHolds, StepHolds, PTL DEF DetectionSpec

(* What the invariant says of the properties.                              *)
LEMMA SoundNow == IInv => ConcurrencySound
<1> SUFFICES ASSUME IInv, NEW p \in Proofs
             PROVE  /\ {p.body.life[1], p.body.life[2]} \in together
                    /\ \A k \in 1..2 :
                         LET change == At(log, p.body.change[k])
                             file   == change.body.res[2]
                         IN  /\ Life[p.body.life[k]].wt = change.wt
                             /\ \E c \in Calls :
                                  /\ change.corr = <<"call", c>> /\ Call[c].as = p.body.life[k]
                                  /\ {<<c, file>>, <<change.wt, file>>} \cap wrote # {}
  BY Zenon DEF ConcurrencySound
<1>1. p \in log /\ p.type = "task.concurrency.observed"  BY DEF Proofs, OfType
<1>2. ProofHolds(p)  BY <1>1 DEF IInv, LogInv, EventInv
<1>3. {p.body.life[1], p.body.life[2]} \in together  BY <1>1, <1>2 DEF ProofHolds
<1>4. ASSUME NEW k \in 1..2
      PROVE  LET change == At(log, p.body.change[k])
                 file   == change.body.res[2]
             IN  /\ Life[p.body.life[k]].wt = change.wt
                 /\ \E c \in Calls :
                      /\ change.corr = <<"call", c>> /\ Call[c].as = p.body.life[k]
                      /\ {<<c, file>>, <<change.wt, file>>} \cap wrote # {}
  <2>1. PICK e \in log :
         /\ e.id = p.body.change[k]
         /\ Life[p.body.life[k]].wt = e.wt
         /\ \E c \in Calls : /\ e.corr = <<"call", c>> /\ Call[c].as = p.body.life[k]
                             /\ Touched(c, e.wt, e.body.res[2])
    BY <1>1, <1>2 DEF ProofHolds
  <2>2. At(log, p.body.change[k]) = e  BY <2>1, AtId DEF IInv, LogInv, Identified
  <2> QED BY <2>1, <2>2 DEF Touched
<1> QED BY <1>3, <1>4

LEMMA WrittenNow == IInv => AttributedWritten
<1> SUFFICES ASSUME IInv, NEW c \in OfType(log, "tool.completed"), NEW i \in c.body.attributed
             PROVE  <<c.corr[2], At(log, i).body.res[2]>> \in wrote
  BY DEF AttributedWritten
<1>1. c \in log /\ c.type = "tool.completed"  BY DEF OfType
<1>2. PICK d \in log : d.id = i /\ <<c.corr[2], d.body.res[2]>> \in wrote
  BY <1>1 DEF IInv, LogInv, EventInv, Credited
<1>3. At(log, i) = d  BY <1>2, AtId DEF IInv, LogInv, Identified
<1> QED BY <1>2, <1>3

LEMMA GroundedNow == IInv => FindingsGrounded
  BY DEF FindingsGrounded, IInv, LogInv, EventInv, FindingHolds, Supported, OfType

LEMMA SliceKept == IInv /\ SliceWhole /\ [Next]_vars => SliceWhole'
<1> SUFFICES ASSUME IInv, SliceWhole, [Next]_vars, NEW d \in Calls PROVE pc'[d] # "diagnosed"
  BY DEF SliceWhole
<1>1. pc = [c \in Calls |-> pc[c]] /\ \A c \in Calls : pc[c] # "diagnosed"
  BY DEF IInv, Shapes, SliceWhole
<1>2. CASE UNCHANGED pc  BY <1>1, <1>2
<1>3. ASSUME NEW c \in Calls, NEW to, pc' = [pc EXCEPT ![c] = to], to # "diagnosed"
      PROVE  pc'[d] # "diagnosed"
  BY <1>1, <1>3
<1>4. ASSUME NEW c \in Calls, Prove(c) PROVE pc'[d] # "diagnosed"
  <2>1. SliceReadable(run)  BY <1>4, SliceIsReadable DEF Prove
  <2>2. pc' = [pc EXCEPT ![c] = "done"]  BY <1>4, <2>1 DEF Prove, Leave
  <2> QED BY <1>3, <2>2
<1>5. ASSUME NEW c \in Calls,
             \/ Dispatch(c) \/ Refuse(c) \/ Start(c) \/ BeginWindow(c) \/ Execute(c)
             \/ EndWindow(c) \/ AppendChange(c) \/ Analyse(c) \/ Resolve(c)
             \/ Complete(c) \/ Claim(c)
      PROVE  pc'[d] # "diagnosed"
  <2>1. CASE Dispatch(c)
    <3>1. pc' = [pc EXCEPT ![c] = "queued"]  BY <2>1 DEF Dispatch
    <3> QED BY <1>3, <3>1
  <2>2. CASE Refuse(c)
    <3>1. pc' = [pc EXCEPT ![c] = "refused"]  BY <2>2 DEF Refuse, Leave
    <3> QED BY <1>3, <3>1
  <2>3. CASE Start(c)
    <3>1. Leave(c, "failed") \/ Step(c, "opening")  BY <2>3, Zenon DEF Start
    <3>2. pc' = [pc EXCEPT ![c] = "failed"] \/ pc' = [pc EXCEPT ![c] = "opening"]
      BY <3>1 DEF Leave, Step
    <3> QED BY <1>3, <3>2
  <2>4. CASE BeginWindow(c)
    <3>1. pc' = [pc EXCEPT ![c] = "executing"]  BY <2>4 DEF BeginWindow, Step
    <3> QED BY <1>3, <3>1
  <2>5. CASE Execute(c)
    <3>1. pc' = [pc EXCEPT ![c] = "closing"]  BY <2>5 DEF Execute, Step
    <3> QED BY <1>3, <3>1
  <2>6. CASE EndWindow(c)
    <3>1. pc' = [pc EXCEPT ![c] = "changes"]  BY <2>6 DEF EndWindow, Step
    <3> QED BY <1>3, <3>1
  <2>7. CASE AppendChange(c)
    <3>1. Step(c, "analysing") \/ UNCHANGED pc  BY <2>7 DEF AppendChange
    <3>2. pc' = [pc EXCEPT ![c] = "analysing"] \/ UNCHANGED pc  BY <3>1 DEF Step
    <3> QED BY <1>2, <1>3, <3>2
  <2>8. CASE Analyse(c)
    <3>1. pc' = [pc EXCEPT ![c] = "changes"]  BY <2>8 DEF Analyse, Step
    <3> QED BY <1>3, <3>1
  <2>9. CASE Resolve(c)
    <3>1. pc' = [pc EXCEPT ![c] = "completing"]  BY <2>9 DEF Resolve, Step
    <3> QED BY <1>3, <3>1
  <2>10. CASE Complete(c)
    <3>1. Leave(c, "failed") \/ Step(c, "claiming")  BY <2>10 DEF Complete
    <3>2. pc' = [pc EXCEPT ![c] = "failed"] \/ pc' = [pc EXCEPT ![c] = "claiming"]
      BY <3>1 DEF Leave, Step
    <3> QED BY <1>3, <3>2
  <2>11. CASE Claim(c)
    <3>1. Leave(c, "failed") \/ Step(c, "proving")  BY <2>11 DEF Claim
    <3>2. pc' = [pc EXCEPT ![c] = "failed"] \/ pc' = [pc EXCEPT ![c] = "proving"]
      BY <3>1 DEF Leave, Step
    <3> QED BY <1>3, <3>2
  <2> QED BY <1>5, <2>1, <2>2, <2>3, <2>4, <2>5, <2>6, <2>7, <2>8, <2>9, <2>10, <2>11
<1>6. CASE GatewayNext
  <2>1. ASSUME NEW l \in Lifecycles, BeginTask(l) \/ EndTask(l) PROVE UNCHANGED pc
    BY <2>1 DEF BeginTask, EndTask
  <2>2. ASSUME NEW w \in Worktrees, NEW x \in Foreign, OutsideEdit(w, x[1], x[2]) PROVE UNCHANGED pc
    BY <2>2 DEF OutsideEdit
  <2> QED BY <1>2, <1>3, <1>4, <1>5, <1>6, <2>1, <2>2 DEF GatewayNext
<1>7. CASE Detect \/ AppendRecords \/ Respond \/ UNCHANGED vars
  BY <1>2, <1>7 DEF Detect, AppendRecords, Respond, vars, gatewayVars
<1> QED BY <1>6, <1>7 DEF Next

(* A proof the gateway appends that two tasks were concurrent              *)
(* (site-gateway.ts, appendConcurrencyProofs) names two lifetimes that     *)
(* were active at once, of two agents, and a change of each by a call of   *)
(* that lifetime, in whose checkout the file was written by that call or   *)
(* from outside.                                                           *)
THEOREM ConcurrencyProven == DetectionSpec => []ConcurrencySound
<1> QED BY Inductive, SoundNow, PTL

(* The completion of a call is credited only with changes of files its     *)
(* executor wrote: edits of others before or during the window leave it    *)
(* unattributed.                                                           *)
THEOREM AttributionProven == DetectionSpec => []AttributedWritten
<1> QED BY Inductive, WrittenNow, PTL

(* What is reported is grounded in the log: each of the three rules (same  *)
(* symbol, exported contract, stale read before write) says only what the  *)
(* events it cites say.                                                    *)
THEOREM FindingsProven == DetectionSpec => []FindingsGrounded
<1> QED BY Inductive, GroundedNow, PTL

(* The evidence of a dispatch can be read back whole when it ends,         *)
(* whatever changed on disk meanwhile and whichever appends failed: no     *)
(* call is answered with a diagnosis.                                      *)
THEOREM SlicesProven == DetectionSpec => []SliceWhole
<1>1. DetectionInit => SliceWhole  BY DEF DetectionInit, Init, SliceWhole
<1> QED BY <1>1, Inductive, SliceKept, PTL DEF DetectionSpec

-------------------------------------------------------------------------------
(* The log replays.                                                        *)

(* Null is none of the tuples that identify events.                        *)
NullIsNoId == \A x, y, z : None # <<x, y>> /\ None # <<x, y, z>>

Named == \A e \in log : e.id # None
ValidInv == Named /\ (Stated = {} => ValidSet(log))

(* A step keeps the log one that replays, unless it makes a statement that *)
(* does not hold.                                                          *)
StaysValid == /\ log \subseteq log'
              /\ (ValidSet(log) /\ \A w \in Stated' : w \in log \/ EventValid(log', w)) => ValidSet(log')

(* Adding events to a valid log, each caused by what is there.             *)
LEMMA ValidGrowsCaused ==
  ASSUME NEW E, IsFiniteSet(E), ValidSet(E), NEW N, IsFiniteSet(E \cup N), IdsUnique(E \cup N),
         SeqsUnique(E \cup N), \A e \in E \cup N : e.id # None,
         \A e \in N : EventValid(E \cup N, e) /\ e.type # "evidence.derived" /\ Has(E, e.cause)
  PROVE  ValidSet(E \cup N)
<1>1. IsFiniteSet(N)  BY FS_Subset
<1>2. \A e \in N : e.cause # None  BY DEF Has
<1>3. RootsUnique(E)  BY ValidRules
<1>4. RootsUnique(E \cup N)  BY <1>2, <1>3 DEF RootsUnique
<1> QED BY <1>1, <1>4, ValidGrows

(* What is appended with no number of its own, caused by what is there.    *)
LEMMA ReplayStays ==
  ASSUME LogInv, LogInv', Named, NEW N, log' = log \cup N,
         \A e \in N : e.id # None,
         (\A w \in Stated' : w \in log \/ EventValid(log', w)) =>
           \A e \in N : /\ EventValid(log', e) /\ e.type # "evidence.derived"
                        /\ Has(log, e.cause) /\ e.seq = None
  PROVE  Named' /\ StaysValid
<1>1. \A e \in log' : e.id # None  BY DEF Named
<1>2. ASSUME ValidSet(log), \A w \in Stated' : w \in log \/ EventValid(log', w) PROVE ValidSet(log')
  <2>1. IsFiniteSet(log) /\ IsFiniteSet(log') /\ IdsUnique(log')  BY DEF LogInv, Identified
  <2>2. SeqsUnique(log)  BY <1>2, <2>1, ValidRules
  <2>3. SeqsUnique(log')  BY <1>2, <2>2 DEF SeqsUnique
  <2>4. ValidSet(log \cup N)
    BY <1>1, <1>2, <2>1, <2>3, ValidGrowsCaused
  <2> QED BY <2>4
<1> QED BY <1>1, <1>2 DEF Named, StaysValid

(* A step that appends nothing.                                            *)
LEMMA ReplaySame ==
  ASSUME Named, UNCHANGED log
  PROVE  Named' /\ StaysValid
  BY DEF Named, StaysValid

LEMMA FreshIsId ==
  ASSUME NullIsNoId, NEW k
  PROVE  Fresh(k) # None
  BY DEF NullIsNoId, Fresh

(* The request of the dispatch is in the log and roots its correlation.    *)
LEMMA RequestThere ==
  ASSUME RunBegun(run)
  PROVE  /\ Has(log, run.request) /\ ToolRequested(run) \in log
         /\ ToolRequested(run).id = run.request /\ ToolRequested(run).type = "tool.requested"
         /\ ToolRequested(run).src = run.who.src /\ ToolRequested(run).seq = run.seq
         /\ ToolRequested(run).cause = None
         /\ InContext(run, ToolRequested(run))
<1>1. PICK q : q = ToolRequested(run)  OBVIOUS
<1>2. /\ q.id = run.request /\ q.type = "tool.requested" /\ q.src = run.who.src /\ q.seq = run.seq
      /\ q.cause = None /\ InContext(run, q)
  BY <1>1 DEF ToolRequested, Event, InContext
<1>3. q \in log  BY <1>1 DEF RunBegun
<1> QED BY <1>1, <1>2, <1>3 DEF Has

(* Each append keeps the log one that the ledger replays.                  *)
LEMMA StartReplays ==
  ASSUME NullIsNoId, IInv, IInv', Named, NEW c \in Calls, Start(c)
  PROVE  Named' /\ StaysValid
<1>1. run = Idle /\ pc[c] = "queued"  BY DEF Start, Turn
<1>2. PICK bound \in Call[c].bound, meta \in Metadata(c) :
       LET r == Entering(c, bound, meta)
           reading == [r EXCEPT !.read = FileRead(r)]
       IN  \/ UNCHANGED log
           \/ log' = log \cup {ToolRequested(r)}
           \/ log' = log \cup {ToolRequested(r), reading.read}
  BY Zenon DEF Start
<1> DEFINE r == Entering(c, bound, meta)
           reading == [r EXCEPT !.read = FileRead(r)]
<1>3. /\ DOMAIN r = RunFields /\ r.call = c /\ r.who = Life[Call[c].as] /\ r.seq = seqs[r.who.src]
      /\ r.request = Fresh(1)
  BY DEF Entering, RunFields
<1>4. r.who.src \in Producers  BY <1>3, CallAssumption DEF Producers
<1>5. r.seq \in Nat  BY <1>3, <1>4 DEF IInv, Shapes
<1>tr. PICK tr : tr = ToolRequested(r)  OBVIOUS
<1>fr. PICK fr : fr = FileRead(r)  OBVIOUS
<1>6. /\ tr.id = Fresh(1) /\ tr.type = "tool.requested" /\ tr.src = r.who.src
      /\ tr.seq = r.seq /\ tr.corr = <<"call", c>> /\ tr.cause = None
  BY <1>3, <1>tr DEF ToolRequested, Event
<1>7. /\ fr.id = <<"read", {Cardinality(log) + 1}>> /\ fr.type = "file.read"
      /\ fr.seq = None /\ fr.corr = <<"call", c>> /\ fr.cause = Fresh(1)
      /\ fr.body.ver.res = fr.body.res /\ fr.body.ver.wt = fr.wt
  <2>1. PICK res, val, id : id = <<"read", r.request[2]>> /\ fr = Event(r, id, "file.read", r.who.src, None, r.request,
            [res |-> res, ver |-> Version(res, r.who.wt, val, id)])
    BY <1>fr DEF FileRead
  <2>2. r.request[2] = {Cardinality(log) + 1}  BY <1>3 DEF Fresh
  <2> HIDE DEF r
  <2> QED BY <1>3, <2>1, <2>2 DEF Event, Version
<1>8. Identified(log) /\ Identified(log') /\ ~ Has(log, tr.id)
  BY <1>6, FreshNow DEF IInv, LogInv
<1>9. reading.read = fr
  <2> HIDE DEF r
  <2> QED BY <1>3, <1>fr DEF RunFields
<1>10. UNCHANGED log \/ log' = log \cup {tr} \/ log' = log \cup {tr, fr}
  BY <1>2, <1>9, <1>tr, Zenon
<1>11. tr.id # None /\ fr.id # None  BY <1>6, <1>7, FreshIsId DEF NullIsNoId
<1>12. \A e \in log' : e.id # None  BY <1>10, <1>11 DEF Named
<1> HIDE DEF r, reading
<1>13. Identified(log \cup {tr})  BY <1>6, <1>8, FreshNow, AddOne
<1>14. ASSUME ValidSet(log) PROVE ValidSet(log \cup {tr})
  <2> DEFINE F == log \cup {tr}
  <2>1. \A e \in log : e.corr # <<"call", c>>
    <3> SUFFICES ASSUME NEW e \in log, e.corr = <<"call", c>> PROVE FALSE  OBVIOUS
    <3>1. Correlated(e)  BY DEF IInv, LogInv, EventInv
    <3>2. c \notin BegunCalls  BY <1>1 DEF BegunCalls
    <3> QED BY <3>1, <3>2 DEF Correlated
  <2>2. RootsUnique(log) /\ SeqsUnique(log)  BY <1>8, <1>14, ValidRules DEF Identified
  <2>3. RootsUnique(F)  BY <1>6, <2>1, <2>2 DEF RootsUnique
  <2>4. \A e \in log : e.seq # None /\ e.src = tr.src => e.seq # tr.seq
    <3> TAKE e \in log
    <3> HAVE e.seq # None /\ e.src = tr.src
    <3>1. e.seq \in Nat /\ e.seq < seqs[e.src]  BY DEF IInv, LogInv, EventInv, Sequenced
    <3>2. tr.seq = seqs[e.src] /\ tr.seq \in Nat  BY <1>3, <1>5, <1>6
    <3> QED BY <3>1, <3>2
  <2>5. SeqsUnique(F)  BY <2>2, <2>4 DEF SeqsUnique
  <2>6. EventValid(F, tr)
    BY <1>6 DEF EventValid, CausedProperly, ResourceFits, ChangeTypes
  <2>7. IsFiniteSet({tr}) /\ IsFiniteSet(log) /\ IdsUnique(F)
    BY <1>8, <1>13, FS_Singleton DEF Identified
  <2>8. \A e \in F : e.id # None  BY <1>11 DEF Named
  <2> HIDE DEF F
  <2>9. \A e \in {tr} : /\ EventValid(F, e) /\ e.type # "evidence.derived"
                        /\ e.cause # None => Has(log, e.cause)
    BY <1>6, <2>6
  <2> QED BY <1>14, <2>3, <2>5, <2>7, <2>8, <2>9, ValidGrows DEF F
<1>15. ASSUME ValidSet(log), log' = log \cup {tr, fr} PROVE ValidSet(log')
  <2>1. PICK E : E = log \cup {tr}  OBVIOUS
  <2>2. ValidSet(E) /\ Identified(E) /\ log' = E \cup {fr}  BY <1>13, <1>14, <1>15, <2>1
  <2>3. SeqsUnique(E)  BY <2>2, ValidRules DEF Identified
  <2>4. SeqsUnique(E \cup {fr})  BY <1>7, <2>3 DEF SeqsUnique
  <2>5. Has(E, fr.cause)  BY <1>6, <1>7, <2>1 DEF Has
  <2>6. EventValid(E \cup {fr}, fr)
    <3>1. fr.cause # fr.id  BY <1>7 DEF Fresh
    <3>2. tr \in E \cup {fr}  BY <2>1
    <3>3. CausedProperly(E \cup {fr}, fr)  BY <1>6, <1>7, <3>1, <3>2 DEF CausedProperly
    <3>4. ResourceFits(fr)  BY <1>7 DEF ResourceFits, VersionFits, ChangeTypes
    <3> QED BY <1>7, <3>3, <3>4 DEF EventValid
  <2>7. IdsUnique(E \cup {fr}) /\ IsFiniteSet(E \cup {fr}) /\ IsFiniteSet(E)
    BY <1>8, <2>2 DEF Identified
  <2>8. \A e \in E \cup {fr} : e.id # None  BY <1>12, <2>2
  <2>9. ValidSet(E \cup {fr})
    BY <1>7, <2>2, <2>4, <2>5, <2>6, <2>7, <2>8, ValidGrowsCaused
  <2> QED BY <2>2, <2>9
<1> QED BY <1>10, <1>12, <1>14, <1>15 DEF Named, StaysValid

LEMMA AppendChangeReplays ==
  ASSUME NullIsNoId, IInv, IInv', Named, NEW c \in Calls, AppendChange(c)
  PROVE  Named' /\ StaysValid
<1>0. Running(c, "changes")  BY DEF AppendChange
<1>1. run.call = c /\ RunBegun(run)  BY <1>0, RunFacts DEF Stages
<1>2. PICK ch : ch = Head(run.todo)  OBVIOUS
<1>3. PICK e : e = FileChanged(run, Fresh(1), ch)  OBVIOUS
<1>4. log' = log \cup {e} \/ UNCHANGED log  BY <1>2, <1>3 DEF AppendChange
<1>5. /\ e.id = Fresh(1) /\ e.type = "file.changed" /\ e.seq = None
      /\ e.body.before.res = e.body.res /\ e.body.before.wt = e.wt
      /\ e.body.after.res = e.body.res /\ e.body.after.wt = e.wt
      /\ ch.own => InContext(run, e) /\ e.cause = run.request
      /\ ~ ch.own => e.corr = <<"outside", e.id>> /\ e.cause = None
  BY <1>3 DEF FileChanged, Event, InContext, Version
<1>6. e.id # None /\ ~ Has(log, e.id)  BY <1>5, FreshIsId, FreshNow DEF IInv, LogInv
<1>7. ResourceFits(e)  BY <1>5 DEF ResourceFits, VersionFits, ChangeTypes
<1>8. CASE log' = log \cup {e} /\ ch.own
  <2>1. PICK q : q = ToolRequested(run)  OBVIOUS
  <2>2. q \in log /\ q.id = e.cause /\ InContext(run, q)  BY <1>1, <1>5, <1>8, <2>1, RequestThere
  <2>3. e.cause # e.id /\ Has(log, e.cause)  BY <1>6, <2>2 DEF Has
  <2>4. q.corr = e.corr  BY <1>5, <1>8, <2>2 DEF InContext
  <2>5. CausedProperly(log', e)  BY <1>5, <1>8, <2>2, <2>3, <2>4 DEF CausedProperly
  <2>6. EventValid(log', e)  BY <1>5, <1>7, <2>5 DEF EventValid
  <2>7. PICK N : N = {e}  OBVIOUS
  <2>8. \A x \in N : x.id # None  BY <1>6, <2>7
  <2>9. \A x \in N : /\ EventValid(log', x) /\ x.type # "evidence.derived"
                     /\ Has(log, x.cause) /\ x.seq = None
    BY <1>5, <2>3, <2>6, <2>7
  <2>10. LogInv /\ LogInv' /\ log' = log \cup N  BY <1>8, <2>7 DEF IInv
  <2> QED BY <2>8, <2>9, <2>10, ReplayStays
<1>9. CASE log' = log \cup {e} /\ ~ ch.own
  <2>1. \A d \in log : d.corr # e.corr
    <3> SUFFICES ASSUME NEW d \in log, d.corr = <<"outside", e.id>> PROVE FALSE  BY <1>5, <1>9
    <3>1. Correlated(d)  BY DEF IInv, LogInv, EventInv
    <3>2. \E x \in log : x.id = e.id  BY <3>1 DEF Correlated
    <3> QED BY <1>6, <3>2 DEF Has
  <2>2. EventValid(log', e)  BY <1>5, <1>7, <1>9 DEF EventValid, CausedProperly
  <2>3. \A x \in log' : x.id # None  BY <1>6, <1>9 DEF Named
  <2>4. ASSUME ValidSet(log) PROVE ValidSet(log \cup {e})
    <3>1. RootsUnique(log) /\ SeqsUnique(log) /\ IsFiniteSet(log)
      BY <2>4, ValidRules DEF IInv, LogInv, Identified
    <3>2. RootsUnique(log \cup {e}) /\ SeqsUnique(log \cup {e})
      BY <1>5, <2>1, <3>1 DEF RootsUnique, SeqsUnique
    <3>3. IdsUnique(log \cup {e}) /\ IsFiniteSet({e})  BY <1>9, FS_Singleton DEF IInv, LogInv, Identified
    <3>4. \A x \in {e} : /\ EventValid(log \cup {e}, x) /\ x.type # "evidence.derived"
                         /\ x.cause # None => Has(log, x.cause)
      BY <1>5, <1>9, <2>2
    <3> QED BY <1>9, <2>3, <2>4, <3>1, <3>2, <3>3, <3>4, ValidGrows
  <2> QED BY <1>9, <2>3, <2>4 DEF Named, StaysValid
<1> QED BY <1>4, <1>8, <1>9, ReplaySame

LEMMA AnalyseReplays ==
  ASSUME NullIsNoId, IInv, IInv', Named, NEW c \in Calls, Analyse(c)
  PROVE  Named' /\ StaysValid
<1>0. Running(c, "analysing")  BY DEF Analyse
<1>1. RunEffects(run) /\ run.call = c /\ pc[c] = "analysing"  BY <1>0, RunFacts DEF Stages
<1>2. PICK e : e = run.change  OBVIOUS
<1>3. PICK s : s = SymbolChanged(run, Fresh(1), e, e.body.res[2])  OBVIOUS
<1>4. PICK d : d = DerivedEvidence(run, Fresh(2), s, e, s.body.after.val)  OBVIOUS
<1>5. UNCHANGED log \/ (log' = log \cup ToSet(<<s, d>>) /\ ValidSet(log \cup ToSet(<<s, d>>)))
  BY <1>2, <1>3, <1>4, Zenon DEF Analyse
<1>6. ToSet(<<s, d>>) = {s, d}
  BY DEF ToSet
<1>7. DOMAIN e = EventFields  BY <1>1, <1>2 DEF RunEffects, IInv, LogInv, EventInv
<1>8. DOMAIN s = EventFields /\ s.id = Fresh(1)  BY <1>3, <1>7 DEF SymbolChanged, EventFields
<1>9. d.id = Fresh(2)  BY <1>4, <1>8 DEF DerivedEvidence, EventFields
<1>10. s.id # None /\ d.id # None  BY <1>8, <1>9, FreshIsId
<1> QED BY <1>5, <1>6, <1>10, ReplaySame DEF Named, StaysValid

LEMMA ResolveReplays ==
  ASSUME NullIsNoId, IInv, IInv', Named, NEW c \in Calls, Resolve(c)
  PROVE  Named' /\ StaysValid
<1>0. Running(c, "changes")  BY DEF Resolve
<1>1. PICK facts : facts = Dependencies(run)  OBVIOUS
<1>2. UNCHANGED log \/ (log' = log \cup facts /\ (facts # {} => ValidSet(log \cup facts)))
  BY <1>1 DEF Resolve
<1>3. Paired(facts)  BY <1>0, <1>1, DependenciesAre
<1>4. \A x \in facts : \E k : x.id = Fresh(k)
  <2>1. PICK n, found, ch, ev :
          /\ n \in Nat
          /\ facts = UNION {{ch[k], ev[k]} : k \in 1..n}
          /\ \A k \in 1..n : /\ found[k] \in log /\ EventInv(found[k])
                             /\ ch[k].id = Fresh(2 * k - 1) /\ Derived(ch[k], found[k])
                             /\ ev[k].id = Fresh(2 * k) /\ Derived(ev[k], found[k])
    BY <1>3, Zenon DEF Paired
  <2> TAKE x \in facts
  <2>2. PICK k \in 1..n : x \in {ch[k], ev[k]}  BY <2>1
  <2> QED BY <2>1, <2>2
<1>5. \A x \in facts : x.id # None  BY <1>4, FreshIsId
<1>6. CASE facts = {}
  <2>1. UNCHANGED log  BY <1>2, <1>6
  <2> QED BY <2>1, ReplaySame
<1> QED BY <1>2, <1>5, <1>6, ReplaySame DEF Named, StaysValid

LEMMA CompleteReplays ==
  ASSUME NullIsNoId, IInv, IInv', Named, NEW c \in Calls, Complete(c)
  PROVE  Named' /\ StaysValid
<1>0. Running(c, "completing")  BY DEF Complete
<1>1. /\ run.call = c /\ pc[c] = "completing" /\ DOMAIN run = RunFields
      /\ RunBegun(run) /\ RunEnding(run) /\ RunEffects(run)
  BY <1>0, RunFacts DEF Stages
<1>2. PICK r : r = [run EXCEPT !.gap = @ \/ MetadataGap(run)]  OBVIOUS
<1>3. PICK d : d = ToolCompleted(r)  OBVIOUS
<1>4. log' = log \cup {d} \/ UNCHANGED log  BY <1>2, <1>3 DEF Complete
<1>5. /\ r.call = c /\ r.who = run.who /\ r.seq = run.seq /\ r.request = run.request
      /\ r.outcome = run.outcome /\ r.own = run.own /\ r.effects = run.effects
  BY <1>1, <1>2 DEF RunFields
<1>6. /\ d.id = Fresh(1) /\ d.type = "tool.completed" /\ d.src = run.who.src /\ d.seq = run.seq + 1
      /\ d.cause = run.request /\ InContext(run, d)
      /\ d.body.request = run.request /\ d.body.outcome = run.outcome
      /\ d.body.effects = run.effects /\ d.body.attributed = Attributed(r)
  BY <1>1, <1>3, <1>5 DEF ToolCompleted, Event, InContext
<1>7. d.id # None /\ ~ Has(log, d.id)  BY <1>6, FreshIsId, FreshNow DEF IInv, LogInv
<1>8. PICK q : q = ToolRequested(run)  OBVIOUS
<1>9. /\ q \in log /\ q.id = run.request /\ q.type = "tool.requested" /\ q.src = run.who.src
      /\ q.seq = run.seq /\ InContext(run, q)
  BY <1>1, <1>8, RequestThere
<1>10. CASE log' = log \cup {d}
  <2>1. run.seq \in Nat /\ \A e \in log : e.src = run.who.src /\ e.seq # None => e.seq <= run.seq
    BY <1>1 DEF RunBegun, RunEnding, Late
  <2>2. \A e \in log : e.seq # None /\ e.src = d.src => e.seq # d.seq
    <3> TAKE e \in log
    <3> HAVE e.seq # None /\ e.src = d.src
    <3>1. e.seq \in Nat  BY DEF IInv, LogInv, EventInv, Sequenced
    <3>2. e.seq <= run.seq  BY <1>6, <2>1
    <3> QED BY <1>6, <2>1, <3>1, <3>2
  <2>3. d.cause # d.id /\ Has(log, d.cause)  BY <1>6, <1>7, <1>9 DEF Has
  <2>4. d.corr = q.corr /\ d.wt = q.wt  BY <1>6, <1>9 DEF InContext
  <2>5. CausedProperly(log', d)
    <3>1. d.seq > q.seq  BY <1>6, <1>9, <2>1
    <3> QED BY <1>6, <1>9, <1>10, <2>3, <2>4, <3>1 DEF CausedProperly
  <2>6. CompletionValid(log', d)
    <3>1. q \in OfType(log', "tool.requested")  BY <1>9, <1>10 DEF OfType
    <3>2. ASSUME NEW i \in Attributed(r)
          PROVE  /\ run.outcome = "succeeded" /\ i \in run.effects
                 /\ \E e \in OfType(log', "file.changed") :
                      /\ e.id = i /\ e.src[1] = "watcher"
                      /\ <<d.wt, d.corr, d.agent, d.task>> = <<e.wt, e.corr, e.agent, e.task>>
      <4>1. PICK e \in run.own : i = e.id  BY <1>5 DEF Attributed
      <4>2. run.outcome = "succeeded"  BY <1>5 DEF Attributed
      <4>3. OwnChange(run, e)  BY <1>1 DEF RunEffects
      <4>4. e \in OfType(log', "file.changed")  BY <1>10, <4>3 DEF OwnChange, OfType
      <4>5. e.src[1] = "watcher"  BY <4>3 DEF OwnChange, Watcher
      <4>6. <<d.wt, d.corr, d.agent, d.task>> = <<e.wt, e.corr, e.agent, e.task>>
        BY <1>6, <4>3 DEF OwnChange, InContext
      <4> QED BY <4>1, <4>2, <4>3, <4>4, <4>5, <4>6 DEF OwnChange
    <3> QED BY <1>6, <1>9, <2>4, <3>1, <3>2 DEF CompletionValid
  <2>7. EventValid(log', d)
    BY <1>6, <2>5, <2>6 DEF EventValid, ResourceFits, ChangeTypes
  <2>8. \A x \in log' : x.id # None  BY <1>7, <1>10 DEF Named
  <2>9. ASSUME ValidSet(log) PROVE ValidSet(log \cup {d})
    <3>1. SeqsUnique(log) /\ IsFiniteSet(log)  BY <2>9, ValidRules DEF IInv, LogInv, Identified
    <3>2. SeqsUnique(log \cup {d})  BY <2>2, <3>1 DEF SeqsUnique
    <3>3. IdsUnique(log \cup {d}) /\ IsFiniteSet(log \cup {d})
      BY <1>10 DEF IInv, LogInv, Identified
    <3>4. \A x \in {d} : /\ EventValid(log \cup {d}, x) /\ x.type # "evidence.derived"
                         /\ Has(log, x.cause)
      BY <1>6, <1>10, <2>3, <2>7
    <3> QED BY <1>10, <2>8, <2>9, <3>1, <3>2, <3>3, <3>4, ValidGrowsCaused
  <2> QED BY <1>10, <2>8, <2>9 DEF Named, StaysValid
<1> QED BY <1>4, <1>10, ReplaySame

LEMMA ClaimReplays ==
  ASSUME NullIsNoId, IInv, IInv', Named, NEW c \in Calls, Claim(c)
  PROVE  Named' /\ StaysValid
<1>0. Running(c, "claiming")  BY DEF Claim
<1>1. PICK claims : claims = Claims(run)  OBVIOUS
<1>2. log' = log \cup claims \/ UNCHANGED log  BY <1>1 DEF Claim
<1>3. /\ \A x \in claims : x.id = Fresh(1) /\ x.type = "write.dependent" /\ x.body.target = run.target
      /\ \A x, y \in claims : x = y
  BY <1>0, <1>1, ClaimsAre
<1>4. \A x \in claims : x.id # None  BY <1>3, FreshIsId
<1>5. CASE claims = {}
  <2>1. UNCHANGED log  BY <1>2, <1>5
  <2> QED BY <2>1, ReplaySame
<1>6. CASE claims # {} /\ log' = log \cup claims
  <2>1. PICK x \in claims : claims = {x}  BY <1>3, <1>6
  <2>2. CASE run.target = None
    <3>1. PICK e, cov : e \in DependentWriteChanges(run) /\ x = DependentWrite(run, e, cov)
      BY <1>1, <1>6, <2>2 DEF Claims, WriteStatements
    <3>2. e \in log  BY <1>0, <3>1, RunFacts DEF DependentWriteChanges, RunEffects, OwnChange, Stages
    <3>3. x.seq = None /\ x.cause = e.id /\ x.type = "write.dependent"
      BY <3>1 DEF DependentWrite, Event
    <3>4. x \notin log  BY <1>3, FreshNow DEF IInv, LogInv, Has
    <3>5. x \in Stated'  BY <1>3, <1>6, <2>2 DEF Stated, OfType
    <3>6. ASSUME \A w \in Stated' : w \in log \/ EventValid(log', w)
          PROVE  \A y \in claims : /\ EventValid(log', y) /\ y.type # "evidence.derived"
                                    /\ Has(log, y.cause) /\ y.seq = None
      BY <2>1, <3>2, <3>3, <3>4, <3>5, <3>6 DEF Has
    <3>7. LogInv /\ LogInv' /\ log' = log \cup claims  BY <1>6 DEF IInv
    <3> QED BY <1>4, <3>6, <3>7, ReplayStays
  <2>3. CASE run.target # None
    <3>1. x \in WriteProofs(run)  BY <1>1, <2>3 DEF Claims
    <3>2. ValidSet(log \cup {x})  BY <3>1 DEF WriteProofs
    <3> QED BY <1>4, <1>6, <2>1, <3>2 DEF Named, StaysValid
  <2> QED BY <2>2, <2>3
<1> QED BY <1>2, <1>5, <1>6, ReplaySame

LEMMA ProveReplays ==
  ASSUME NullIsNoId, IInv, IInv', Named, NEW c \in Calls, Prove(c)
  PROVE  Named' /\ StaysValid
<1>0. Running(c, "proving")  BY DEF Prove
<1>1. PICK l, ls : l = Call[c].as /\ ls = Recorded(run)  OBVIOUS
<1>2. PICK S : S = Sufficient(log)  OBVIOUS
<1>3. PICK pairs : pairs = IF run.target # None THEN Concurrent(ls, l) ELSE {}  OBVIOUS
<1>4. PICK lost :
        log' = log \cup {p \in {ConcurrencyProof(ls, l, q[1], q[2]) : q \in pairs \ lost} : Accepted(p)}
  BY <1>1, <1>3 DEF Prove
<1>5. PICK P : P = {p \in {ConcurrencyProof(ls, l, q[1], q[2]) : q \in pairs \ lost} : Accepted(p)}
  OBVIOUS
<1>6. \A q \in pairs : q[1] \in log /\ q[1].type = "symbol.changed" /\ Concurs(ls, l, S, q[1], q[2])
  BY <1>2, <1>3 DEF Concurrent, OfType
<1>7. ASSUME NEW p \in P
      PROVE  /\ p.id # None /\ ~ Has(log, p.id) /\ p.type = "task.concurrency.observed"
             /\ p.seq = None /\ Has(log, p.cause) /\ ValidSet(log \cup {p})
  <2>1. PICK q \in pairs : p = ConcurrencyProof(ls, l, q[1], q[2]) /\ Accepted(p)  BY <1>5
  <2>2. PICK x, y : x = q[1] /\ y = q[2]  OBVIOUS
  <2>3. x \in log /\ x.type = "symbol.changed" /\ x.id # y.id  BY <1>6, <2>2 DEF Concurs
  <2>4. EventInv(x)  BY <2>3 DEF IInv, LogInv
  <2>5. DOMAIN x = EventFields /\ x.seq = None  BY <2>3, <2>4 DEF EventInv, Sequenced, Unsequenced
  <2>6. PICK m : m = OwnerOf(ls, l, y)  OBVIOUS
  <2>7. p = ConcurrencyProof(ls, l, x, y)  BY <2>1, <2>2
  <2>8. /\ p.id = <<"proof", {x.id, y.id}>> /\ p.type = "task.concurrency.observed"
        /\ p.seq = x.seq /\ p.cause = x.id
    BY <2>3, <2>5, <2>6, <2>7, ProofIs
  <2>9. p.id # None  BY <2>8 DEF NullIsNoId
  <2> QED BY <2>1, <2>3, <2>5, <2>8, <2>9 DEF Accepted, Has
<1>8. log' = log \cup P  BY <1>4, <1>5
<1>9. ASSUME NEW p \in P PROVE EventValid(log', p)
  <2>1. PICK E, F : E = log \cup {p} /\ F = log'  OBVIOUS
  <2>2. IsFiniteSet(E)
    BY <2>1, FS_AddElement DEF IInv, LogInv, Identified
  <2>3. EventValid(E, p)  BY <1>7, <2>1, <2>2, ValidRules
  <2>4. E \subseteq F /\ p \in E /\ IdsUnique(F)  BY <1>8, <2>1 DEF IInv, LogInv, Identified
  <2>5. \A e \in F \ E : e.type # "evidence.derived"  BY <1>7, <1>8, <2>1
  <2> QED BY <2>1, <2>3, <2>4, <2>5, EventStays
<1>10. \A p \in P : p.id # None  BY <1>7
<1>11. \A p \in P : /\ EventValid(log', p) /\ p.type # "evidence.derived"
                    /\ Has(log, p.cause) /\ p.seq = None
  BY <1>7, <1>9
<1>12. LogInv /\ LogInv'  BY DEF IInv
<1> QED BY <1>8, <1>10, <1>11, <1>12, ReplayStays

LEMMA AppendRecordsReplays ==
  ASSUME NullIsNoId, IInv, IInv', Named, AppendRecords
  PROVE  Named' /\ StaysValid
<1>1. PICK p : p = Head(detector)  OBVIOUS
<1>2. /\ detector # NoRun
      /\ \/ /\ ValidSet(log \cup ToSet(p))
            /\ log' = log \cup {e \in ToSet(p) : ~Has(log, e.id)}
         \/ UNCHANGED log
  BY <1>1 DEF AppendRecords
<1>3. PairHolds(p)
  <2>0. PICK s : s = detector  OBVIOUS
  <2>1. s \in Seq(Range(s)) /\ \A k \in DOMAIN s : PairHolds(s[k])  BY <2>0 DEF IInv, DetectorInv
  <2>2. s # <<>>  BY <1>2, <2>0 DEF NoRun
  <2>3. Len(s) \in Nat /\ Len(s) # 0 /\ DOMAIN s = 1..Len(s)  BY <2>1, <2>2, LenProperties, EmptySeq
  <2>4. 1 \in DOMAIN s /\ p = s[1]  BY <1>1, <2>0, <2>3
  <2> QED BY <2>1, <2>4
<1>4. CASE /\ ValidSet(log \cup ToSet(p))
           /\ log' = log \cup {e \in ToSet(p) : ~Has(log, e.id)}
  <2>1. PICK f, d : f = p[1] /\ d = p[2]  OBVIOUS
  <2>2. ToSet(p) = {f, d} /\ d.id = <<"decision", f.id>> /\ \E x, y, z : f.id = <<x, y, z>>
    BY <1>3, <2>1 DEF PairHolds
  <2>3. f.id # None /\ d.id # None  BY <2>2 DEF NullIsNoId
  <2>4. IsFiniteSet(log \cup {f, d})
    <3>1. IsFiniteSet(log)  BY DEF IInv, LogInv, Identified
    <3>2. IsFiniteSet({f} \cup {d})  BY FS_Singleton, FS_Union
    <3>3. {f} \cup {d} = {f, d}  OBVIOUS
    <3> QED BY <3>1, <3>2, <3>3, FS_Union
  <2>5. IdsUnique(log \cup {f, d})  BY <1>4, <2>2, <2>4, ValidRules
  <2>6. log' = log \cup {f, d}  BY <1>4, <2>2, <2>5 DEF Has, IdsUnique
  <2> QED BY <1>4, <2>2, <2>3, <2>6 DEF Named, StaysValid
<1> QED BY <1>2, <1>4, ReplaySame

LEMMA RespondReplays ==
  ASSUME NullIsNoId, IInv, IInv', Named, Respond
  PROVE  Named' /\ StaysValid
<1>1. \E e \in log : \E r \in Responses(e) : ~Has(log, r.id) /\ log' = log \cup {r}
  BY DEF Respond
<1>2. PICK e \in log : \E r \in Responses(e) : ~Has(log, r.id) /\ log' = log \cup {r}
  BY <1>1
<1>3. PICK r \in Responses(e) : ~Has(log, r.id) /\ log' = log \cup {r}
  BY <1>2
<1>4. EventInv(e) /\ IdsUnique(log')  BY <1>2 DEF IInv, LogInv, Identified
<1>5. \/ /\ e.type = "decision.created"
         /\ \E body : r = Response(e, "decision.delivery.changed", body)
      \/ /\ e.type = "finding.created"
         /\ \E s : r = Response(e, "finding.feedback.created",
              [said |-> s, finding |-> e.id, decision |-> <<"decision", e.id>>, evidence |-> {e.id}])
  <2>1. CASE e.type = "decision.created"
    <3>1. \E s \in States : r = Response(e, "decision.delivery.changed", [said |-> s, decision |-> e.id])
      BY <1>3, <2>1 DEF Responses
    <3> QED BY <2>1, <3>1
  <2>2. CASE e.type = "finding.created"
    <3>1. \E s \in States : r = Response(e, "finding.feedback.created",
            [said |-> s, finding |-> e.id, decision |-> <<"decision", e.id>>, evidence |-> {e.id}])
      BY <1>3, <2>2 DEF Responses
    <3> QED BY <2>2, <3>1
  <2>3. e.type \in {"decision.created", "finding.created"}
    BY <1>3 DEF Responses
  <2> QED BY <2>1, <2>2, <2>3
<1>6. PICK t, body :
        /\ t \in {"decision.delivery.changed", "finding.feedback.created"}
        /\ r = Response(e, t, body)
        /\ t = "finding.feedback.created" =>
             /\ e.type = "finding.created" /\ body.finding = e.id
             /\ body.decision = <<"decision", e.id>> /\ body.evidence = {e.id}
  <2>1. CASE e.type = "decision.created"
    <3>1. PICK body : r = Response(e, "decision.delivery.changed", body)  BY <1>5, <2>1
    <3> QED BY <3>1
  <2>2. CASE e.type = "finding.created"
    <3>1. PICK s : r = Response(e, "finding.feedback.created",
              [said |-> s, finding |-> e.id, decision |-> <<"decision", e.id>>, evidence |-> {e.id}])
      BY <1>5, <2>2
    <3>2. PICK body : body = [said |-> s, finding |-> e.id, decision |-> <<"decision", e.id>>, evidence |-> {e.id}]
      OBVIOUS
    <3>3. /\ body.finding = e.id /\ body.decision = <<"decision", e.id>> /\ body.evidence = {e.id}
          /\ r = Response(e, "finding.feedback.created", body)
      BY <3>1, <3>2
    <3> QED BY <2>2, <3>3
  <2> QED BY <1>5, <2>1, <2>2
<1>7. /\ r.id = <<t, {body.said}, e.id>> /\ r.type = t /\ r.seq = None /\ r.corr = e.corr /\ r.wt = e.wt
      /\ r.cause = e.id /\ r.body = body
  <2>1. DOMAIN e = EventFields /\ e.seq = None
    BY <1>4, <1>5 DEF EventInv, Sequenced, Unsequenced
  <2> QED BY <1>6, <2>1 DEF Response, EventFields
<1>8. r.id # None  BY <1>7 DEF NullIsNoId
<1>9. Has(log, r.cause) /\ r.cause # r.id  BY <1>3, <1>7 DEF Has
<1>10. CausedProperly(log', r)  BY <1>3, <1>7, <1>9 DEF CausedProperly
<1>11. r.type = "finding.feedback.created" => FeedbackValid(log', r)
  <2> SUFFICES ASSUME t = "finding.feedback.created" PROVE FeedbackValid(log', r)  BY <1>7
  <2>1. e.type = "finding.created" /\ FindingHolds(e)  BY <1>4, <1>6 DEF EventInv
  <2>2. e.body.finding = e.id /\ \E d \in log : Decides(e, d)  BY <2>1 DEF FindingHolds
  <2>3. PICK d \in log : Decides(e, d)  BY <2>2
  <2>4. e \in OfType(log', "finding.created") /\ d \in OfType(log', "decision.created")
    BY <1>3, <2>1, <2>3 DEF OfType, Decides
  <2>5. Has(log', e.id) /\ At(log', e.id) = e  BY <1>3, <1>4, AtId
  <2> QED BY <1>6, <1>7, <2>2, <2>3, <2>4, <2>5 DEF FeedbackValid, Decides
<1>12. EventValid(log', r)
  BY <1>6, <1>7, <1>10, <1>11 DEF EventValid, ResourceFits, ChangeTypes
<1>13. PICK N : N = {r}  OBVIOUS
<1>14. \A x \in N : x.id # None  BY <1>8, <1>13
<1>15. \A x \in N : /\ EventValid(log', x) /\ x.type # "evidence.derived"
                    /\ Has(log, x.cause) /\ x.seq = None
  BY <1>6, <1>7, <1>9, <1>12, <1>13
<1>16. LogInv /\ LogInv' /\ log' = log \cup N  BY <1>3, <1>13 DEF IInv
<1> QED BY <1>14, <1>15, <1>16, ReplayStays

LEMMA GatewayReplays ==
  ASSUME NullIsNoId, IInv, IInv', Named, GatewayNext
  PROVE  Named' /\ StaysValid
<1>1. ASSUME NEW l \in Lifecycles, BeginTask(l) \/ EndTask(l) PROVE Named' /\ StaysValid
  BY <1>1, ReplaySame DEF BeginTask, EndTask
<1>2. ASSUME NEW c \in Calls, Dispatch(c) \/ Refuse(c) \/ BeginWindow(c) \/ Execute(c) \/ EndWindow(c)
      PROVE  Named' /\ StaysValid
  <2>1. UNCHANGED log  BY <1>2 DEF Dispatch, Refuse, BeginWindow, Execute, EndWindow
  <2> QED BY <2>1, ReplaySame
<1>3. ASSUME NEW c \in Calls, \/ Start(c) \/ AppendChange(c) \/ Analyse(c) \/ Resolve(c)
                              \/ Complete(c) \/ Claim(c) \/ Prove(c)
      PROVE  Named' /\ StaysValid
  BY <1>3, StartReplays, AppendChangeReplays, AnalyseReplays, ResolveReplays, CompleteReplays,
     ClaimReplays, ProveReplays
<1>4. ASSUME NEW w \in Worktrees, NEW x \in Foreign, OutsideEdit(w, x[1], x[2]) PROVE Named' /\ StaysValid
  <2>1. UNCHANGED log  BY <1>4 DEF OutsideEdit
  <2> QED BY <2>1, ReplaySame
<1> QED BY <1>1, <1>2, <1>3, <1>4 DEF GatewayNext

LEMMA StepReplays ==
  ASSUME NullIsNoId
  PROVE  IInv /\ IInv' /\ Named /\ [Next]_vars => Named' /\ StaysValid
<1> SUFFICES ASSUME IInv, IInv', Named, [Next]_vars PROVE Named' /\ StaysValid  OBVIOUS
<1>1. CASE GatewayNext  BY <1>1, GatewayReplays
<1>2. CASE Detect \/ UNCHANGED vars
  <2>1. UNCHANGED log  BY <1>2 DEF Detect, vars, gatewayVars
  <2> QED BY <2>1, ReplaySame
<1>3. CASE AppendRecords  BY <1>3, AppendRecordsReplays
<1>4. CASE Respond  BY <1>4, RespondReplays
<1> QED BY <1>1, <1>2, <1>3, <1>4 DEF Next

LEMMA StepValid ==
  ASSUME NullIsNoId
  PROVE  IInv /\ IInv' /\ ValidInv /\ [Next]_vars => ValidInv'
  BY StepReplays DEF ValidInv, StaysValid, Stated, OfType

(* The gateway, the daemon and the agents append to one log, each checking *)
(* only what it adds: as long as no unproven dependent write is in it, the *)
(* whole log passes the rules of the ledger. Ids and sequence numbers are  *)
(* used once, each correlation has one root, every event refers to events  *)
(* of the kinds it needs, and causes never go round.                       *)
THEOREM ReplaysProven ==
  ASSUME NullIsNoId
  PROVE  DetectionSpec => []LogReplays
<1>1. DetectionInit => ValidInv
  <2>1. ASSUME DetectionInit PROVE log = {}  BY <2>1 DEF DetectionInit, Init
  <2> QED BY <2>1, ValidEmpty DEF ValidInv, Named
<1>2. ValidInv => LogReplays  BY DEF ValidInv, LogReplays
<1>3. IInv /\ IInv' /\ ValidInv /\ [Next]_vars => ValidInv'  BY StepValid
<1> QED BY <1>1, <1>2, <1>3, Inductive, PTL DEF DetectionSpec
-------------------------------------------------------------------------------
(* A finding is made once.                                                 *)

(* What holds a dispatch's coverage together: a call has one request and   *)
(* one completion, in one correlation with the effects, and nothing of it  *)
(* comes after its completion. What causes a change is in the log.         *)
Dispatches(L) ==
  /\ \A r, s \in OfType(L, "tool.requested") : r.corr = s.corr => r = s
  /\ \A b, d \in OfType(L, "tool.completed") : b.body.request = d.body.request => b = d
  /\ \A d \in OfType(L, "tool.completed") :
       /\ \E r \in OfType(L, "tool.requested") : r.id = d.body.request /\ r.corr = d.corr
       /\ \A i \in d.body.effects : \E e \in L : e.id = i /\ e.corr = d.corr
  /\ \A e \in L : e.type \in ChangeTypes => ~ IsA(L, e.cause, {"tool.completed"})
  /\ \A e \in L : e.type \in ChangeTypes => e.cause = None \/ Has(L, e.cause)

(* The sufficient coverage of the call in whose correlation an event is.   *)
Covers(L, i, c) ==
  /\ Has(L, i)
  /\ \E r \in OfType(L, "tool.requested") : r.corr = At(L, i).corr /\ c = Coverage(L, r)
  /\ c.shown = "sufficient"

LEMMA CoversOne ==
  ASSUME NEW L, Dispatches(L), NEW i, NEW b, NEW c, Covers(L, i, b), Covers(L, i, c)
  PROVE  b = c
  BY DEF Dispatches, Covers

(* Only what is completed is covered.                                      *)
LEMMA CoveredIsComplete ==
  ASSUME NEW L, NEW r, Coverage(L, r).shown = "sufficient"
  PROVE  CompletionsOf(L, r) # {}
  BY DEF Coverage

(* The coverage of a completed call does not change.                       *)
LEMMA CoverageStays ==
  ASSUME NEW L, NEW M, L \subseteq M, IdsUnique(M), Dispatches(L), Dispatches(M),
         NEW r \in OfType(L, "tool.requested"), CompletionsOf(L, r) # {},
         \A e \in M \ L : e.type \in ReadTypes => ~ Has(L, e.cause)
  PROVE  Coverage(M, r) = Coverage(L, r)
<1>1. PICK d \in CompletionsOf(L, r) : TRUE  OBVIOUS
<1>2. d \in OfType(L, "tool.completed") /\ d \in OfType(M, "tool.completed") /\ d.body.request = r.id
  BY <1>1 DEF CompletionsOf, OfType
<1>3. CompletionsOf(L, r) = {d} /\ CompletionsOf(M, r) = {d}
  BY <1>2 DEF Dispatches, CompletionsOf
<1>4. r.id # d.id /\ Has(L, r.id) /\ Has(L, d.id)
  BY <1>2 DEF OfType, IdsUnique, Has
<1>5. CausedBy(M, r.id, ReadTypes) = CausedBy(L, r.id, ReadTypes)
  BY <1>4 DEF CausedBy
<1>6. CausedBy(M, d.id, ChangeTypes) = {} /\ CausedBy(L, d.id, ChangeTypes) = {}
  BY <1>2 DEF CausedBy, Dispatches, IsA, OfType
<1>7. \A i \in d.body.effects : Has(L, i)  BY <1>2 DEF Dispatches, Has
<1>8. \A i \in d.body.effects : At(M, i) = At(L, i) /\ (IsA(M, i, ChangeTypes) <=> IsA(L, i, ChangeTypes))
  <2> TAKE i \in d.body.effects
  <2>1. Has(L, i)  BY <1>7
  <2>2. At(M, i) = At(L, i) /\ At(L, i) \in L /\ At(L, i).id = i  BY <2>1, AtStays
  <2>3. IsA(M, i, ChangeTypes) <=> At(L, i).type \in ChangeTypes  BY <2>2 DEF IsA, IdsUnique
  <2>4. IsA(L, i, ChangeTypes) <=> At(L, i).type \in ChangeTypes  BY <2>2 DEF IsA, IdsUnique
  <2> QED BY <2>2, <2>3, <2>4
<1>9. UnprovenEffects(M, d) = UnprovenEffects(L, d)  BY <1>8 DEF UnprovenEffects
<1>10. {i \in d.body.effects : IsA(M, i, ChangeTypes)} = {i \in d.body.effects : IsA(L, i, ChangeTypes)}
  BY <1>8
<1>11. (CHOOSE c \in {d} : TRUE) = d  OBVIOUS
<1> QED BY <1>3, <1>5, <1>6, <1>9, <1>10, <1>11 DEF Coverage

LEMMA CoversStays ==
  ASSUME NEW L, NEW M, L \subseteq M, IdsUnique(M), Dispatches(L), Dispatches(M),
         NEW i, NEW c, Covers(L, i, c),
         \A e \in M \ L : e.type \in ReadTypes => ~ Has(L, e.cause)
  PROVE  Covers(M, i, c)
<1>1. PICK r \in OfType(L, "tool.requested") : r.corr = At(L, i).corr /\ c = Coverage(L, r)
  BY DEF Covers
<1>2. Coverage(M, r) = c  BY <1>1, CoveredIsComplete, CoverageStays DEF Covers
<1>3. Has(M, i) /\ At(M, i) = At(L, i)  BY AtStays DEF Covers
<1>4. r \in OfType(M, "tool.requested")  BY DEF OfType
<1> QED BY <1>1, <1>2, <1>3, <1>4 DEF Covers

(* Every event in a coverage has the correlation of its request.           *)
LEMMA CoverageCorrelated ==
  ASSUME NEW L, IdsUnique(L), Dispatches(L), \A e \in L : CausedProperly(L, e), \A e \in L : e.id # None,
         NEW r \in OfType(L, "tool.requested"), NEW j \in Coverage(L, r).ev
  PROVE  Has(L, j) /\ At(L, j).corr = r.corr
<1>0. r \in L /\ Has(L, r.id) /\ At(L, r.id) = r /\ r.type = "tool.requested"  BY AtId DEF OfType
<1>a. \A e \in L : e.cause = r.id => e.corr = r.corr
  <2> TAKE e \in L
  <2> HAVE e.cause = r.id
  <2>1. e.cause # None  BY <1>0
  <2>2. PICK p \in L : p.id = e.cause /\ p.corr = e.corr  BY <2>1 DEF CausedProperly
  <2> QED BY <1>0, <2>2 DEF IdsUnique
<1>1. CASE CompletionsOf(L, r) = {}
  <2>1. Coverage(L, r).ev = {r.id}  BY <1>1 DEF Coverage
  <2> QED BY <1>0, <2>1
<1>2. CASE CompletionsOf(L, r) # {}
  <2>1. PICK d : d = CHOOSE c \in CompletionsOf(L, r) : TRUE  OBVIOUS
  <2>2. d \in L /\ d.type = "tool.completed" /\ d.body.request = r.id  BY <1>2, <2>1 DEF CompletionsOf, OfType
  <2>3. d.corr = r.corr /\ \A i \in d.body.effects : \E e \in L : e.id = i /\ e.corr = d.corr
    <3>1. PICK s \in OfType(L, "tool.requested") : s.id = r.id /\ s.corr = d.corr
      BY <2>2 DEF Dispatches, OfType
    <3>2. s = r  BY <1>0, <3>1 DEF IdsUnique, OfType
    <3> QED BY <2>2, <3>1, <3>2 DEF Dispatches, OfType
  <2>4. CausedBy(L, d.id, ChangeTypes) = {}  BY <2>2 DEF CausedBy, Dispatches, IsA
  <2>5. j \in {r.id, d.id} \cup CausedBy(L, r.id, ReadTypes) \cup {i \in d.body.effects : IsA(L, i, ChangeTypes)}
    BY <1>2, <2>1, <2>4 DEF Coverage
  <2>6. \E e \in L : e.id = j /\ e.corr = r.corr
    BY <1>0, <1>a, <2>2, <2>3, <2>5 DEF CausedBy
  <2> QED BY <2>6, AtId
<1> QED BY <1>1, <1>2

(***************************************************************************)
(* Climbing from an event to the closest cause that is covered.            *)
(***************************************************************************)
Of(S, j) == {c \in S : j \in c.ev}
Ids(E) == {e.id : e \in E} \cup {None}
Climb(E, S) == CHOOSE climb : climb =
  [j \in Ids(E) |-> IF j = None \/ Cardinality(Of(S, j)) = 1 THEN Of(S, j) ELSE climb[At(E, j).cause]]

LEMMA CoveringClimbs == \A E, S, i :
  Covering(E, S, i) = IF S = {} \/ Climb(E, S)[i] = {} THEN None ELSE CHOOSE c \in Climb(E, S)[i] : TRUE
  BY DEF Covering, Climb, Of, Ids

(* In a valid log the climb ends: causes never go round.                   *)
LEMMA ClimbDefined ==
  ASSUME NEW E, IsFiniteSet(E), ValidSet(E), \A e \in E : e.id # None, NEW S
  PROVE  \A j \in Ids(E) : Climb(E, S)[j] =
           IF j = None \/ Cardinality(Of(S, j)) = 1 THEN Of(S, j) ELSE Climb(E, S)[At(E, j).cause]
<1> DEFINE Next1(g, j) == IF j = None \/ Cardinality(Of(S, j)) = 1 THEN Of(S, j) ELSE g[At(E, j).cause]
           Grounds(R) == \A e \in R : e.cause \in Ids(R)
           Good(R) == R \subseteq E /\ Grounds(R) /\ \E g : g = [j \in Ids(R) |-> Next1(g, j)]
           Size(R) == Cardinality(E \ R)
           Sizes == {n \in Nat : \E R \in SUBSET E : Good(R) /\ Size(R) = n}
<1>1. /\ IdsUnique(E) /\ Acyclic(E)
      /\ \A e \in E : e.cause # None => \E p \in E : p.id = e.cause
  BY ValidRules DEF EventValid, CausedProperly
<1>2. \A R \in SUBSET E : Size(R) \in Nat /\ IsFiniteSet(E \ R)  BY FS_Subset, FS_CardinalityType
<1>3. Good({})
  <2> DEFINE g == [j \in Ids({}) |-> Of(S, j)]
  <2>1. \A j \in Ids({}) : j = None  BY DEF Ids
  <2>2. g = [j \in Ids({}) |-> Next1(g, j)]  BY <2>1
  <2> QED BY <2>2
<1>4. ASSUME NEW R \in SUBSET E, Good(R), NEW e \in E \ R, e.cause \in Ids(R)
      PROVE  Good(R \cup {e}) /\ Size(R \cup {e}) < Size(R)
  <2>1. PICK g : g = [j \in Ids(R) |-> Next1(g, j)]  BY <1>4
  <2> DEFINE Q == R \cup {e}
             h == [j \in Ids(Q) |-> Next1(g, j)]
  <2>2. Ids(Q) = Ids(R) \cup {e.id} /\ e.id \notin Ids(R)
    BY <1>1 DEF Ids, IdsUnique
  <2>3. \A j \in Ids(R) : h[j] = g[j]
    <3> TAKE j \in Ids(R)
    <3>1. g[j] = Next1(g, j)  BY <2>1
    <3>2. h[j] = Next1(g, j)  BY <2>2
    <3> QED BY <3>1, <3>2
  <2>4. \A j \in Ids(Q) \ {None} : At(E, j).cause \in Ids(R)
    <3> TAKE j \in Ids(Q) \ {None}
    <3>1. PICK d \in Q : d.id = j  BY DEF Ids
    <3>2. At(E, j) = d  BY <1>1, <3>1, AtId
    <3>3. d.cause \in Ids(R)  BY <1>4
    <3> QED BY <3>2, <3>3
  <2>5. \A j \in Ids(Q) : Next1(g, j) = Next1(h, j)
    <3> HIDE DEF h
    <3> QED BY <2>3, <2>4
  <2>6. h = [j \in Ids(Q) |-> Next1(h, j)]
    <3>1. \A j \in Ids(Q) : h[j] = Next1(h, j)  BY <2>5
    <3>2. h = [j \in Ids(Q) |-> h[j]]  OBVIOUS
    <3> HIDE DEF h
    <3> QED BY <3>1, <3>2
  <2>7. Grounds(Q)  BY <1>4, <2>2
  <2>8. E \ Q \subseteq E \ R /\ E \ Q # E \ R  OBVIOUS
  <2>9. Cardinality(E \ Q) <= Cardinality(E \ R) /\ Cardinality(E \ Q) # Cardinality(E \ R)
    BY <1>2, <2>8, FS_Subset
  <2>10. Size(Q) < Size(R)
    <3>1. Size(Q) \in Nat /\ Size(R) \in Nat  BY <1>2
    <3>2. Size(Q) <= Size(R) /\ Size(Q) # Size(R)  BY <2>9
    <3> HIDE DEF Size
    <3> QED BY <3>1, <3>2
  <2> HIDE DEF Next1, h
  <2> QED BY <2>6, <2>7, <2>10
<1>5. PICK n \in Sizes : \A m \in Sizes : n <= m
  <2>1. Size({}) \in Sizes  BY <1>2, <1>3
  <2> HIDE DEF Good, Size
  <2> QED BY <2>1, Least
<1>6. PICK R \in SUBSET E : Good(R) /\ Size(R) = n  BY <1>5
<1>7. R = E
  <2>1. \A e \in E \ R : e.cause \notin Ids(R)
    <3> SUFFICES ASSUME NEW e \in E \ R, e.cause \in Ids(R) PROVE FALSE  OBVIOUS
    <3>1. Good(R \cup {e}) /\ Size(R \cup {e}) < Size(R)  BY <1>4, <1>6
    <3>2. Size(R \cup {e}) \in Sizes  BY <1>2, <3>1
    <3> HIDE DEF Good, Size, Sizes
    <3>3. n <= Size(R \cup {e})  BY <1>5, <3>2
    <3>4. Size(R \cup {e}) \in Nat /\ n \in Nat  BY <1>2, <1>5 DEF Size, Sizes
    <3> QED BY <1>6, <3>1, <3>3, <3>4
  <2>2. Closed(E, R)  BY <2>1 DEF Closed, Ids
  <2>3. Roots(E) \subseteq R  BY <1>1, <2>1 DEF Roots, Ids
  <2> QED BY <1>1, <2>2, <2>3, AcyclicClosed
<1>8. \E g : g = [j \in Ids(E) |-> Next1(g, j)]  BY <1>6, <1>7
<1>9. Climb(E, S) = [j \in Ids(E) |-> Next1(Climb(E, S), j)]
  BY <1>8, Zenon DEF Climb
<1>10. \A j \in Ids(E) : Climb(E, S)[j] = Next1(Climb(E, S), j)
  <2> PICK h : h = Climb(E, S) OBVIOUS
  <2>1. h = [j \in Ids(E) |-> Next1(h, j)]  BY <1>9
  <2> HIDE DEF Next1
  <2>2. \A j \in Ids(E) : h[j] = Next1(h, j)  BY <2>1
  <2> QED BY <2>2
<1> QED BY <1>10

(* What the climb finds is of the event's own call.                        *)
LEMMA ClimbCovers ==
  ASSUME NEW L, IsFiniteSet(L), ValidSet(L), Dispatches(L), \A e \in L : e.id # None,
         NEW i, Has(L, i)
  PROVE  \A c \in Climb(L, Sufficient(L))[i] : Covers(L, i, c)
<1>1. PICK S : S = Sufficient(L)  OBVIOUS
<1>2. \A c \in S : c.shown = "sufficient" /\ \E r \in OfType(L, "tool.requested") : c = Coverage(L, r)
  BY <1>1 DEF Sufficient
<1>3. IdsUnique(L) /\ Acyclic(L) /\ \A e \in L : CausedProperly(L, e)
  BY ValidRules DEF EventValid
<1>4. \A j : \A c \in Of(S, j) : c \in S /\ Covers(L, j, c)
  <2> TAKE j
  <2> TAKE c \in Of(S, j)
  <2>1. c \in S /\ j \in c.ev  BY DEF Of
  <2>2. PICK r \in OfType(L, "tool.requested") : c = Coverage(L, r)  BY <1>2, <2>1
  <2>3. Has(L, j) /\ At(L, j).corr = r.corr  BY <1>3, <2>1, <2>2, CoverageCorrelated
  <2> QED BY <1>2, <2>1, <2>2, <2>3 DEF Covers
<1>5. \A j \in Ids(L) : Climb(L, S)[j] =
           IF j = None \/ Cardinality(Of(S, j)) = 1 THEN Of(S, j) ELSE Climb(L, S)[At(L, j).cause]
  BY ClimbDefined
<1> DEFINE R == {e \in L : \A c \in Climb(L, S)[e.id] : Covers(L, e.id, c)}
<1>6. Of(S, None) = {}  BY <1>4 DEF Covers, Has
<1>7. \A e \in L : Climb(L, S)[e.id] =
          IF Cardinality(Of(S, e.id)) = 1 THEN Of(S, e.id) ELSE Climb(L, S)[e.cause]
  <2> TAKE e \in L
  <2>1. e.id \in Ids(L) /\ At(L, e.id) = e /\ e.id # None  BY <1>3, AtId DEF Ids
  <2> QED BY <1>5, <2>1
<1>8. Climb(L, S)[None] = {}  BY <1>5, <1>6 DEF Ids
<1>9. \A e \in L : e.cause = None => e \in R
  <2> TAKE e \in L
  <2> HAVE e.cause = None
  <2> QED BY <1>4, <1>7, <1>8
<1>10. Roots(L) \subseteq R
  BY <1>3, <1>9 DEF Roots, CausedProperly
<1>11. Closed(L, R)
  <2> SUFFICES ASSUME NEW e \in L, NEW d \in R, e.cause = d.id PROVE e \in R  BY DEF Closed
  <2>1. d \in L /\ \A c \in Climb(L, S)[d.id] : Covers(L, d.id, c)  OBVIOUS
  <2>2. d.corr = e.corr
    <3>1. e.cause # None  BY <2>1
    <3>2. PICK p \in L : p.id = e.cause /\ p.corr = e.corr  BY <1>3, <3>1 DEF CausedProperly
    <3> QED BY <1>3, <2>1, <3>2 DEF IdsUnique
  <2>3. At(L, d.id) = d /\ At(L, e.id) = e /\ Has(L, e.id)  BY <1>3, <2>1, AtId
  <2>4. \A c : Covers(L, d.id, c) => Covers(L, e.id, c)  BY <2>2, <2>3 DEF Covers
  <2>5. \A c \in Climb(L, S)[e.id] : Covers(L, e.id, c)
    <3>1. CASE Cardinality(Of(S, e.id)) = 1  BY <1>4, <1>7, <3>1
    <3>2. CASE Cardinality(Of(S, e.id)) # 1  BY <1>7, <2>1, <2>4, <3>2
    <3> QED BY <3>1, <3>2
  <2> QED BY <2>5
<1>12. R = L  BY <1>3, <1>10, <1>11, AcyclicClosed
<1>13. PICK e \in L : e.id = i  BY DEF Has
<1> QED BY <1>1, <1>12, <1>13

LEMMA CoveringIs ==
  ASSUME NEW L, IsFiniteSet(L), ValidSet(L), Dispatches(L), \A e \in L : e.id # None,
         NEW i, Has(L, i), Covering(L, Sufficient(L), i) # None
  PROVE  Covers(L, i, Covering(L, Sufficient(L), i))
<1>1. PICK S : S = Sufficient(L)  OBVIOUS
<1>2. \A c \in Climb(L, S)[i] : Covers(L, i, c)  BY <1>1, ClimbCovers
<1>3. Covering(L, S, i) = IF S = {} \/ Climb(L, S)[i] = {} THEN None ELSE CHOOSE c \in Climb(L, S)[i] : TRUE
  BY CoveringClimbs
<1>4. Covering(L, S, i) \in Climb(L, S)[i]  BY <1>1, <1>3
<1> QED BY <1>1, <1>2, <1>4

(***************************************************************************)
(* What a finding cites decides which coverages it names.                  *)
(***************************************************************************)
TellsOverlap(L, says) == \E o \in OfType(L, "task.concurrency.observed") : \E i, j, b, c :
  /\ o.body.change[1] = i /\ o.body.change[2] = j
  /\ IsA(L, i, {"symbol.changed"}) /\ IsA(L, j, {"symbol.changed"})
  /\ says.evidence = {i, j, o.id}
  /\ Covers(L, i, b) /\ Covers(L, j, c)
  /\ says.covs = {b, c, o.body.cov}

TellsStale(L, says) == \E w \in OfType(L, "write.dependent") : \E i, j, c :
  /\ w.body.read = i
  /\ IsA(L, i, {"file.read"}) /\ IsA(L, j, {"file.changed"})
  /\ says.evidence = {i, w.id, j}
  /\ Covers(L, i, c)
  /\ says.covs = {c, w.body.cov, w.body.againstCov}

TellsBroken(L, says) ==
  \E e \in OfType(L, "symbol.changed"), d \in OfType(L, "dependency.changed") : \E j, b, c :
    /\ IsA(L, j, {"file.changed"})
    /\ says.evidence = {e.id, d.id, j}
    /\ Covers(L, e.id, b) /\ Covers(L, d.id, c)
    /\ says.covs = {b, c}

Told(L, says) ==
  \/ says.type = "same_symbol_overlap" /\ TellsOverlap(L, says)
  \/ says.type = "stale_read_before_write" /\ TellsStale(L, says)
  \/ says.type = "exported_contract_invalidation" /\ TellsBroken(L, says)

LEMMA ToldStays ==
  ASSUME NEW L, NEW M, L \subseteq M, IdsUnique(M), Dispatches(L), Dispatches(M),
         \A e \in M \ L : e.type \in ReadTypes => ~ Has(L, e.cause),
         NEW says, Told(L, says)
  PROVE  Told(M, says)
<1>1. \A i, c : Covers(L, i, c) => Covers(M, i, c)  BY CoversStays
<1>2. \A i, types : IsA(L, i, types) => IsA(M, i, types)  BY DEF IsA
<1>3. \A t : OfType(L, t) \subseteq OfType(M, t)  BY DEF OfType
<1>4. TellsOverlap(L, says) => TellsOverlap(M, says)
  <2> SUFFICES ASSUME TellsOverlap(L, says) PROVE TellsOverlap(M, says)  OBVIOUS
  <2>1. PICK o, i, j, b, c :
          /\ o \in OfType(L, "task.concurrency.observed")
          /\ o.body.change[1] = i /\ o.body.change[2] = j
          /\ IsA(L, i, {"symbol.changed"}) /\ IsA(L, j, {"symbol.changed"})
          /\ says.evidence = {i, j, o.id}
          /\ Covers(L, i, b) /\ Covers(L, j, c)
          /\ says.covs = {b, c, o.body.cov}
    BY DEF TellsOverlap
  <2>2. o \in OfType(M, "task.concurrency.observed") /\ Covers(M, i, b) /\ Covers(M, j, c)
        /\ IsA(M, i, {"symbol.changed"}) /\ IsA(M, j, {"symbol.changed"})
    BY <1>1, <1>2, <1>3, <2>1
  <2> QED BY <2>1, <2>2 DEF TellsOverlap
<1>5. TellsStale(L, says) => TellsStale(M, says)
  <2> SUFFICES ASSUME TellsStale(L, says) PROVE TellsStale(M, says)  OBVIOUS
  <2>1. PICK w, i, j, c :
          /\ w \in OfType(L, "write.dependent")
          /\ w.body.read = i
          /\ IsA(L, i, {"file.read"}) /\ IsA(L, j, {"file.changed"})
          /\ says.evidence = {i, w.id, j}
          /\ Covers(L, i, c)
          /\ says.covs = {c, w.body.cov, w.body.againstCov}
    BY DEF TellsStale
  <2>2. w \in OfType(M, "write.dependent") /\ Covers(M, i, c)
        /\ IsA(M, i, {"file.read"}) /\ IsA(M, j, {"file.changed"})
    BY <1>1, <1>2, <1>3, <2>1
  <2>3. \E k, l, a : /\ w.body.read = k
          /\ IsA(M, k, {"file.read"}) /\ IsA(M, l, {"file.changed"})
          /\ says.evidence = {k, w.id, l}
          /\ Covers(M, k, a)
          /\ says.covs = {a, w.body.cov, w.body.againstCov}
    BY <2>1, <2>2
  <2> QED BY <2>2, <2>3 DEF TellsStale
<1>6. TellsBroken(L, says) => TellsBroken(M, says)
  <2> SUFFICES ASSUME TellsBroken(L, says) PROVE TellsBroken(M, says)  OBVIOUS
  <2>1. PICK e, d, j, b, c :
          /\ e \in OfType(L, "symbol.changed")
          /\ d \in OfType(L, "dependency.changed")
          /\ IsA(L, j, {"file.changed"})
          /\ says.evidence = {e.id, d.id, j}
          /\ Covers(L, e.id, b) /\ Covers(L, d.id, c)
          /\ says.covs = {b, c}
    BY DEF TellsBroken
  <2>2. e \in OfType(M, "symbol.changed") /\ d \in OfType(M, "dependency.changed")
        /\ Covers(M, e.id, b) /\ Covers(M, d.id, c) /\ IsA(M, j, {"file.changed"})
    BY <1>1, <1>2, <1>3, <2>1
  <2> QED BY <2>1, <2>2 DEF TellsBroken
<1> QED BY <1>4, <1>5, <1>6 DEF Told

(* Of the events with the ids cited, one has the type that only one can    *)
(* have; it is the same for two that cite the same.                        *)
LEMMA ToldOnce ==
  ASSUME NEW L, IdsUnique(L), Dispatches(L), NEW s, NEW t, Told(L, s), Told(L, t),
         s.type = t.type, s.evidence = t.evidence
  PROVE  s.covs = t.covs
<1>0. \A i, b, c : Covers(L, i, b) /\ Covers(L, i, c) => b = c  BY CoversOne
<1>b. \A x : \A e \in OfType(L, x) : IsA(L, e.id, {x})  BY DEF IsA, OfType
<1>c. \A x : \A d, e \in OfType(L, x) : d.id = e.id => d = e  BY DEF OfType, IdsUnique
<1>1. CASE s.type = "same_symbol_overlap"
  <2>1. PICK o, i, j, b, c :
          /\ o \in OfType(L, "task.concurrency.observed")
          /\ o.body.change[1] = i /\ o.body.change[2] = j
          /\ IsA(L, i, {"symbol.changed"}) /\ IsA(L, j, {"symbol.changed"})
          /\ s.evidence = {i, j, o.id}
          /\ Covers(L, i, b) /\ Covers(L, j, c)
          /\ s.covs = {b, c, o.body.cov}
    BY <1>1 DEF Told, TellsOverlap
  <2>2. PICK o2, i2, j2, b2, c2 :
          /\ o2 \in OfType(L, "task.concurrency.observed")
          /\ o2.body.change[1] = i2 /\ o2.body.change[2] = j2
          /\ IsA(L, i2, {"symbol.changed"}) /\ IsA(L, j2, {"symbol.changed"})
          /\ t.evidence = {i2, j2, o2.id}
          /\ Covers(L, i2, b2) /\ Covers(L, j2, c2)
          /\ t.covs = {b2, c2, o2.body.cov}
    BY <1>1 DEF Told, TellsOverlap
  <2>a. IsA(L, o.id, {"task.concurrency.observed"})  BY <1>b, <2>1
  <2>b. \A x : ~ (IsA(L, x, {"task.concurrency.observed"}) /\ IsA(L, x, {"symbol.changed"}))
    BY DEF IsA, IdsUnique
  <2>3. o.id # i2 /\ o.id # j2  BY <2>a, <2>b, <2>2
  <2>4. o.id = o2.id  BY <2>1, <2>2, <2>3
  <2>5. o = o2  BY <1>c, <2>1, <2>2, <2>4
  <2>6. i = i2 /\ j = j2  BY <2>1, <2>2, <2>5
  <2> QED BY <1>0, <2>1, <2>2, <2>5, <2>6
<1>2. CASE s.type = "stale_read_before_write"
  <2>1. PICK w, i, j, c :
          /\ w \in OfType(L, "write.dependent")
          /\ w.body.read = i
          /\ IsA(L, i, {"file.read"}) /\ IsA(L, j, {"file.changed"})
          /\ s.evidence = {i, w.id, j}
          /\ Covers(L, i, c)
          /\ s.covs = {c, w.body.cov, w.body.againstCov}
    BY <1>2 DEF Told, TellsStale
  <2>2. PICK w2, i2, j2, c2 :
          /\ w2 \in OfType(L, "write.dependent")
          /\ w2.body.read = i2
          /\ IsA(L, i2, {"file.read"}) /\ IsA(L, j2, {"file.changed"})
          /\ t.evidence = {i2, w2.id, j2}
          /\ Covers(L, i2, c2)
          /\ t.covs = {c2, w2.body.cov, w2.body.againstCov}
    BY <1>2 DEF Told, TellsStale
  <2>a. IsA(L, w.id, {"write.dependent"})  BY <1>b, <2>1
  <2>b. \A x : ~ (IsA(L, x, {"write.dependent"}) /\ IsA(L, x, {"file.read"}))
        /\ ~ (IsA(L, x, {"write.dependent"}) /\ IsA(L, x, {"file.changed"}))
    BY DEF IsA, IdsUnique
  <2>3. w.id # i2 /\ w.id # j2  BY <2>a, <2>b, <2>2
  <2>4. w.id = w2.id  BY <2>1, <2>2, <2>3
  <2>5. w = w2  BY <1>c, <2>1, <2>2, <2>4
  <2> QED BY <1>0, <2>1, <2>2, <2>5
<1>3. CASE s.type = "exported_contract_invalidation"
  <2>1. PICK e, d, j, b, c :
          /\ e \in OfType(L, "symbol.changed")
          /\ d \in OfType(L, "dependency.changed")
          /\ IsA(L, j, {"file.changed"})
          /\ s.evidence = {e.id, d.id, j}
          /\ Covers(L, e.id, b) /\ Covers(L, d.id, c)
          /\ s.covs = {b, c}
    BY <1>3 DEF Told, TellsBroken
  <2>2. PICK e2, d2, j2, b2, c2 :
          /\ e2 \in OfType(L, "symbol.changed")
          /\ d2 \in OfType(L, "dependency.changed")
          /\ IsA(L, j2, {"file.changed"})
          /\ t.evidence = {e2.id, d2.id, j2}
          /\ Covers(L, e2.id, b2) /\ Covers(L, d2.id, c2)
          /\ t.covs = {b2, c2}
    BY <1>3 DEF Told, TellsBroken
  <2>a. IsA(L, e.id, {"symbol.changed"}) /\ IsA(L, e2.id, {"symbol.changed"})
        /\ IsA(L, d.id, {"dependency.changed"}) /\ IsA(L, d2.id, {"dependency.changed"})
    BY <1>b, <2>1, <2>2
  <2>b. \A i : ~ (IsA(L, i, {"symbol.changed"}) /\ IsA(L, i, {"dependency.changed"}))
        /\ ~ (IsA(L, i, {"symbol.changed"}) /\ IsA(L, i, {"file.changed"}))
        /\ ~ (IsA(L, i, {"dependency.changed"}) /\ IsA(L, i, {"file.changed"}))
    BY DEF IsA, IdsUnique
  <2>3. e.id # d2.id /\ e.id # j2 /\ d.id # e2.id /\ d.id # j2  BY <2>a, <2>b, <2>2
  <2>4. e.id = e2.id /\ d.id = d2.id  BY <2>1, <2>2, <2>3
  <2> QED BY <1>0, <2>1, <2>2, <2>4
<1> QED BY <1>1, <1>2, <1>3 DEF Told

(* What a detection run finds in a valid log is told by it.                *)
LEMMA OverlapTold ==
  ASSUME LogInv, ValidSet(log), Dispatches(log), \A e \in log : e.id # None,
         NEW S, S = Sufficient(log), NEW f \in SameSymbolFindings(log, S)
  PROVE  Told(log, f)
<1> DEFINE changes(o) == {At(log, o.body.change[k]) : k \in 1..2}
<1>0. PICK o \in Observations(log, S) :
        /\ \A c \in changes(o) : Covering(log, S, c.id) # None
        /\ f = Finding("same_symbol_overlap", At(log, o.body.change[2]).body.res, o.body.task[2], {},
               Range(o.body.change) \cup {o.id},
               {Covering(log, S, c.id) : c \in changes(o)} \cup {o.body.cov})
  BY DEF SameSymbolFindings
<1>1. /\ \A c \in {At(log, o.body.change[k]) : k \in 1..2} : Covering(log, S, c.id) # None
      /\ f.type = "same_symbol_overlap"
      /\ f.evidence = Range(o.body.change) \cup {o.id}
      /\ f.covs = {Covering(log, S, c.id) : c \in {At(log, o.body.change[k]) : k \in 1..2}} \cup {o.body.cov}
  BY <1>0 DEF Finding
<1>2. o \in log /\ o.type = "task.concurrency.observed"  BY DEF Observations, OfType
<1>3. /\ DOMAIN o.body.change = 1..2
      /\ \A k \in 1..2 : \E e \in log : e.id = o.body.change[k] /\ e.type = "symbol.changed"
  BY <1>2 DEF LogInv, EventInv, ProofHolds
<1>4. PICK a, b \in log : /\ a.id = o.body.change[1] /\ a.type = "symbol.changed"
                          /\ b.id = o.body.change[2] /\ b.type = "symbol.changed"
  BY <1>3
<1>6. IdsUnique(log) /\ IsFiniteSet(log)  BY DEF LogInv, Identified
<1>7. /\ At(log, o.body.change[1]) = a /\ At(log, o.body.change[2]) = b
      /\ Has(log, a.id) /\ Has(log, b.id)
  BY <1>4, <1>6, AtId
<1>8. \A k \in 1..2 : k = 1 \/ k = 2  OBVIOUS
<1>9. Range(o.body.change) = {a.id, b.id}  BY <1>3, <1>4, <1>8 DEF Range
<1>10. {At(log, o.body.change[k]) : k \in 1..2} = {a, b}  BY <1>7, <1>8
<1>11. Covering(log, S, a.id) # None /\ Covering(log, S, b.id) # None  BY <1>1, <1>10
<1>12. Covers(log, a.id, Covering(log, S, a.id)) /\ Covers(log, b.id, Covering(log, S, b.id))
  BY <1>6, <1>7, <1>11, CoveringIs
<1>13. f.covs = {Covering(log, S, a.id), Covering(log, S, b.id), o.body.cov}  BY <1>1, <1>10
<1>14. f.evidence = {a.id, b.id, o.id}  BY <1>1, <1>9
<1>15. IsA(log, a.id, {"symbol.changed"}) /\ IsA(log, b.id, {"symbol.changed"})  BY <1>4 DEF IsA
<1>16. TellsOverlap(log, f)
  BY <1>2, <1>4, <1>12, <1>13, <1>14, <1>15 DEF TellsOverlap, OfType
<1> QED BY <1>1, <1>16 DEF Told

LEMMA StaleTold ==
  ASSUME LogInv, ValidSet(log), Dispatches(log), \A e \in log : e.id # None,
         NEW S, S = Sufficient(log), NEW f \in StaleReadFindings(log, S)
  PROVE  Told(log, f)
<1> DEFINE writes == {w \in OfType(log, "write.dependent") : w.body.target # None}
<1>0. PICK w \in writes :
        /\ Covering(log, S, w.body.read) # None
        /\ f = Finding("stale_read_before_write", At(log, w.body.read).body.res, w.task, {w.body.dep},
               {w.body.read, w.id, At(log, w.body.against).body.after.ev},
               {Covering(log, S, w.body.read), w.body.cov, w.body.againstCov})
  BY DEF StaleReadFindings
<1>1. /\ w \in log /\ w.type = "write.dependent" /\ w.body.target # None
      /\ f.type = "stale_read_before_write"
      /\ f.evidence = {w.body.read, w.id, At(log, w.body.against).body.after.ev}
      /\ f.covs = {Covering(log, S, w.body.read), w.body.cov, w.body.againstCov}
  BY <1>0 DEF Finding, OfType
<1>2. PICK r, a \in log : /\ r.id = w.body.read /\ r.type = "file.read"
                          /\ a.id = w.body.against /\ a.type \in ChangeTypes
  BY <1>1 DEF LogInv, EventInv, ComparesRead
<1>3. IdsUnique(log) /\ IsFiniteSet(log)  BY DEF LogInv, Identified
<1>4. At(log, w.body.against) = a /\ Has(log, r.id)  BY <1>2, <1>3, AtId
<1>5. IsA(log, a.body.after.ev, {"file.changed"})
  <2>1. Versioned(a)  BY DEF LogInv, EventInv
  <2>2. CASE a.type = "file.changed"  BY <2>1, <2>2 DEF Versioned, IsA
  <2>3. CASE a.type = "symbol.changed"  BY <2>1, <2>3 DEF Versioned
  <2> QED BY <1>2, <2>2, <2>3 DEF ChangeTypes
<1>6. Covers(log, r.id, Covering(log, S, r.id))  BY <1>0, <1>2, <1>3, <1>4, CoveringIs
<1>7. IsA(log, r.id, {"file.read"})  BY <1>2 DEF IsA
<1>8. TellsStale(log, f)
  BY <1>1, <1>2, <1>4, <1>5, <1>6, <1>7 DEF TellsStale, OfType
<1> QED BY <1>1, <1>8 DEF Told

LEMMA BrokenTold ==
  ASSUME LogInv, ValidSet(log), Dispatches(log), \A e \in log : e.id # None,
         NEW S, S = Sufficient(log), NEW f \in ContractFindings(log, S)
  PROVE  Told(log, f)
<1>1. PICK x \in Symbols(log, S) \X Consumers(log, S) :
        /\ f.type = "exported_contract_invalidation"
        /\ f.evidence = {x[1].id, x[2].id, x[1].body.after.ev}
        /\ f.covs = {Covering(log, S, x[1].id), Covering(log, S, x[2].id)}
  BY DEF ContractFindings, Finding
<1>2. PICK e, d : e = x[1] /\ d = x[2]  OBVIOUS
<1>3. /\ e \in log /\ e.type = "symbol.changed" /\ d \in log /\ d.type = "dependency.changed"
      /\ Covering(log, S, e.id) # None /\ Covering(log, S, d.id) # None
  BY <1>1, <1>2 DEF Symbols, Consumers, OfType
<1>4. IdsUnique(log) /\ IsFiniteSet(log)  BY DEF LogInv, Identified
<1>5. e.body.after.ev = e.cause /\ IsA(log, e.cause, {"file.changed"})
  BY <1>3 DEF LogInv, EventInv, Versioned
<1>6. Covers(log, e.id, Covering(log, S, e.id)) /\ Covers(log, d.id, Covering(log, S, d.id))
  BY <1>3, <1>4, AtId, CoveringIs
<1>7. TellsBroken(log, f)
  <2>1. e \in OfType(log, "symbol.changed") /\ d \in OfType(log, "dependency.changed")  BY <1>3 DEF OfType
  <2>2. f.evidence = {e.id, d.id, e.cause} /\ f.covs = {Covering(log, S, e.id), Covering(log, S, d.id)}
    BY <1>1, <1>2, <1>5
  <2> QED BY <1>5, <1>6, <2>1, <2>2 DEF TellsBroken
<1> QED BY <1>1, <1>7 DEF Told

(***************************************************************************)
(* Dispatches stay whole, and findings told, as the log grows.             *)
(***************************************************************************)
FindingTold(L, f) ==
  f.id = <<f.body.says.type, f.body.says.evidence, f.body.says.covs>> /\ Told(L, f.body.says)

Pending(r, at) == r # Idle /\ at[r.call] \notin Late

OnceInv ==
  /\ Dispatches(log)
  /\ Pending(run, pc) => \A d \in OfType(log, "tool.completed") : d.body.request # run.request
  /\ \A f \in OfType(log, "finding.created") : FindingTold(log, f)
  /\ \A d \in OfType(log, "decision.created") : IsA(log, d.body.finding, {"finding.created"})
  /\ \A k \in DOMAIN detector : FindingTold(log, detector[k][1])

LEMMA FindingsStayTold ==
  ASSUME NEW L, NEW M, L \subseteq M, IdsUnique(M), Dispatches(L), Dispatches(M),
         \A e \in M \ L : e.type \in ReadTypes => ~ Has(L, e.cause),
         NEW f, FindingTold(L, f)
  PROVE  FindingTold(M, f)
<1>1. PICK says : says = f.body.says  OBVIOUS
<1>2. Told(M, says)  BY <1>1, ToldStays DEF FindingTold
<1> QED BY <1>1, <1>2 DEF FindingTold

(* What no dispatch rests on.                                              *)
Framing == {"tool.requested", "tool.completed", "finding.created", "decision.created"} \cup ReadTypes

Aside(L, M) == /\ L \subseteq M
               /\ \A e \in M \ L : /\ e.type \notin Framing
                                   /\ e.type \in ChangeTypes =>
                                        /\ ~ IsA(M, e.cause, {"tool.completed"})
                                        /\ e.cause = None \/ Has(M, e.cause)

LEMMA DispatchesAside ==
  ASSUME NEW L, NEW M, Aside(L, M), IdsUnique(M), Dispatches(L)
  PROVE  Dispatches(M)
<1>1. /\ OfType(M, "tool.requested") = OfType(L, "tool.requested")
      /\ OfType(M, "tool.completed") = OfType(L, "tool.completed")
  BY DEF Aside, Framing, OfType
<1>2. \A e \in M : e.type \in ChangeTypes => ~ IsA(M, e.cause, {"tool.completed"})
  <2> SUFFICES ASSUME NEW e \in M, e.type \in ChangeTypes, IsA(M, e.cause, {"tool.completed"}) PROVE FALSE
    OBVIOUS
  <2>1. e \in L  BY DEF Aside
  <2>2. \E d \in OfType(L, "tool.completed") : d.id = e.cause  BY <1>1 DEF IsA, OfType
  <2>3. IsA(L, e.cause, {"tool.completed"})  BY <2>2 DEF IsA, OfType
  <2> QED BY <2>1, <2>3 DEF Dispatches
<1>3. \A e \in M : e.type \in ChangeTypes => e.cause = None \/ Has(M, e.cause)
  BY DEF Dispatches, Aside, Has
<1> QED BY <1>1, <1>2, <1>3 DEF Dispatches, Aside

SameRequest == Pending(run', pc') => Pending(run, pc) /\ run'.request = run.request

LEMMA OnceAside ==
  ASSUME IInv, IInv', OnceInv, Aside(log, log'), SameRequest, UNCHANGED detector
  PROVE  OnceInv'
<1>1. PICK L, M : L = log /\ M = log'  OBVIOUS
<1>2. Aside(L, M) /\ IdsUnique(M) /\ Dispatches(L)  BY <1>1 DEF IInv, LogInv, Identified, OnceInv
<1>3. Dispatches(M)  BY <1>2, DispatchesAside
<1>4. \A f : FindingTold(L, f) => FindingTold(M, f)
  <2>1. L \subseteq M /\ \A e \in M \ L : e.type \in ReadTypes => ~ Has(L, e.cause)
    BY <1>2 DEF Aside, Framing
  <2> QED BY <1>2, <1>3, <2>1, FindingsStayTold
<1>5. /\ OfType(M, "tool.completed") = OfType(L, "tool.completed")
      /\ OfType(M, "finding.created") = OfType(L, "finding.created")
      /\ OfType(M, "decision.created") = OfType(L, "decision.created")
  BY <1>2 DEF Aside, Framing, OfType
<1>6. \A i : IsA(L, i, {"finding.created"}) => IsA(M, i, {"finding.created"})  BY <1>2 DEF IsA, Aside
<1>7. Pending(run', pc') => \A d \in OfType(M, "tool.completed") : d.body.request # run'.request
  BY <1>1, <1>5 DEF OnceInv, SameRequest
<1>8. \A f \in OfType(M, "finding.created") : FindingTold(M, f)  BY <1>1, <1>4, <1>5 DEF OnceInv
<1>9. \A d \in OfType(M, "decision.created") : IsA(M, d.body.finding, {"finding.created"})
  BY <1>1, <1>5, <1>6 DEF OnceInv
<1>10. \A k \in DOMAIN detector : FindingTold(M, detector[k][1])  BY <1>1, <1>4 DEF OnceInv
<1> QED BY <1>1, <1>3, <1>7, <1>8, <1>9, <1>10 DEF OnceInv

LEMMA AsideSame == \A L : Aside(L, L)  BY DEF Aside

(* A step of the dispatch before its completion.                           *)
LEMMA PendingOn ==
  ASSUME NEW c \in Calls, NEW at \in Stages \ Late, Running(c, at), run # Idle,
         run'.request = run.request
  PROVE  SameRequest
  BY DEF SameRequest, Pending, Running

LEMMA PendingGone ==
  ASSUME run' = Idle
  PROVE  SameRequest
  BY DEF SameRequest, Pending

(* The steps that append nothing.                                          *)
LEMMA QuietOnce ==
  ASSUME IInv, IInv', OnceInv, UNCHANGED detector, NEW c \in Calls,
         Dispatch(c) \/ Refuse(c) \/ BeginWindow(c) \/ Execute(c) \/ EndWindow(c)
  PROVE  OnceInv'
<1>1. UNCHANGED log  BY DEF Dispatch, Refuse, BeginWindow, Execute, EndWindow
<1>2. SameRequest
  <2>1. CASE Dispatch(c)
    <3>1. run' = run /\ run = Idle  BY <2>1 DEF Dispatch
    <3> QED BY <3>1, PendingGone
  <2>2. CASE Refuse(c)
    <3>1. run' = Idle  BY <2>2 DEF Refuse, Leave
    <3> QED BY <3>1, PendingGone
  <2>3. CASE BeginWindow(c)
    <3>1. Running(c, "opening")  BY <2>3 DEF BeginWindow
    <3>2. run # Idle /\ DOMAIN run = RunFields  BY <3>1, RunFacts DEF Stages
    <3>3. run'.request = run.request  BY <2>3, <3>2 DEF BeginWindow, RunFields
    <3> QED BY <3>1, <3>2, <3>3, PendingOn DEF Stages, Late
  <2>4. CASE Execute(c)
    <3>1. Running(c, "executing")  BY <2>4 DEF Execute
    <3>2. run # Idle /\ DOMAIN run = RunFields  BY <3>1, RunFacts DEF Stages
    <3>3. run'.request = run.request  BY <2>4, <3>2 DEF Execute, RunFields
    <3> QED BY <3>1, <3>2, <3>3, PendingOn DEF Stages, Late
  <2>5. CASE EndWindow(c)
    <3>1. Running(c, "closing")  BY <2>5 DEF EndWindow
    <3>2. run # Idle /\ DOMAIN run = RunFields  BY <3>1, RunFacts DEF Stages
    <3>3. run'.request = run.request  BY <2>5, <3>2 DEF EndWindow, RunFields
    <3> QED BY <3>1, <3>2, <3>3, PendingOn DEF Stages, Late
  <2> QED BY <2>1, <2>2, <2>3, <2>4, <2>5
<1> QED BY <1>1, <1>2, AsideSame, OnceAside

(* The steps that append the changes of a dispatch and what is derived     *)
(* from them.                                                              *)
LEMMA AppendChangeOnce ==
  ASSUME IInv, IInv', ValidInv', OnceInv, UNCHANGED detector, NEW c \in Calls, AppendChange(c)
  PROVE  OnceInv'
<1>0. Running(c, "changes")  BY DEF AppendChange
<1>1. run # Idle /\ DOMAIN run = RunFields /\ RunBegun(run)  BY <1>0, RunFacts DEF Stages
<1>2. PICK ch : ch = Head(run.todo)  OBVIOUS
<1>3. PICK e : e = FileChanged(run, Fresh(1), ch)  OBVIOUS
<1>4. log' = log \cup {e} \/ UNCHANGED log  BY <1>2, <1>3 DEF AppendChange
<1>5. /\ e.type = "file.changed"
      /\ ch.own => e.cause = run.request
      /\ ~ ch.own => e.cause = None
  BY <1>3 DEF FileChanged, Event
<1>6. ~ IsA(log', e.cause, {"tool.completed"}) /\ (e.cause = None \/ Has(log', e.cause))
  <2>1. CASE ch.own
    <3>1. ToolRequested(run) \in log /\ ToolRequested(run).id = run.request
          /\ ToolRequested(run).type = "tool.requested"
      BY <1>1, RequestThere
    <3>2. ToolRequested(run) \in log'  BY <1>4, <3>1
    <3>3. IdsUnique(log')  BY DEF IInv, LogInv, Identified
    <3>4. PICK q : q = ToolRequested(run)  OBVIOUS
    <3> QED BY <1>5, <2>1, <3>1, <3>2, <3>3, <3>4 DEF IsA, IdsUnique, Has
  <2>2. CASE ~ ch.own  BY <1>5, <2>2 DEF ValidInv, Named, IsA
  <2> QED BY <2>1, <2>2
<1>7. Aside(log, log')  BY <1>4, <1>5, <1>6 DEF Aside, Framing, ReadTypes
<1>8. SameRequest
  <2>1. run'.request = run.request  BY <1>1 DEF AppendChange, Noted, RunFields
  <2> QED BY <1>0, <1>1, <2>1, PendingOn DEF Stages, Late
<1> QED BY <1>7, <1>8, OnceAside

LEMMA AnalyseOnce ==
  ASSUME IInv, IInv', OnceInv, UNCHANGED detector, NEW c \in Calls, Analyse(c)
  PROVE  OnceInv'
<1>0. Running(c, "analysing")  BY DEF Analyse
<1>1. RunEffects(run) /\ run.call = c /\ pc[c] = "analysing" /\ run # Idle /\ DOMAIN run = RunFields
  BY <1>0, RunFacts DEF Stages
<1>2. PICK e : e = run.change  OBVIOUS
<1>3. PICK s : s = SymbolChanged(run, Fresh(1), e, e.body.res[2])  OBVIOUS
<1>4. PICK d : d = DerivedEvidence(run, Fresh(2), s, e, s.body.after.val)  OBVIOUS
<1>5. UNCHANGED log \/ log' = log \cup ToSet(<<s, d>>)
  BY <1>2, <1>3, <1>4, Zenon DEF Analyse
<1>6. ToSet(<<s, d>>) = {s, d}
  BY DEF ToSet
<1>7. DOMAIN e = EventFields /\ e \in log /\ e.type = "file.changed"
  BY <1>1, <1>2 DEF RunEffects, IInv, LogInv, EventInv
<1>8. DOMAIN s = EventFields /\ s.type = "symbol.changed" /\ s.cause = e.id
  BY <1>3, <1>7 DEF SymbolChanged, EventFields
<1>9. d.type = "evidence.derived"  BY <1>4, <1>8 DEF DerivedEvidence, EventFields
<1>10. ~ IsA(log', e.id, {"tool.completed"}) /\ Has(log', e.id)
  <2>1. e \in log' /\ IdsUnique(log')  BY <1>5, <1>7 DEF IInv, LogInv, Identified
  <2> QED BY <1>7, <2>1 DEF IsA, IdsUnique, Has
<1>11. Aside(log, log')  BY <1>5, <1>6, <1>8, <1>9, <1>10 DEF Aside, Framing, ReadTypes, ChangeTypes
<1>12. SameRequest
  <2>1. run'.request = run.request  BY <1>1, Zenon DEF Analyse, RunFields
  <2> QED BY <1>0, <1>1, <2>1, PendingOn DEF Stages, Late
<1> QED BY <1>11, <1>12, OnceAside

LEMMA ResolveOnce ==
  ASSUME IInv, IInv', OnceInv, UNCHANGED detector, NEW c \in Calls, Resolve(c)
  PROVE  OnceInv'
<1>0. Running(c, "changes")  BY DEF Resolve
<1>1. PICK facts : facts = Dependencies(run)  OBVIOUS
<1>2. UNCHANGED log \/ log' = log \cup facts  BY <1>1 DEF Resolve
<1>3. Paired(facts)  BY <1>0, <1>1, DependenciesAre
<1>4. \A x \in facts : x.type \in {"dependency.changed", "evidence.derived"}
  <2>1. PICK n, found, ch, ev :
          /\ n \in Nat
          /\ facts = UNION {{ch[k], ev[k]} : k \in 1..n}
          /\ \A k \in 1..n : /\ found[k] \in log /\ EventInv(found[k])
                             /\ ch[k].id = Fresh(2 * k - 1) /\ Derived(ch[k], found[k])
                             /\ ev[k].id = Fresh(2 * k) /\ Derived(ev[k], found[k])
    BY <1>3, Zenon DEF Paired
  <2> TAKE x \in facts
  <2>2. PICK k \in 1..n : x \in {ch[k], ev[k]}  BY <2>1
  <2>3. Derived(ch[k], found[k]) /\ Derived(ev[k], found[k])  BY <2>1
  <2> QED BY <2>2, <2>3 DEF Derived
<1>5. Aside(log, log')  BY <1>2, <1>4 DEF Aside, Framing, ReadTypes, ChangeTypes
<1>6. run # Idle /\ DOMAIN run = RunFields  BY <1>0, RunFacts DEF Stages
<1>7. run'.request = run.request  BY <1>6 DEF Resolve, RunFields
<1>8. SameRequest  BY <1>0, <1>6, <1>7, PendingOn DEF Stages, Late
<1> QED BY <1>5, <1>8, OnceAside

LEMMA ClaimOnce ==
  ASSUME IInv, IInv', OnceInv, UNCHANGED detector, NEW c \in Calls, Claim(c)
  PROVE  OnceInv'
<1>0. Running(c, "claiming")  BY DEF Claim
<1>1. PICK claims : claims = Claims(run)  OBVIOUS
<1>2. log' = log \cup claims \/ UNCHANGED log  BY <1>1 DEF Claim
<1>3. \A x \in claims : x.type = "write.dependent"  BY <1>0, <1>1, ClaimsAre
<1>4. Aside(log, log')  BY <1>2, <1>3 DEF Aside, Framing, ReadTypes, ChangeTypes
<1>5. run.call = c /\ pc[c] = "claiming" /\ Shapes  BY <1>0, RunFacts DEF Stages, IInv
<1>6. SameRequest
  <2>1. CASE Leave(c, "failed")
    <3>1. run' = Idle  BY <2>1 DEF Leave
    <3> QED BY <3>1, PendingGone
  <2>2. CASE Step(c, "proving") /\ UNCHANGED run
    <3>1. pc' = [pc EXCEPT ![c] = "proving"]  BY <2>2 DEF Step
    <3>2. pc'[c] = "proving"  BY <1>5, <3>1, StepTo DEF Stages
    <3> QED BY <1>5, <2>2, <3>2 DEF SameRequest, Pending, Late
  <2> QED BY <2>1, <2>2 DEF Claim
<1> QED BY <1>4, <1>6, OnceAside

LEMMA ProveOnce ==
  ASSUME IInv, IInv', OnceInv, UNCHANGED detector, NEW c \in Calls, Prove(c)
  PROVE  OnceInv'
<1>1. PICK l, ls : l = Call[c].as /\ ls = Recorded(run)  OBVIOUS
<1>2. PICK S : S = Sufficient(log)  OBVIOUS
<1>3. PICK pairs : pairs = IF run.target # None THEN Concurrent(ls, l) ELSE {}  OBVIOUS
<1>4. PICK lost :
        log' = log \cup {p \in {ConcurrencyProof(ls, l, q[1], q[2]) : q \in pairs \ lost} : Accepted(p)}
  BY <1>1, <1>3 DEF Prove
<1>5. \A q \in pairs : q[1] \in log /\ q[1].type = "symbol.changed" /\ Concurs(ls, l, S, q[1], q[2])
  BY <1>2, <1>3 DEF Concurrent, OfType
<1>6. ASSUME NEW p \in log' \ log PROVE p.type = "task.concurrency.observed"
  <2>1. PICK q \in pairs : p = ConcurrencyProof(ls, l, q[1], q[2])  BY <1>4
  <2>2. PICK x, y : x = q[1] /\ y = q[2]  OBVIOUS
  <2>3. x \in log /\ x.type = "symbol.changed" /\ x.id # y.id  BY <1>5, <2>2 DEF Concurs
  <2>4. DOMAIN x = EventFields  BY <2>3 DEF IInv, LogInv, EventInv
  <2>5. PICK m : m = OwnerOf(ls, l, y)  OBVIOUS
  <2>6. p = ConcurrencyProof(ls, l, x, y)  BY <2>1, <2>2
  <2> QED BY <2>3, <2>4, <2>5, <2>6, ProofIs
<1>7. Aside(log, log')  BY <1>4, <1>6 DEF Aside, Framing, ReadTypes, ChangeTypes
<1>8. run' = Idle  BY DEF Prove, Leave
<1> QED BY <1>7, <1>8, PendingGone, OnceAside

LEMMA RespondOnce ==
  ASSUME IInv, IInv', OnceInv, Respond
  PROVE  OnceInv'
<1>1. \E e \in log : \E r \in Responses(e) : ~Has(log, r.id) /\ log' = log \cup {r}
  BY DEF Respond
<1>2. PICK e \in log : \E r \in Responses(e) : ~Has(log, r.id) /\ log' = log \cup {r}
  BY <1>1
<1>3. PICK r \in Responses(e) : ~Has(log, r.id) /\ log' = log \cup {r}
  BY <1>2
<1>4. DOMAIN e = EventFields  BY DEF IInv, LogInv, EventInv
<1>5. \E t \in {"decision.delivery.changed", "finding.feedback.created"} : \E body : r = Response(e, t, body)
  <2>1. CASE e.type = "decision.created"
    <3>1. \E s \in States : r = Response(e, "decision.delivery.changed", [said |-> s, decision |-> e.id])
      BY <1>3, <2>1 DEF Responses
    <3> QED BY <2>1, <3>1
  <2>2. CASE e.type = "finding.created"
    <3>1. \E s \in States : r = Response(e, "finding.feedback.created",
            [said |-> s, finding |-> e.id, decision |-> <<"decision", e.id>>, evidence |-> {e.id}])
      BY <1>3, <2>2 DEF Responses
    <3> QED BY <2>2, <3>1
  <2>3. e.type \in {"decision.created", "finding.created"}
    BY <1>3 DEF Responses
  <2> QED BY <2>1, <2>2, <2>3
<1>6. r.type \in {"decision.delivery.changed", "finding.feedback.created"}
  BY <1>4, <1>5 DEF Response, EventFields
<1>7. Aside(log, log')  BY <1>3, <1>6 DEF Aside, Framing, ReadTypes, ChangeTypes
<1>8. SameRequest  BY DEF Respond, SameRequest
<1> QED BY <1>7, <1>8, OnceAside DEF Respond

(* Start appends a new call's request, and a read it causes.               *)
LEMMA StartOnce ==
  ASSUME IInv, IInv', OnceInv, UNCHANGED detector, NEW c \in Calls, Start(c)
  PROVE  OnceInv'
<1>1. run = Idle /\ pc[c] = "queued"  BY DEF Start, Turn
<1>2. PICK bound \in Call[c].bound, meta \in Metadata(c) :
       LET r == Entering(c, bound, meta)
           reading == [r EXCEPT !.read = FileRead(r)]
       IN  \/ UNCHANGED log /\ Leave(c, "failed")
           \/ log' = log \cup {ToolRequested(r)} /\ run' = r
           \/ log' = log \cup {ToolRequested(r), reading.read} /\ run' = reading
           \/ log' = log \cup {ToolRequested(r)} /\ run' = [reading EXCEPT !.gap = TRUE]
  BY Zenon DEF Start
<1> DEFINE r == Entering(c, bound, meta)
           reading == [r EXCEPT !.read = FileRead(r)]
<1>3. DOMAIN r = RunFields /\ r.call = c /\ r.request = Fresh(1)
  BY DEF Entering, RunFields
<1>tr. PICK tr : tr = ToolRequested(r)  OBVIOUS
<1>fr. PICK fr : fr = FileRead(r)  OBVIOUS
<1>4. tr.id = Fresh(1) /\ tr.type = "tool.requested" /\ tr.corr = <<"call", c>>
  BY <1>3, <1>tr DEF ToolRequested, Event
<1>5. fr.type = "file.read" /\ fr.cause = Fresh(1)
  BY <1>3, <1>fr DEF FileRead, Event
<1>6. reading.read = fr /\ reading.request = Fresh(1) /\ DOMAIN reading = RunFields
  <2> HIDE DEF r
  <2> QED BY <1>3, <1>fr DEF RunFields
<1>7. ~ Has(log, Fresh(1)) /\ IdsUnique(log') /\ IdsUnique(log)
  BY FreshNow DEF IInv, LogInv, Identified
<1>8. \/ UNCHANGED log /\ run' = Idle
      \/ /\ log' = log \cup {tr} \/ log' = log \cup {tr, fr}
         /\ run'.request = Fresh(1)
  <2>1. CASE UNCHANGED log /\ Leave(c, "failed")  BY <2>1 DEF Leave
  <2>2. CASE log' = log \cup {tr} /\ run' = r  BY <1>3, <2>2
  <2>3. CASE log' = log \cup {tr, fr} /\ run' = reading  BY <1>6, <2>3
  <2>4. CASE log' = log \cup {tr} /\ run' = [reading EXCEPT !.gap = TRUE]
    <3> HIDE DEF reading, r
    <3>1. run'.request = reading.request  BY <1>6, <2>4 DEF RunFields
    <3> QED BY <1>6, <2>4, <3>1
  <2> HIDE DEF reading, r
  <2>5. \/ UNCHANGED log /\ Leave(c, "failed")
        \/ log' = log \cup {ToolRequested(r)} /\ run' = r
        \/ log' = log \cup {ToolRequested(r), reading.read} /\ run' = reading
        \/ log' = log \cup {ToolRequested(r)} /\ run' = [reading EXCEPT !.gap = TRUE]
    BY <1>2, Zenon DEF r, reading
  <2> QED BY <1>6, <1>tr, <2>1, <2>2, <2>3, <2>4, <2>5
<1> HIDE DEF r, reading
<1>9. CASE UNCHANGED log /\ run' = Idle
  BY <1>9, AsideSame, PendingGone, OnceAside
<1>10. CASE /\ log' = log \cup {tr} \/ log' = log \cup {tr, fr}
            /\ run'.request = Fresh(1)
  <2>1. PICK L, M : L = log /\ M = log'  OBVIOUS
  <2>2. /\ L \subseteq M /\ tr \in M /\ IdsUnique(M)
        /\ \A e \in M : e \in L \/ e = tr \/ e.type = "file.read"
        /\ \A e \in M \ L : e.type \in ReadTypes => e = fr
    BY <1>4, <1>5, <1>7, <1>10, <2>1 DEF ReadTypes
  <2>3. Dispatches(L)  BY <2>1 DEF OnceInv
  <2>4. /\ OfType(M, "tool.requested") = OfType(L, "tool.requested") \cup {tr}
        /\ OfType(M, "tool.completed") = OfType(L, "tool.completed")
        /\ OfType(M, "finding.created") = OfType(L, "finding.created")
        /\ OfType(M, "decision.created") = OfType(L, "decision.created")
    BY <1>4, <2>2 DEF OfType
  <2>5. \A e \in L : e.corr # <<"call", c>>
    <3> SUFFICES ASSUME NEW e \in L, e.corr = <<"call", c>> PROVE FALSE  OBVIOUS
    <3>1. Correlated(e)  BY <2>1 DEF IInv, LogInv, EventInv
    <3>2. c \notin BegunCalls  BY <1>1 DEF BegunCalls
    <3> QED BY <3>1, <3>2 DEF Correlated
  <2>6. Dispatches(M)
    <3>1. \A p, s \in OfType(M, "tool.requested") : p.corr = s.corr => p = s
      BY <1>4, <2>3, <2>4, <2>5 DEF Dispatches, OfType
    <3>2. \A e \in M : e.type \in ChangeTypes => ~ IsA(M, e.cause, {"tool.completed"})
      <4> SUFFICES ASSUME NEW e \in M, e.type \in ChangeTypes, IsA(M, e.cause, {"tool.completed"}) PROVE FALSE
        OBVIOUS
      <4>1. e \in L  BY <1>4, <2>2 DEF ChangeTypes
      <4>2. \E d \in OfType(L, "tool.completed") : d.id = e.cause  BY <2>4 DEF IsA, OfType
      <4>3. IsA(L, e.cause, {"tool.completed"})  BY <4>2 DEF IsA, OfType
      <4> QED BY <2>3, <4>1, <4>3 DEF Dispatches
    <3>3. \A e \in M : e.type \in ChangeTypes => e.cause = None \/ Has(M, e.cause)
      BY <1>4, <2>2, <2>3 DEF Dispatches, ChangeTypes, Has
    <3> QED BY <2>2, <2>3, <2>4, <3>1, <3>2, <3>3 DEF Dispatches
  <2>7. \A f : FindingTold(L, f) => FindingTold(M, f)
    <3>1. \A e \in M \ L : e.type \in ReadTypes => ~ Has(L, e.cause)  BY <1>5, <1>7, <2>1, <2>2
    <3> QED BY <2>2, <2>3, <2>6, <3>1, FindingsStayTold
  <2>8. \A d \in OfType(M, "tool.completed") : d.body.request # run'.request
    <3> TAKE d \in OfType(M, "tool.completed")
    <3>1. \E q \in L : q.id = d.body.request  BY <2>3, <2>4 DEF Dispatches, OfType
    <3> QED BY <1>7, <1>10, <2>1, <3>1 DEF Has
  <2>9. \A d \in OfType(M, "decision.created") : IsA(M, d.body.finding, {"finding.created"})
    BY <2>1, <2>2, <2>4 DEF OnceInv, IsA
  <2>10. \A f \in OfType(M, "finding.created") : FindingTold(M, f)  BY <2>1, <2>4, <2>7 DEF OnceInv
  <2>11. \A k \in DOMAIN detector : FindingTold(M, detector[k][1])  BY <2>1, <2>7 DEF OnceInv
  <2> QED BY <2>1, <2>6, <2>8, <2>9, <2>10, <2>11 DEF OnceInv
<1> QED BY <1>8, <1>9, <1>10

(* Complete appends the one completion of the request.                     *)
LEMMA CompleteOnce ==
  ASSUME IInv, IInv', ValidInv', OnceInv, UNCHANGED detector, NEW c \in Calls, Complete(c)
  PROVE  OnceInv'
<1>0. Running(c, "completing")  BY DEF Complete
<1>1. /\ run # Idle /\ run.call = c /\ pc[c] = "completing" /\ DOMAIN run = RunFields
      /\ RunBegun(run) /\ RunEffects(run) /\ Shapes
  BY <1>0, RunFacts DEF Stages, IInv
<1>2. PICK r : r = [run EXCEPT !.gap = @ \/ MetadataGap(run)]  OBVIOUS
<1>3. PICK d : d = ToolCompleted(r)  OBVIOUS
<1>4. \/ log' = log \cup {d} /\ run' = [r EXCEPT !.done = Fresh(1)] /\ pc' = [pc EXCEPT ![c] = "claiming"]
      \/ UNCHANGED log /\ run' = Idle
  BY <1>2, <1>3 DEF Complete, Step, Leave
<1>5. r.call = c /\ r.who = run.who /\ r.request = run.request /\ r.effects = run.effects /\ DOMAIN r = RunFields
  BY <1>1, <1>2 DEF RunFields
<1>6. /\ d.type = "tool.completed" /\ d.corr = <<"call", c>> /\ d.cause = run.request
      /\ d.body.request = run.request /\ d.body.effects = run.effects
  BY <1>3, <1>5 DEF ToolCompleted, Event
<1>7. PICK q : q = ToolRequested(run)  OBVIOUS
<1>8. q \in log /\ q.id = run.request /\ q.type = "tool.requested" /\ q.corr = <<"call", c>>
  BY <1>1, <1>7, RequestThere DEF InContext
<1>9. CASE UNCHANGED log /\ run' = Idle
  BY <1>9, AsideSame, PendingGone, OnceAside
<1>10. CASE log' = log \cup {d} /\ run' = [r EXCEPT !.done = Fresh(1)] /\ pc' = [pc EXCEPT ![c] = "claiming"]
  <2>1. PICK L, M : L = log /\ M = log'  OBVIOUS
  <2>2. L \subseteq M /\ IdsUnique(M) /\ M = L \cup {d}  BY <1>10, <2>1 DEF IInv, LogInv, Identified
  <2>3. Dispatches(L) /\ \A b \in OfType(L, "tool.completed") : b.body.request # run.request
    BY <1>1, <2>1 DEF OnceInv, Pending, Late
  <2>4. /\ OfType(M, "tool.requested") = OfType(L, "tool.requested")
        /\ OfType(M, "tool.completed") = OfType(L, "tool.completed") \cup {d}
        /\ OfType(M, "finding.created") = OfType(L, "finding.created")
        /\ OfType(M, "decision.created") = OfType(L, "decision.created")
    BY <1>6, <2>2 DEF OfType
  <2>5. \A i \in d.body.effects : \E e \in M : e.id = i /\ e.corr = d.corr
    <3> TAKE i \in d.body.effects
    <3>1. Effect(run, i)  BY <1>1, <1>6 DEF RunEffects
    <3>2. PICK e \in log : e.id = i /\ (e \in run.own \/ InContext(run, e))  BY <3>1 DEF Effect
    <3>3. InContext(run, e)  BY <1>1, <3>2 DEF RunEffects, OwnChange
    <3> QED BY <1>1, <1>6, <2>1, <2>2, <3>2, <3>3 DEF InContext
  <2>6. Dispatches(M)
    <3>1. ~ Has(L, d.id)
      <4>1. d.id = Fresh(1)  BY <1>3 DEF ToolCompleted, Event
      <4> QED BY <2>1, <4>1, FreshNow DEF IInv, LogInv
    <3>2. ASSUME NEW e \in M, e.type \in ChangeTypes
          PROVE  ~ IsA(M, e.cause, {"tool.completed"}) /\ (e.cause = None \/ Has(M, e.cause))
      <4>1. e \in L  BY <1>6, <2>2, <3>2 DEF ChangeTypes
      <4>2. ~ IsA(L, e.cause, {"tool.completed"})  BY <2>3, <3>2, <4>1 DEF Dispatches
      <4>3. e.cause = None \/ Has(L, e.cause)  BY <2>3, <3>2, <4>1 DEF Dispatches
      <4>4. d.id # None  BY <2>1, <2>2 DEF ValidInv, Named
      <4>5. e.cause # d.id  BY <3>1, <4>3, <4>4
      <4> QED BY <2>2, <4>2, <4>3, <4>5 DEF IsA, Has
    <3>3. \A a, b \in OfType(M, "tool.completed") : a.body.request = b.body.request => a = b
      BY <1>6, <2>3, <2>4 DEF Dispatches
    <3>4. \A b \in OfType(M, "tool.completed") :
            \E s \in OfType(M, "tool.requested") : s.id = b.body.request /\ s.corr = b.corr
      <4>1. q \in OfType(M, "tool.requested")  BY <1>8, <2>1, <2>2 DEF OfType
      <4> QED BY <1>6, <1>8, <2>3, <2>4, <4>1 DEF Dispatches
    <3>5. ASSUME NEW b \in OfType(M, "tool.completed"), NEW i \in b.body.effects
          PROVE  \E e \in M : e.id = i /\ e.corr = b.corr
      <4>1. CASE b = d  BY <2>5, <4>1
      <4>2. CASE b \in OfType(L, "tool.completed")
        <5>1. \E e \in L : e.id = i /\ e.corr = b.corr  BY <2>3, <4>2 DEF Dispatches
        <5> QED BY <2>2, <5>1
      <4> QED BY <2>4, <4>1, <4>2
    <3> QED BY <2>3, <2>4, <3>2, <3>3, <3>4, <3>5 DEF Dispatches
  <2>7. \A f : FindingTold(L, f) => FindingTold(M, f)
    <3>1. \A e \in M \ L : e.type \in ReadTypes => ~ Has(L, e.cause)  BY <1>6, <2>2 DEF ReadTypes
    <3> QED BY <2>2, <2>3, <2>6, <3>1, FindingsStayTold
  <2>8. ~ Pending(run', pc')
    <3>1. run'.call = c  BY <1>5, <1>10 DEF RunFields
    <3>2. pc'[c] = "claiming"  BY <1>1, <1>10, StepTo DEF Stages
    <3> QED BY <3>1, <3>2 DEF Pending, Late
  <2>9. \A x \in OfType(M, "decision.created") : IsA(M, x.body.finding, {"finding.created"})
    BY <2>1, <2>2, <2>4 DEF OnceInv, IsA
  <2>10. \A f \in OfType(M, "finding.created") : FindingTold(M, f)  BY <2>1, <2>4, <2>7 DEF OnceInv
  <2>11. \A k \in DOMAIN detector : FindingTold(M, detector[k][1])  BY <2>1, <2>7 DEF OnceInv
  <2> QED BY <1>10, <2>1, <2>6, <2>8, <2>9, <2>10, <2>11 DEF OnceInv
<1> QED BY <1>4, <1>9, <1>10

(* Detect lists what it found with what is cited.                          *)
LEMMA RecordTold ==
  ASSUME LogInv, NEW f, Supported(f), f.evidence # {}, Told(log, f)
  PROVE  FindingTold(log, Records(log, f)[1])
<1>1. PICK parent : parent = At(log, CHOOSE i \in f.evidence : TRUE)  OBVIOUS
<1>2. DOMAIN parent = EventFields
  <2>1. PICK i : i = CHOOSE j \in f.evidence : TRUE  OBVIOUS
  <2>2. Has(log, i)  BY <2>1 DEF Supported
  <2>3. parent \in log  BY <1>1, <2>1, <2>2, AtHas
  <2> QED BY <2>3 DEF LogInv, EventInv
<1>3. PICK id : id = FindingIdFor(log, f)  OBVIOUS
<1>4. PICK fact : fact = [parent EXCEPT !.id = id, !.type = "finding.created", !.src = Core,
                 !.seq = None, !.agent = None, !.task = f.task, !.cause = parent.id,
                 !.body = [finding |-> id, says |-> f]]
  OBVIOUS
<1>5. fact.id = id /\ fact.body.says = f  BY <1>2, <1>4 DEF EventFields
<1>6. Records(log, f)[1] = fact  BY <1>1, <1>3, <1>4 DEF Records
<1>7. id = <<f.type, f.evidence, f.covs>>  BY <1>3 DEF FindingIdFor
<1> QED BY <1>5, <1>6, <1>7 DEF FindingTold

LEMMA DetectOnce ==
  ASSUME IInv, ValidInv, OnceInv, Detect
  PROVE  OnceInv'
<1>1. /\ ValidSet(log) /\ UNCHANGED <<log, run, pc>>
      /\ detector' = SetToSeq({Records(log, f) : f \in Findings(log)})
  BY DEF Detect, gatewayVars
<1>2. PICK R : R = {Records(log, f) : f \in Findings(log)}  OBVIOUS
<1>3. IsFiniteSet(R)
  <2> DEFINE F == Findings(log)
             g == [f \in F |-> Records(log, f)]
  <2>1. IsFiniteSet(F)  BY FindingsFinite DEF IInv, LogInv, Identified
  <2>2. R = {g[f] : f \in F}  BY <1>2
  <2> HIDE DEF F
  <2>3. IsFiniteSet({g[f] : f \in F})  BY <2>1, ImageFinite
  <2> QED BY <2>2, <2>3
<1>4. ASSUME NEW p \in R PROVE FindingTold(log, p[1])
  <2>1. PICK f \in Findings(log) : p = Records(log, f)  BY <1>2
  <2>2. Supported(f) /\ f.evidence # {}
    BY SameSymbolSupported, ContractSupported, StaleSupported DEF Findings, IInv
  <2>3. LogInv /\ Dispatches(log) /\ \A e \in log : e.id # None  BY DEF IInv, OnceInv, ValidInv, Named
  <2>4. PICK S : S = Sufficient(log)  OBVIOUS
  <2>5. \/ f \in SameSymbolFindings(log, S) \/ f \in StaleReadFindings(log, S)
        \/ f \in ContractFindings(log, S)
    BY <2>4 DEF Findings
  <2>6. Told(log, f)  BY <1>1, <2>3, <2>4, <2>5, OverlapTold, StaleTold, BrokenTold
  <2> QED BY <2>1, <2>2, <2>3, <2>6, RecordTold
<1>5. PICK n \in Nat : detector' \in [1..n -> R]  BY <1>1, <1>2, <1>3, ListedOnce
<1>6. \A k \in DOMAIN detector' : FindingTold(log, detector'[k][1])  BY <1>4, <1>5
<1>7. PICK L : L = log /\ L = log'  BY <1>1
<1>8. /\ Dispatches(L)
      /\ Pending(run', pc') => \A d \in OfType(L, "tool.completed") : d.body.request # run'.request
      /\ \A f \in OfType(L, "finding.created") : FindingTold(L, f)
      /\ \A d \in OfType(L, "decision.created") : IsA(L, d.body.finding, {"finding.created"})
      /\ \A k \in DOMAIN detector' : FindingTold(L, detector'[k][1])
  BY <1>1, <1>6, <1>7 DEF OnceInv
<1> QED BY <1>7, <1>8 DEF OnceInv

(* AppendRecords appends a finding and the decision about it.              *)
LEMMA AppendRecordsOnce ==
  ASSUME IInv, IInv', OnceInv, AppendRecords
  PROVE  OnceInv'
<1>1. PICK p : p = Head(detector)  OBVIOUS
<1>2. /\ detector # NoRun /\ UNCHANGED <<pc, run>>
      /\ \/ /\ ValidSet(log \cup ToSet(p)) /\ detector' = Tail(detector)
            /\ log' = log \cup {e \in ToSet(p) : ~Has(log, e.id)}
         \/ detector' = NoRun /\ UNCHANGED log
  BY <1>1 DEF AppendRecords
<1>3. PICK L, M : L = log /\ M = log'  OBVIOUS
<1>4. /\ Dispatches(L) /\ IdsUnique(L) /\ IdsUnique(M) /\ L \subseteq M
      /\ Pending(run', pc') => \A d \in OfType(L, "tool.completed") : d.body.request # run'.request
      /\ \A f \in OfType(L, "finding.created") : FindingTold(L, f)
      /\ \A d \in OfType(L, "decision.created") : IsA(L, d.body.finding, {"finding.created"})
      /\ \A k \in DOMAIN detector : FindingTold(L, detector[k][1])
  BY <1>2, <1>3 DEF OnceInv, IInv, LogInv, Identified
<1>5. CASE detector' = NoRun /\ UNCHANGED log
  <2>1. DOMAIN detector' = {}  BY <1>5 DEF NoRun
  <2>2. L = M  BY <1>3, <1>5
  <2> QED BY <1>3, <1>4, <2>1, <2>2 DEF OnceInv
<1>6. CASE /\ ValidSet(log \cup ToSet(p)) /\ detector' = Tail(detector)
           /\ log' = log \cup {e \in ToSet(p) : ~Has(log, e.id)}
  <2>0. PICK s, t : s = detector /\ t = Tail(detector)  OBVIOUS
  <2>1. s \in Seq(Range(s)) /\ \A k \in DOMAIN s : PairHolds(s[k])  BY <2>0 DEF IInv, DetectorInv
  <2>2. Len(s) \in Nat /\ Len(s) # 0 /\ DOMAIN s = 1..Len(s) /\ s # <<>>
    BY <1>2, <2>0, <2>1, LenProperties, EmptySeq DEF NoRun
  <2>3. t \in Seq(Range(s)) /\ Len(t) = Len(s) - 1 /\ \A k \in 1..Len(t) : t[k] = s[k + 1]
    BY <2>0, <2>1, <2>2, HeadTailProperties
  <2>4. DOMAIN t = 1..Len(t)  BY <2>3, LenProperties
  <2>5. p = s[1] /\ 1 \in DOMAIN s  BY <1>1, <2>0, <2>2
  <2>6. \A k \in DOMAIN t : k + 1 \in DOMAIN s /\ t[k] = s[k + 1]  BY <2>2, <2>3, <2>4
  <2>7. PICK f, d : f = p[1] /\ d = p[2]  OBVIOUS
  <2>8. /\ ToSet(p) = {f, d} /\ f.type = "finding.created"
        /\ d.type = "decision.created" /\ d.body.finding = f.id
    BY <2>1, <2>5, <2>7 DEF PairHolds, Decides
  <2>9. M \subseteq L \cup {f, d} /\ \E e \in M : e.id = f.id /\ e.type = "finding.created"
    <3>1. M = L \cup {e \in {f, d} : ~ Has(L, e.id)}  BY <1>3, <1>6, <2>8
    <3>2. IsFiniteSet(L \cup {f, d})
      <4>1. IsFiniteSet(L)  BY <1>3 DEF IInv, LogInv, Identified
      <4>2. IsFiniteSet({f} \cup {d})  BY FS_Singleton, FS_Union
      <4>3. {f} \cup {d} = {f, d}  OBVIOUS
      <4> QED BY <4>1, <4>2, <4>3, FS_Union
    <3>3. IdsUnique(L \cup {f, d})  BY <1>3, <1>6, <2>8, <3>2, ValidRules
    <3>4. f \in M  BY <3>1, <3>3 DEF Has, IdsUnique
    <3> QED BY <2>8, <3>1, <3>4
  <2>10. /\ OfType(M, "tool.requested") = OfType(L, "tool.requested")
         /\ OfType(M, "tool.completed") = OfType(L, "tool.completed")
         /\ \A e \in OfType(M, "finding.created") : e \in OfType(L, "finding.created") \/ e = f
         /\ \A e \in OfType(M, "decision.created") : e \in OfType(L, "decision.created") \/ e = d
         /\ \A e \in M : e.type \in ChangeTypes \cup ReadTypes => e \in L
    BY <1>4, <2>8, <2>9 DEF OfType, ChangeTypes, ReadTypes
  <2>11. Dispatches(M)
    <3>1. \A e \in M : e.type \in ChangeTypes => ~ IsA(M, e.cause, {"tool.completed"})
      <4> SUFFICES ASSUME NEW e \in M, e.type \in ChangeTypes, IsA(M, e.cause, {"tool.completed"}) PROVE FALSE
        OBVIOUS
      <4>1. e \in L  BY <2>10
      <4>2. \E b \in OfType(L, "tool.completed") : b.id = e.cause  BY <2>10 DEF IsA, OfType
      <4>3. IsA(L, e.cause, {"tool.completed"})  BY <4>2 DEF IsA, OfType
      <4> QED BY <1>4, <4>1, <4>3 DEF Dispatches
    <3>2. \A e \in M : e.type \in ChangeTypes => e.cause = None \/ Has(M, e.cause)
      BY <1>4, <2>10 DEF Dispatches, Has
    <3> QED BY <1>4, <2>10, <3>1, <3>2 DEF Dispatches
  <2>12. \A x : FindingTold(L, x) => FindingTold(M, x)
    BY <1>4, <2>10, <2>11, FindingsStayTold
  <2>13. FindingTold(L, f)  BY <1>4, <2>0, <2>5, <2>7
  <2>14. \A e \in OfType(M, "finding.created") : FindingTold(M, e)
    BY <1>4, <2>10, <2>12, <2>13
  <2>15. \A e \in OfType(M, "decision.created") : IsA(M, e.body.finding, {"finding.created"})
    <3>1. IsA(M, f.id, {"finding.created"})  BY <2>9 DEF IsA
    <3>2. \A i : IsA(L, i, {"finding.created"}) => IsA(M, i, {"finding.created"})  BY <1>4 DEF IsA
    <3> QED BY <1>4, <2>8, <2>10, <3>1, <3>2
  <2>16. \A k \in DOMAIN t : FindingTold(M, t[k][1])  BY <1>4, <2>0, <2>6, <2>12
  <2>17. Pending(run', pc') => \A b \in OfType(M, "tool.completed") : b.body.request # run'.request
    BY <1>4, <2>10
  <2> QED BY <1>3, <1>6, <2>0, <2>11, <2>14, <2>15, <2>16, <2>17 DEF OnceInv
<1> QED BY <1>2, <1>5, <1>6

LEMMA SameOnce ==
  ASSUME OnceInv, UNCHANGED <<log, run, pc, detector>>
  PROVE  OnceInv'
  BY DEF OnceInv, Pending

LEMMA GatewayOnce ==
  ASSUME IInv, IInv', ValidInv', OnceInv, GatewayNext, UNCHANGED detector
  PROVE  OnceInv'
<1>1. ASSUME NEW l \in Lifecycles, BeginTask(l) \/ EndTask(l) PROVE OnceInv'
  <2>1. UNCHANGED <<log, run, pc>>  BY <1>1 DEF BeginTask, EndTask
  <2> QED BY <2>1, SameOnce
<1>2. ASSUME NEW c \in Calls, Dispatch(c) \/ Refuse(c) \/ BeginWindow(c) \/ Execute(c) \/ EndWindow(c)
      PROVE  OnceInv'
  BY <1>2, QuietOnce
<1>3. ASSUME NEW c \in Calls, \/ Start(c) \/ AppendChange(c) \/ Analyse(c) \/ Resolve(c)
                              \/ Complete(c) \/ Claim(c) \/ Prove(c)
      PROVE  OnceInv'
  BY <1>3, StartOnce, AppendChangeOnce, AnalyseOnce, ResolveOnce, CompleteOnce, ClaimOnce, ProveOnce
<1>4. ASSUME NEW w \in Worktrees, NEW x \in Foreign, OutsideEdit(w, x[1], x[2]) PROVE OnceInv'
  <2>1. UNCHANGED <<log, run, pc>>  BY <1>4 DEF OutsideEdit
  <2> QED BY <2>1, SameOnce
<1> QED BY <1>1, <1>2, <1>3, <1>4 DEF GatewayNext

LEMMA StepOnce ==
  IInv /\ IInv' /\ ValidInv /\ ValidInv' /\ OnceInv /\ [Next]_vars => OnceInv'
<1> SUFFICES ASSUME IInv, IInv', ValidInv, ValidInv', OnceInv, [Next]_vars PROVE OnceInv'  OBVIOUS
<1>1. CASE GatewayNext /\ UNCHANGED detector  BY <1>1, GatewayOnce
<1>2. CASE Detect  BY <1>2, DetectOnce
<1>3. CASE AppendRecords  BY <1>3, AppendRecordsOnce
<1>4. CASE Respond  BY <1>4, RespondOnce
<1>5. CASE UNCHANGED vars
  <2>1. UNCHANGED <<log, run, pc, detector>>  BY <1>5 DEF vars, gatewayVars
  <2> QED BY <2>1, SameOnce
<1> QED BY <1>1, <1>2, <1>3, <1>4, <1>5 DEF Next

LEMMA OnceNow == IInv /\ OnceInv => ReportedOnce
<1> SUFFICES ASSUME IInv, OnceInv PROVE ReportedOnce  OBVIOUS
<1>1. PICK findings : findings = OfType(log, "finding.created")  OBVIOUS
<1>2. ASSUME NEW f \in findings
      PROVE  \E d \in OfType(log, "decision.created") : d.body.finding = f.id
  <2>1. f \in log /\ f.type = "finding.created"  BY <1>1 DEF OfType
  <2>2. \E d \in log : Decides(f, d)  BY <2>1 DEF IInv, LogInv, EventInv, FindingHolds
  <2> QED BY <2>2 DEF Decides, OfType
<1>3. \A d \in OfType(log, "decision.created") : \E f \in findings : f.id = d.body.finding
  BY <1>1 DEF OnceInv, IsA, OfType
<1>4. ASSUME NEW f \in findings, NEW g \in findings,
             <<f.body.says.type, f.body.says.evidence>> = <<g.body.says.type, g.body.says.evidence>>
      PROVE  f = g
  <2>1. FindingTold(log, f) /\ FindingTold(log, g)  BY <1>1 DEF OnceInv
  <2>2. PICK s, t : s = f.body.says /\ t = g.body.says  OBVIOUS
  <2>3. Told(log, s) /\ Told(log, t) /\ s.type = t.type /\ s.evidence = t.evidence
    BY <1>4, <2>1, <2>2 DEF FindingTold
  <2>4. IdsUnique(log) /\ Dispatches(log)  BY DEF IInv, LogInv, Identified, OnceInv
  <2>5. s.covs = t.covs  BY <2>3, <2>4, ToldOnce
  <2>6. f.id = g.id  BY <2>1, <2>2, <2>3, <2>5 DEF FindingTold
  <2> QED BY <1>1, <2>4, <2>6 DEF IdsUnique, OfType
<1> QED BY <1>1, <1>2, <1>3, <1>4 DEF ReportedOnce

(* However often detection runs and wherever it stops, between any two     *)
(* appends of the gateway: no finding is without its decision, no decision *)
(* without its finding, and evidence is reported once. What a finding      *)
(* cites belongs to calls whose coverage, once sufficient, stays as it is, *)
(* so a later run gives what it finds again the id it had.                 *)
THEOREM ReportedProven ==
  ASSUME NullIsNoId
  PROVE  DetectionSpec => []ReportedOnce
<1>1. DetectionInit => ValidInv /\ OnceInv
  <2> SUFFICES ASSUME DetectionInit PROVE ValidInv /\ OnceInv  OBVIOUS
  <2>1. log = {} /\ run = Idle /\ detector = <<>>  BY DEF DetectionInit, Init, NoRun
  <2>2. ~ Pending(run, pc) /\ DOMAIN detector = {}  BY <2>1 DEF Pending
  <2>3. Dispatches(log)  BY <2>1 DEF Dispatches, OfType
  <2> QED BY <2>1, <2>2, <2>3, ValidEmpty DEF ValidInv, Named, OnceInv, OfType
<1>2. IInv /\ IInv' /\ ValidInv /\ [Next]_vars => ValidInv'  BY StepValid
<1>3. IInv /\ OnceInv => ReportedOnce  BY OnceNow
<1> QED BY <1>1, <1>2, <1>3, StepOnce, Inductive, PTL DEF DetectionSpec
-------------------------------------------------------------------------------
(* Overlaps are reported.                                                  *)

(* Climbing from an event of a covered call ends at its coverage.          *)
LEMMA CoveringThere ==
  ASSUME NEW L, IsFiniteSet(L), ValidSet(L), Dispatches(L), \A e \in L : e.id # None,
         \A e \in OfType(L, "tool.requested") : e.cause = None,
         NEW i, NEW c, Covers(L, i, c), c # None
  PROVE  Covering(L, Sufficient(L), i) # None
<1>1. PICK S : S = Sufficient(L)  OBVIOUS
<1>2. \A b \in S : b.shown = "sufficient" /\ \E r \in OfType(L, "tool.requested") : b = Coverage(L, r)
  BY <1>1 DEF Sufficient
<1>3. IdsUnique(L) /\ RootsUnique(L) /\ Acyclic(L) /\ \A e \in L : CausedProperly(L, e)
  BY ValidRules DEF EventValid
<1>4. \A j : \A b \in Of(S, j) : b \in S /\ Covers(L, j, b)
  <2> TAKE j
  <2> TAKE b \in Of(S, j)
  <2>1. b \in S /\ j \in b.ev  BY DEF Of
  <2>2. PICK r \in OfType(L, "tool.requested") : b = Coverage(L, r)  BY <1>2, <2>1
  <2>3. Has(L, j) /\ At(L, j).corr = r.corr  BY <1>3, <2>1, <2>2, CoverageCorrelated
  <2> QED BY <1>2, <2>1, <2>2, <2>3 DEF Covers
<1>5. PICK q \in OfType(L, "tool.requested") :
        q.corr = At(L, i).corr /\ c = Coverage(L, q) /\ c.shown = "sufficient"
  BY DEF Covers
<1>6. q \in L /\ q.cause = None /\ c \in S /\ q.id \in c.ev
  BY <1>1, <1>5 DEF Sufficient, OfType, Coverage
<1>7. \A e \in L : e.corr = q.corr => Covers(L, e.id, c)
  BY <1>3, <1>5, AtId DEF Covers
<1>8. \A e \in L : e.corr = q.corr => Of(S, e.id) \subseteq {c}
  BY <1>4, <1>7, CoversOne
<1>9. \A j \in Ids(L) : Climb(L, S)[j] =
           IF j = None \/ Cardinality(Of(S, j)) = 1 THEN Of(S, j) ELSE Climb(L, S)[At(L, j).cause]
  BY ClimbDefined
<1>10. \A e \in L : Climb(L, S)[e.id] =
          IF Cardinality(Of(S, e.id)) = 1 THEN Of(S, e.id) ELSE Climb(L, S)[e.cause]
  <2> TAKE e \in L
  <2>1. e.id \in Ids(L) /\ At(L, e.id) = e /\ e.id # None  BY <1>3, AtId DEF Ids
  <2> QED BY <1>9, <2>1
<1> DEFINE R == {e \in L : e.corr = q.corr => Climb(L, S)[e.id] # {}}
<1>11. q \in R
  <2>1. Of(S, q.id) = {c}  BY <1>6, <1>8 DEF Of
  <2>2. Cardinality(Of(S, q.id)) = 1  BY <2>1, FS_Singleton
  <2> QED BY <1>6, <1>10, <2>1, <2>2
<1>12. Roots(L) \subseteq R
  <2> SUFFICES ASSUME NEW e \in Roots(L), e.corr = q.corr PROVE e \in R  BY DEF Roots
  <2>1. e \in L /\ e.cause = None  BY <1>3 DEF Roots, CausedProperly
  <2>2. e = q  BY <1>3, <1>6, <2>1 DEF RootsUnique
  <2> QED BY <1>11, <2>2
<1>13. Closed(L, R)
  <2> SUFFICES ASSUME NEW e \in L, NEW d \in R, e.cause = d.id, e.corr = q.corr PROVE e \in R  BY DEF Closed
  <2>1. d.corr = e.corr
    <3>1. e.cause # None  OBVIOUS
    <3>2. PICK p \in L : p.id = e.cause /\ p.corr = e.corr  BY <1>3, <3>1 DEF CausedProperly
    <3> QED BY <1>3, <3>2 DEF IdsUnique
  <2>2. Climb(L, S)[d.id] # {}  BY <2>1
  <2>3. CASE Cardinality(Of(S, e.id)) = 1
    <3>1. Of(S, e.id) # {}  BY <2>3, FS_EmptySet
    <3> QED BY <1>10, <2>3, <3>1
  <2>4. CASE Cardinality(Of(S, e.id)) # 1  BY <1>10, <2>2, <2>4
  <2> QED BY <2>3, <2>4
<1>14. R = L  BY <1>3, <1>12, <1>13, AcyclicClosed
<1>15. PICK e \in L : e.id = i /\ e.corr = q.corr  BY <1>3, <1>5, AtHas DEF Covers
<1>16. Climb(L, S)[i] # {}  BY <1>14, <1>15
<1>17. \A b \in Climb(L, S)[i] : b = c
  <2>1. Has(L, i)  BY DEF Covers
  <2>2. \A b \in Climb(L, S)[i] : Covers(L, i, b)  BY <1>1, <2>1, ClimbCovers
  <2> QED BY <2>2, CoversOne
<1>18. Covering(L, S, i) = IF S = {} \/ Climb(L, S)[i] = {} THEN None ELSE CHOOSE b \in Climb(L, S)[i] : TRUE
  BY CoveringClimbs
<1>19. Covering(L, S, i) \in Climb(L, S)[i]  BY <1>6, <1>16, <1>18
<1>20. Covering(L, S, i) = c  BY <1>17, <1>19
<1> QED BY <1>1, <1>20

(* What the append of a step is.                                           *)
Adds(L, M) ==
  /\ L \subseteq M
  /\ \A e \in M \ L :
       /\ e.id[1] = "proof" => /\ e.type = "task.concurrency.observed"
                               /\ Range(e.body.change) = e.id[2]
       /\ e.type \in ReadTypes => ~ Has(L, e.cause)
       /\ e.type = "tool.requested" => e.cause = None
       /\ (e.type = "evidence.derived" /\ e.body.fact = "symbol") => ~ Has(L, e.body.of)
       /\ e.type = "dependency.changed" =>
            /\ e.body.dep[1] = e.cause /\ Has(L, e.cause)
            /\ \A d \in OfType(L, "dependency.changed") : d.cause # e.cause

Ledger(L) ==
  /\ IsFiniteSet(L) /\ IdsUnique(L) /\ Dispatches(L)
  /\ \A e \in L : e.id # None
  /\ \A e \in L : /\ e.id[1] = "proof" => /\ e.type = "task.concurrency.observed"
                                          /\ Range(e.body.change) = e.id[2]
                  /\ e.type = "tool.requested" => e.cause = None
                  /\ e.type = "dependency.changed" => e.body.dep[1] = e.cause /\ Has(L, e.cause)

(* An event of a call that was completed.                                  *)
Completed(L, i) == \E e, d \in L : e.id = i /\ d.type = "tool.completed" /\ d.corr = e.corr

(* A call's coverage, once it is completed, stays as it is.                *)
LEMMA CoveringBack ==
  ASSUME NEW L, NEW M, Adds(L, M), Ledger(L), Ledger(M), ValidSet(M) => ValidSet(L),
         NEW i, Completed(L, i), Covering(M, Sufficient(M), i) # None
  PROVE  Covering(L, Sufficient(L), i) # None
<1>1. L \subseteq M /\ \A e \in M \ L : e.type \in ReadTypes => ~ Has(L, e.cause)  BY DEF Adds
<1>2. PICK e \in L, d \in L : e.id = i /\ d.type = "tool.completed" /\ d.corr = e.corr  BY DEF Completed
<1>3. /\ Has(L, i) /\ At(L, i) = e /\ Has(M, i) /\ At(M, i) = e
  BY <1>1, <1>2, AtId DEF Ledger
<1>4. ValidSet(M)
  <2>1. Sufficient(M) # {}  BY CoveringClimbs
  <2> QED BY <2>1 DEF Sufficient
<1>5. PICK c : c = Covering(M, Sufficient(M), i)  OBVIOUS
<1>6. Covers(M, i, c) /\ c # None  BY <1>3, <1>4, <1>5, CoveringIs DEF Ledger
<1>7. PICK r \in OfType(M, "tool.requested") : r.corr = e.corr /\ c = Coverage(M, r)
  BY <1>3, <1>6 DEF Covers
<1>8. PICK q \in OfType(L, "tool.requested") : q.id = d.body.request /\ q.corr = d.corr
  BY <1>2 DEF Ledger, Dispatches, OfType
<1>9. q = r
  <2>1. q \in OfType(M, "tool.requested")  BY <1>1 DEF OfType
  <2> QED BY <1>2, <1>7, <1>8, <2>1 DEF Ledger, Dispatches
<1>10. CompletionsOf(L, r) # {}  BY <1>2, <1>8, <1>9 DEF CompletionsOf, OfType
<1>11. Coverage(L, r) = c  BY <1>1, <1>7, <1>9, <1>10, CoverageStays DEF Ledger
<1>12. Covers(L, i, c)  BY <1>3, <1>6, <1>7, <1>9, <1>11 DEF Covers
<1>13. \A x \in OfType(L, "tool.requested") : x.cause = None  BY DEF Ledger, OfType
<1> QED BY <1>4, <1>6, <1>12, <1>13, CoveringThere DEF Ledger

(* Two covered changes of one symbol, and the proof of them.               *)
ProvenIn(L, e) == Cardinality({d \in OfType(L, "evidence.derived") :
  d.body.target = Target /\ d.body.fact = "symbol" /\ d.body.of = e.id}) = 1

Clash(L, i, j) ==
  /\ At(L, i).body.res = At(L, j).body.res
  /\ \A k \in {i, j} : ProvenIn(L, At(L, k)) /\ Covering(L, Sufficient(L), k) # None

Shown(L, i, j) == \E p \in OfType(L, "task.concurrency.observed") : Range(p.body.change) = {i, j}

LEMMA ClashBack ==
  ASSUME NEW L, NEW M, Adds(L, M), Ledger(L), Ledger(M), ValidSet(M) => ValidSet(L),
         NEW i, Completed(L, i), NEW j, Completed(L, j), Clash(M, i, j)
  PROVE  Clash(L, i, j)
<1>1. ASSUME NEW k \in {i, j}
      PROVE  /\ Completed(L, k) /\ At(M, k) = At(L, k) /\ ProvenIn(L, At(L, k))
             /\ Covering(L, Sufficient(L), k) # None
  <2>1. Completed(L, k)  OBVIOUS
  <2>2. PICK e \in L : e.id = k  BY <2>1 DEF Completed
  <2>3. e \in M  BY DEF Adds
  <2>4. At(M, k) = e /\ At(L, k) = e /\ Has(L, e.id)  BY <2>2, <2>3, AtId DEF Ledger
  <2>5. {d \in OfType(M, "evidence.derived") :
            d.body.target = Target /\ d.body.fact = "symbol" /\ d.body.of = e.id}
          = {d \in OfType(L, "evidence.derived") :
               d.body.target = Target /\ d.body.fact = "symbol" /\ d.body.of = e.id}
    BY <2>4 DEF Adds, OfType
  <2>6. ProvenIn(L, e)  BY <2>4, <2>5 DEF Clash, ProvenIn
  <2>7. Covering(L, Sufficient(L), k) # None  BY <2>1, CoveringBack DEF Clash
  <2> QED BY <2>1, <2>4, <2>6, <2>7
<1>2. At(L, i).body.res = At(L, j).body.res  BY <1>1 DEF Clash
<1> QED BY <1>1, <1>2 DEF Clash

LEMMA ShownStays ==
  ASSUME NEW L, NEW M, L \subseteq M, NEW i, NEW j, Shown(L, i, j)
  PROVE  Shown(M, i, j)
  BY DEF Shown, OfType

LEMMA CompletedStays ==
  ASSUME NEW L, NEW M, L \subseteq M, NEW i, Completed(L, i)
  PROVE  Completed(M, i)
  BY DEF Completed

(* The ledger of a step's append.                                          *)
LEMMA LedgerGrows ==
  ASSUME NEW L, NEW M, Adds(L, M), Ledger(L), IsFiniteSet(M), IdsUnique(M), Dispatches(M),
         \A e \in M : e.id # None
  PROVE  Ledger(M)
  BY DEF Adds, Ledger, Has

(* While the changes of a call are gathered, nothing depends on them yet.  *)
Unresolved ==
  /\ Pending(run, pc) /\ pc[run.call] \in {"changes", "analysing"} =>
       \A d \in OfType(log, "dependency.changed") : \A e \in run.analysed : d.cause # e.id
  /\ Pending(run, pc) /\ pc[run.call] = "analysing" =>
       \A d \in OfType(log, "dependency.changed") : d.cause # run.change.id

LEMMA FreshKind ==
  ASSUME NEW k
  PROVE  Fresh(k)[1] = "evt"
  BY DEF Fresh

(* What only some appends add.                                             *)
NoDependency(L, M) == \A e \in M \ L : e.type # "dependency.changed"
NoWrite(L, M) == \A e \in M \ L : e.type # "write.dependent"

LEMMA AddsSame == \A L : Adds(L, L) /\ NoDependency(L, L) /\ NoWrite(L, L)
  BY DEF Adds, NoDependency, NoWrite

(* Each append.                                                            *)
LEMMA StartAdds ==
  ASSUME IInv, NEW c \in Calls, Start(c)
  PROVE  Adds(log, log') /\ NoDependency(log, log') /\ NoWrite(log, log')
<1>2. PICK bound \in Call[c].bound, meta \in Metadata(c) :
       LET r == Entering(c, bound, meta)
           reading == [r EXCEPT !.read = FileRead(r)]
       IN  \/ UNCHANGED log
           \/ log' = log \cup {ToolRequested(r)}
           \/ log' = log \cup {ToolRequested(r), reading.read}
  BY Zenon DEF Start
<1> DEFINE r == Entering(c, bound, meta)
           reading == [r EXCEPT !.read = FileRead(r)]
<1>3. DOMAIN r = RunFields /\ r.request = Fresh(1)
  BY DEF Entering, RunFields
<1>tr. PICK tr : tr = ToolRequested(r)  OBVIOUS
<1>fr. PICK fr : fr = FileRead(r)  OBVIOUS
<1>4. tr.id = Fresh(1) /\ tr.type = "tool.requested" /\ tr.cause = None
  BY <1>3, <1>tr DEF ToolRequested, Event
<1>5. fr.id[1] = "read" /\ fr.type = "file.read" /\ fr.cause = Fresh(1)
  BY <1>3, <1>fr DEF FileRead, Event
<1>6. reading.read = fr
  <2> HIDE DEF r
  <2> QED BY <1>3, <1>fr DEF RunFields
<1>7. UNCHANGED log \/ log' = log \cup {tr} \/ log' = log \cup {tr, fr}
  BY <1>2, <1>6, <1>tr, Zenon
<1>8. ~ Has(log, Fresh(1))  BY FreshNow DEF IInv, LogInv
<1> HIDE DEF r, reading
<1> QED BY <1>4, <1>5, <1>7, <1>8, FreshKind DEF Adds, NoDependency, NoWrite, ReadTypes

LEMMA AppendChangeAdds ==
  ASSUME NEW c \in Calls, AppendChange(c)
  PROVE  Adds(log, log') /\ NoDependency(log, log') /\ NoWrite(log, log')
<1>1. PICK ch : ch = Head(run.todo)  OBVIOUS
<1>2. PICK e : e = FileChanged(run, Fresh(1), ch)  OBVIOUS
<1>3. log' = log \cup {e} \/ UNCHANGED log  BY <1>1, <1>2 DEF AppendChange
<1>4. e.id = Fresh(1) /\ e.type = "file.changed"
  BY <1>2 DEF FileChanged, Event
<1> QED BY <1>3, <1>4, FreshKind DEF Adds, NoDependency, NoWrite, ReadTypes

LEMMA AnalyseAdds ==
  ASSUME IInv, NEW c \in Calls, Analyse(c)
  PROVE  Adds(log, log') /\ NoDependency(log, log') /\ NoWrite(log, log')
<1>0. Running(c, "analysing")  BY DEF Analyse
<1>1. RunEffects(run) /\ run.call = c /\ pc[c] = "analysing"
  BY <1>0, RunFacts DEF Stages
<1>2. PICK e : e = run.change  OBVIOUS
<1>3. PICK s : s = SymbolChanged(run, Fresh(1), e, e.body.res[2])  OBVIOUS
<1>4. PICK d : d = DerivedEvidence(run, Fresh(2), s, e, s.body.after.val)  OBVIOUS
<1>5. UNCHANGED log \/ log' = log \cup ToSet(<<s, d>>)
  BY <1>2, <1>3, <1>4, Zenon DEF Analyse
<1>6. ToSet(<<s, d>>) = {s, d}
  BY DEF ToSet
<1>7. DOMAIN e = EventFields  BY <1>1, <1>2 DEF RunEffects, IInv, LogInv, EventInv
<1>8. DOMAIN s = EventFields /\ s.id = Fresh(1) /\ s.type = "symbol.changed"
  BY <1>3, <1>7 DEF SymbolChanged, EventFields
<1>9. d.id = Fresh(2) /\ d.type = "evidence.derived" /\ d.body.of = Fresh(1)
  BY <1>4, <1>8 DEF DerivedEvidence, EventFields
<1>10. ~ Has(log, Fresh(1))  BY FreshNow DEF IInv, LogInv
<1> QED BY <1>5, <1>6, <1>8, <1>9, <1>10, FreshKind DEF Adds, NoDependency, NoWrite, ReadTypes

(* A dependency is caused by a change the call analysed.                   *)
LEMMA DependenciesFrom ==
  ASSUME IInv, NEW c \in Calls, Running(c, "changes"), NEW x \in Dependencies(run)
  PROVE  /\ x.id[1] = "evt"
         /\ \/ /\ x.type = "dependency.changed"
               /\ \E e \in run.analysed : x.cause = e.id /\ x.body.dep[1] = e.id
            \/ x.type = "evidence.derived" /\ x.body.fact = "dependency"
<1>1. RunEffects(run)  BY RunFacts DEF Stages
<1>2. Identified(log)  BY DEF IInv, LogInv
<1> DEFINE R == Resolved(run)
           n == Cardinality(R)
           found == SetToSeq(R)
<1>3. n \in Nat /\ found \in [1..n -> R]
  <2>1. IsFiniteSet(run.analysed)
    BY <1>1, <1>2, FS_Subset DEF RunEffects, Identified
  <2>2. IsFiniteSet(run.analysed \X Files)  BY <2>1, CallAssumption, FS_Product
  <2>3. R \subseteq run.analysed \X Files  BY DEF Resolved
  <2>4. IsFiniteSet(R)  BY <2>2, <2>3, FS_Subset
  <2> HIDE DEF R
  <2> QED BY <2>4, ListedOnce
<1> DEFINE
    change(k) == DependencyChanged(Fresh(2 * k - 1), found[k][1], found[k][2],
                                   CHOOSE v \in Matching(run, found[k][2]) : TRUE)
    evidence(k) == DerivedEvidence(run, Fresh(2 * k), change(k), found[k][1], change(k).body.ver[3])
<1>4. PICK k \in 1..n : x = change(k) \/ x = evidence(k)
  <2>1. x \in UNION {{change(k), evidence(k)} : k \in 1..n}  BY DEF Dependencies
  <2> HIDE DEF change, evidence, n
  <2> QED BY <2>1
<1>5. PICK e : e = found[k][1]  OBVIOUS
<1>6. e \in run.analysed
  <2>1. found[k] \in R  BY <1>3
  <2> QED BY <1>5, <2>1 DEF Resolved
<1>7. DOMAIN e = EventFields  BY <1>1, <1>6 DEF RunEffects, IInv, LogInv, EventInv
<1>8. PICK y : y = change(k)  OBVIOUS
<1>9. PICK f, ver : y = DependencyChanged(Fresh(2 * k - 1), e, f, ver)  BY <1>5, <1>8
<1>10. /\ y.id = Fresh(2 * k - 1) /\ DOMAIN y = EventFields /\ y.type = "dependency.changed"
       /\ y.cause = e.id /\ y.body.dep = <<e.id, ver>>
  BY <1>7, <1>9 DEF DependencyChanged, EventFields
<1>11. PICK v, sig : v = evidence(k) /\ v = DerivedEvidence(run, Fresh(2 * k), y, e, sig)
  BY <1>5, <1>8
<1>12. x = y \/ x = v  BY <1>4, <1>8, <1>11
<1> HIDE DEF change, evidence, n, found, R
<1>13. v.id = Fresh(2 * k) /\ v.type = "evidence.derived" /\ v.body.fact = "dependency"
  <2>1. v = DerivedEvidence(run, Fresh(2 * k), y, e, sig)  BY <1>11
  <2>2. y.type # "symbol.changed" /\ DOMAIN y = EventFields  BY <1>10
  <2> QED BY <2>1, <2>2 DEF DerivedEvidence, EventFields
<1> QED BY <1>6, <1>10, <1>12, <1>13, FreshKind

LEMMA ResolveAdds ==
  ASSUME IInv, Unresolved, NEW c \in Calls, Resolve(c)
  PROVE  Adds(log, log') /\ NoWrite(log, log')
<1>0. Running(c, "changes")  BY DEF Resolve
<1>1. run # Idle /\ run.call = c /\ pc[c] = "changes" /\ RunEffects(run)
  BY <1>0, RunFacts DEF Stages
<1>2. PICK facts : facts = Dependencies(run)  OBVIOUS
<1>3. UNCHANGED log \/ log' = log \cup facts  BY <1>2 DEF Resolve
<1>4. \A x \in facts :
        /\ x.id[1] = "evt"
        /\ \/ /\ x.type = "dependency.changed"
              /\ \E e \in run.analysed : x.cause = e.id /\ x.body.dep[1] = e.id
           \/ x.type = "evidence.derived" /\ x.body.fact = "dependency"
  BY <1>0, <1>2, DependenciesFrom
<1>5. \A e \in run.analysed : Has(log, e.id)  BY <1>1 DEF RunEffects, Has
<1>6. \A e \in run.analysed : \A d \in OfType(log, "dependency.changed") : d.cause # e.id
  BY <1>1 DEF Unresolved, Pending, Late
<1>7. ASSUME NEW x \in facts, x.type = "dependency.changed"
      PROVE  /\ x.body.dep[1] = x.cause /\ Has(log, x.cause)
             /\ \A d \in OfType(log, "dependency.changed") : d.cause # x.cause
  <2>1. PICK e \in run.analysed : x.cause = e.id /\ x.body.dep[1] = e.id  BY <1>4, <1>7
  <2> QED BY <1>5, <1>6, <2>1
<1> QED BY <1>3, <1>4, <1>7 DEF Adds, NoWrite, ReadTypes

LEMMA CompleteAdds ==
  ASSUME NEW c \in Calls, Complete(c)
  PROVE  Adds(log, log') /\ NoDependency(log, log') /\ NoWrite(log, log')
<1>2. PICK r : r = [run EXCEPT !.gap = @ \/ MetadataGap(run)]  OBVIOUS
<1>3. PICK d : d = ToolCompleted(r)  OBVIOUS
<1>4. log' = log \cup {d} \/ UNCHANGED log  BY <1>2, <1>3 DEF Complete
<1>5. d.id = Fresh(1) /\ d.type = "tool.completed"  BY <1>3 DEF ToolCompleted, Event
<1> QED BY <1>4, <1>5, FreshKind DEF Adds, NoDependency, NoWrite, ReadTypes

LEMMA ClaimAdds ==
  ASSUME IInv, NEW c \in Calls, Claim(c)
  PROVE  Adds(log, log') /\ NoDependency(log, log')
<1>0. Running(c, "claiming")  BY DEF Claim
<1>1. PICK claims : claims = Claims(run)  OBVIOUS
<1>2. log' = log \cup claims \/ UNCHANGED log  BY <1>1 DEF Claim
<1>3. \A x \in claims : x.id = Fresh(1) /\ x.type = "write.dependent"  BY <1>0, <1>1, ClaimsAre
<1> QED BY <1>2, <1>3, FreshKind DEF Adds, NoDependency, ReadTypes

(* The changes a proof names are those its id names.                       *)
LEMMA ProofNames ==
  ASSUME NEW ls, NEW l, NEW x, NEW y, DOMAIN x = EventFields, NEW p, p = ConcurrencyProof(ls, l, x, y),
         x.id # y.id
  PROVE  /\ p.id = <<"proof", {x.id, y.id}>> /\ p.type = "task.concurrency.observed"
         /\ Range(p.body.change) = {x.id, y.id}
<1>1. PICK m : m = OwnerOf(ls, l, y)  OBVIOUS
<1>2. /\ p.id = <<"proof", {x.id, y.id}>> /\ p.type = "task.concurrency.observed"
      /\ DOMAIN p.body.change = 1..2
      /\ \E both : /\ both = <<x, y>> \/ both = <<y, x>>
                   /\ \A k \in 1..2 : p.body.change[k] = both[k].id
  BY <1>1, ProofIs
<1>3. PICK both : /\ both = <<x, y>> \/ both = <<y, x>>
                  /\ \A k \in 1..2 : p.body.change[k] = both[k].id
  BY <1>2
<1>4. 1..2 = {1, 2}  OBVIOUS
<1>5. p.body.change[1] = both[1].id /\ p.body.change[2] = both[2].id  BY <1>3, <1>4
<1>6. Range(p.body.change) = {p.body.change[1], p.body.change[2]}  BY <1>2, <1>4 DEF Range
<1>7. {both[1].id, both[2].id} = {x.id, y.id}  BY <1>3
<1> QED BY <1>2, <1>5, <1>6, <1>7

LEMMA ProveAdds ==
  ASSUME IInv, NEW c \in Calls, Prove(c)
  PROVE  Adds(log, log') /\ NoDependency(log, log') /\ NoWrite(log, log')
<1>1. PICK l, ls : l = Call[c].as /\ ls = Recorded(run)  OBVIOUS
<1>2. PICK S : S = Sufficient(log)  OBVIOUS
<1>3. PICK pairs : pairs = IF run.target # None THEN Concurrent(ls, l) ELSE {}  OBVIOUS
<1>4. PICK lost :
        log' = log \cup {p \in {ConcurrencyProof(ls, l, q[1], q[2]) : q \in pairs \ lost} : Accepted(p)}
  BY <1>1, <1>3 DEF Prove
<1>5. \A q \in pairs : q[1] \in log /\ q[1].id # q[2].id
  BY <1>2, <1>3 DEF Concurrent, OfType, Concurs
<1>6. ASSUME NEW p \in log' \ log
      PROVE  /\ p.type = "task.concurrency.observed" /\ Range(p.body.change) = p.id[2]
  <2>1. PICK q \in pairs : p = ConcurrencyProof(ls, l, q[1], q[2])  BY <1>4
  <2>2. PICK x, y : x = q[1] /\ y = q[2]  OBVIOUS
  <2>3. DOMAIN x = EventFields /\ x.id # y.id  BY <1>5, <2>2 DEF IInv, LogInv, EventInv
  <2>4. p = ConcurrencyProof(ls, l, x, y)  BY <2>1, <2>2
  <2>5. /\ p.id = <<"proof", {x.id, y.id}>> /\ p.type = "task.concurrency.observed"
        /\ Range(p.body.change) = {x.id, y.id}
    BY <2>3, <2>4, ProofNames
  <2> QED BY <2>5
<1> QED BY <1>4, <1>6 DEF Adds, NoDependency, NoWrite, ReadTypes

LEMMA AppendRecordsAdds ==
  ASSUME IInv, OnceInv, AppendRecords
  PROVE  Adds(log, log') /\ NoDependency(log, log') /\ NoWrite(log, log')
<1>1. PICK p : p = Head(detector)  OBVIOUS
<1>2. /\ detector # NoRun
      /\ log' = log \cup {e \in ToSet(p) : ~Has(log, e.id)} \/ UNCHANGED log
  BY <1>1 DEF AppendRecords
<1>3. PairHolds(p) /\ FindingTold(log, p[1])
  <2>0. PICK s : s = detector  OBVIOUS
  <2>1. s \in Seq(Range(s)) /\ \A k \in DOMAIN s : PairHolds(s[k]) /\ FindingTold(log, s[k][1])
    BY <2>0 DEF IInv, DetectorInv, OnceInv
  <2>2. s # <<>>  BY <1>2, <2>0 DEF NoRun
  <2>3. Len(s) \in Nat /\ Len(s) # 0 /\ DOMAIN s = 1..Len(s)  BY <2>1, <2>2, LenProperties, EmptySeq
  <2>4. 1 \in DOMAIN s /\ p = s[1]  BY <1>1, <2>0, <2>3
  <2> QED BY <2>1, <2>4
<1>4. PICK f, d : f = p[1] /\ d = p[2]  OBVIOUS
<1>5. /\ ToSet(p) = {f, d} /\ d.id = <<"decision", f.id>>
      /\ f.type = "finding.created" /\ d.type = "decision.created"
      /\ f.body.says.type \in FindingTypes /\ f.id[1] = f.body.says.type
  BY <1>3, <1>4 DEF PairHolds, Decides, Supported, FindingTold
<1>6. f.id[1] # "proof" /\ d.id[1] # "proof"  BY <1>5 DEF FindingTypes
<1> QED BY <1>2, <1>5, <1>6 DEF Adds, NoDependency, NoWrite, ReadTypes

LEMMA RespondAdds ==
  ASSUME IInv, Respond
  PROVE  Adds(log, log') /\ NoDependency(log, log') /\ NoWrite(log, log')
<1>1. \E e \in log : \E r \in Responses(e) : ~Has(log, r.id) /\ log' = log \cup {r}
  BY DEF Respond
<1>2. PICK e \in log : \E r \in Responses(e) : ~Has(log, r.id) /\ log' = log \cup {r}
  BY <1>1
<1>3. PICK r \in Responses(e) : ~Has(log, r.id) /\ log' = log \cup {r}
  BY <1>2
<1>4. DOMAIN e = EventFields  BY DEF IInv, LogInv, EventInv
<1>5. \E t \in {"decision.delivery.changed", "finding.feedback.created"} : \E body : r = Response(e, t, body)
  <2>1. CASE e.type = "decision.created"
    <3>1. \E s \in States : r = Response(e, "decision.delivery.changed", [said |-> s, decision |-> e.id])
      BY <1>3, <2>1 DEF Responses
    <3> QED BY <2>1, <3>1
  <2>2. CASE e.type = "finding.created"
    <3>1. \E s \in States : r = Response(e, "finding.feedback.created",
            [said |-> s, finding |-> e.id, decision |-> <<"decision", e.id>>, evidence |-> {e.id}])
      BY <1>3, <2>2 DEF Responses
    <3> QED BY <2>2, <3>1
  <2>3. e.type \in {"decision.created", "finding.created"}
    BY <1>3 DEF Responses
  <2> QED BY <2>1, <2>2, <2>3
<1>6. /\ r.type \in {"decision.delivery.changed", "finding.feedback.created"}
      /\ r.id[1] = r.type
  BY <1>4, <1>5 DEF Response, EventFields
<1> QED BY <1>3, <1>6 DEF Adds, NoDependency, NoWrite, ReadTypes

(* Each step's append.                                                     *)
LEMMA StepAdds ==
  ASSUME IInv, OnceInv, Unresolved, [Next]_vars
  PROVE  Adds(log, log')
<1>1. ASSUME NEW l \in Lifecycles, BeginTask(l) \/ EndTask(l) PROVE UNCHANGED log
  BY <1>1 DEF BeginTask, EndTask
<1>2. ASSUME NEW c \in Calls, Dispatch(c) \/ Refuse(c) \/ BeginWindow(c) \/ Execute(c) \/ EndWindow(c)
      PROVE  UNCHANGED log
  BY <1>2 DEF Dispatch, Refuse, BeginWindow, Execute, EndWindow
<1>3. ASSUME NEW c \in Calls, \/ Start(c) \/ AppendChange(c) \/ Analyse(c) \/ Resolve(c)
                              \/ Complete(c) \/ Claim(c) \/ Prove(c)
      PROVE  Adds(log, log')
  BY <1>3, StartAdds, AppendChangeAdds, AnalyseAdds, ResolveAdds, CompleteAdds, ClaimAdds, ProveAdds
<1>4. ASSUME NEW w \in Worktrees, NEW x \in Foreign, OutsideEdit(w, x[1], x[2]) PROVE UNCHANGED log
  BY <1>4 DEF OutsideEdit
<1>5. CASE GatewayNext  BY <1>1, <1>2, <1>3, <1>4, <1>5, AddsSame DEF GatewayNext
<1>6. CASE Detect \/ UNCHANGED vars  BY <1>6, AddsSame DEF Detect, vars, gatewayVars
<1>7. CASE AppendRecords \/ Respond  BY <1>7, AppendRecordsAdds, RespondAdds
<1> QED BY <1>5, <1>6, <1>7 DEF Next

(* What a dispatch keeps of what it began with.                            *)
LEMMA RunOn ==
  ASSUME IInv, NEW c \in Calls,
         \/ BeginWindow(c) \/ Execute(c) \/ EndWindow(c) \/ AppendChange(c) \/ Analyse(c)
         \/ Resolve(c) \/ Complete(c) \/ Claim(c)
  PROVE  /\ run # Idle /\ run.call = c
         /\ run' = Idle \/ (run'.call = c /\ run'.read = run.read /\ run'.meta = run.meta)
         /\ UNCHANGED <<lifes, emitted, tokens, together>>
<1> DEFINE Kept == run'.call = run.call /\ run'.read = run.read /\ run'.meta = run.meta
<1>1. \E at \in Stages : Running(c, at)
  BY DEF BeginWindow, Execute, EndWindow, AppendChange, Analyse, Resolve, Complete, Claim, Stages
<1>2. run # Idle /\ run.call = c /\ DOMAIN run = RunFields  BY <1>1, RunFacts
<1>3. UNCHANGED <<lifes, emitted, tokens, together>>
  BY DEF BeginWindow, Execute, EndWindow, AppendChange, Analyse, Resolve, Complete, Claim
<1>4. CASE BeginWindow(c)
  <2>1. Kept  BY <1>2, <1>4 DEF BeginWindow, RunFields
  <2> QED BY <1>2, <1>3, <2>1
<1>5. CASE Execute(c)
  <2>1. Kept  BY <1>2, <1>5 DEF Execute, RunFields
  <2> QED BY <1>2, <1>3, <2>1
<1>6. CASE EndWindow(c)
  <2>w. PICK w : w = run.who.wt  OBVIOUS
  <2> DEFINE both == run.before # None
             own == IF both THEN Changes(run.before, disk[w], TRUE) ELSE {}
  <2>1. PICK after, gap :
          /\ after = [run EXCEPT !.todo = SetToSeq(own) \o SetToSeq(run.foreign), !.whole = both, !.gap = gap]
          /\ \/ run' = after
             \/ run' = [after EXCEPT !.gap = TRUE]
             \/ run' = [run EXCEPT !.todo = SetToSeq(run.foreign), !.gap = TRUE]
    BY <1>6, <2>w DEF EndWindow
  <2> HIDE DEF own, both
  <2>2. PICK todo, whole, t : /\ after = [run EXCEPT !.todo = todo, !.whole = whole, !.gap = gap]
          /\ \/ run' = after
             \/ run' = [after EXCEPT !.gap = TRUE]
             \/ run' = [run EXCEPT !.todo = t, !.gap = TRUE]
    BY <2>1
  <2>3. Kept  BY <1>2, <2>2 DEF RunFields
  <2> QED BY <1>2, <1>3, <2>3
<1>7. CASE AppendChange(c)
  <2>1. Kept  BY <1>2, <1>7 DEF AppendChange, Noted, RunFields
  <2> QED BY <1>2, <1>3, <2>1
<1>8. CASE Analyse(c)
  <2>1. \/ \E a, f : run' = [run EXCEPT !.change = None, !.analysed = a, !.effects = f]
        \/ run' = [run EXCEPT !.change = None, !.gap = TRUE]
    BY <1>8 DEF Analyse
  <2>2. Kept  BY <1>2, <2>1 DEF RunFields
  <2> QED BY <1>2, <1>3, <2>2
<1>9. CASE Resolve(c)
  <2>1. run' = run \/ run' = [run EXCEPT !.gap = TRUE]  BY <1>9 DEF Resolve
  <2>2. Kept  BY <1>2, <2>1 DEF RunFields
  <2> QED BY <1>2, <1>3, <2>2
<1>10. CASE Complete(c)
  <2>1. run' = Idle \/ \E gap, done : run' = [run EXCEPT !.gap = gap, !.done = done]
    <3>1. PICK r : r = [run EXCEPT !.gap = @ \/ MetadataGap(run)]  OBVIOUS
    <3>2. run' = Idle \/ run' = [r EXCEPT !.done = Fresh(1)]  BY <1>10, <3>1 DEF Complete, Leave
    <3>3. PICK gap : r = [run EXCEPT !.gap = gap]  BY <3>1
    <3>4. [r EXCEPT !.done = Fresh(1)] = [run EXCEPT !.gap = gap, !.done = Fresh(1)]  BY <3>3
    <3> QED BY <3>2, <3>4
  <2>2. run' = Idle \/ Kept  BY <1>2, <2>1 DEF RunFields
  <2> QED BY <1>2, <1>3, <2>2
<1>11. CASE Claim(c)
  <2>1. run' = Idle \/ Kept  BY <1>11 DEF Claim, Leave
  <2> QED BY <1>2, <1>3, <2>1
<1> QED BY <1>4, <1>5, <1>6, <1>7, <1>8, <1>9, <1>10, <1>11

Counted == faults' = faults \/ faults' = faults + 1

(* Failures are only ever counted.                                         *)
LEMMA FaultsCount ==
  ASSUME faults \in Nat, [Next]_vars
  PROVE  faults' \in Nat /\ (faults' = 0 => faults = 0)
<1> SUFFICES Counted  BY DEF Counted
<1>1. ASSUME NEW l \in Lifecycles, BeginTask(l) \/ EndTask(l) PROVE Counted
  BY <1>1 DEF BeginTask, EndTask, Counted
<1>2. ASSUME NEW c \in Calls,
             \/ Dispatch(c) \/ Refuse(c) \/ BeginWindow(c) \/ Execute(c) \/ EndWindow(c)
             \/ AppendChange(c) \/ Resolve(c) \/ Complete(c) \/ Claim(c)
      PROVE  Counted
  BY <1>2 DEF Dispatch, Refuse, BeginWindow, Execute, EndWindow, AppendChange, Resolve,
              Complete, Claim, Fault, NoFault, Counted
<1>3. ASSUME NEW c \in Calls, Start(c) PROVE Counted
  <2>1. NoFault \/ Fault  BY <1>3, Zenon DEF Start
  <2> QED BY <2>1 DEF Fault, NoFault, Counted
<1>4. ASSUME NEW c \in Calls, Analyse(c) PROVE Counted
  <2>1. NoFault \/ Fault  BY <1>4, Zenon DEF Analyse
  <2> QED BY <2>1 DEF Fault, NoFault, Counted
<1>5. ASSUME NEW c \in Calls, Prove(c) PROVE Counted
  <2>1. NoFault \/ Fault  BY <1>5, Zenon DEF Prove
  <2> QED BY <2>1 DEF Fault, NoFault, Counted
<1>6. ASSUME NEW w \in Worktrees, NEW x \in Foreign, OutsideEdit(w, x[1], x[2]) PROVE Counted
  BY <1>6 DEF OutsideEdit, Fault, Counted
<1>7. CASE GatewayNext
  BY <1>1, <1>2, <1>3, <1>4, <1>5, <1>6, <1>7 DEF GatewayNext
<1>8. CASE Detect  BY <1>8 DEF Detect, gatewayVars, Counted
<1>9. CASE AppendRecords  BY <1>9 DEF AppendRecords, Counted
<1>10. CASE Respond  BY <1>10 DEF Respond, Counted
<1>11. CASE UNCHANGED vars  BY <1>11 DEF vars, gatewayVars, Counted
<1> QED BY <1>7, <1>8, <1>9, <1>10, <1>11 DEF Next

(* What a step leaves of the changes that are gathered.                    *)
LEMMA UnresolvedSame ==
  ASSUME Unresolved, UNCHANGED <<run, pc>>, NoDependency(log, log')
  PROVE  Unresolved'
  BY DEF Unresolved, NoDependency, OfType

LEMMA UnresolvedGone ==
  ASSUME run' = Idle \/ pc'[run'.call] \notin {"changes", "analysing"}
  PROVE  Unresolved'
  BY DEF Unresolved, Pending

LEMMA EndWindowUnresolved ==
  ASSUME IInv, NEW c \in Calls, EndWindow(c)
  PROVE  Unresolved'
<1>0. Running(c, "closing") /\ pc' = [pc EXCEPT ![c] = "changes"]  BY DEF EndWindow, Step
<1>1. /\ run # Idle /\ run.call = c /\ pc[c] = "closing" /\ DOMAIN run = RunFields
      /\ RunEffects(run)
  BY <1>0, RunFacts DEF Stages
<1>2. pc'[c] = "changes"  BY <1>0, <1>1, StepTo DEF IInv, Stages
<1>w. PICK w : w = run.who.wt  OBVIOUS
<1> DEFINE both == run.before # None
           own == IF both THEN Changes(run.before, disk[w], TRUE) ELSE {}
<1>3. PICK after, gap :
          /\ after = [run EXCEPT !.todo = SetToSeq(own) \o SetToSeq(run.foreign), !.whole = both, !.gap = gap]
          /\ \/ run' = after
             \/ run' = [after EXCEPT !.gap = TRUE]
             \/ run' = [run EXCEPT !.todo = SetToSeq(run.foreign), !.gap = TRUE]
  BY <1>w DEF EndWindow
<1> HIDE DEF own, both
<1>4. run'.call = c /\ run'.analysed = run.analysed  BY <1>1, <1>3 DEF RunFields
<1>5. run.analysed = {}  BY <1>1 DEF RunEffects, Early
<1> QED BY <1>2, <1>4, <1>5 DEF Unresolved

LEMMA AppendChangeUnresolved ==
  ASSUME IInv, Ledger(log), Unresolved, NEW c \in Calls, AppendChange(c)
  PROVE  Unresolved'
<1>0. Running(c, "changes")  BY DEF AppendChange
<1>1. run # Idle /\ run.call = c /\ pc[c] = "changes" /\ DOMAIN run = RunFields
  BY <1>0, RunFacts DEF Stages
<1>2. PICK ch : ch = Head(run.todo)  OBVIOUS
<1>3. PICK e : e = FileChanged(run, Fresh(1), ch)  OBVIOUS
<1>4. e.id = Fresh(1) /\ e.type = "file.changed"  BY <1>3 DEF FileChanged, Event
<1>5. \A d \in OfType(log, "dependency.changed") :
        d.cause # Fresh(1) /\ \A x \in run.analysed : d.cause # x.id
  <2>1. \A d \in OfType(log, "dependency.changed") : Has(log, d.cause)  BY DEF Ledger, OfType
  <2>2. ~ Has(log, Fresh(1))  BY FreshNow DEF IInv, LogInv
  <2>3. \A d \in OfType(log, "dependency.changed") : \A x \in run.analysed : d.cause # x.id
    BY <1>1 DEF Unresolved, Pending, Late
  <2> QED BY <2>1, <2>2, <2>3
<1>6. \/ /\ log' = log \cup {e} /\ pc' = [pc EXCEPT ![c] = "analysing"]
         /\ \E next : /\ next = [run EXCEPT !.todo = Tail(@), !.gap = @ \/ ~ch.own]
                      /\ run' = Noted(next, e, ch.own)
      \/ /\ UNCHANGED <<log, pc>>
         /\ \E next : /\ next = [run EXCEPT !.todo = Tail(@), !.gap = @ \/ ~ch.own]
                      /\ run' = [next EXCEPT !.gap = TRUE]
  BY <1>2, <1>3 DEF AppendChange, Step
<1>7. OfType(log', "dependency.changed") = OfType(log, "dependency.changed")
  BY <1>4, <1>6 DEF OfType
<1>8. CASE /\ pc' = [pc EXCEPT ![c] = "analysing"]
           /\ \E next : /\ next = [run EXCEPT !.todo = Tail(@), !.gap = @ \/ ~ch.own]
                        /\ run' = Noted(next, e, ch.own)
  <2>1. PICK next : /\ next = [run EXCEPT !.todo = Tail(@), !.gap = @ \/ ~ch.own]
                    /\ run' = Noted(next, e, ch.own)
    BY <1>8
  <2>2. DOMAIN next = RunFields /\ next.call = c /\ next.analysed = run.analysed
    BY <1>1, <2>1 DEF RunFields
  <2>3. run'.call = c /\ run'.analysed = run.analysed /\ run'.change = e
    BY <2>1, <2>2 DEF Noted, RunFields
  <2> QED BY <1>4, <1>5, <1>7, <2>3 DEF Unresolved
<1>9. CASE /\ UNCHANGED pc
           /\ \E next : /\ next = [run EXCEPT !.todo = Tail(@), !.gap = @ \/ ~ch.own]
                        /\ run' = [next EXCEPT !.gap = TRUE]
  <2>1. PICK next : /\ next = [run EXCEPT !.todo = Tail(@), !.gap = @ \/ ~ch.own]
                    /\ run' = [next EXCEPT !.gap = TRUE]
    BY <1>9
  <2>2. DOMAIN next = RunFields /\ next.call = c /\ next.analysed = run.analysed
    BY <1>1, <2>1 DEF RunFields
  <2>3. run'.call = c /\ run'.analysed = run.analysed  BY <2>1, <2>2 DEF RunFields
  <2> QED BY <1>1, <1>5, <1>7, <1>9, <2>3 DEF Unresolved
<1> QED BY <1>6, <1>8, <1>9

LEMMA AnalyseUnresolved ==
  ASSUME IInv, Unresolved, NEW c \in Calls, Analyse(c)
  PROVE  Unresolved'
<1>0. Running(c, "analysing") /\ pc' = [pc EXCEPT ![c] = "changes"]  BY DEF Analyse, Step
<1>1. run # Idle /\ run.call = c /\ pc[c] = "analysing" /\ DOMAIN run = RunFields
  BY <1>0, RunFacts DEF Stages
<1>2. pc'[c] = "changes"  BY <1>0, <1>1, StepTo DEF IInv, Stages
<1>3. \/ \E f : run' = [run EXCEPT !.change = None, !.analysed = @ \cup {run.change}, !.effects = f]
      \/ run' = [run EXCEPT !.change = None, !.gap = TRUE]
  BY DEF Analyse
<1>4. run'.call = c /\ run'.analysed \subseteq run.analysed \cup {run.change}
  BY <1>1, <1>3 DEF RunFields
<1>5. \A d \in OfType(log, "dependency.changed") : \A e \in run.analysed \cup {run.change} : d.cause # e.id
  BY <1>1 DEF Unresolved, Pending, Late
<1>6. NoDependency(log, log')  BY AnalyseAdds
<1> QED BY <1>2, <1>4, <1>5, <1>6 DEF Unresolved, NoDependency, OfType

LEMMA StepUnresolved ==
  ASSUME IInv, IInv', OnceInv, Ledger(log), Unresolved, [Next]_vars
  PROVE  Unresolved'
<1>1. ASSUME NEW l \in Lifecycles, BeginTask(l) \/ EndTask(l) PROVE Unresolved'
  <2>1. UNCHANGED <<log, run, pc>>  BY <1>1 DEF BeginTask, EndTask
  <2> QED BY <2>1, UnresolvedSame, AddsSame
<1>2. ASSUME NEW c \in Calls, Dispatch(c) \/ Refuse(c) PROVE Unresolved'
  <2>1. run' = Idle  BY <1>2 DEF Dispatch, Refuse, Leave
  <2> QED BY <2>1, UnresolvedGone
<1>3. ASSUME NEW c \in Calls, Start(c) PROVE Unresolved'
  <2>1. pc[c] = "queued" /\ pc = [d \in Calls |-> pc[d]]  BY <1>3 DEF Start, IInv, Shapes
  <2>2. PICK bound, meta :
       LET r == Entering(c, bound, meta)
           reading == [r EXCEPT !.read = FileRead(r)]
       IN  \/ run' = Idle
           \/ (run' = r \/ run' = reading \/ run' = [reading EXCEPT !.gap = TRUE])
              /\ pc' = [pc EXCEPT ![c] = "opening"]
    BY <1>3, Zenon DEF Start, Leave, Step
  <2> DEFINE r == Entering(c, bound, meta)
             reading == [r EXCEPT !.read = FileRead(r)]
  <2>3. DOMAIN r = RunFields /\ r.call = c  BY DEF Entering, RunFields
  <2>4. \/ run' = Idle
        \/ (run' = r \/ run' = reading \/ run' = [reading EXCEPT !.gap = TRUE])
            /\ pc' = [pc EXCEPT ![c] = "opening"]
    BY <2>2, Zenon
  <2>5. PICK fr : fr = FileRead(r)  OBVIOUS
  <2>6. reading = [r EXCEPT !.read = fr]  BY <2>5
  <2> HIDE DEF r, reading
  <2>7. reading.call = c /\ DOMAIN reading = RunFields  BY <2>3, <2>6 DEF RunFields
  <2>8. run' = Idle \/ (run'.call = c /\ pc' = [pc EXCEPT ![c] = "opening"])
    BY <2>3, <2>4, <2>7 DEF RunFields
  <2> QED BY <2>1, <2>8, UnresolvedGone
<1>4. ASSUME NEW c \in Calls, \/ BeginWindow(c) \/ Execute(c) \/ Resolve(c) \/ Complete(c) \/ Claim(c)
      PROVE  Unresolved'
  <2>1. run.call = c /\ (run' = Idle \/ run'.call = c)  BY <1>4, RunOn
  <2>2. pc = [d \in Calls |-> pc[d]]  BY DEF IInv, Shapes
  <2>3. run' = Idle \/ \E to \in {"executing", "closing", "completing", "claiming", "proving"} : pc' = [pc EXCEPT ![c] = to]
    BY <1>4 DEF BeginWindow, Execute, Resolve, Complete, Claim, Step, Leave
  <2> QED BY <2>1, <2>2, <2>3, UnresolvedGone
<1>5. ASSUME NEW c \in Calls, EndWindow(c) \/ AppendChange(c) \/ Analyse(c) PROVE Unresolved'
  BY <1>5, EndWindowUnresolved, AppendChangeUnresolved, AnalyseUnresolved
<1>6. ASSUME NEW c \in Calls, Prove(c) PROVE Unresolved'
  <2>1. run' = Idle  BY <1>6 DEF Prove, Leave
  <2> QED BY <2>1, UnresolvedGone
<1>7. ASSUME NEW w \in Worktrees, NEW x \in Foreign, OutsideEdit(w, x[1], x[2]) PROVE Unresolved'
  <2>1. UNCHANGED <<log, run, pc>>  BY <1>7 DEF OutsideEdit
  <2> QED BY <2>1, UnresolvedSame, AddsSame
<1>8. CASE GatewayNext  BY <1>1, <1>2, <1>3, <1>4, <1>5, <1>6, <1>7, <1>8 DEF GatewayNext
<1>9. CASE Detect \/ UNCHANGED vars
  <2>1. UNCHANGED <<log, run, pc>>  BY <1>9 DEF Detect, vars, gatewayVars
  <2> QED BY <2>1, UnresolvedSame, AddsSame
<1>10. CASE AppendRecords
  <2>1. UNCHANGED <<run, pc>>  BY <1>10 DEF AppendRecords
  <2> QED BY <1>10, <2>1, UnresolvedSame, AppendRecordsAdds
<1>11. CASE Respond
  <2>1. UNCHANGED <<run, pc>>  BY <1>11 DEF Respond
  <2> QED BY <1>11, <2>1, UnresolvedSame, RespondAdds
<1> QED BY <1>8, <1>9, <1>10, <1>11 DEF Next

(* The ledger after a step.                                                *)
LEMMA StepLedger ==
  ASSUME IInv', OnceInv', Named', Adds(log, log'), Ledger(log)
  PROVE  Ledger(log')
<1>1. PICK L, M : L = log /\ M = log'  OBVIOUS
<1>2. IsFiniteSet(M) /\ IdsUnique(M)  BY <1>1 DEF IInv, LogInv, Identified
<1>3. Dispatches(M)  BY <1>1 DEF OnceInv
<1>4. \A e \in M : e.id # None  BY <1>1 DEF Named
<1>5. Ledger(M)  BY <1>1, <1>2, <1>3, <1>4, LedgerGrows
<1> QED BY <1>1, <1>5

(* The pairs that are known to have a proof have one.                      *)
EmittedInv == \A q \in emitted : Has(log, <<"proof", q>>)

LEMMA StepEmitted ==
  ASSUME IInv, EmittedInv, log \subseteq log', [Next]_vars
  PROVE  EmittedInv'
<1> SUFFICES ASSUME NEW q \in emitted' PROVE Has(log', <<"proof", q>>)  BY DEF EmittedInv
<1> SUFFICES ASSUME q \notin emitted PROVE Has(log', <<"proof", q>>)  BY DEF EmittedInv, Has
<1>1. ASSUME NEW l \in Lifecycles, BeginTask(l) \/ EndTask(l) PROVE FALSE
  BY <1>1 DEF BeginTask, EndTask
<1>2. ASSUME NEW c \in Calls, Dispatch(c) \/ Refuse(c) \/ Start(c) PROVE FALSE
  BY <1>2 DEF Dispatch, Refuse, Start
<1>3. ASSUME NEW c \in Calls,
             \/ BeginWindow(c) \/ Execute(c) \/ EndWindow(c) \/ AppendChange(c) \/ Analyse(c)
             \/ Resolve(c) \/ Complete(c) \/ Claim(c)
      PROVE  FALSE
  BY <1>3, RunOn
<1>4. ASSUME NEW c \in Calls, Prove(c) PROVE Has(log', <<"proof", q>>)
  <2>1. \E pairs, lost : emitted' = emitted \cup {r \in {{p[1].id, p[2].id} : p \in pairs \ lost} :
                                         <<"proof", r>> \in {e.id : e \in log'}}
    BY <1>4 DEF Prove
  <2> QED BY <2>1 DEF Has
<1>5. ASSUME NEW w \in Worktrees, NEW x \in Foreign, OutsideEdit(w, x[1], x[2]) PROVE FALSE
  BY <1>5 DEF OutsideEdit
<1>6. CASE GatewayNext  BY <1>1, <1>2, <1>3, <1>4, <1>5, <1>6 DEF GatewayNext
<1>7. CASE Detect  BY <1>7 DEF Detect, gatewayVars
<1>8. CASE AppendRecords  BY <1>8 DEF AppendRecords
<1>9. CASE Respond  BY <1>9 DEF Respond
<1>10. CASE UNCHANGED vars  BY <1>10 DEF vars, gatewayVars
<1> QED BY <1>6, <1>7, <1>8, <1>9, <1>10 DEF Next

(* Lifetimes that met know of each other, and what they record is of calls *)
(* that were completed.                                                    *)
LifesMet ==
  /\ \A l, m \in Lifecycles : l # m /\ {l, m} \in together =>
       m \in lifes[l].overlaps /\ lifes[l].state # "unknown"
  /\ \A l \in Lifecycles : lifes[l].state = "unknown" => lifes[l].changes = {}
  /\ \A l \in Lifecycles : \A i \in lifes[l].changes : Completed(log, i)

(* What a dispatch records in its lifetime.                                *)
LEMMA RecordedAre ==
  ASSUME IInv, NEW c \in Calls, Running(c, "proving"), NEW ls, ls = Recorded(run), NEW m \in Lifecycles
  PROVE  /\ ls[m].state = lifes[m].state /\ ls[m].overlaps = lifes[m].overlaps
         /\ lifes[m].state = "unknown" => ls[m].changes = lifes[m].changes
         /\ \A i \in ls[m].changes :
              \/ i \in lifes[m].changes
              \/ m = Call[c].as /\ run.target # None /\ Completed(log, i)
<1>1. PICK l : l = Call[c].as  OBVIOUS
<1>2. PICK X : X = EffectChanges(run)  OBVIOUS
<1>3. run.call = c /\ l \in Lifecycles  BY <1>1, RunFacts DEF Stages
<1>4. \A i \in X : Completed(log, i)
  <2> TAKE i \in X
  <2>1. PICK d : d = At(log, run.done)  OBVIOUS
  <2>2. d \in log /\ d.type = "tool.completed"  BY <2>1, DoneIs DEF DoneOf
  <2>3. IsA(log, i, {"symbol.changed"}) /\ SameContext(At(log, i), d)  BY <1>2, <2>1 DEF EffectChanges
  <2>4. At(log, i) \in log /\ At(log, i).id = i  BY <2>3, AtHas DEF IsA, Has
  <2>5. At(log, i).corr = d.corr  BY <2>3 DEF SameContext
  <2> QED BY <2>2, <2>4, <2>5 DEF Completed
<1>5. \/ ls = lifes
      \/ ls = [lifes EXCEPT ![l].changes = @ \cup X] /\ run.target # None /\ lifes[l].state = "active"
  BY <1>1, <1>2, <1>3 DEF Recorded
<1>6. lifes = [k \in Lifecycles |-> [state |-> lifes[k].state, overlaps |-> lifes[k].overlaps,
                                     changes |-> lifes[k].changes]]
  BY DEF IInv, Shapes
<1>7. CASE ls = lifes  BY <1>7
<1>8. CASE ls = [lifes EXCEPT ![l].changes = @ \cup X] /\ run.target # None /\ lifes[l].state = "active"
  <2>1. lifes[m] = [state |-> lifes[m].state, overlaps |-> lifes[m].overlaps, changes |-> lifes[m].changes]
    BY <1>6
  <2>2. CASE m = l
    <3>1. ls[m] = [lifes[m] EXCEPT !.changes = @ \cup X]  BY <1>3, <1>6, <1>8, <2>2
    <3>2. PICK s, o, h : lifes[m] = [state |-> s, overlaps |-> o, changes |-> h]  BY <2>1
    <3>3. lifes[m].changes = h /\ lifes[m].state = s /\ lifes[m].overlaps = o  BY <3>2
    <3>4. ls[m] = [lifes[m] EXCEPT !.changes = h \cup X]  BY <3>1, <3>3
    <3>5. ls[m] = [state |-> s, overlaps |-> o, changes |-> h \cup X]  BY <3>2, <3>4
    <3>6. ls[m].state = s /\ ls[m].overlaps = o /\ ls[m].changes = h \cup X  BY <3>5
    <3>7. lifes[m].state = "active"  BY <1>8, <2>2
    <3> QED BY <1>1, <1>4, <1>8, <2>2, <3>3, <3>6, <3>7
  <2>3. CASE m # l
    <3>1. ls[m] = lifes[m]  BY <1>6, <1>8, <2>3
    <3> QED BY <3>1
  <2> QED BY <2>2, <2>3
<1> QED BY <1>5, <1>7, <1>8

(* The steps that leave the lifetimes alone.                               *)
LEMMA OthersLeaveLifes ==
  ASSUME IInv, [Next]_vars,
         ~ \E l \in Lifecycles : BeginTask(l) \/ EndTask(l), ~ \E c \in Calls : Prove(c)
  PROVE  UNCHANGED <<lifes, together>>
<1>1. ASSUME NEW c \in Calls, Dispatch(c) \/ Refuse(c) \/ Start(c) PROVE UNCHANGED <<lifes, together>>
  BY <1>1 DEF Dispatch, Refuse, Start
<1>2. ASSUME NEW c \in Calls,
             \/ BeginWindow(c) \/ Execute(c) \/ EndWindow(c) \/ AppendChange(c) \/ Analyse(c)
             \/ Resolve(c) \/ Complete(c) \/ Claim(c)
      PROVE  UNCHANGED <<lifes, together>>
  BY <1>2, RunOn
<1>3. ASSUME NEW w \in Worktrees, NEW x \in Foreign, OutsideEdit(w, x[1], x[2])
      PROVE  UNCHANGED <<lifes, together>>
  BY <1>3 DEF OutsideEdit
<1>4. CASE GatewayNext  BY <1>1, <1>2, <1>3, <1>4 DEF GatewayNext
<1>5. CASE Detect  BY <1>5 DEF Detect, gatewayVars
<1>6. CASE AppendRecords  BY <1>6 DEF AppendRecords
<1>7. CASE Respond  BY <1>7 DEF Respond
<1>8. CASE UNCHANGED vars  BY <1>8 DEF vars, gatewayVars
<1> QED BY <1>4, <1>5, <1>6, <1>7, <1>8 DEF Next

(* What a lifetime's beginning and end change.                             *)
LEMMA BeginTaskLifes ==
  ASSUME IInv, NEW l \in Lifecycles, BeginTask(l)
  PROVE  /\ UNCHANGED <<log, faults>> /\ lifes[l].state = "unknown" /\ l \notin Active
         /\ together' = together \cup {{l, n} : n \in Active}
         /\ \A m \in Lifecycles :
              /\ m = l => lifes'[m].state = "active" /\ lifes'[m].overlaps = Active /\ lifes'[m].changes = {}
              /\ m # l => /\ lifes'[m].state = lifes[m].state /\ lifes'[m].changes = lifes[m].changes
                          /\ lifes[m].overlaps \subseteq lifes'[m].overlaps
                          /\ m \in Active => l \in lifes'[m].overlaps
<1>1. UNCHANGED <<log, faults>> /\ lifes[l].state = "unknown" /\ l \notin Active
      /\ together' = together \cup {{l, n} : n \in Active}
  BY DEF BeginTask, Active
<1>2. lifes' = [m \in Lifecycles |->
       CASE m = l        -> [state |-> "active", overlaps |-> Active, changes |-> {}]
         [] m \in Active -> [lifes[m] EXCEPT !.overlaps = @ \cup {l}]
         [] OTHER        -> lifes[m]]
  BY DEF BeginTask
<1>3. \A m \in Lifecycles : lifes[m] = [state |-> lifes[m].state, overlaps |-> lifes[m].overlaps,
                                        changes |-> lifes[m].changes]
  BY DEF IInv, Shapes
<1>4. ASSUME NEW m \in Lifecycles
      PROVE  /\ m = l => lifes'[m].state = "active" /\ lifes'[m].overlaps = Active /\ lifes'[m].changes = {}
             /\ m # l => /\ lifes'[m].state = lifes[m].state /\ lifes'[m].changes = lifes[m].changes
                         /\ lifes[m].overlaps \subseteq lifes'[m].overlaps
                         /\ m \in Active => l \in lifes'[m].overlaps
  <2>1. CASE m = l
    <3>1. lifes'[m] = [state |-> "active", overlaps |-> Active, changes |-> {}]  BY <1>1, <1>2, <2>1
    <3> QED BY <2>1, <3>1
  <2>2. CASE m # l /\ m \in Active
    <3>1. lifes'[m] = [lifes[m] EXCEPT !.overlaps = @ \cup {l}]  BY <1>2, <2>2
    <3>2. PICK s, o, h : lifes[m] = [state |-> s, overlaps |-> o, changes |-> h]  BY <1>3
    <3>3. lifes[m].overlaps = o /\ lifes[m].state = s /\ lifes[m].changes = h  BY <3>2
    <3>4. lifes'[m] = [lifes[m] EXCEPT !.overlaps = o \cup {l}]  BY <3>1, <3>3
    <3>5. lifes'[m] = [state |-> s, overlaps |-> o \cup {l}, changes |-> h]  BY <3>2, <3>4
    <3>6. lifes'[m].state = s /\ lifes'[m].overlaps = o \cup {l} /\ lifes'[m].changes = h  BY <3>5
    <3> QED BY <2>2, <3>3, <3>6
  <2>3. CASE m # l /\ m \notin Active
    <3>1. lifes'[m] = lifes[m]  BY <1>2, <2>3
    <3> QED BY <2>3, <3>1
  <2> QED BY <2>1, <2>2, <2>3
<1> QED BY <1>1, <1>4

LEMMA EndTaskLifes ==
  ASSUME IInv, NEW l \in Lifecycles, EndTask(l)
  PROVE  /\ UNCHANGED <<log, faults, together>>
         /\ \A m \in Lifecycles : /\ lifes'[m].overlaps = lifes[m].overlaps
                                  /\ lifes'[m].changes = lifes[m].changes
                                  /\ lifes'[m].state = "unknown" => lifes[m].state = "unknown"
<1>1. lifes' = [lifes EXCEPT ![l].state = "ended"] /\ UNCHANGED <<log, faults, together>>  BY DEF EndTask
<1>2. lifes = [m \in Lifecycles |-> [state |-> lifes[m].state, overlaps |-> lifes[m].overlaps,
                                     changes |-> lifes[m].changes]]
  BY DEF IInv, Shapes
<1>3. \A m \in Lifecycles :
        lifes'[m] = [state |-> IF m = l THEN "ended" ELSE lifes[m].state,
                     overlaps |-> lifes[m].overlaps, changes |-> lifes[m].changes]
  BY <1>1, <1>2
<1>4. ASSUME NEW m \in Lifecycles
      PROVE  /\ lifes'[m].overlaps = lifes[m].overlaps /\ lifes'[m].changes = lifes[m].changes
             /\ lifes'[m].state = "unknown" => lifes[m].state = "unknown"
  <2>1. lifes'[m] = [state |-> IF m = l THEN "ended" ELSE lifes[m].state,
                     overlaps |-> lifes[m].overlaps, changes |-> lifes[m].changes]
    BY <1>3
  <2> QED BY <2>1
<1> QED BY <1>1, <1>4

LEMMA StepMet ==
  ASSUME IInv, LifesMet, log \subseteq log', [Next]_vars
  PROVE  LifesMet'
<1>c. \A i : Completed(log, i) => Completed(log', i)
  <2>1. PICK L, M : L = log /\ M = log'  OBVIOUS
  <2> QED BY <2>1, CompletedStays
<1>1. ASSUME NEW l \in Lifecycles, BeginTask(l) PROVE LifesMet'
  <2>1. /\ l \notin Active /\ together' = together \cup {{l, n} : n \in Active}
        /\ \A m \in Lifecycles :
              /\ m = l => lifes'[m].state = "active" /\ lifes'[m].overlaps = Active /\ lifes'[m].changes = {}
              /\ m # l => /\ lifes'[m].state = lifes[m].state /\ lifes'[m].changes = lifes[m].changes
                          /\ lifes[m].overlaps \subseteq lifes'[m].overlaps
                          /\ m \in Active => l \in lifes'[m].overlaps
    BY <1>1, BeginTaskLifes
  <2>2. ASSUME NEW j \in Lifecycles, NEW k \in Lifecycles, j # k, {j, k} \in together'
        PROVE  k \in lifes'[j].overlaps /\ lifes'[j].state # "unknown"
    <3>1. CASE {j, k} \in together
      <4>1. k \in lifes[j].overlaps /\ lifes[j].state # "unknown"  BY <2>2, <3>1 DEF LifesMet
      <4>2. j # l  BY <1>1, <4>1 DEF BeginTask
      <4> QED BY <2>1, <4>1, <4>2
    <3>2. CASE {j, k} \notin together
      <4>1. PICK n \in Active : {j, k} = {l, n}  BY <2>1, <2>2, <3>2
      <4>2. (j = l /\ k = n) \/ (j = n /\ k = l)  BY <2>2, <4>1
      <4>3. j \in Active => lifes[j].state = "active"  BY DEF Active
      <4> QED BY <2>1, <2>2, <4>1, <4>2, <4>3
    <3> QED BY <3>1, <3>2
  <2>3. \A m \in Lifecycles : lifes'[m].state = "unknown" => lifes'[m].changes = {}
    BY <2>1 DEF LifesMet
  <2>4. \A m \in Lifecycles : \A i \in lifes'[m].changes : Completed(log', i)
    BY <1>c, <2>1 DEF LifesMet
  <2> QED BY <2>2, <2>3, <2>4 DEF LifesMet
<1>2. ASSUME NEW l \in Lifecycles, EndTask(l) PROVE LifesMet'
  <2>1. /\ UNCHANGED together
        /\ \A m \in Lifecycles : /\ lifes'[m].overlaps = lifes[m].overlaps
                                 /\ lifes'[m].changes = lifes[m].changes
                                 /\ lifes'[m].state = "unknown" => lifes[m].state = "unknown"
    BY <1>2, EndTaskLifes
  <2> QED BY <1>c, <2>1 DEF LifesMet
<1>3. ASSUME NEW c \in Calls, Prove(c) PROVE LifesMet'
  <2>1. Running(c, "proving") /\ lifes' = Recorded(run) /\ UNCHANGED together  BY <1>3 DEF Prove
  <2>2. PICK ls : ls = Recorded(run)  OBVIOUS
  <2>3. \A m \in Lifecycles :
         /\ ls[m].state = lifes[m].state /\ ls[m].overlaps = lifes[m].overlaps
         /\ lifes[m].state = "unknown" => ls[m].changes = lifes[m].changes
         /\ \A i \in ls[m].changes : i \in lifes[m].changes \/ Completed(log, i)
    BY <2>1, <2>2, RecordedAre
  <2>4. lifes' = ls  BY <2>1, <2>2
  <2> QED BY <1>c, <2>1, <2>3, <2>4 DEF LifesMet
<1>4. CASE /\ ~ \E l \in Lifecycles : BeginTask(l) \/ EndTask(l)
           /\ ~ \E c \in Calls : Prove(c)
  <2>1. UNCHANGED <<lifes, together>>  BY <1>4, OthersLeaveLifes
  <2> QED BY <1>c, <2>1 DEF LifesMet
<1> QED BY <1>1, <1>2, <1>3, <1>4

(* What a statement says of events that were there it says as well before  *)
(* anything was appended.                                                  *)
LEMMA IsABack ==
  ASSUME NEW L, NEW M, L \subseteq M, IdsUnique(M), NEW i, Has(L, i), NEW types, IsA(M, i, types)
  PROVE  IsA(L, i, types) /\ At(M, i) = At(L, i) /\ At(L, i) \in L /\ At(L, i).id = i
<1>1. At(M, i) = At(L, i) /\ At(L, i) \in L /\ At(L, i).id = i  BY AtStays
<1>2. At(L, i).type \in types  BY <1>1 DEF IsA, IdsUnique
<1> QED BY <1>1, <1>2 DEF IsA

StatedThere(L, w) ==
  /\ Has(L, w.cause) /\ Has(L, w.body.read) /\ Has(L, w.body.against)
  /\ \E d \in OfType(L, "dependency.changed") : d.body.dep = w.body.dep

LEMMA WriteBack ==
  ASSUME NEW L, NEW M, Adds(L, M), Ledger(L), IdsUnique(M),
         NEW w \in L, w.type = "write.dependent", w.body.target = None,
         StatedThere(L, w), EventValid(M, w)
  PROVE  EventValid(L, w)
<1>0. L \subseteq M /\ IdsUnique(L)  BY DEF Adds, Ledger
<1> DEFINE b == w.body
<1>1. CausedProperly(M, w) /\ ResourceFits(w) /\ DependentWriteValid(M, w)  BY DEF EventValid
<1>2. CausedProperly(L, w)
  <2>1. PICK p \in L : p.id = w.cause  BY DEF StatedThere, Has
  <2>2. w.cause # None  BY <2>1 DEF Ledger
  <2> QED BY <1>0, <1>1, <2>1, <2>2 DEF CausedProperly, IdsUnique
<1>3. IsA(L, b.read, {"file.read"}) /\ At(M, b.read) = At(L, b.read)
  <2>1. Has(L, b.read) /\ IsA(M, b.read, {"file.read"})  BY <1>1 DEF StatedThere, DependentWriteValid
  <2> QED BY <1>0, <2>1, IsABack
<1>4. IsA(L, w.cause, ChangeTypes) /\ At(M, w.cause) = At(L, w.cause)
  <2>1. Has(L, w.cause) /\ IsA(M, w.cause, ChangeTypes)  BY <1>1 DEF StatedThere, DependentWriteValid
  <2> QED BY <1>0, <2>1, IsABack
<1>5. PICK d \in OfType(M, "dependency.changed") :
           /\ d.body.dep = b.dep /\ d.wt = w.wt
           /\ d.body.dependent = b.res /\ d.body.dependency = At(M, b.read).body.res
  BY <1>1 DEF DependentWriteValid
<1>6. d \in OfType(L, "dependency.changed")
  <2>1. PICK c \in OfType(L, "dependency.changed") : c.body.dep = b.dep  BY DEF StatedThere
  <2>2. c.body.dep[1] = c.cause  BY <2>1 DEF Ledger, OfType
  <2>3. d.type = "dependency.changed" /\ d \in M  BY <1>5 DEF OfType
  <2>4. ASSUME d \notin L PROVE FALSE
    <3>1. d.body.dep[1] = d.cause /\ c.cause # d.cause  BY <2>1, <2>3, <2>4 DEF Adds
    <3> QED BY <1>5, <2>1, <2>2, <3>1
  <2> QED BY <2>3, <2>4 DEF OfType
<1>7. ASSUME b.against # None PROVE ComparisonValid(L, w, At(L, b.read))
  <2>1. ComparisonValid(M, w, At(M, b.read))  BY <1>1, <1>7 DEF DependentWriteValid
  <2>2. Has(L, b.against) /\ IsA(M, b.against, ChangeTypes)  BY <2>1 DEF StatedThere, ComparisonValid
  <2>3. IsA(L, b.against, ChangeTypes) /\ At(M, b.against) = At(L, b.against)
    BY <1>0, <2>2, IsABack
  <2>4. SymbolEvidence(M, b.against) = SymbolEvidence(L, b.against)
    BY <2>2 DEF Adds, SymbolEvidence, OfType
  <2> QED BY <1>3, <2>1, <2>3, <2>4 DEF ComparisonValid
<1>8. DependentWriteValid(L, w)
  BY <1>1, <1>3, <1>4, <1>5, <1>6, <1>7 DEF DependentWriteValid
<1> QED BY <1>1, <1>2, <1>8 DEF EventValid

(***************************************************************************)
(* While nothing fails, what a call states is about what the log holds.    *)
(***************************************************************************)
RunThere(L, r) == r # Idle =>
  /\ r.read # None => Has(L, r.read.id)
  /\ r.meta # None => Has(L, r.meta.token.read) /\ Has(L, r.meta.against)

There == /\ \A w \in Stated : StatedThere(log, w)
         /\ RunThere(log, run)
         /\ \A t \in tokens : Has(log, t.read)

ThereInv == faults = 0 => There

LEMMA ThereStays ==
  ASSUME NEW L, NEW M, L \subseteq M
  PROVE  /\ \A i : Has(L, i) => Has(M, i)
         /\ \A w : StatedThere(L, w) => StatedThere(M, w)
         /\ \A r : RunThere(L, r) => RunThere(M, r)
  BY DEF Has, StatedThere, RunThere, OfType

(* A step that states nothing, and hands out no token.                     *)
LEMMA QuietThere ==
  ASSUME There, log \subseteq log', NoWrite(log, log'), UNCHANGED tokens, RunThere(log, run) => RunThere(log, run')
  PROVE  There'
<1>1. Stated' = Stated  BY DEF NoWrite, Stated, OfType
<1>2. PICK L, M : L = log /\ M = log'  OBVIOUS
<1>3. L \subseteq M  BY <1>2
<1>4. /\ \A i : Has(L, i) => Has(M, i)
      /\ \A w : StatedThere(L, w) => StatedThere(M, w)
      /\ \A r : RunThere(L, r) => RunThere(M, r)
  BY <1>3, ThereStays
<1>5. \A w \in Stated' : StatedThere(M, w)  BY <1>1, <1>2, <1>4 DEF There
<1>6. RunThere(M, run')  BY <1>2, <1>4 DEF There
<1>7. \A t \in tokens' : Has(M, t.read)  BY <1>2, <1>4 DEF There
<1> QED BY <1>2, <1>5, <1>6, <1>7 DEF There

LEMMA StartThere ==
  ASSUME IInv, There, NEW c \in Calls, Start(c), faults = 0, faults' = 0
  PROVE  There'
<1>0. log \subseteq log' /\ NoWrite(log, log')  BY StartAdds DEF Adds
<1>1. UNCHANGED tokens  BY DEF Start
<1>f. ~ Fault  BY DEF Fault
<1>2. PICK bound \in Call[c].bound, meta \in Metadata(c) :
       LET r == Entering(c, bound, meta)
           reading == [r EXCEPT !.read = FileRead(r)]
       IN  \/ Fault
           \/ run' = r
           \/ run' = reading /\ log' = log \cup {ToolRequested(r), reading.read}
  BY Zenon DEF Start
<1> DEFINE r == Entering(c, bound, meta)
           reading == [r EXCEPT !.read = FileRead(r)]
<1>3. DOMAIN r = RunFields /\ r.meta = meta /\ r.read = None
  BY DEF Entering, RunFields
<1>4. \/ run' = r
      \/ run' = reading /\ log' = log \cup {ToolRequested(r), reading.read}
  BY <1>2, <1>f, Zenon
<1>5. PICK fr : fr = FileRead(r)  OBVIOUS
<1>6. reading = [r EXCEPT !.read = fr]  BY <1>5
<1> HIDE DEF r, reading
<1>7. reading.meta = meta /\ reading.read = fr  BY <1>3, <1>6 DEF RunFields
<1>8. meta # None => Has(log, meta.token.read) /\ Has(log, meta.against)
  <2> SUFFICES ASSUME meta # None PROVE Has(log, meta.token.read) /\ Has(log, meta.against)  OBVIOUS
  <2>1. meta \in Declared(c)  BY DEF Metadata
  <2>2. PICK S : S = Sufficient(log)  OBVIOUS
  <2>3. PICK x \in OfType(log, "dependency.changed") \X tokens \X {e \in log : e.type \in ChangeTypes} :
          meta = [dep |-> x[1].body.dep, res |-> x[1].body.dependent, token |-> x[2],
                  against |-> x[3].id, cov |-> Covering(log, S, x[3].id)]
    BY <2>1, <2>2 DEF Declared
  <2>4. meta.token = x[2] /\ meta.against = x[3].id  BY <2>3
  <2>5. x[2] \in tokens /\ x[3] \in log  BY <2>3
  <2> QED BY <2>4, <2>5 DEF There, Has
<1>9. PICK M : M = log' /\ log \subseteq M  BY <1>0
<1>10. RunThere(M, run')
  <2>1. meta # None => Has(M, meta.token.read) /\ Has(M, meta.against)  BY <1>8, <1>9 DEF Has
  <2>2. CASE run' = r  BY <1>3, <2>1, <2>2 DEF RunThere
  <2>3. CASE run' = reading /\ log' = log \cup {ToolRequested(r), reading.read}
    <3>1. Has(M, fr.id)  BY <1>7, <1>9, <2>3 DEF Has
    <3> QED BY <1>7, <2>1, <2>3, <3>1 DEF RunThere
  <2> QED BY <1>4, <2>2, <2>3
<1>11. Stated' = Stated  BY <1>0 DEF NoWrite, Stated, OfType
<1>12. PICK L : L = log  OBVIOUS
<1>13. \A w : StatedThere(L, w) => StatedThere(M, w)  BY <1>9, <1>12, ThereStays
<1>14. \A w \in Stated' : StatedThere(M, w)  BY <1>11, <1>12, <1>13 DEF There
<1>15. \A t \in tokens' : Has(M, t.read)  BY <1>1, <1>9 DEF There, Has
<1> QED BY <1>9, <1>10, <1>14, <1>15 DEF There

LEMMA ClaimThere ==
  ASSUME IInv, There, NEW c \in Calls, Claim(c)
  PROVE  There'
<1>0. Running(c, "claiming")  BY DEF Claim
<1>1. /\ run # Idle /\ (run' = Idle \/ (run'.read = run.read /\ run'.meta = run.meta))
      /\ UNCHANGED tokens
  BY RunOn
<1>2. PICK claims : claims = Claims(run)  OBVIOUS
<1>3. log' = log \cup claims \/ UNCHANGED log  BY <1>2 DEF Claim
<1>4. PICK L, M : L = log /\ M = log'  OBVIOUS
<1>5. L \subseteq M  BY <1>3, <1>4
<1>6. /\ \A i : Has(L, i) => Has(M, i)
      /\ \A w : StatedThere(L, w) => StatedThere(M, w)
  BY <1>5, ThereStays
<1>7. RunThere(M, run')  BY <1>1, <1>4, <1>6 DEF There, RunThere
<1>8. ASSUME NEW w \in claims, w.body.target = None PROVE StatedThere(L, w)
  <2>1. w.body.target = run.target /\ run.meta # None
    BY <1>0, <1>2, <1>8, ClaimsAre DEF Claims
  <2>2. w \in WriteStatements(run)  BY <1>2, <1>8, <2>1 DEF Claims
  <2>3. PICK e, cov : e \in DependentWriteChanges(run) /\ Durable(run) /\ w = DependentWrite(run, e, cov)
    BY <2>2 DEF WriteStatements
  <2>4. e \in log  BY <1>0, <2>3, RunFacts DEF DependentWriteChanges, RunEffects, OwnChange, Stages
  <2>5. /\ w.cause = e.id /\ w.body.dep = run.meta.dep /\ w.body.read = run.meta.token.read
        /\ w.body.against = run.meta.against
    BY <2>3 DEF DependentWrite, Event
  <2>6. Has(L, run.meta.token.read) /\ Has(L, run.meta.against)
    BY <1>1, <1>4, <2>1 DEF There, RunThere
  <2>7. \E d \in OfType(L, "dependency.changed") : d.body.dep = run.meta.dep
    BY <1>4, <2>3 DEF Durable
  <2> QED BY <1>4, <2>4, <2>5, <2>6, <2>7 DEF StatedThere, Has
<1>9. \A w \in Stated' : StatedThere(M, w)
  <2> TAKE w \in Stated'
  <2>1. w \in Stated \/ (w \in claims /\ w.body.target = None)  BY <1>3 DEF Stated, OfType
  <2>2. w \in Stated => StatedThere(L, w)  BY <1>4 DEF There
  <2> QED BY <1>6, <1>8, <2>1, <2>2
<1>10. \A t \in tokens' : Has(M, t.read)  BY <1>1, <1>4, <1>6 DEF There
<1> QED BY <1>4, <1>7, <1>9, <1>10 DEF There

LEMMA ProveThere ==
  ASSUME IInv, There, NEW c \in Calls, Prove(c)
  PROVE  There'
<1>0. Running(c, "proving")  BY DEF Prove
<1>1. run # Idle  BY <1>0, RunFacts DEF Stages
<1>2. log \subseteq log' /\ NoWrite(log, log')  BY ProveAdds DEF Adds
<1>3. run' = Idle /\ tokens' = tokens \cup IF TokenIssued(run) THEN {ReadToken(run)} ELSE {}
  BY DEF Prove, Leave
<1>4. PICK L, M : L = log /\ M = log' /\ L \subseteq M  BY <1>2
<1>5. /\ \A i : Has(L, i) => Has(M, i)
      /\ \A w : StatedThere(L, w) => StatedThere(M, w)
  BY <1>4, ThereStays
<1>6. Stated' = Stated  BY <1>2 DEF NoWrite, Stated, OfType
<1>7. \A w \in Stated' : StatedThere(M, w)  BY <1>4, <1>5, <1>6 DEF There
<1>8. RunThere(M, run')  BY <1>3 DEF RunThere
<1>9. \A t \in tokens' : Has(L, t.read)
  BY <1>1, <1>3, <1>4 DEF There, RunThere, TokenIssued, ReadToken
<1> QED BY <1>4, <1>5, <1>7, <1>8, <1>9 DEF There

LEMMA StepThere ==
  ASSUME IInv, OnceInv, Unresolved, ThereInv, faults \in Nat, [Next]_vars
  PROVE  ThereInv'
<1> SUFFICES ASSUME faults' = 0 PROVE There'  BY DEF ThereInv
<1>f. faults = 0  BY FaultsCount
<1>t. There  BY <1>f DEF ThereInv
<1>a. log \subseteq log'  BY StepAdds DEF Adds
<1>i. ~ (Idle # Idle) /\ \A L : RunThere(L, Idle)  BY DEF RunThere
<1>q. (NoWrite(log, log') /\ UNCHANGED tokens /\ (RunThere(log, run) => RunThere(log, run'))) => There'
  BY <1>a, <1>t, QuietThere
<1>1. ASSUME UNCHANGED <<log, run, tokens>> PROVE There'
  <2>1. RunThere(log, run) => RunThere(log, run')  BY <1>1
  <2>2. NoWrite(log, log')  BY <1>1 DEF NoWrite
  <2> QED BY <1>1, <1>q, <2>1, <2>2
<1>2. ASSUME NEW l \in Lifecycles, BeginTask(l) \/ EndTask(l) PROVE There'
  BY <1>1, <1>2 DEF BeginTask, EndTask
<1>3. ASSUME NEW c \in Calls, Dispatch(c) \/ Refuse(c) PROVE There'
  <2>1. run' = Idle \/ UNCHANGED run  BY <1>3 DEF Dispatch, Refuse, Leave
  <2>2. UNCHANGED <<log, tokens>>  BY <1>3 DEF Dispatch, Refuse
  <2>3. RunThere(log, run) => RunThere(log, run')  BY <1>i, <2>1
  <2>4. NoWrite(log, log')  BY <2>2 DEF NoWrite
  <2> QED BY <1>q, <2>2, <2>3, <2>4
<1>4. ASSUME NEW c \in Calls, \/ BeginWindow(c) \/ Execute(c) \/ EndWindow(c) \/ AppendChange(c) \/ Analyse(c)
                              \/ Resolve(c) \/ Complete(c)
      PROVE  There'
  <2>1. /\ run # Idle /\ (run' = Idle \/ (run'.read = run.read /\ run'.meta = run.meta))
        /\ UNCHANGED tokens
    BY <1>4, RunOn
  <2>2. RunThere(log, run) => RunThere(log, run')  BY <1>i, <2>1 DEF RunThere
  <2>3. ASSUME BeginWindow(c) \/ Execute(c) \/ EndWindow(c) PROVE NoWrite(log, log')
    <3>1. UNCHANGED log  BY <2>3 DEF BeginWindow, Execute, EndWindow
    <3> QED BY <3>1 DEF NoWrite
  <2>4. NoWrite(log, log')
    BY <1>4, <2>3, AppendChangeAdds, AnalyseAdds, ResolveAdds, CompleteAdds
  <2> QED BY <1>q, <2>1, <2>2, <2>4
<1>5. ASSUME NEW c \in Calls, Start(c) \/ Claim(c) \/ Prove(c) PROVE There'
  BY <1>5, <1>f, <1>t, StartThere, ClaimThere, ProveThere
<1>6. ASSUME NEW w \in Worktrees, NEW x \in Foreign, OutsideEdit(w, x[1], x[2]) PROVE There'
  BY <1>1, <1>6 DEF OutsideEdit
<1>7. CASE GatewayNext  BY <1>2, <1>3, <1>4, <1>5, <1>6, <1>7 DEF GatewayNext
<1>8. CASE Detect \/ UNCHANGED vars  BY <1>1, <1>8 DEF Detect, vars, gatewayVars
<1>9. CASE AppendRecords
  <2>1. UNCHANGED <<run, tokens>>  BY <1>9 DEF AppendRecords
  <2>2. RunThere(log, run) => RunThere(log, run')  BY <2>1
  <2> QED BY <1>9, <1>q, <2>1, <2>2, AppendRecordsAdds
<1>10. CASE Respond
  <2>1. UNCHANGED <<run, tokens>>  BY <1>10 DEF Respond
  <2>2. RunThere(log, run) => RunThere(log, run')  BY <2>1
  <2> QED BY <1>10, <1>q, <2>1, <2>2, RespondAdds
<1> QED BY <1>7, <1>8, <1>9, <1>10 DEF Next

(* While nothing fails, a log whose statements hold replays.               *)
SoundInv == faults = 0 => ((\A w \in Stated : EventValid(log, w)) => ValidSet(log))

LEMMA StatedBack ==
  ASSUME IInv', ThereInv, Ledger(log), Adds(log, log'), faults = 0,
         NEW w \in Stated, EventValid(log', w)
  PROVE  EventValid(log, w)
<1>1. PICK L, M : L = log /\ M = log'  OBVIOUS
<1>2. IdsUnique(M)  BY <1>1 DEF IInv, LogInv, Identified
<1>3. w \in L /\ w.type = "write.dependent" /\ w.body.target = None  BY <1>1 DEF Stated, OfType
<1>4. StatedThere(L, w)  BY <1>1 DEF ThereInv, There
<1>5. EventValid(L, w)  BY <1>1, <1>2, <1>3, <1>4, WriteBack
<1> QED BY <1>1, <1>5

LEMMA ValidBack ==
  ASSUME IInv', ThereInv, SoundInv, Ledger(log), Adds(log, log'), faults = 0, ValidSet(log')
  PROVE  ValidSet(log)
<1>1. PICK M : M = log'  OBVIOUS
<1>2. IsFiniteSet(M)  BY <1>1 DEF IInv, LogInv, Identified
<1>3. \A w \in M : EventValid(M, w)  BY <1>1, <1>2, ValidRules
<1>4. \A w \in Stated : w \in M  BY <1>1 DEF Adds, Stated, OfType
<1>5. \A w \in Stated : EventValid(log, w)  BY <1>1, <1>3, <1>4, StatedBack
<1> QED BY <1>5 DEF SoundInv

LEMMA StepSound ==
  ASSUME IInv', ThereInv, SoundInv, Ledger(log), Adds(log, log'), StaysValid, faults' = 0 => faults = 0
  PROVE  SoundInv'
<1> SUFFICES ASSUME faults' = 0, \A w \in Stated' : EventValid(log', w) PROVE ValidSet(log')
  BY DEF SoundInv
<1>1. \A w \in Stated : w \in Stated'  BY DEF Adds, Stated, OfType
<1>2. \A w \in Stated : EventValid(log, w)  BY <1>1, StatedBack
<1>3. ValidSet(log)  BY <1>2 DEF SoundInv
<1> QED BY <1>3 DEF StaysValid

(***************************************************************************)
(* The proof of two changes that clash.                                    *)
(***************************************************************************)
(* The two changes, in a dispatch that records the first.                  *)
Clashing(ls, l, m, x, y) ==
  /\ l \in Lifecycles /\ m \in Lifecycles /\ l # m
  /\ x \in log /\ y \in log /\ ChangeOf(l, x) /\ ChangeOf(m, y)
  /\ x.id \in ls[l].changes /\ y.id \in ls[m].changes /\ x.id # y.id
  /\ x.body.res = y.body.res
  /\ Owners(ls, l, y) = {m}

LEMMA ClashingAre ==
  ASSUME IInv, LivesApart, NEW c, NEW l, NEW ls, Proving(c, l, ls),
         NEW m \in Lifecycles, l # m, NEW i \in ls[l].changes, NEW j \in ls[m].changes,
         Clash(log, i, j)
  PROVE  \E x, y \in log : x.id = i /\ y.id = j /\ Clashing(ls, l, m, x, y)
<1>0. c \in Calls /\ Running(c, "proving") /\ l = Call[c].as /\ ls = Recorded(run)  BY DEF Proving
<1>1. l \in Lifecycles  BY <1>0, RunFacts DEF Stages
<1>2. \A n \in Lifecycles : \A k \in ls[n].changes : \E e \in log : e.id = k /\ ChangeOf(n, e)
  BY <1>0, RecordedHolds
<1>3. PICK x \in log : x.id = i /\ ChangeOf(l, x)  BY <1>1, <1>2
<1>4. PICK y \in log : y.id = j /\ ChangeOf(m, y)  BY <1>2
<1>5. IdsUnique(log)  BY DEF IInv, LogInv, Identified
<1>6. At(log, i) = x /\ At(log, j) = y  BY <1>3, <1>4, <1>5, AtId
<1>7. x.body.res = y.body.res  BY <1>6 DEF Clash
<1>8. /\ x.wt = Life[l].wt /\ y.wt = Life[m].wt /\ y.task = Life[m].task /\ y.agent = Life[m].agent
  BY <1>3, <1>4 DEF ChangeOf
<1>9. x.id # y.id  BY <1>1, <1>3, <1>4, <1>5, <1>8 DEF IdsUnique, LivesApart
<1>10. \A o \in Lifecycles : Life[o].task = y.task => o = m  BY <1>8 DEF LivesApart
<1>11. m \in Owners(ls, l, y)  BY <1>4, <1>8 DEF Owners
<1>12. \A o \in Owners(ls, l, y) : o = m  BY <1>10 DEF Owners
<1>13. Owners(ls, l, y) = {m}  BY <1>11, <1>12
<1> QED BY <1>1, <1>3, <1>4, <1>7, <1>9, <1>13 DEF Clashing

(* A proof in the log that is known by its pair.                           *)
LEMMA NamedShown ==
  ASSUME NEW L, Ledger(L), NEW i, NEW j, Has(L, <<"proof", {i, j}>>)
  PROVE  Shown(L, i, j)
<1>1. PICK p \in L : p.id = <<"proof", {i, j}>>  BY DEF Has
<1>2. p.id[1] = "proof" /\ p.id[2] = {i, j}  BY <1>1
<1>3. p.type = "task.concurrency.observed" /\ Range(p.body.change) = {i, j}
  BY <1>1, <1>2 DEF Ledger
<1> QED BY <1>1, <1>3 DEF Shown, OfType

LEMMA ClashConcurs ==
  ASSUME IInv, LivesApart, LifesMet, NEW c, NEW l, NEW ls, Proving(c, l, ls),
         NEW m, NEW x, NEW y, Clashing(ls, l, m, x, y), {l, m} \in together,
         Clash(log, x.id, y.id), {x.id, y.id} \notin emitted
  PROVE  <<x, y>> \in Concurrent(ls, l)
<1>0. c \in Calls /\ Running(c, "proving") /\ l = Call[c].as /\ ls = Recorded(run)  BY DEF Proving
<1>1. PICK S : S = Sufficient(log)  OBVIOUS
<1>2. l \in Lifecycles /\ m \in Lifecycles /\ l # m /\ x \in log /\ y \in log /\ Owners(ls, l, y) = {m}
  BY DEF Clashing
<1>3. Cardinality(Owners(ls, l, y)) = 1  BY <1>2, FS_Singleton
<1>4. m \in ls[l].overlaps
  <2>1. m \in lifes[l].overlaps  BY <1>2 DEF LifesMet
  <2>2. ls[l].overlaps = lifes[l].overlaps  BY <1>0, <1>2, RecordedAre
  <2> QED BY <2>1, <2>2
<1>5. /\ y.task = Life[m].task /\ y.agent = Life[m].agent /\ y.wt = Life[m].wt
      /\ x.type = "symbol.changed" /\ y.type = "symbol.changed"
  BY DEF Clashing, ChangeOf
<1>6. y.task # None /\ y.agent # None /\ y.wt # Life[l].wt /\ y.agent # Life[l].agent
  BY <1>2, <1>5 DEF LivesApart
<1>7. At(log, x.id) = x /\ At(log, y.id) = y  BY <1>2, AtId DEF IInv, LogInv, Identified
<1>8. ProvenIn(log, x) /\ ProvenIn(log, y) /\ Covering(log, S, x.id) # None
  BY <1>1, <1>7 DEF Clash
<1>9. ProvenSymbol(x) /\ ProvenSymbol(y)  BY <1>8 DEF ProvenIn, ProvenSymbol
<1>10. Owners(ls, l, y) \subseteq ls[l].overlaps  BY <1>2, <1>4
<1>11. x.id \in ls[l].changes /\ x.id # y.id /\ x.body.res = y.body.res  BY DEF Clashing
<1>12. Concurs(ls, l, S, x, y)
  BY <1>3, <1>6, <1>8, <1>9, <1>10, <1>11 DEF Concurs
<1>13. PICK q : q = <<x, y>>  OBVIOUS
<1>14. /\ q[1] = x /\ q[2] = y
       /\ q \in OfType(log, "symbol.changed") \X OfType(log, "symbol.changed")
  BY <1>2, <1>5, <1>13 DEF OfType
<1> QED BY <1>1, <1>12, <1>13, <1>14 DEF Concurrent

(* What the proof of two changes of the lifetimes l and m says.            *)
ProofOf(p, l, m, x, y) ==
  /\ p.id = <<"proof", {x.id, y.id}>>
  /\ p.type = "task.concurrency.observed" /\ p.seq = x.seq /\ p.corr = x.corr /\ p.cause = x.id
  /\ p.src = Life[l].src
  /\ \E both : /\ both = <<x, y>> \/ both = <<y, x>>
               /\ \A k \in 1..2 :
                    /\ p.body.task[k] = both[k].task /\ p.body.agent[k] = both[k].agent
                    /\ p.body.change[k] = both[k].id /\ p.body.wt[k] = both[k].wt
                    /\ p.body.life[k] = IF both[k].task = Life[l].task THEN l ELSE m

LEMMA ProofSays ==
  ASSUME NEW ls, NEW l, NEW x, NEW y, DOMAIN x = EventFields, NEW p, p = ConcurrencyProof(ls, l, x, y),
         NEW m, m = OwnerOf(ls, l, y), x.id # y.id
  PROVE  ProofOf(p, l, m, x, y)
  BY ProofIs DEF ProofOf

LEMMA ClashValid ==
  ASSUME NullIsNoId, IInv, LivesApart, Named, NEW ls, NEW l, NEW m, NEW x, NEW y,
         Clashing(ls, l, m, x, y), ValidSet(log), NEW p, p = ConcurrencyProof(ls, l, x, y),
         ~ Has(log, p.id)
  PROVE  Accepted(p)
<1>1. /\ l \in Lifecycles /\ m \in Lifecycles /\ l # m /\ x \in log /\ y \in log
      /\ ChangeOf(l, x) /\ ChangeOf(m, y) /\ x.id # y.id /\ x.body.res = y.body.res
      /\ Owners(ls, l, y) = {m}
  BY DEF Clashing
<1>2. OwnerOf(ls, l, y) = m  BY <1>1 DEF OwnerOf
<1>3. /\ x.type = "symbol.changed" /\ y.type = "symbol.changed"
      /\ x.wt = Life[l].wt /\ x.agent = Life[l].agent /\ x.task = Life[l].task
      /\ y.wt = Life[m].wt /\ y.agent = Life[m].agent /\ y.task = Life[m].task
  BY <1>1 DEF ChangeOf
<1>4. EventInv(x)  BY <1>1 DEF IInv, LogInv
<1>5. DOMAIN x = EventFields /\ x.seq = None /\ x.id[1] = "evt"
  BY <1>3, <1>4 DEF EventInv, Sequenced, Unsequenced, Versioned
<1>d. x.id # y.id /\ DOMAIN x = EventFields  BY <1>1, <1>5
<1>6. ProofOf(p, l, m, x, y)  BY <1>2, <1>d, ProofSays
<1>s. p.seq = None  BY <1>5, <1>6 DEF ProofOf
<1>p. /\ p.id = <<"proof", {x.id, y.id}>>
      /\ p.type = "task.concurrency.observed" /\ p.corr = x.corr /\ p.cause = x.id
      /\ p.src = Life[l].src
  BY <1>6 DEF ProofOf
<1>7. PICK both : /\ both = <<x, y>> \/ both = <<y, x>>
                  /\ \A k \in 1..2 :
                        /\ p.body.task[k] = both[k].task /\ p.body.agent[k] = both[k].agent
                        /\ p.body.change[k] = both[k].id /\ p.body.wt[k] = both[k].wt
                        /\ p.body.life[k] = IF both[k].task = Life[l].task THEN l ELSE m
  BY <1>6 DEF ProofOf
<1>8. PICK b, d : both = <<b, d>> /\ ((b = x /\ d = y) \/ (b = y /\ d = x))  BY <1>7
<1>9. \A k \in 1..2 : k = 1 \/ k = 2  OBVIOUS
<1>10. 1 \in 1..2 /\ 2 \in 1..2  OBVIOUS
<1>11. both[1] = b /\ both[2] = d  BY <1>8
<1>12. /\ p.body.task[1] = b.task /\ p.body.agent[1] = b.agent /\ p.body.change[1] = b.id
       /\ p.body.wt[1] = b.wt /\ p.body.life[1] = IF b.task = Life[l].task THEN l ELSE m
       /\ p.body.task[2] = d.task /\ p.body.agent[2] = d.agent /\ p.body.change[2] = d.id
       /\ p.body.wt[2] = d.wt /\ p.body.life[2] = IF d.task = Life[l].task THEN l ELSE m
  BY <1>7, <1>10, <1>11
<1>13. /\ Life[l].task # Life[m].task /\ Life[l].agent # Life[m].agent /\ Life[l].wt # Life[m].wt
       /\ Life[l].src[1] \in {"adapter", "gateway"}
  BY <1>1 DEF LivesApart
<1> DEFINE E == log \cup {p}
<1>14. IdsUnique(log) /\ IsFiniteSet(log)  BY DEF IInv, LogInv, Identified
<1>15. IdsUnique(E) /\ IsFiniteSet(E)  BY <1>14, FS_AddElement DEF IdsUnique, Has
<1>16. SeqsUnique(E)
  <2>1. SeqsUnique(log)  BY <1>14, ValidRules
  <2> QED BY <1>s, <2>1 DEF SeqsUnique
<1>17. \A e \in E : e.id # None  BY <1>p DEF Named, NullIsNoId
<1>18. b \in E /\ d \in E /\ b.type = "symbol.changed" /\ d.type = "symbol.changed" /\ b.body.res = d.body.res
  BY <1>1, <1>3, <1>8
<1>19. At(E, b.id) = b /\ At(E, d.id) = d  BY <1>15, <1>18, AtId
<1>20. IsA(E, b.id, {"symbol.changed"}) /\ IsA(E, d.id, {"symbol.changed"})  BY <1>18 DEF IsA
<1>21. /\ p.body.task[1] # p.body.task[2] /\ p.body.agent[1] # p.body.agent[2]
       /\ p.body.wt[1] # p.body.wt[2] /\ p.body.life[1] # p.body.life[2]
  BY <1>1, <1>3, <1>8, <1>12, <1>13
<1>22. ConcurrencyValid(E, p)
  <2> HIDE DEF E
  <2>1. \A k \in 1..2 :
           /\ IsA(E, p.body.change[k], {"symbol.changed"})
           /\ LET c == At(E, p.body.change[k])
              IN  <<c.task, c.agent, c.wt>> = <<p.body.task[k], p.body.agent[k], p.body.wt[k]>>
    BY <1>9, <1>12, <1>19, <1>20
  <2>2. At(E, p.body.change[1]).body.res = At(E, p.body.change[2]).body.res  BY <1>12, <1>18, <1>19
  <2>3. p.src[1] \in {"gateway", "adapter"}  BY <1>p, <1>13
  <2> QED BY <1>21, <2>1, <2>2, <2>3 DEF ConcurrencyValid
<1>23. CausedProperly(E, p)
  <2>1. p.id[1] = "proof"  BY <1>p
  <2>2. p.cause # p.id  BY <1>5, <1>p, <2>1
  <2>3. x \in E /\ x.id = p.cause /\ x.corr = p.corr  BY <1>1, <1>p
  <2> QED BY <1>5, <1>s, <2>2, <2>3 DEF CausedProperly
<1>24. EventValid(E, p)
  <2> HIDE DEF E
  <2>1. ResourceFits(p)  BY <1>p DEF ResourceFits, ChangeTypes
  <2> QED BY <1>p, <1>22, <1>23, <2>1 DEF EventValid
<1>25. Has(log, p.cause)  BY <1>1, <1>p DEF Has
<1>26. ValidSet(log \cup {p})
  <2>1. \A e \in {p} : EventValid(log \cup {p}, e) /\ e.type # "evidence.derived" /\ Has(log, e.cause)
    BY <1>p, <1>24, <1>25
  <2> QED BY <1>14, <1>15, <1>16, <1>17, <2>1, ValidGrowsCaused
<1> QED BY <1>26 DEF Accepted

(***************************************************************************)
(* What clashes in lifetimes that met is proven concurrent.                *)
(***************************************************************************)
OverlapInv == faults = 0 =>
  \A l, m \in Lifecycles : l # m /\ {l, m} \in together =>
    \A i \in lifes[l].changes, j \in lifes[m].changes : Clash(log, i, j) => Shown(log, i, j)

(* All pairs of which a proof is accepted have it.                         *)
AllProven(M, ls, l) == \A q \in Concurrent(ls, l) :
  Accepted(ConcurrencyProof(ls, l, q[1], q[2])) => ConcurrencyProof(ls, l, q[1], q[2]) \in M

(* The dispatch that records a change proves what clashes with it.         *)
LEMMA ProveShows ==
  ASSUME NullIsNoId, IInv, LivesApart, Named, Ledger(log), EmittedInv, LifesMet,
         ValidSet(log), NEW c, NEW l, NEW ls, Proving(c, l, ls), NEW M,
         log \subseteq M, AllProven(M, ls, l),
         NEW m \in Lifecycles, l # m, {l, m} \in together,
         NEW i \in ls[l].changes, NEW j \in ls[m].changes, Clash(log, i, j)
  PROVE  Shown(M, i, j)
<1>1. PICK x, y \in log : x.id = i /\ y.id = j /\ Clashing(ls, l, m, x, y)  BY ClashingAre
<1>2. PICK p : p = ConcurrencyProof(ls, l, x, y)  OBVIOUS
<1>3. x.id # y.id  BY <1>1 DEF Clashing
<1>4. DOMAIN x = EventFields  BY DEF IInv, LogInv, EventInv
<1>5. /\ p.id = <<"proof", {x.id, y.id}>> /\ p.type = "task.concurrency.observed"
      /\ Range(p.body.change) = {x.id, y.id}
  BY <1>2, <1>3, <1>4, ProofNames
<1>6. CASE Has(log, <<"proof", {i, j}>>)
  <2>1. Shown(log, i, j)  BY <1>6, NamedShown
  <2> QED BY <2>1, ShownStays
<1>7. CASE ~ Has(log, <<"proof", {i, j}>>)
  <2>1. {x.id, y.id} \notin emitted  BY <1>1, <1>7 DEF EmittedInv
  <2>2. Clash(log, x.id, y.id)  BY <1>1
  <2>3. <<x, y>> \in Concurrent(ls, l)  BY <1>1, <2>1, <2>2, ClashConcurs
  <2>4. ~ Has(log, p.id)  BY <1>1, <1>5, <1>7
  <2>5. Accepted(p)  BY <1>1, <1>2, <2>4, ClashValid
  <2>6. PICK q : q = <<x, y>>  OBVIOUS
  <2>7. q[1] = x /\ q[2] = y  BY <2>6
  <2>8. p \in M  BY <1>2, <2>3, <2>5, <2>6, <2>7 DEF AllProven
  <2> QED BY <1>1, <1>5, <2>8 DEF Shown, OfType
<1> QED BY <1>6, <1>7

LEMMA ClashTurned ==
  ASSUME NEW L, NEW i, NEW j
  PROVE  /\ Clash(L, i, j) <=> Clash(L, j, i)
         /\ Shown(L, i, j) <=> Shown(L, j, i)
<1>1. {i, j} = {j, i}  OBVIOUS
<1> QED BY <1>1 DEF Clash, Shown

LEMMA ProveOverlap ==
  ASSUME NullIsNoId, LivesApart, IInv, Named, Ledger(log), Ledger(log'), Adds(log, log'),
         EmittedInv, LifesMet, OverlapInv, faults = 0, faults' = 0,
         ValidSet(log') => ValidSet(log), NEW c \in Calls, Prove(c)
  PROVE  OverlapInv'
<1>0. Running(c, "proving")  BY DEF Prove
<1>1. PICK l, ls : l = Call[c].as /\ ls = Recorded(run)  OBVIOUS
<1>2. PICK pairs : pairs = IF run.target # None THEN Concurrent(ls, l) ELSE {}  OBVIOUS
<1>3. PICK lost :
        /\ IF lost = {} THEN NoFault ELSE Fault
        /\ log' = log \cup {p \in {ConcurrencyProof(ls, l, q[1], q[2]) : q \in pairs \ lost} : Accepted(p)}
  BY <1>1, <1>2 DEF Prove
<1>4. lost = {}  BY <1>3 DEF Fault
<1>5. PICK L, M : L = log /\ M = log'  OBVIOUS
<1>6. lifes' = ls /\ UNCHANGED together  BY <1>1 DEF Prove
<1>7. Proving(c, l, ls) /\ l \in Lifecycles  BY <1>0, <1>1, RunFacts DEF Proving, Stages
<1>8. Adds(L, M) /\ L \subseteq M /\ Ledger(L) /\ Ledger(M) /\ (ValidSet(M) => ValidSet(L))
  BY <1>5 DEF Adds
<1>9. \A q \in pairs : Accepted(ConcurrencyProof(ls, l, q[1], q[2])) => ConcurrencyProof(ls, l, q[1], q[2]) \in M
  BY <1>3, <1>4, <1>5
<1>10. \A m \in Lifecycles : \A i \in ls[m].changes :
          /\ i \in lifes[m].changes \/ (m = l /\ run.target # None)
          /\ Completed(L, i)
  <2> TAKE m \in Lifecycles
  <2> TAKE i \in ls[m].changes
  <2>1. i \in lifes[m].changes \/ (m = l /\ run.target # None /\ Completed(log, i))
    BY <1>0, <1>1, RecordedAre
  <2>2. i \in lifes[m].changes => Completed(log, i)  BY DEF LifesMet
  <2> QED BY <1>5, <2>1, <2>2
<1>11. ASSUME NEW m \in Lifecycles, l # m, {l, m} \in together, run.target # None,
              NEW i \in ls[l].changes, NEW j \in ls[m].changes, Clash(L, i, j), ValidSet(L)
       PROVE  Shown(M, i, j)
  <2>1. AllProven(M, ls, l)  BY <1>2, <1>9, <1>11 DEF AllProven
  <2>2. ValidSet(log) /\ Clash(log, i, j) /\ log \subseteq M  BY <1>5, <1>8, <1>11
  <2> QED BY <1>7, <1>11, <2>1, <2>2, ProveShows
<1>12. ASSUME NEW a \in Lifecycles, NEW b \in Lifecycles, a # b, {a, b} \in together,
              NEW i \in ls[a].changes, NEW j \in ls[b].changes, Clash(M, i, j)
       PROVE  Shown(M, i, j)
  <2>1. Completed(L, i) /\ Completed(L, j)  BY <1>10
  <2>2. Clash(L, i, j)  BY <1>8, <1>12, <2>1, ClashBack
  <2>3. ValidSet(L)
    <3>1. Covering(L, Sufficient(L), i) # None  BY <2>2 DEF Clash
    <3>2. Sufficient(L) # {}  BY <3>1, CoveringClimbs
    <3> QED BY <3>2 DEF Sufficient
  <2>4. CASE i \in lifes[a].changes /\ j \in lifes[b].changes
    <3>1. Shown(L, i, j)  BY <1>5, <1>12, <2>2, <2>4 DEF OverlapInv
    <3> QED BY <1>8, <3>1, ShownStays
  <2>5. CASE a = l /\ run.target # None  BY <1>11, <1>12, <2>2, <2>3, <2>5
  <2>6. CASE b = l /\ run.target # None
    <3>1. {l, a} \in together
      <4>1. {l, a} = {a, b}  BY <2>6
      <4> QED BY <1>12, <4>1
    <3>2. Clash(L, j, i)  BY <2>2, ClashTurned
    <3>3. Shown(M, j, i)  BY <1>11, <1>12, <2>3, <2>6, <3>1, <3>2
    <3> QED BY <3>3, ClashTurned
  <2> QED BY <1>10, <1>12, <2>4, <2>5, <2>6
<1> QED BY <1>5, <1>6, <1>12 DEF OverlapInv

(* Every other step only adds to the log, and to lifetimes nothing that is *)
(* recorded in them.                                                       *)
LEMMA OthersOverlap ==
  ASSUME Ledger(log), Ledger(log'), Adds(log, log'), LifesMet, OverlapInv, faults = 0,
         ValidSet(log') => ValidSet(log),
         \A l, m \in Lifecycles : l # m /\ {l, m} \in together' =>
           \/ lifes'[l].changes = {} \/ lifes'[m].changes = {}
           \/ /\ {l, m} \in together
              /\ lifes'[l].changes = lifes[l].changes /\ lifes'[m].changes = lifes[m].changes
  PROVE  OverlapInv'
<1>1. PICK L, M : L = log /\ M = log'  OBVIOUS
<1>2. Adds(L, M) /\ L \subseteq M /\ Ledger(L) /\ Ledger(M) /\ (ValidSet(M) => ValidSet(L))
  BY <1>1 DEF Adds
<1>3. ASSUME NEW l \in Lifecycles, NEW m \in Lifecycles, l # m, {l, m} \in together',
             NEW i \in lifes'[l].changes, NEW j \in lifes'[m].changes, Clash(M, i, j)
      PROVE  Shown(M, i, j)
  <2>1. {l, m} \in together /\ i \in lifes[l].changes /\ j \in lifes[m].changes  BY <1>3
  <2>2. Completed(L, i) /\ Completed(L, j)  BY <1>1, <2>1 DEF LifesMet
  <2>3. Clash(L, i, j)  BY <1>2, <1>3, <2>2, ClashBack
  <2>4. Shown(L, i, j)  BY <1>1, <1>3, <2>1, <2>3 DEF OverlapInv
  <2> QED BY <1>2, <2>4, ShownStays
<1> QED BY <1>1, <1>3 DEF OverlapInv

LEMMA StepOverlap ==
  ASSUME NullIsNoId, LivesApart, IInv, Named, Ledger(log), Ledger(log'), Adds(log, log'),
         EmittedInv, LifesMet, OverlapInv, faults' = 0 => faults = 0,
         faults' = 0 => (ValidSet(log') => ValidSet(log)), [Next]_vars
  PROVE  OverlapInv'
<1>0. CASE faults' # 0  BY <1>0 DEF OverlapInv
<1> SUFFICES ASSUME faults = 0, faults' = 0, ValidSet(log') => ValidSet(log) PROVE OverlapInv'
  BY <1>0
<1> DEFINE Same == \A l, m \in Lifecycles : l # m /\ {l, m} \in together' =>
           \/ lifes'[l].changes = {} \/ lifes'[m].changes = {}
           \/ /\ {l, m} \in together
              /\ lifes'[l].changes = lifes[l].changes /\ lifes'[m].changes = lifes[m].changes
<1>1. ASSUME NEW l \in Lifecycles, BeginTask(l) PROVE Same
  <2>1. /\ together' = together \cup {{l, n} : n \in Active}
        /\ \A m \in Lifecycles : /\ m = l => lifes'[m].changes = {}
                                 /\ m # l => lifes'[m].changes = lifes[m].changes
    BY <1>1, BeginTaskLifes
  <2> TAKE j, k \in Lifecycles
  <2> QED BY <2>1
<1>2. ASSUME NEW l \in Lifecycles, EndTask(l) PROVE Same
  <2>1. /\ UNCHANGED together
        /\ \A m \in Lifecycles : lifes'[m].changes = lifes[m].changes
    BY <1>2, EndTaskLifes
  <2> QED BY <2>1
<1>3. ASSUME NEW c \in Calls, Prove(c) PROVE OverlapInv'  BY <1>3, ProveOverlap
<1>4. CASE /\ ~ \E l \in Lifecycles : BeginTask(l) \/ EndTask(l)
           /\ ~ \E c \in Calls : Prove(c)
  <2>1. UNCHANGED <<lifes, together>>  BY <1>4, OthersLeaveLifes
  <2>2. Same  BY <2>1
  <2> QED BY <2>2, OthersOverlap
<1>5. Same => OverlapInv'  BY OthersOverlap
<1> QED BY <1>1, <1>2, <1>3, <1>4, <1>5

(* What the gateway knows of the lifetimes and the log.                    *)
Knows == /\ ValidInv /\ OnceInv /\ Ledger(log) /\ Unresolved /\ faults \in Nat
         /\ EmittedInv /\ LifesMet /\ ThereInv /\ SoundInv /\ OverlapInv

LEMMA StepKnows ==
  ASSUME NullIsNoId, LivesApart
  PROVE  IInv /\ IInv' /\ Knows /\ [Next]_vars => Knows'
<1> SUFFICES ASSUME IInv, IInv', Knows, [Next]_vars PROVE Knows'  OBVIOUS
<1>0. /\ ValidInv /\ OnceInv /\ Ledger(log) /\ Unresolved /\ faults \in Nat
      /\ EmittedInv /\ LifesMet /\ ThereInv /\ SoundInv /\ OverlapInv /\ Named
  BY DEF Knows, ValidInv
<1>1. ValidInv'  BY <1>0, StepValid
<1>2. OnceInv'  BY <1>0, <1>1, StepOnce
<1>3. Named' /\ StaysValid  BY <1>0, StepReplays
<1>4. Adds(log, log') /\ log \subseteq log'  BY <1>0, StepAdds DEF Adds
<1>5. Ledger(log')  BY <1>0, <1>2, <1>3, <1>4, StepLedger
<1>6. Unresolved'  BY <1>0, StepUnresolved
<1>7. faults' \in Nat /\ (faults' = 0 => faults = 0)  BY <1>0, FaultsCount
<1>8. EmittedInv' /\ LifesMet'  BY <1>0, <1>4, StepEmitted, StepMet
<1>9. ThereInv'  BY <1>0, StepThere
<1>10. SoundInv'  BY <1>0, <1>3, <1>4, <1>7, StepSound
<1>11. faults' = 0 => (ValidSet(log') => ValidSet(log))  BY <1>0, <1>4, <1>7, ValidBack
<1>12. OverlapInv'  BY <1>0, <1>4, <1>5, <1>7, <1>11, StepOverlap
<1> QED BY <1>1, <1>2, <1>5, <1>6, <1>7, <1>8, <1>9, <1>10, <1>12 DEF Knows

LEMMA InitKnows == DetectionInit => Knows
<1> SUFFICES ASSUME DetectionInit PROVE Knows  OBVIOUS
<1>1. /\ log = {} /\ run = Idle /\ detector = <<>> /\ emitted = {} /\ tokens = {} /\ together = {} /\ faults = 0
      /\ lifes = [l \in Lifecycles |-> [state |-> "unknown", overlaps |-> {}, changes |-> {}]]
  BY DEF DetectionInit, Init, NoRun
<1>2. ~ Pending(run, pc) /\ DOMAIN detector = {}  BY <1>1 DEF Pending
<1>3. Dispatches(log)  BY <1>1 DEF Dispatches, OfType
<1>4. ValidInv /\ OnceInv  BY <1>1, <1>2, <1>3, ValidEmpty DEF ValidInv, Named, OnceInv, OfType
<1>5. Ledger(log)  BY <1>1, <1>3, FS_EmptySet DEF Ledger, IdsUnique
<1>6. Unresolved  BY <1>2 DEF Unresolved
<1>7. EmittedInv /\ faults \in Nat  BY <1>1 DEF EmittedInv
<1>8. \A l \in Lifecycles : lifes[l].changes = {} /\ lifes[l].overlaps = {} BY <1>1
<1>9. LifesMet /\ OverlapInv  BY <1>1, <1>8 DEF LifesMet, OverlapInv
<1>10. Stated = {}  BY <1>1 DEF Stated, OfType
<1>11. ThereInv  BY <1>1, <1>10 DEF ThereInv, There, RunThere
<1>12. SoundInv  BY <1>1, ValidEmpty DEF SoundInv
<1> QED BY <1>4, <1>5, <1>6, <1>7, <1>9, <1>11, <1>12 DEF Knows

LEMMA OverlapNow == OverlapInv => OverlapReported
<1> SUFFICES ASSUME OverlapInv, run = Idle, faults = 0,
                    NEW x \in Recordings, NEW y \in Recordings,
                    {x[1], y[1]} \in together, x[1] # y[1],
                    At(log, x[2]).body.res = At(log, y[2]).body.res,
                    \A z \in {x, y} : ProvenSymbol(At(log, z[2])) /\ Covering(log, Sufficient(log), z[2]) # None
             PROVE  \E p \in Proofs : Range(p.body.change) = {x[2], y[2]}
  BY DEF OverlapReported
<1>1. \A z \in Recordings : z[1] \in Lifecycles /\ z[2] \in lifes[z[1]].changes
  BY DEF Recordings
<1>2. PICK l, m, i, j : l = x[1] /\ m = y[1] /\ i = x[2] /\ j = y[2]  OBVIOUS
<1>3. l \in Lifecycles /\ m \in Lifecycles /\ i \in lifes[l].changes /\ j \in lifes[m].changes
  BY <1>1, <1>2
<1>4. \A k \in {i, j} : ProvenIn(log, At(log, k)) /\ Covering(log, Sufficient(log), k) # None
  BY <1>2 DEF ProvenIn, ProvenSymbol
<1>5. Clash(log, i, j)  BY <1>2, <1>4 DEF Clash
<1>6. Shown(log, i, j)  BY <1>2, <1>3, <1>5 DEF OverlapInv
<1> QED BY <1>2, <1>6 DEF Shown, Proofs

(* Whatever the order in which calls finish and lifetimes begin and end,   *)
(* while nothing failed every two proven, covered changes of one symbol    *)
(* that lifetimes which met have recorded have their proof of concurrency: *)
(* the dispatch that records the later of the two finds the earlier, whose *)
(* call is complete and whose coverage does not change any more, and what  *)
(* it appends is valid.                                                    *)
THEOREM OverlapsProven ==
  ASSUME NullIsNoId, LivesApart
  PROVE  DetectionSpec => []OverlapReported
<1>1. IInv /\ IInv' /\ Knows /\ [Next]_vars => Knows'  BY StepKnows
<1>2. Knows => OverlapReported  BY OverlapNow DEF Knows
<1> QED BY <1>1, <1>2, InitKnows, Inductive, PTL DEF DetectionSpec
===============================================================================
