--------------------------- MODULE Answers_proofs ---------------------------
(***************************************************************************)
(* Theorems of Answers, for any acts in any order, any windows, pages of   *)
(* any length and any number of windows kept.                              *)
(***************************************************************************)
EXTENDS Answers, Integers, TLAPS, FiniteSetTheorems, SequenceTheorems,
        NaturalsInduction, WellFoundedInduction

-----------------------------------------------------------------------------
(* Sets put in order, and parts of sequences.                              *)
Orders(R, S) ==
  /\ \A x \in S : <<x, x>> \notin R
  /\ \A x, y, z \in S : <<x, y>> \in R /\ <<y, z>> \in R => <<x, z>> \in R
  /\ \A x, y \in S : x # y => <<x, y>> \in R \/ <<y, x>> \in R

(* Ranked lists S once, in the order of R.                                 *)
LEMMA RankedIs ==
  ASSUME NEW S, IsFiniteSet(S), NEW R, Orders(R, S)
  PROVE  /\ Cardinality(S) \in Nat
         /\ Ranked(S, R) \in [1..Cardinality(S) -> S]
         /\ \A m, n \in 1..Cardinality(S) : m < n => <<Ranked(S, R)[m], Ranked(S, R)[n]>> \in R
         /\ \A x \in S : \E n \in 1..Cardinality(S) : Ranked(S, R)[n] = x
<1> DEFINE B(x) == {y \in S : <<y, x>> \in R}
           f == [x \in S |-> Cardinality(B(x)) + 1]
           N == Cardinality(S)
           r(n) == CHOOSE x \in S : Cardinality(B(x)) = n - 1
<1>1. N \in Nat  BY FS_CardinalityType
<1>2. \A x \in S : B(x) \subseteq S /\ x \in S \ B(x)  BY DEF Orders
<1>3. \A x \in S : IsFiniteSet(B(x)) /\ Cardinality(B(x)) \in Nat
  BY <1>2, FS_Subset, FS_CardinalityType
<1>4. ASSUME NEW A, NEW C, A \subseteq C, NEW x \in C, x \notin A, IsFiniteSet(C)
      PROVE  Cardinality(A) < Cardinality(C)
  <2>1. Cardinality(A) <= Cardinality(C) /\ (Cardinality(A) = Cardinality(C) => A = C)
        /\ IsFiniteSet(A)
    BY <1>4, FS_Subset
  <2>2. A # C  BY <1>4
  <2>3. Cardinality(A) \in Nat /\ Cardinality(C) \in Nat  BY <1>4, <2>1, FS_CardinalityType
  <2> QED BY <2>1, <2>2, <2>3
<1>5. \A x \in S : f[x] \in 1..N
  <2> SUFFICES ASSUME NEW x \in S PROVE Cardinality(B(x)) + 1 \in 1..N  OBVIOUS
  <2>1. Cardinality(B(x)) < N  BY <1>2, <1>4
  <2> QED BY <1>1, <1>3, <2>1
<1>6. ASSUME NEW x \in S, NEW y \in S, <<x, y>> \in R PROVE f[x] < f[y]
  <2>1. B(x) \subseteq B(y)  BY <1>6 DEF Orders
  <2>2. x \in B(y) /\ x \notin B(x)  BY <1>6 DEF Orders
  <2>3. Cardinality(B(x)) < Cardinality(B(y))
    <3> HIDE DEF B
    <3> QED BY <1>3, <1>4, <2>1, <2>2
  <2> QED BY <1>3, <2>3
<1>7. f \in Injection(S, 1..N)
  <2>1. \A x, y \in S : f[x] = f[y] => x = y
    <3> SUFFICES ASSUME NEW x \in S, NEW y \in S, x # y PROVE f[x] # f[y]  OBVIOUS
    <3>1. <<x, y>> \in R \/ <<y, x>> \in R  BY DEF Orders
    <3>2. f[x] < f[y] \/ f[y] < f[x]  BY <1>6, <3>1
    <3>3. f[x] \in Nat /\ f[y] \in Nat  BY <1>1, <1>5
    <3> HIDE DEF f
    <3> QED BY <3>2, <3>3
  <2> QED BY <1>5, <2>1 DEF Injection, IsInjective
<1>8. f \in Surjection(S, 1..N)
  <2>1. IsFiniteSet(1..N) /\ Cardinality(1..N) = N  BY <1>1, FS_Interval
  <2> HIDE DEF f
  <2> QED BY <1>7, <2>1, FS_Injection
<1>9. \A n \in 1..N : r(n) \in S /\ f[r(n)] = n
  <2> SUFFICES ASSUME NEW n \in 1..N PROVE r(n) \in S /\ f[r(n)] = n  OBVIOUS
  <2>1. PICK x \in S : f[x] = n  BY <1>8 DEF Surjection
  <2>2. Cardinality(B(x)) = n - 1  BY <1>3, <2>1
  <2>3. r(n) \in S /\ Cardinality(B(r(n))) = n - 1  BY <2>2
  <2> QED BY <1>1, <2>3
<1>10. Ranked(S, R) = [n \in 1..N |-> r(n)]  BY DEF Ranked
<1>11. \A x \in S : r(f[x]) = x
  <2> SUFFICES ASSUME NEW x \in S PROVE r(f[x]) = x  OBVIOUS
  <2>1. f[x] \in 1..N  BY <1>5
  <2>2. r(f[x]) \in S /\ f[r(f[x])] = f[x]  BY <1>9, <2>1
  <2> HIDE DEF f, r
  <2> QED BY <1>7, <2>2 DEF Injection, IsInjective
<1>12. ASSUME NEW m \in 1..N, NEW n \in 1..N, m < n PROVE <<r(m), r(n)>> \in R
  <2>1. r(m) \in S /\ r(n) \in S /\ f[r(m)] = m /\ f[r(n)] = n  BY <1>9
  <2>2. r(m) # r(n)
    <3> HIDE DEF f, r
    <3> QED BY <1>1, <1>12, <2>1
  <2>3. CASE <<r(n), r(m)>> \in R
    <3>1. f[r(n)] < f[r(m)]
      <4> HIDE DEF f, r
      <4> QED BY <1>6, <2>1, <2>3
    <3> HIDE DEF f, r
    <3> QED BY <1>1, <1>12, <2>1, <3>1
  <2> HIDE DEF f, r
  <2> QED BY <2>1, <2>2, <2>3 DEF Orders
<1> HIDE DEF f, r, B
<1>13. \A x \in S : \E n \in 1..N : r(n) = x  BY <1>5, <1>11
<1> QED BY <1>1, <1>9, <1>10, <1>12, <1>13

(* Indices in ascending order.                                             *)
LEMMA AscendingIs ==
  ASSUME NEW L \in Nat, NEW I \in SUBSET (1..L)
  PROVE  /\ IsFiniteSet(I) /\ Cardinality(I) \in Nat
         /\ Ascending(I) \in [1..Cardinality(I) -> I]
         /\ \A m, n \in 1..Cardinality(I) : m < n => Ascending(I)[m] < Ascending(I)[n]
         /\ \A i \in I : \E n \in 1..Cardinality(I) : Ascending(I)[n] = i
<1> DEFINE R == {p \in I \X I : p[1] < p[2]}
<1>1. IsFiniteSet(I)
  <2>1. IsFiniteSet(1..L)  BY FS_Interval, 1 \in Int, L \in Int
  <2> QED BY <2>1, FS_Subset
<1>2. \A x, y \in I : <<x, y>> \in R <=> x < y  OBVIOUS
<1>3. Orders(R, I)
  <2>1. \A x, y \in I : x \in Nat /\ y \in Nat  OBVIOUS
  <2> HIDE DEF R
  <2> QED BY <1>2, <2>1 DEF Orders
<1>4. Ascending(I) = Ranked(I, R)  BY DEF Ascending
<1> HIDE DEF R
<1>5. /\ Cardinality(I) \in Nat
      /\ Ranked(I, R) \in [1..Cardinality(I) -> I]
      /\ \A m, n \in 1..Cardinality(I) : m < n => <<Ranked(I, R)[m], Ranked(I, R)[n]>> \in R
      /\ \A x \in I : \E n \in 1..Cardinality(I) : Ranked(I, R)[n] = x
  BY <1>1, <1>3, RankedIs
<1> QED BY <1>1, <1>2, <1>4, <1>5

(* M is what s holds at the indices I, in their order.                     *)
Picked(s, I, M) == \E f \in [DOMAIN M -> I] :
  /\ \A n \in DOMAIN M : M[n] = s[f[n]]
  /\ \A m, n \in DOMAIN M : m < n => f[m] < f[n]
  /\ \A i \in I : \E n \in DOMAIN M : f[n] = i

(* Select picks.                                                           *)
LEMMA SelectIs ==
  ASSUME NEW T, NEW s \in Seq(T), NEW I \in SUBSET (DOMAIN s)
  PROVE  /\ Select(s, I) \in Seq(T)
         /\ ToSet(Select(s, I)) = {s[i] : i \in I}
         /\ Picked(s, I, Select(s, I))
<1>1. Len(s) \in Nat /\ DOMAIN s = 1..Len(s)  OBVIOUS
<1>2. /\ Cardinality(I) \in Nat
      /\ Ascending(I) \in [1..Cardinality(I) -> I]
      /\ \A m, n \in 1..Cardinality(I) : m < n => Ascending(I)[m] < Ascending(I)[n]
      /\ \A i \in I : \E n \in 1..Cardinality(I) : Ascending(I)[n] = i
  BY <1>1, AscendingIs
<1>3. PICK f \in [1..Cardinality(I) -> I] : f = Ascending(I)  BY <1>2
<1>4. Select(s, I) = [n \in 1..Cardinality(I) |-> s[f[n]]]  BY <1>3 DEF Select
<1>5. \A n \in 1..Cardinality(I) : f[n] \in DOMAIN s /\ s[f[n]] \in T  BY <1>1
<1>6. DOMAIN Select(s, I) = 1..Cardinality(I)  BY <1>4
<1>7. Select(s, I) \in Seq(T)  BY <1>2, <1>4, <1>5
<1>8. ToSet(Select(s, I)) = {s[i] : i \in I}
  BY <1>2, <1>3, <1>4, <1>6 DEF ToSet
<1>9. Picked(s, I, Select(s, I))  BY <1>2, <1>3, <1>4, <1>6 DEF Picked
<1> QED BY <1>7, <1>8, <1>9

-----------------------------------------------------------------------------
(* What the gateway has kept.                                              *)
LEMMA MinOfTwo ==
  ASSUME NEW m \in Nat, NEW n \in Nat
  PROVE  Min({m, n}) \in Nat /\ Min({m, n}) <= m /\ Min({m, n}) <= n
<1>1. \E x \in {m, n} : \A y \in {m, n} : x <= y  OBVIOUS
<1> QED BY <1>1 DEF Min

(* An entry under the version of the main file holds what that holds.      *)
CacheInv ==
  /\ held \in BOOLEAN /\ wal \in BOOLEAN /\ (wal => held)
  /\ stamp \in Nat
  /\ cache \in Seq(ToSet(cache))
  /\ \A x \in ToSet(cache) : /\ x.key.file \in Nat /\ x.key.file <= stamp
                             /\ x.key.file = stamp /\ ~wal => x.rows = rows

(* Nothing is kept but what was kept, and what was just read.              *)
LEMMA CacheAfterIs ==
  ASSUME cache \in Seq(ToSet(cache)), NEW key
  PROVE  /\ CacheAfter(key) \in Seq(ToSet(CacheAfter(key)))
         /\ ToSet(CacheAfter(key)) \subseteq ToSet(cache) \cup {[key |-> key, rows |-> ReadCached(key)]}
<1> DEFINE new == [key |-> key, rows |-> ReadCached(key)]
<1>1. PICK T : T = ToSet(cache) \cup {new}  OBVIOUS
<1>2. PICK rest : rest = IF Kept(key) = {} THEN cache ELSE RemoveAt(cache, Hit(key))  OBVIOUS
<1>3. cache \in Seq(T)  BY <1>1
<1>4. rest \in Seq(T)
  <2>1. CASE Kept(key) = {}  BY <1>2, <1>3, <2>1
  <2>2. CASE Kept(key) # {}
    <3>1. Hit(key) \in 1..Len(cache)  BY <2>2, <1>3 DEF Hit, Kept
    <3>2. PICK i \in 1..Len(cache) : i = Hit(key)  BY <3>1
    <3>3. rest = SubSeq(cache, 1, i - 1) \o SubSeq(cache, i + 1, Len(cache))  BY <1>2, <2>2, <3>2 DEF RemoveAt
    <3>4. SubSeq(cache, 1, i - 1) \in Seq(T) /\ SubSeq(cache, i + 1, Len(cache)) \in Seq(T)
      BY <1>3
    <3> QED BY <3>3, <3>4
  <2> QED BY <2>1, <2>2
<1>5. PICK all : all = Append(rest, new)  OBVIOUS
<1>6. all \in Seq(T)  BY <1>1, <1>4, <1>5
<1>7. CacheAfter(key) = SubSeq(all, Len(all) - Min({Len(all), MaxEntries}) + 1, Len(all))
  BY <1>2, <1>5 DEF CacheAfter
<1>8. PICK m \in Nat : m = Min({Len(all), MaxEntries}) /\ m <= Len(all)
  BY <1>6, MinOfTwo, AnswersAssumption
<1>9. CacheAfter(key) = SubSeq(all, Len(all) - m + 1, Len(all))  BY <1>7, <1>8
<1>10. CacheAfter(key) \in Seq(T)
  <2>1. PICK k \in Nat : k = Len(all) - m + 1 /\ 1 <= k  BY <1>6, <1>8
  <2> QED BY <1>6, <1>9, <2>1, SubSeqProperties
<1>11. ToSet(CacheAfter(key)) \subseteq T  BY <1>10 DEF ToSet
<1>12. CacheAfter(key) \in Seq(ToSet(CacheAfter(key)))  BY <1>10 DEF ToSet
<1> QED BY <1>1, <1>11, <1>12

(* A write leaves the main file newer, or its row in the log beside it.    *)
LEMMA WrittenKeeps ==
  ASSUME CacheInv, NEW L, Written(L), held' = held, cache' \in Seq(ToSet(cache')),
         NEW key, key.file = stamp,
         ToSet(cache') \subseteq ToSet(cache) \cup {[key |-> key, rows |-> ReadCached(key)]}
  PROVE  CacheInv'
<1>1. ~wal => ReadCached(key) = rows
  <2>1. CASE Kept(key) = {}  BY <2>1 DEF ReadCached
  <2>2. CASE Kept(key) # {}
    <3>1. Hit(key) \in DOMAIN cache /\ cache[Hit(key)].key = key  BY <2>2 DEF Hit, Kept
    <3>2. PICK i \in DOMAIN cache : i = Hit(key)  BY <3>1
    <3>3. cache[i] \in ToSet(cache) /\ cache[i].key = key  BY <3>1, <3>2 DEF ToSet
    <3>4. ReadCached(key) = cache[i].rows  BY <2>2, <3>2 DEF ReadCached
    <3> QED BY <3>3, <3>4 DEF CacheInv
  <2> QED BY <2>1, <2>2
<1>2. \A x \in ToSet(cache') : /\ x.key.file \in Nat /\ x.key.file <= stamp
                               /\ x.key.file = stamp /\ ~wal => x.rows = rows
  <2> TAKE x \in ToSet(cache')
  <2>1. CASE x \in ToSet(cache)  BY <2>1 DEF CacheInv
  <2>2. CASE x = [key |-> key, rows |-> ReadCached(key)]
    <3>1. x.key = key /\ x.rows = ReadCached(key)  BY <2>2
    <3> QED BY <1>1, <3>1 DEF CacheInv
  <2> QED BY <2>1, <2>2
<1>3. held \in BOOLEAN /\ wal \in BOOLEAN /\ (wal => held) /\ stamp \in Nat  BY DEF CacheInv
<1>4. rows' = L /\ wal' = (wal \/ (held /\ L # rows)) /\ stamp' = IF held \/ L = rows THEN stamp ELSE stamp + 1
  BY DEF Written
<1>5. PICK C : C = ToSet(cache')  OBVIOUS
<1>6. CASE L = rows
  <2>1. rows' = rows /\ wal' = wal /\ stamp' = stamp  BY <1>3, <1>4, <1>6
  <2>2. \A x \in C : /\ x.key.file \in Nat /\ x.key.file <= stamp'
                     /\ x.key.file = stamp' /\ ~wal' => x.rows = rows'
    BY <1>2, <1>5, <2>1
  <2>3. held' \in BOOLEAN /\ wal' \in BOOLEAN /\ (wal' => held') /\ stamp' \in Nat  BY <1>3, <2>1
  <2>4. cache' \in Seq(C)  BY <1>5
  <2>5. wal' \in BOOLEAN /\ (wal' => held')  BY <2>3
  <2> QED BY <1>5, <2>2, <2>3, <2>4, <2>5 DEF CacheInv
<1>7. CASE L # rows /\ held
  <2>1. wal' = TRUE /\ stamp' = stamp  BY <1>4, <1>7
  <2> QED BY <1>2, <1>3, <1>7, <2>1 DEF CacheInv
<1>8. CASE L # rows /\ ~held
  <2>1. wal' = FALSE /\ stamp' = stamp + 1  BY <1>3, <1>4, <1>8
  <2>2. \A x \in C : x.key.file \in Nat /\ x.key.file <= stamp' /\ x.key.file # stamp'
    BY <1>2, <1>3, <1>5, <2>1
  <2>3. held' \in BOOLEAN /\ wal' \in BOOLEAN /\ (wal' => held')  BY <1>3, <2>1, Zenon
  <2>4. stamp' \in Nat /\ cache' \in Seq(C)  BY <1>3, <1>5, <2>1
  <2> QED BY <1>5, <2>2, <2>3, <2>4 DEF CacheInv
<1> QED BY <1>3, <1>6, <1>7, <1>8

(* A checkpoint moves the log into the main file, which is newer for it.   *)
LEMMA CheckpointKeeps ==
  ASSUME CacheInv, Checkpointed, UNCHANGED <<rows, cache>>, held' \in BOOLEAN
  PROVE  CacheInv'
<1>1. \A x \in ToSet(cache) : /\ x.key.file \in Nat /\ x.key.file <= stamp
                              /\ x.key.file = stamp /\ ~wal => x.rows = rows
  BY DEF CacheInv
<1>2. wal \in BOOLEAN /\ stamp \in Nat  BY DEF CacheInv
<1>3. wal' = FALSE /\ stamp' = IF wal THEN stamp + 1 ELSE stamp  BY DEF Checkpointed
<1>4. \A x \in ToSet(cache) : /\ x.key.file <= stamp'
                              /\ x.key.file = stamp' => x.rows = rows
  BY <1>1, <1>2, <1>3
<1>5. PICK C : C = ToSet(cache')  OBVIOUS
<1>6. C = ToSet(cache) /\ cache' \in Seq(C)  BY <1>5 DEF CacheInv
<1>7. \A x \in C : /\ x.key.file \in Nat /\ x.key.file <= stamp'
                   /\ x.key.file = stamp' /\ ~wal' => x.rows = rows'
  BY <1>1, <1>4, <1>6
<1>8. wal' \in BOOLEAN /\ (wal' => held')  BY <1>3, Zenon
<1>9. stamp' \in Nat  BY <1>2, <1>3
<1> QED BY <1>5, <1>6, <1>7, <1>8, <1>9 DEF CacheInv

(* Every step keeps it.                                                    *)
LEMMA CacheStep == CacheInv /\ [Next]_vars => CacheInv'
<1> SUFFICES ASSUME CacheInv, [Next]_vars PROVE CacheInv'  OBVIOUS
<1>a. PICK key : key = CacheKey(0)  OBVIOUS
<1>1. key.file = stamp  BY <1>a DEF CacheKey
<1>2. ASSUME UNCHANGED file PROVE Written(rows)
  BY <1>2 DEF Written, file, CacheInv
<1>3. ASSUME NEW L, Written(L), UNCHANGED <<held, cache>> PROVE CacheInv'
  <2>1. cache' \in Seq(ToSet(cache')) /\ ToSet(cache') = ToSet(cache)  BY <1>3 DEF CacheInv
  <2> QED BY <1>1, <1>3, <2>1, WrittenKeeps
<1>4. CASE \E x \in Work[scene] : Act(x)
  <2>1. UNCHANGED <<held, cache>>  BY <1>4 DEF Act
  <2>2. \E L : Written(L)
    <3>1. (\E e : Written(Append(rows, e))) \/ UNCHANGED file  BY <1>4 DEF Act
    <3> QED BY <1>2, <3>1
  <2> QED BY <1>3, <2>1, <2>2
<1>5. CASE \E e \in journal : Ingest(e)
  <2>1. UNCHANGED <<held, cache>> /\ \E L : Written(L)  BY <1>5 DEF Ingest
  <2> QED BY <1>3, <2>1
<1>6. CASE Tick \/ OpenDaemon \/ Poll \/ UNCHANGED vars
  <2>1. UNCHANGED <<file, cache>> /\ held' \in BOOLEAN /\ (held => held')
    BY <1>6 DEF Tick, OpenDaemon, Poll, vars, CacheInv, file
  <2> QED BY <2>1 DEF CacheInv, file
<1>7. CASE \E w \in Windows : Ask(w)
  <2>1. PICK w \in Windows : Ask(w)  BY <1>7
  <2>2. PICK k : k = CacheKey(Since(w))  OBVIOUS
  <2>3. k.file = stamp  BY <2>2 DEF CacheKey
  <2>4. held' = held /\ cache' = CacheAfter(k) /\ \E L : Written(L)
    <3>1. UNCHANGED file \/ \E L : Written(L)  BY <2>1 DEF Ask
    <3> QED BY <1>2, <2>1, <2>2, <3>1 DEF Ask
  <2>5. /\ CacheAfter(k) \in Seq(ToSet(CacheAfter(k)))
        /\ ToSet(CacheAfter(k)) \subseteq ToSet(cache) \cup {[key |-> k, rows |-> ReadCached(k)]}
    BY CacheAfterIs DEF CacheInv
  <2> QED BY <2>3, <2>4, <2>5, WrittenKeeps
<1>8. CASE CloseDaemon \/ Checkpoint
  <2>1. Checkpointed /\ UNCHANGED <<rows, cache>> /\ held' \in BOOLEAN
    BY <1>8 DEF CloseDaemon, Checkpoint, CacheInv
  <2> QED BY <2>1, CheckpointKeeps
<1>9. CASE Prune
  <2>1. UNCHANGED <<held, cache>> /\ \E L : Written(L)  BY <1>9 DEF Prune
  <2> QED BY <1>3, <2>1
<1> QED BY <1>4, <1>5, <1>6, <1>7, <1>8, <1>9 DEF Next

(* While no other process holds the ledger open, a window the gateway kept *)
(* under the size and time of the main file is what it would read: every   *)
(* connection that wrote has closed, and moved its rows into that file     *)
(* (event-cache.ts, cacheKey; database.ts, openDatabase).                  *)
THEOREM CacheProven == Spec => []CacheExact
<1>1. Init => CacheInv
  <2> SUFFICES ASSUME Init PROVE CacheInv  OBVIOUS
  <2>1. cache = <<>> /\ held = FALSE /\ wal = FALSE /\ stamp = 0  BY DEF Init
  <2>2. ToSet(cache) = {} /\ cache \in Seq({})  BY <2>1 DEF ToSet
  <2> QED BY <2>1, <2>2 DEF CacheInv
<1>2. CacheInv => CacheExact
  <2> SUFFICES ASSUME CacheInv, ~held, NEW w \in Windows PROVE ReadCached(CacheKey(Since(w))) = rows
    BY DEF CacheExact
  <2>1. PICK k : k = CacheKey(Since(w))  OBVIOUS
  <2>2. k.file = stamp  BY <2>1 DEF CacheKey
  <2>3. CASE Kept(k) = {}  BY <2>1, <2>3 DEF ReadCached
  <2>4. CASE Kept(k) # {}
    <3>1. Hit(k) \in DOMAIN cache /\ cache[Hit(k)].key = k  BY <2>4 DEF Hit, Kept
    <3>2. PICK i \in DOMAIN cache : i = Hit(k)  BY <3>1
    <3>3. cache[i] \in ToSet(cache) /\ cache[i].key = k  BY <3>1, <3>2 DEF ToSet
    <3>4. ReadCached(k) = cache[i].rows  BY <2>4, <3>2 DEF ReadCached
    <3> QED BY <2>1, <2>2, <3>3, <3>4 DEF CacheInv
  <2> QED BY <2>3, <2>4
<1> QED BY <1>1, <1>2, CacheStep, PTL DEF Spec

-----------------------------------------------------------------------------
(* The answer.                                                             *)
LEMMA Least ==
  ASSUME NEW S, S \subseteq Nat, S # {}
  PROVE  \E n \in S : \A m \in S : n <= m
<1>1. IsWellFoundedOn(OpToRel(<, Nat), Nat)  BY NatLessThanWellFounded
<1>2. \E n \in S : \A m \in S : ~ (<<m, n>> \in OpToRel(<, Nat))
  BY <1>1, WFMin, Zenon
<1>3. \A m, n \in Nat :
        <<m, n>> \in OpToRel(<, Nat) <=> <<m, n>> \in {ss \in Nat \X Nat : ss[1] < ss[2]}
  BY Zenon DEF OpToRel
<1>4. \E n \in S : \A m \in S : ~ (<<m, n>> \in {ss \in Nat \X Nat : ss[1] < ss[2]})
  BY <1>2, <1>3, Zenon
<1>5. PICK n \in S : \A m \in S : ~ (<<m, n>> \in {ss \in Nat \X Nat : ss[1] < ss[2]})
  BY <1>4
<1>6. ASSUME NEW m \in S PROVE n <= m
  <2>1. m \in Nat /\ n \in Nat  OBVIOUS
  <2>2. ~ (m < n)  BY <1>5, <2>1
  <2> QED  BY <2>1, <2>2
<1> QED  BY <1>6

(* A bounded set of numbers has a least and a greatest one.                *)
LEMMA Extremes ==
  ASSUME NEW b \in Nat, NEW S, S \subseteq 0..b, S # {}
  PROVE  /\ Min(S) \in S /\ \A x \in S : Min(S) <= x
         /\ Max(S) \in S /\ \A x \in S : x <= Max(S)
<1>a. S \subseteq Nat  OBVIOUS
<1>1. \E n \in S : \A m \in S : n <= m  BY <1>a, Least
<1>2. \E n \in S : \A m \in S : n >= m
  <2> DEFINE D == {b - x : x \in S}
  <2>0. \A x \in S : x \in Nat /\ x <= b  OBVIOUS
  <2>1. D \subseteq Nat /\ D # {}
    <3>1. \A x \in S : b - x \in Nat  BY <2>0
    <3> QED BY <3>1
  <2>2. PICK d \in D : \A m \in D : d <= m  BY <2>1, Least
  <2>3. PICK n \in S : d = b - n  BY <2>2
  <2>4. \A m \in S : b - n <= b - m  BY <2>2, <2>3
  <2>5. \A m \in S : n >= m  BY <2>0, <2>4
  <2> QED BY <2>5
<1> QED BY <1>1, <1>2 DEF Min, Max

(* Finite images.                                                          *)
LEMMA Images ==
  ASSUME NEW S, IsFiniteSet(S), NEW f, f = [x \in S |-> f[x]]
  PROVE  IsFiniteSet({f[x] : x \in S})
<1>1. f \in Surjection(S, {f[x] : x \in S})  BY DEF Surjection
<1> QED BY <1>1, FS_Surjection

(* A window is what is young enough of the rows, in their order.           *)
LEMMA WindowIs ==
  ASSUME NEW R, NEW L \in Seq(R), NEW since, NEW types
  PROVE  /\ ReadWindow(L, since, types) \in Seq(R)
         /\ ToSet(ReadWindow(L, since, types)) = {e \in ToSet(L) : e.type \in types /\ e.at >= since}
<1> DEFINE I == {i \in DOMAIN L : L[i].type \in types /\ L[i].at >= since}
<1>1. I \in SUBSET (DOMAIN L)  OBVIOUS
<1>2. ReadWindow(L, since, types) = Select(L, I)  BY DEF ReadWindow
<1>3. Select(L, I) \in Seq(R) /\ ToSet(Select(L, I)) = {L[i] : i \in I}
  <2> HIDE DEF I
  <2> QED BY <1>1, SelectIs
<1>4. {L[i] : i \in I} = {e \in ToSet(L) : e.type \in types /\ e.at >= since}  BY DEF ToSet
<1> QED BY <1>2, <1>3, <1>4

(* The changes asked about are those of the window by somebody.            *)
LEMMA TouchesAre ==
  ASSUME NEW R, NEW W \in Seq(R), NEW q
  PROVE  /\ Touches(W, q) \in Seq(R)
         /\ \A e : e \in ToSet(Touches(W, q)) <=>
                     /\ e \in ToSet(W) /\ e.type = "file.changed"
                     /\ (e.task # None \/ Known(e)) /\ q.path \in {None, e.what}
<1> DEFINE I == {i \in DOMAIN W : /\ W[i].type = "file.changed" /\ (W[i].task # None \/ Known(W[i]))
                                  /\ q.path \in {None, W[i].what}}
<1>1. I \in SUBSET (DOMAIN W)  OBVIOUS
<1>2. Touches(W, q) = Select(W, I)  BY DEF Touches
<1>3. Select(W, I) \in Seq(R) /\ ToSet(Select(W, I)) = {W[i] : i \in I}
  <2> HIDE DEF I
  <2> QED BY <1>1, SelectIs
<1>4. {W[i] : i \in I} =
        {e \in ToSet(W) : e.type = "file.changed" /\ (e.task # None \/ Known(e)) /\ q.path \in {None, e.what}}
  BY DEF ToSet
<1> QED BY <1>2, <1>3, <1>4

(* The answer of a window: its contested files, from the latest.           *)
AnswerOf(L, q, W, T, F, all) ==
  /\ W = ReadWindow(L, q.since, {"tool.requested", "file.changed"})
  /\ T = Touches(W, q)
  /\ F = Contested(W, T, q) /\ IsFiniteSet(F)
  /\ all \in Seq(ToSet(all)) /\ Len(all) = Cardinality(F)
  /\ \A n \in DOMAIN all : all[n] = Overlap(L, W, T, ByLatest(T, F)[n])
  /\ FindOverlappingWork(L, q).overlaps = SubSeq(all, 1, Min({Len(all), q.limit}))
  /\ FindOverlappingWork(L, q).truncated = Len(all) - Len(SubSeq(all, 1, Min({Len(all), q.limit})))

(* Every question has such an answer.                                      *)
LEMMA AnswerIs ==
  ASSUME NEW R, NEW L \in Seq(R), NEW q
  PROVE  \E W \in Seq(R), T \in Seq(R) : \E F, all : AnswerOf(L, q, W, T, F, all)
<1>1. PICK W \in Seq(R) : W = ReadWindow(L, q.since, {"tool.requested", "file.changed"})
  BY WindowIs
<1>2. PICK T \in Seq(R) : T = Touches(W, q)  BY TouchesAre
<1>3. PICK F : F = Contested(W, T, q)  OBVIOUS
<1>4. IsFiniteSet(F)
  <2> DEFINE f == [i \in DOMAIN T |-> T[i].what]
  <2>1. IsFiniteSet(1..Len(T))  BY FS_Interval, 1 \in Int, Len(T) \in Int
  <2>2. DOMAIN T = 1..Len(T)  OBVIOUS
  <2>3. IsFiniteSet({f[i] : i \in DOMAIN T})
    <3>1. f = [i \in DOMAIN T |-> f[i]]  OBVIOUS
    <3> HIDE DEF f
    <3> QED BY <2>1, <2>2, <3>1, Images
  <2>4. {f[i] : i \in DOMAIN T} = {T[i].what : i \in DOMAIN T}  OBVIOUS
  <2>5. F \subseteq {T[i].what : i \in DOMAIN T}  BY <1>3 DEF Contested, Shared
  <2> QED BY <2>3, <2>4, <2>5, FS_Subset
<1>5. Cardinality(F) \in Nat  BY <1>4, FS_CardinalityType
<1>6. PICK files : files = ByLatest(T, F)  OBVIOUS
<1>7. DOMAIN files = 1..Cardinality(F)  BY <1>6 DEF ByLatest, Ranked
<1>8. PICK all : all = [n \in DOMAIN files |-> Overlap(L, W, T, files[n])]  OBVIOUS
<1>9. all \in Seq(ToSet(all)) /\ Len(all) = Cardinality(F)
  <2>1. DOMAIN all = 1..Cardinality(F)  BY <1>7, <1>8
  <2>2. all = [n \in 1..Cardinality(F) |-> all[n]]  BY <1>8, <2>1
  <2>3. PICK N \in Nat : N = Cardinality(F)  BY <1>5
  <2>4. PICK X : X = ToSet(all)  OBVIOUS
  <2>5. \A n \in 1..N : all[n] \in X  BY <2>1, <2>3, <2>4 DEF ToSet
  <2>6. all \in [1..N -> X]  BY <2>2, <2>3, <2>5
  <2>7. all \in Seq(X) /\ Len(all) = N  BY <2>6
  <2> QED BY <2>3, <2>4, <2>7
<1>10. \A n \in DOMAIN all : all[n] = Overlap(L, W, T, ByLatest(T, F)[n])  BY <1>6, <1>8
<1>11. /\ FindOverlappingWork(L, q).overlaps = SubSeq(all, 1, Min({Len(all), q.limit}))
       /\ FindOverlappingWork(L, q).truncated = Len(all) - Len(SubSeq(all, 1, Min({Len(all), q.limit})))
  BY <1>1, <1>2, <1>3, <1>6, <1>8, Zenon DEF FindOverlappingWork
<1>12. AnswerOf(L, q, W, T, F, all)  BY <1>1, <1>2, <1>3, <1>4, <1>9, <1>10, <1>11, Zenon DEF AnswerOf
<1> QED BY <1>12

-----------------------------------------------------------------------------
(* What is in the ledger was done.                                         *)
Finding(e) == /\ e.type = "finding.created" /\ \E x, y : e.id = <<"finding", x, y>>
ActIs(e, n) == /\ e.id = <<"evt", n>> /\ e.at \in 0..now /\ e.type # "finding.created"

(* A ledger L of findings, and of acts A but those of the journal J, once. *)
Fits(L, A, J) ==
  /\ L \in Seq(ToSet(L))
  /\ \A e \in ToSet(L) : Finding(e) \/ e \in ToSet(A) \ J
  /\ \A i, j \in DOMAIN L : L[i].id = L[j].id /\ ~Finding(L[i]) => i = j

(* What is kept are windows.                                               *)
Windowed(C) == C \in Seq(ToSet(C)) /\ \A x \in ToSet(C) : x.rows \in Seq(ToSet(x.rows))

ActsInv ==
  /\ now \in Nat /\ scene \in Scenes
  /\ acts \in Seq(ToSet(acts)) /\ \A n \in DOMAIN acts : ActIs(acts[n], n)
  /\ journal \subseteq ToSet(acts) /\ \A e \in journal : e.type = "file.changed"
  /\ Fits(rows, acts, journal)
  /\ Windowed(cache)

(* Nobody has seen what overlaps when everybody came after the other.      *)
LEMMA QuietNow == ActsInv => HandOffQuiet
<1> SUFFICES ASSUME ActsInv, HandedOver, NEW w \in Windows
             PROVE  FindOverlappingWork(rows, Question(Since(w))).overlaps = <<>>
  BY DEF HandOffQuiet
<1>1. PICK q : q = Question(Since(w))  OBVIOUS
<1>2. PICK R : R = ToSet(rows)  OBVIOUS
<1>3. rows \in Seq(R)  BY <1>2 DEF ActsInv, Fits
<1>4. PICK W \in Seq(R), T \in Seq(R) : \E F, all : AnswerOf(rows, q, W, T, F, all)  BY <1>3, AnswerIs
<1>5. PICK F, all : AnswerOf(rows, q, W, T, F, all)  BY <1>4
<1>6. /\ W = ReadWindow(rows, q.since, {"tool.requested", "file.changed"})
      /\ T = Touches(W, q) /\ F = Contested(W, T, q)
      /\ all \in Seq(ToSet(all)) /\ Len(all) = Cardinality(F)
      /\ FindOverlappingWork(rows, q).overlaps = SubSeq(all, 1, Min({Len(all), q.limit}))
  BY <1>5 DEF AnswerOf
<1>7. ToSet(W) = {e \in R : e.type \in {"tool.requested", "file.changed"} /\ e.at >= q.since}
  BY <1>2, <1>3, <1>6, WindowIs
<1>8. ToSet(T) \subseteq ToSet(W)  BY <1>6, TouchesAre
<1>9. PICK A : A = ToSet(acts)  OBVIOUS
<1>10. \A e \in A : e.at \in 0..now /\ e.type # "finding.created"
  BY <1>9 DEF ActsInv, ActIs, ToSet
<1>11. ToSet(W) \subseteq A  BY <1>2, <1>7, <1>9 DEF ActsInv, Fits, Finding
<1>12. now \in Nat  BY DEF ActsInv
<1>13. ASSUME NEW i \in DOMAIN T, NEW j \in DOMAIN T, Contends(W, T, i, j) PROVE FALSE
  <2>1. PICK e : e = T[i]  OBVIOUS
  <2>2. PICK d : d = T[j]  OBVIOUS
  <2>3. e \in A /\ d \in A  BY <1>8, <1>11, <2>1, <2>2 DEF ToSet
  <2>4. /\ Known(e) /\ Known(d) /\ Worker(e) # Worker(d)
        /\ \E t \in Activity(W, Worker(e)) : t <= d.at
        /\ \E t \in Activity(W, Worker(e)) : t > d.at
    BY <1>13, <2>1, <2>2 DEF Contends, StillThere
  <2>5. Activity(W, Worker(e)) \subseteq TimesOf(A, Worker(e))
    BY <1>11 DEF Activity, TimesOf
  <2>6. PICK X : X = TimesOf(A, Worker(e))  OBVIOUS
  <2>7. PICK Y : Y = TimesOf(A, Worker(d))  OBVIOUS
  <2>8. X \subseteq 0..now /\ Y \subseteq 0..now  BY <1>10, <2>6, <2>7 DEF TimesOf
  <2>9. d.at \in Y  BY <2>3, <2>7 DEF TimesOf
  <2>10. PICK t \in X : t <= d.at  BY <2>4, <2>5, <2>6
  <2>11. PICK u \in X : u > d.at  BY <2>4, <2>5, <2>6
  <2>12. /\ Min(X) \in X /\ Min(X) <= t /\ Max(X) \in X /\ u <= Max(X)
         /\ Min(Y) \in Y /\ Min(Y) <= d.at /\ Max(Y) \in Y /\ d.at <= Max(Y)
    BY <1>12, <2>8, <2>9, Extremes
  <2>13. Max(X) < Min(Y) \/ Max(Y) < Min(X)
    <3>1. Worker(e) \in Names(A) /\ Worker(d) \in Names(A)  BY <2>3, <2>4 DEF Names
    <3> QED BY <1>9, <2>4, <2>6, <2>7, <3>1 DEF HandedOver
  <2>14. 0..now \subseteq Nat  BY <1>12
  <2>15. X \subseteq Nat /\ Y \subseteq Nat  BY <2>8, <2>14
  <2>16. PICK a \in Nat, b \in Nat, c \in Nat, f \in Nat : a = Max(X) /\ b = Min(Y) /\ c = Max(Y) /\ f = Min(X)
    BY <2>12, <2>15
  <2>17. t \in Nat /\ u \in Nat /\ d.at \in Nat  BY <2>9, <2>15
  <2> QED BY <2>10, <2>11, <2>12, <2>13, <2>16, <2>17
<1>14. F = {}
  <2>1. \A f : FirstTouches(T, f) \subseteq DOMAIN T  BY DEF FirstTouches
  <2>2. \A f : Contending(W, T, FirstTouches(T, f)) = {}
    <3> SUFFICES ASSUME NEW f, NEW p \in Contending(W, T, FirstTouches(T, f)) PROVE FALSE  OBVIOUS
    <3>1. p[1] \in FirstTouches(T, f) /\ p[2] \in FirstTouches(T, f) /\ Contends(W, T, p[1], p[2])
      BY DEF Contending
    <3> QED BY <1>13, <2>1, <3>1
  <2> QED BY <1>6, <2>2 DEF Contested
<1>15. Len(all) = 0  BY <1>6, <1>14, FS_EmptySet
<1>16. all = <<>>  BY <1>6, <1>15
<1>17. q.limit \in Nat  BY <1>1, AnswersAssumption DEF Question
<1>18. Min({Len(all), q.limit}) = 0  BY <1>15, <1>17, MinOfTwo
<1> QED BY <1>1, <1>6, <1>16, <1>18

(* A ledger stays one of findings and acts, once each: when another act is *)
(* appended, when rows are pruned, when findings are appended.             *)
LEMMA FitsAppend ==
  ASSUME NEW L, NEW A, NEW J, Fits(L, A, J), NEW e \in ToSet(A) \ J,
         \A i \in DOMAIN L : L[i].id # e.id
  PROVE  Fits(Append(L, e), A, J)
<1> DEFINE M == Append(L, e)
<1>1. PICK R : R = ToSet(L) \cup {e}  OBVIOUS
<1>2. L \in Seq(R)  BY <1>1 DEF Fits
<1>3. /\ M \in Seq(R) /\ DOMAIN M = 1..(Len(L) + 1) /\ M[Len(L) + 1] = e
      /\ \A i \in 1..Len(L) : M[i] = L[i]
  BY <1>1, <1>2
<1>4. DOMAIN L = 1..Len(L) /\ Len(L) \in Nat  BY <1>2
<1> HIDE DEF M
<1>5. ToSet(M) \subseteq R  BY <1>3 DEF ToSet
<1>6. M \in Seq(ToSet(M))  BY <1>3 DEF ToSet
<1>7. \A x \in ToSet(M) : Finding(x) \/ x \in ToSet(A) \ J  BY <1>1, <1>5 DEF Fits
<1>8. ASSUME NEW i \in DOMAIN M, NEW j \in DOMAIN M, M[i].id = M[j].id, ~Finding(M[i]) PROVE i = j
  <2>1. i \in DOMAIN L \/ i = Len(L) + 1  BY <1>3, <1>4
  <2>2. j \in DOMAIN L \/ j = Len(L) + 1  BY <1>3, <1>4
  <2> QED BY <1>3, <1>4, <1>8, <2>1, <2>2 DEF Fits
<1> QED BY <1>6, <1>7, <1>8 DEF Fits, M

LEMMA FitsSelect ==
  ASSUME NEW L, NEW A, NEW J, Fits(L, A, J), NEW I \in SUBSET (DOMAIN L)
  PROVE  Fits(Select(L, I), A, J)
<1>1. PICK R : R = ToSet(L)  OBVIOUS
<1>2. L \in Seq(R)  BY <1>1 DEF Fits
<1>3. PICK M : M = Select(L, I)  OBVIOUS
<1>4. M \in Seq(R) /\ ToSet(M) = {L[i] : i \in I}  BY <1>2, <1>3, SelectIs
<1>5. PICK f \in [DOMAIN M -> I] :
        /\ \A n \in DOMAIN M : M[n] = L[f[n]]
        /\ \A m, n \in DOMAIN M : m < n => f[m] < f[n]
  <2>1. Picked(L, I, M)  BY <1>2, <1>3, SelectIs
  <2> QED BY <2>1 DEF Picked
<1>6. M \in Seq(ToSet(M)) /\ ToSet(M) \subseteq R  BY <1>4 DEF ToSet
<1>7. \A x \in ToSet(M) : Finding(x) \/ x \in ToSet(A) \ J  BY <1>1, <1>6 DEF Fits
<1>8. ASSUME NEW i \in DOMAIN M, NEW j \in DOMAIN M, M[i].id = M[j].id, ~Finding(M[i]) PROVE i = j
  <2>1. f[i] = f[j]  BY <1>5, <1>8 DEF Fits
  <2>2. f[i] \in Nat /\ i \in Nat /\ j \in Nat
    <3>1. DOMAIN L = 1..Len(L) /\ DOMAIN M = 1..Len(M)  BY <1>2, <1>4
    <3>2. f[i] \in 1..Len(L)  BY <3>1
    <3> QED BY <3>1, <3>2
  <2>3. ~(f[i] < f[j]) /\ ~(f[j] < f[i])  BY <2>1, <2>2
  <2>4. ~(i < j) /\ ~(j < i)  BY <1>5, <2>3
  <2> QED BY <2>2, <2>4
<1> QED BY <1>3, <1>6, <1>7, <1>8 DEF Fits

(* Findings are appended to the ledger.                                    *)
LEMMA PersistIs ==
  ASSUME NEW L, NEW X, NEW overlaps \in Seq(X), NEW t
  PROVE  \E N : /\ N \in Seq(ToSet(N)) /\ PersistFindings(L, overlaps, t) = L \o N
                /\ \A k \in DOMAIN N : Finding(N[k])
<1> DEFINE I == {k \in DOMAIN overlaps : \A i \in DOMAIN L : L[i].id # FindingRow(overlaps[k], t).id}
<1>1. PICK new \in Seq(X) : new = Select(overlaps, I)
  <2>1. I \in SUBSET (DOMAIN overlaps)  OBVIOUS
  <2> HIDE DEF I
  <2> QED BY <2>1, SelectIs
<1>2. PICK N : N = [k \in DOMAIN new |-> FindingRow(new[k], t)]  OBVIOUS
<1>3. PersistFindings(L, overlaps, t) = L \o N  BY <1>1, <1>2 DEF PersistFindings
<1>4. \A k \in DOMAIN N : Finding(N[k])  BY <1>2 DEF FindingRow, Finding
<1>5. N \in Seq(ToSet(N))
  <2>1. PICK n \in Nat : n = Len(new)  OBVIOUS
  <2>2. N = [k \in 1..n |-> N[k]]  BY <1>2, <2>1
  <2>3. PICK Y : Y = ToSet(N)  OBVIOUS
  <2>4. \A k \in 1..n : N[k] \in Y  BY <2>2, <2>3 DEF ToSet
  <2>5. N \in [1..n -> Y]  BY <2>2, <2>4
  <2> QED BY <2>1, <2>3, <2>5
<1> QED BY <1>3, <1>4, <1>5

LEMMA FitsFindings ==
  ASSUME NEW L, NEW A, NEW J, Fits(L, A, J), \A a \in ToSet(A) : a.id \in {"evt"} \X Nat,
         NEW N, N \in Seq(ToSet(N)), \A k \in DOMAIN N : Finding(N[k])
  PROVE  Fits(L \o N, A, J)
<1>5. PICK R : R = ToSet(L) \cup ToSet(N)  OBVIOUS
<1>6. N \in Seq(R) /\ L \in Seq(R)  BY <1>5 DEF Fits
<1>7. PICK M : M = L \o N  OBVIOUS
<1>8. /\ M \in Seq(R) /\ DOMAIN M = 1..(Len(L) + Len(N))
      /\ \A i \in 1..Len(L) : M[i] = L[i]
      /\ \A i \in (Len(L) + 1)..(Len(L) + Len(N)) : M[i] = N[i - Len(L)]
  BY <1>6, <1>7
<1>9. DOMAIN L = 1..Len(L) /\ Len(L) \in Nat /\ DOMAIN N = 1..Len(N) /\ Len(N) \in Nat  BY <1>6
<1>10. ToSet(M) \subseteq R /\ M \in Seq(ToSet(M))  BY <1>8 DEF ToSet
<1>11. \A x \in R : Finding(x) \/ x \in ToSet(A) \ J  BY <1>5 DEF Fits, ToSet
<1>12. \A i \in DOMAIN M : (i \in DOMAIN L /\ M[i] = L[i]) \/ Finding(M[i])
  <2> SUFFICES ASSUME NEW i \in DOMAIN M, i \notin 1..Len(L) PROVE Finding(M[i])  BY <1>8, <1>9
  <2>1. i \in (Len(L) + 1)..(Len(L) + Len(N))  BY <1>8, <1>9
  <2>2. i - Len(L) \in DOMAIN N  BY <1>9, <2>1
  <2> QED BY <1>8, <2>1, <2>2
<1>13. \A x, y : Finding(y) /\ x.id = y.id => x \notin ToSet(A)
  BY DEF Finding
<1>14. ASSUME NEW i \in DOMAIN M, NEW j \in DOMAIN M, M[i].id = M[j].id, ~Finding(M[i]) PROVE i = j
  <2>1. i \in DOMAIN L /\ M[i] = L[i]  BY <1>12, <1>14
  <2>2. M[i] \in ToSet(A)  BY <1>10, <1>11, <1>14 DEF ToSet
  <2>3. ~Finding(M[j])  BY <1>13, <1>14, <2>2
  <2>4. j \in DOMAIN L /\ M[j] = L[j]  BY <1>12, <2>3
  <2> QED BY <1>14, <2>1, <2>4 DEF Fits
<1> QED BY <1>7, <1>10, <1>11, <1>14 DEF Fits

(* What is done next has an id of its own.                                 *)
LEMMA DoneIs ==
  ASSUME ActsInv, NEW x, x.type # "finding.created", NEW e \in Done(x)
  PROVE  ActIs(e, Len(acts) + 1) /\ e.type = x.type
<1> DEFINE b == [id |-> <<"evt", Len(acts) + 1>>, type |-> x.type, at |-> now,
                 agent |-> x.agent, wt |-> x.wt, task |-> x.task, src |-> x.src, what |-> x.what]
           C == {[b EXCEPT !.what = [request |-> r.id, failed |-> x.what], !.task = r.task] : r \in Open(x.agent)}
           D == {[b EXCEPT !.agent = None, !.what = [target |-> d.id, agent |-> x.agent, task |-> x.what]] :
                   d \in {y \in ToSet(acts) : y.type = "file.changed"}}
<1>1. Done(x) = CASE x.type = "tool.completed" -> C
                  [] x.type = "attribution.corrected" -> D
                  [] OTHER -> {b}
  BY DEF Done
<1>2. \A y \in C \cup D \cup {b} : y.id = b.id /\ y.type = b.type /\ y.at = b.at  OBVIOUS
<1>3. Done(x) = C \/ Done(x) = D \/ Done(x) = {b}
  <2> HIDE DEF C, D, b
  <2>1. CASE x.type = "tool.completed"  BY <1>1, <2>1
  <2>2. CASE x.type = "attribution.corrected"  BY <1>1, <2>2
  <2>3. CASE x.type # "tool.completed" /\ x.type # "attribution.corrected"  BY <1>1, <2>3
  <2> QED BY <2>1, <2>2, <2>3
<1>4. e.id = b.id /\ e.type = b.type /\ e.at = b.at
  <2> HIDE DEF C, D, b
  <2> QED BY <1>2, <1>3
<1>5. now \in 0..now  BY DEF ActsInv
<1> QED BY <1>4, <1>5 DEF ActIs

(* The acts have ids of their own, and none is a finding.                  *)
LEMMA ActIds ==
  ASSUME ActsInv
  PROVE  /\ \A a \in ToSet(acts) : a.id \in {"evt"} \X (1..Len(acts)) /\ ~Finding(a)
         /\ \A a, b \in ToSet(acts) : a.id = b.id => a = b
         /\ DOMAIN acts = 1..Len(acts) /\ Len(acts) \in Nat
<1>1. DOMAIN acts = 1..Len(acts) /\ Len(acts) \in Nat  BY DEF ActsInv
<1>2. \A n \in DOMAIN acts : acts[n].id = <<"evt", n>> /\ ~Finding(acts[n])
  BY DEF ActsInv, ActIs, Finding
<1>3. \A a \in ToSet(acts) : \E n \in 1..Len(acts) : a = acts[n]  BY <1>1 DEF ToSet
<1>4. \A a \in ToSet(acts) : a.id \in {"evt"} \X (1..Len(acts)) /\ ~Finding(a)
  <2> TAKE a \in ToSet(acts)
  <2>1. PICK n \in 1..Len(acts) : a = acts[n]  BY <1>3
  <2>2. a.id = <<"evt", n>> /\ ~Finding(a)  BY <1>1, <1>2, <2>1
  <2> QED BY <2>2
<1>5. ASSUME NEW a \in ToSet(acts), NEW b \in ToSet(acts), a.id = b.id PROVE a = b
  <2>1. PICK n \in 1..Len(acts) : a = acts[n]  BY <1>3
  <2>2. PICK m \in 1..Len(acts) : b = acts[m]  BY <1>3
  <2>3. <<"evt", n>> = <<"evt", m>>  BY <1>1, <1>2, <1>5, <2>1, <2>2
  <2> QED BY <2>1, <2>2, <2>3
<1> QED BY <1>1, <1>4, <1>5

(* No row of the ledger has the id of an act that is not in it.            *)
LEMMA FreshIs ==
  ASSUME ActsInv, NEW e, NEW n \in Nat, e.id = <<"evt", n>>,
         \A a \in ToSet(acts) \ journal : a.id # e.id
  PROVE  \A i \in DOMAIN rows : rows[i].id # e.id
<1> SUFFICES ASSUME NEW i \in DOMAIN rows PROVE rows[i].id # e.id  OBVIOUS
<1>1. rows[i] \in ToSet(rows)  BY DEF ToSet
<1>2. Finding(rows[i]) \/ rows[i] \in ToSet(acts) \ journal  BY <1>1 DEF ActsInv, Fits
<1>3. CASE Finding(rows[i])  BY <1>3 DEF Finding
<1> QED BY <1>2, <1>3

(* An act is appended, and to the ledger or the journal.                   *)
ActNew(e) ==
  /\ acts' = Append(acts, e) /\ ActIs(e, Len(acts) + 1) /\ e \notin ToSet(acts)
  /\ \A a \in ToSet(acts) : a.id # e.id
  /\ \/ Written(Append(rows, e)) /\ UNCHANGED journal
     \/ e.type = "file.changed" /\ journal' = journal \cup {e} /\ UNCHANGED file
  /\ UNCHANGED <<scene, now, cache, follower>>

(* What Act does.                                                          *)
LEMMA ActIsNew ==
  ASSUME ActsInv, NEW x \in Work[scene], Act(x)
  PROVE  \E e : ActNew(e)
<1>1. PICK e \in Done(x) :
        /\ acts' = Append(acts, e)
        /\ \/ Written(Append(rows, e)) /\ UNCHANGED journal
           \/ x.type = "file.changed" /\ journal' = journal \cup {e} /\ UNCHANGED file
  BY DEF Act
<1>2. x.type # "finding.created"  BY AnswersAssumption DEF ActsInv
<1>3. PICK n \in Nat : n = Len(acts) + 1  BY DEF ActsInv
<1>4. ActIs(e, n) /\ e.type = x.type  BY <1>2, <1>3, DoneIs
<1>5. e \notin ToSet(acts) /\ \A a \in ToSet(acts) : a.id # e.id
  <2>1. \A a \in ToSet(acts) : a.id \in {"evt"} \X (1..(n - 1))  BY <1>3, ActIds
  <2>2. e.id = <<"evt", n>>  BY <1>4 DEF ActIs
  <2> QED BY <2>1, <2>2
<1>6. UNCHANGED <<scene, now, cache, follower>>  BY DEF Act
<1>7. ActNew(e)  BY <1>1, <1>3, <1>4, <1>5, <1>6 DEF ActNew
<1> QED BY <1>7

(* An act keeps the invariant.                                             *)
LEMMA ActKeeps ==
  ASSUME ActsInv, NEW e, ActNew(e)
  PROVE  ActsInv'
<1>1. /\ acts' = Append(acts, e)
      /\ \/ Written(Append(rows, e)) /\ UNCHANGED journal
         \/ e.type = "file.changed" /\ journal' = journal \cup {e} /\ UNCHANGED file
  BY DEF ActNew
<1>3. PICK n \in Nat : n = Len(acts) + 1  BY DEF ActsInv
<1>4. ActIs(e, n)  BY <1>3 DEF ActNew
<1>5. now' = now /\ scene' = scene /\ cache' = cache  BY DEF ActNew
<1>6. PICK R : R = ToSet(acts) \cup {e}  OBVIOUS
<1>7. PICK A \in Seq(R) : /\ A = Append(acts, e) /\ ToSet(A) = R /\ A \in Seq(R) /\ DOMAIN A = 1..n /\ A[n] = e
                          /\ \A i \in DOMAIN acts : A[i] = acts[i]
  <2>1. acts \in Seq(R)  BY <1>6 DEF ActsInv
  <2>2. /\ Append(acts, e) \in Seq(R) /\ DOMAIN Append(acts, e) = 1..n /\ Append(acts, e)[n] = e
        /\ \A i \in DOMAIN acts : Append(acts, e)[i] = acts[i]
    BY <1>3, <1>6, <2>1
  <2>3. ToSet(Append(acts, e)) = R
    <3>1. DOMAIN acts = 1..(n - 1)  BY <1>3, <2>1
    <3>2. \A i \in 1..n : i \in DOMAIN acts \/ i = n  BY <3>1
    <3>3. DOMAIN acts \subseteq 1..n /\ n \in 1..n  BY <1>3, <3>1
    <3>4. PICK B : B = Append(acts, e)  OBVIOUS
    <3>5. /\ DOMAIN B = 1..n /\ B[n] = e /\ \A i \in DOMAIN acts : B[i] = acts[i]  BY <2>2, <3>4
    <3> QED BY <1>6, <3>2, <3>3, <3>4, <3>5 DEF ToSet
  <2> QED BY <2>2, <2>3
<1>8. \A i \in 1..n : ActIs(A[i], i)
  <2>1. DOMAIN acts = 1..(n - 1)  BY <1>3 DEF ActsInv
  <2>2. \A i \in 1..n : i \in DOMAIN acts \/ i = n  BY <2>1
  <2> QED BY <1>4, <1>7, <2>2 DEF ActsInv
<1>9. e \notin ToSet(acts) /\ e.id = <<"evt", n>> /\ \A a \in ToSet(acts) : a.id # e.id
  BY <1>4 DEF ActNew, ActIs
<1>10. journal \subseteq ToSet(acts) /\ \A y \in journal : y.type = "file.changed"  BY DEF ActsInv
<1>11. ASSUME NEW J, J \in {journal, journal \cup {e}} PROVE Fits(rows, A, J)
  <2>1. ToSet(acts) \ journal \subseteq R \ J  BY <1>6, <1>9, <1>11
  <2> QED BY <1>7, <2>1 DEF ActsInv, Fits
<1>12. PICK J, L : journal' = J /\ rows' = L  OBVIOUS
<1>13. Fits(L, A, J) /\ J \subseteq R /\ \A y \in J : y.type = "file.changed"
  <2>1. CASE Written(Append(rows, e)) /\ UNCHANGED journal
    <3>1. L = Append(rows, e) /\ J = journal  BY <1>12, <2>1 DEF Written
    <3>2. Fits(rows, A, J)  BY <1>11, <3>1
    <3>3. \A i \in DOMAIN rows : rows[i].id # e.id  BY <1>9, FreshIs
    <3>4. e \in ToSet(A) \ J  BY <1>6, <1>7, <1>9, <1>10, <3>1
    <3>5. Fits(L, A, J)  BY <3>1, <3>2, <3>3, <3>4, FitsAppend
    <3> QED BY <1>6, <1>10, <3>1, <3>5
  <2>2. CASE e.type = "file.changed" /\ journal' = journal \cup {e} /\ UNCHANGED file
    <3>1. L = rows /\ J = journal \cup {e}  BY <1>12, <2>2 DEF file
    <3>2. Fits(rows, A, J)  BY <1>11, <3>1
    <3> QED BY <1>6, <1>10, <2>2, <3>1, <3>2
  <2> QED BY <1>1, <2>1, <2>2
<1>14. acts' = A /\ journal' = J /\ rows' = L /\ now' = now  BY <1>1, <1>5, <1>7, <1>12
<1>15. \A i \in DOMAIN A : ActIs(A[i], i)'  BY <1>7, <1>8, <1>14 DEF ActIs
<1>16. now \in Nat /\ scene \in Scenes  BY DEF ActsInv
<1>17. Fits(L, A, J)'  BY <1>13 DEF Fits, Finding
<1>18. PICK C : cache' = C /\ Windowed(C)  BY <1>5 DEF ActsInv
<1> QED BY <1>5, <1>7, <1>12, <1>13, <1>14, <1>15, <1>16, <1>17, <1>18 DEF ActsInv

(* The same acts, and a ledger and a journal of them.                      *)
LEMMA SameActs ==
  ASSUME ActsInv, UNCHANGED <<acts, scene>>, Windowed(cache)', now' \in Nat, now <= now', journal' \subseteq journal,
         NEW L, NEW J, rows' = L, journal' = J, Fits(L, acts, J)
  PROVE  ActsInv'
<1>1. PICK A : A = acts  OBVIOUS
<1>2. acts' = A  BY <1>1
<1>3. now \in Nat  BY DEF ActsInv
<1>4. \A i \in DOMAIN A : ActIs(A[i], i)'
  <2>1. \A i \in DOMAIN A : ActIs(A[i], i)  BY <1>1 DEF ActsInv
  <2>2. 0..now \subseteq 0..now'  BY <1>3
  <2> QED BY <2>1, <2>2 DEF ActIs
<1>5. A \in Seq(ToSet(A)) /\ J \subseteq ToSet(A) /\ \A e \in J : e.type = "file.changed"
  BY <1>1 DEF ActsInv
<1>6. scene' \in Scenes  BY DEF ActsInv
<1>7. Fits(L, A, J)  BY <1>1
<1>8. PICK C : cache' = C /\ Windowed(C)  BY DEF Windowed
<1> QED BY <1>2, <1>4, <1>5, <1>6, <1>7, <1>8 DEF ActsInv

(* A question leaves windows, and findings behind the ledger.              *)
LEMMA AskIs ==
  ASSUME ActsInv, NEW w, Ask(w)
  PROVE  /\ UNCHANGED <<scene, now, acts, journal, follower>> /\ Windowed(cache)'
         /\ \E N : /\ N \in Seq(ToSet(N)) /\ rows' = rows \o N
                   /\ \A k \in DOMAIN N : Finding(N[k])
<1>1. rows \in Seq(ToSet(rows)) /\ Fits(rows, acts, journal) /\ Windowed(cache)  BY DEF ActsInv, Fits
<1>2. UNCHANGED <<scene, now, acts, journal, follower>>  BY DEF Ask
<1>3. PICK C, q : C = ReadCached(CacheKey(Since(w))) /\ q = Question(Since(w))  OBVIOUS
<1>4. PICK o : o = FindOverlappingWork(C, q).overlaps  OBVIOUS
<1>5. UNCHANGED file \/ Written(PersistFindings(rows, o, now))  BY <1>3, <1>4 DEF Ask
<1>6. C \in Seq(ToSet(C)) /\ Windowed(cache)'
  <2>1. PICK key : key = CacheKey(Since(w))  OBVIOUS
  <2>2. C = rows \/ \E x \in ToSet(cache) : C = x.rows
    <3>1. CASE Kept(key) = {}  BY <1>3, <2>1, <3>1 DEF ReadCached
    <3>2. CASE Kept(key) # {}
      <4>1. Hit(key) \in DOMAIN cache  BY <3>2 DEF Hit, Kept
      <4>2. PICK i \in DOMAIN cache : i = Hit(key)  BY <4>1
      <4>3. C = cache[i].rows /\ cache[i] \in ToSet(cache)
        BY <1>3, <2>1, <3>2, <4>2 DEF ReadCached, ToSet
      <4> QED BY <4>3
    <3> QED BY <3>1, <3>2
  <2>3. C \in Seq(ToSet(C))  BY <1>1, <2>2 DEF Fits, Windowed
  <2>4. /\ CacheAfter(key) \in Seq(ToSet(CacheAfter(key)))
        /\ ToSet(CacheAfter(key)) \subseteq ToSet(cache) \cup {[key |-> key, rows |-> C]}
      BY <1>1, <1>3, <2>1, CacheAfterIs DEF Windowed
  <2>5. PICK D : D = CacheAfter(key)  OBVIOUS
  <2>6. cache' = D  BY <1>3, <2>1, <2>5 DEF Ask
  <2>7. \A x \in ToSet(D) : x \in ToSet(cache) \/ x.rows = C  BY <2>4, <2>5
  <2>8. Windowed(D)  BY <1>1, <2>3, <2>4, <2>5, <2>7 DEF Windowed
  <2> QED BY <2>3, <2>6, <2>8
<1>7. PICK X : o \in Seq(X)
  <2>1. PICK R : R = ToSet(C)  OBVIOUS
  <2>2. PICK W \in Seq(R), T \in Seq(R) : \E F, all : AnswerOf(C, q, W, T, F, all)
      BY <1>6, <2>1, AnswerIs
  <2>3. PICK F, all : AnswerOf(C, q, W, T, F, all)  BY <2>2
  <2>4. PICK Y : Y = ToSet(all)  OBVIOUS
  <2>5. all \in Seq(Y) /\ o = SubSeq(all, 1, Min({Len(all), q.limit}))
      BY <1>4, <2>3, <2>4 DEF AnswerOf
  <2>6. q.limit \in Nat  BY <1>3, AnswersAssumption DEF Question
  <2>7. PICK n \in Nat : n = Len(all)  BY <2>5
  <2>8. PICK m \in Nat : m = Min({n, q.limit}) /\ m <= n  BY <2>6, MinOfTwo
  <2>9. o = SubSeq(all, 1, m)  BY <2>5, <2>7, <2>8
  <2>10. 1 \in Int /\ m \in Int /\ \A i \in 1..m : all[i] \in Y
    <3>1. 1..m \subseteq 1..n  BY <2>7, <2>8
    <3>2. \A i \in 1..n : all[i] \in Y  BY <2>5, <2>7
    <3>3. m \in Nat  BY <2>8
    <3>4. \A i \in 1..m : i \in 1..n  BY <3>1
    <3> QED BY <3>2, <3>3, <3>4
  <2>11. o \in Seq(Y)  BY <2>9, <2>10, SubSeqProperties
  <2> QED BY <2>11
<1>8. PICK N : /\ N \in Seq(ToSet(N)) /\ PersistFindings(rows, o, now) = rows \o N
               /\ \A k \in DOMAIN N : Finding(N[k])
  BY <1>1, <1>7, PersistIs
<1>9. \E M : /\ M \in Seq(ToSet(M)) /\ rows' = rows \o M
             /\ \A k \in DOMAIN M : Finding(M[k])
  <2>1. CASE UNCHANGED file
    <3>1. PICK M : M = <<>>  OBVIOUS
    <3>2. ToSet(M) = {} /\ DOMAIN M = {} /\ M \in Seq({})  BY <3>1 DEF ToSet
    <3>3. rows' = rows \o M  BY <1>1, <2>1, <3>1 DEF file
    <3> QED BY <3>2, <3>3
  <2>2. CASE Written(PersistFindings(rows, o, now))
    <3>1. rows' = rows \o N  BY <1>8, <2>2 DEF Written
    <3> QED BY <1>8, <3>1
  <2> QED BY <1>5, <2>1, <2>2
<1> QED BY <1>2, <1>6, <1>9

(* Every step keeps the invariant of the acts.                             *)
LEMMA ActsStep == ActsInv /\ [Next]_vars => ActsInv'
<1> SUFFICES ASSUME ActsInv, [Next]_vars PROVE ActsInv'  OBVIOUS
<1>a. now \in Nat /\ Fits(rows, acts, journal) /\ Windowed(cache)  BY DEF ActsInv
<1>b. ASSUME cache' = cache PROVE Windowed(cache)'
  <2>1. PICK C : C = cache  OBVIOUS
  <2> QED BY <1>a, <1>b, <2>1
<1>1. CASE \E x \in Work[scene] : Act(x)  BY <1>1, ActIsNew, ActKeeps
<1>2. CASE \E e \in journal : Ingest(e)
  <2>1. PICK e \in journal : Ingest(e)  BY <1>2
  <2>2. /\ journal' = journal \ {e} /\ Written(Append(rows, e))
        /\ UNCHANGED <<scene, now, acts>>
    BY <2>1 DEF Ingest
  <2>3. PICK L, J : L = Append(rows, e) /\ J = journal \ {e}  OBVIOUS
  <2>4. e \in ToSet(acts) /\ e.id \in {"evt"} \X Nat
    <3>1. e \in ToSet(acts)  BY DEF ActsInv
    <3>2. e.id \in {"evt"} \X (1..Len(acts))  BY <3>1, ActIds
    <3> QED BY <3>1, <3>2
  <2>5. \A i \in DOMAIN rows : rows[i].id # e.id
    <3>1. \A a \in ToSet(acts) \ journal : a.id # e.id  BY <2>4, ActIds
    <3>2. PICK n \in Nat : e.id = <<"evt", n>>  BY <2>4
    <3> QED BY <3>1, <3>2, FreshIs
  <2>6. Fits(rows, acts, J)  BY <1>a, <2>3 DEF Fits
  <2>7. Fits(L, acts, J)  BY <2>3, <2>4, <2>5, <2>6, FitsAppend
  <2>8. rows' = L /\ journal' = J /\ journal' \subseteq journal /\ now' \in Nat /\ now <= now'
    BY <1>a, <2>2, <2>3 DEF Written
  <2>9. Windowed(cache)'  BY <1>b, <2>1 DEF Ingest
  <2> QED BY <2>2, <2>7, <2>8, <2>9, SameActs
<1>3. CASE Tick \/ OpenDaemon \/ CloseDaemon \/ Checkpoint \/ Poll \/ UNCHANGED vars
  <2>1. UNCHANGED <<acts, scene, journal, rows, cache>> /\ (now' = now \/ now' = now + 1)
    BY <1>3 DEF Tick, OpenDaemon, CloseDaemon, Checkpoint, Poll, vars, file
  <2>2. now' \in Nat /\ now <= now'  BY <1>a, <2>1
  <2>3. PICK L, J : L = rows /\ J = journal  OBVIOUS
  <2>4. rows' = L /\ journal' = J /\ journal' \subseteq journal /\ Fits(L, acts, J)  BY <1>a, <2>1, <2>3
  <2>5. Windowed(cache)'  BY <1>b, <2>1
  <2> QED BY <2>1, <2>2, <2>4, <2>5, SameActs
<1>4. CASE \E w \in Windows : Ask(w)
  <2>1. PICK w \in Windows : Ask(w)  BY <1>4
  <2>2. UNCHANGED <<scene, now, acts, journal>> /\ Windowed(cache)'  BY <2>1, AskIs
  <2>3. PICK N : N \in Seq(ToSet(N)) /\ rows' = rows \o N /\ \A k \in DOMAIN N : Finding(N[k])
    BY <2>1, AskIs
  <2>8. \A a \in ToSet(acts) : a.id \in {"evt"} \X Nat
    <3>1. \A a \in ToSet(acts) : a.id \in {"evt"} \X (1..Len(acts))  BY ActIds
    <3>2. 1..Len(acts) \subseteq Nat  BY ActIds
    <3> QED BY <3>1, <3>2
  <2>9. PICK L, J : L = rows \o N /\ J = journal  OBVIOUS
  <2>10. Fits(L, acts, J)  BY <1>a, <2>3, <2>8, <2>9, FitsFindings
  <2>11. rows' = L /\ journal' = J /\ journal' \subseteq journal /\ now' \in Nat /\ now <= now'
    BY <1>a, <2>2, <2>3, <2>9
  <2> QED BY <2>2, <2>10, <2>11, SameActs
<1>5. CASE Prune
  <2>1. Written(Select(rows, {i \in DOMAIN rows : rows[i].at >= now})) /\ UNCHANGED <<scene, now, acts, journal, cache>>
    BY <1>5 DEF Prune
  <2>2. PICK I \in SUBSET (DOMAIN rows) : I = {i \in DOMAIN rows : rows[i].at >= now}  OBVIOUS
  <2>3. PICK L, J : L = Select(rows, I) /\ J = journal  OBVIOUS
  <2>4. Fits(L, acts, J)  BY <1>a, <2>3, FitsSelect
  <2>5. rows' = L /\ journal' = J /\ journal' \subseteq journal /\ now' \in Nat /\ now <= now'
    BY <1>a, <2>1, <2>2, <2>3 DEF Written
  <2>6. Windowed(cache)'  BY <1>b, <2>1
  <2> QED BY <2>1, <2>4, <2>5, <2>6, SameActs
<1> QED BY <1>1, <1>2, <1>3, <1>4, <1>5 DEF Next

(* It always holds.                                                        *)
LEMMA ActsAlways == Spec => []ActsInv
<1>1. Init => ActsInv
  <2> SUFFICES ASSUME Init PROVE ActsInv  OBVIOUS
  <2>1. acts = <<>> /\ journal = {} /\ rows = <<>> /\ cache = <<>> /\ now = 0 /\ scene \in Scenes  BY DEF Init
  <2>2. ToSet(acts) = {} /\ ToSet(rows) = {} /\ ToSet(cache) = {} /\ DOMAIN acts = {} /\ DOMAIN rows = {}
    BY <2>1 DEF ToSet
  <2>3. Fits(rows, acts, journal) /\ Windowed(cache)  BY <2>1, <2>2 DEF Fits, Windowed
  <2> QED BY <2>1, <2>2, <2>3 DEF ActsInv
<1> QED BY <1>1, ActsStep, PTL DEF Spec

(* Whatever agents do one after the other, in whatever order the ledger    *)
(* gets to know of it, is told as no contention (overlap.ts,               *)
(* contentionAmong).                                                       *)
THEOREM HandOffProven == Spec => []HandOffQuiet
<1> QED BY ActsAlways, QuietNow, PTL

-----------------------------------------------------------------------------
(* The follower got g of the acts S, and the cursor c.                     *)
Sent(L, c, g, S) ==
  /\ g \in Seq(S)
  /\ \A i, j \in DOMAIN g : i # j => g[i].id # g[j].id
  /\ c = None => g = <<>>
  /\ c # None => \E a \in S : a.id = c
  /\ c # None => \A u \in DOMAIN L : L[u].id = c =>
       /\ \A i \in 1..u : Matches(L[i]) => L[i] \in ToSet(g)
       /\ \A i \in (u + 1)..Len(L) : L[i] \notin ToSet(g)

Settled == ToSet(acts) \ journal

FollowInv ==
  /\ follower = [state |-> follower.state, cursor |-> follower.cursor, got |-> follower.got]
  /\ Sent(rows, follower.cursor, follower.got, Settled)

(* The indices a page shows, and where it ends.                            *)
PageOf(L, c, matching, limit, from, all, m) ==
  /\ from \in 0..Len(L)
  /\ c = None => from = 0
  /\ c # None => from \in DOMAIN L /\ L[from].id = c
  /\ all \in Seq(1..Len(L))
  /\ \A k \in DOMAIN all : from < all[k] /\ L[all[k]] \in matching
  /\ \A j, k \in DOMAIN all : j < k => all[j] < all[k]
  /\ \A i \in (from + 1)..Len(L) : L[i] \in matching => \E k \in DOMAIN all : all[k] = i
  /\ m \in 0..Len(all) /\ (Len(all) > 0 => m > 0)
  /\ ListEvents(L, c, matching, limit).events = [k \in 1..m |-> L[all[k]]]
  /\ ListEvents(L, c, matching, limit).cursor =
       IF m = Len(all) /\ from < Len(L) THEN L[Len(L)].id
       ELSE IF m # Len(all) THEN L[all[m]].id ELSE IF from = 0 THEN None ELSE L[from].id

(* Every page is such a page.                                              *)
LEMMA PageIs ==
  ASSUME NEW S, NEW L \in Seq(S), NEW c, CursorFound(L, c), NEW matching, NEW limit \in Nat \ {0}
  PROVE  \E from, all, m : PageOf(L, c, matching, limit, from, all, m)
<1>a. DOMAIN L = 1..Len(L) /\ Len(L) \in Nat  OBVIOUS
<1>1. PICK from : from = IF c = None THEN 0 ELSE CHOOSE i \in DOMAIN L : L[i].id = c  OBVIOUS
<1>2. from \in 0..Len(L) /\ (c = None => from = 0) /\ (c # None => from \in DOMAIN L /\ L[from].id = c)
  <2>1. CASE c = None  BY <1>a, <1>1, <2>1
  <2>2. CASE c # None
    <3>1. \E i \in DOMAIN L : L[i].id = c  BY <2>2 DEF CursorFound
    <3>2. from = CHOOSE i \in DOMAIN L : L[i].id = c  BY <1>1, <2>2
    <3>3. from \in DOMAIN L /\ L[from].id = c  BY <3>1, <3>2
    <3> QED BY <1>a, <2>2, <3>3
  <2> QED BY <2>1, <2>2
<1>3. PICK n \in Nat : n = Len(L)  BY <1>a
<1>4. PICK I \in SUBSET (1..n) : I = {i \in (from + 1)..Len(L) : L[i] \in matching}
  <2>1. (from + 1)..n \subseteq 1..n  BY <1>2, <1>3
  <2> QED BY <1>3, <2>1
<1>5. PICK all : all = Ascending(I)  OBVIOUS
<1>6. PICK N \in Nat : /\ N = Cardinality(I) /\ all \in [1..N -> I]
                       /\ \A j, k \in 1..N : j < k => all[j] < all[k]
                       /\ \A i \in I : \E k \in 1..N : all[k] = i
  <2>1. /\ Cardinality(I) \in Nat
        /\ Ascending(I) \in [1..Cardinality(I) -> I]
        /\ \A j, k \in 1..Cardinality(I) : j < k => Ascending(I)[j] < Ascending(I)[k]
        /\ \A i \in I : \E k \in 1..Cardinality(I) : Ascending(I)[k] = i
    BY AscendingIs
  <2>2. PICK N \in Nat : N = Cardinality(I)  BY <2>1
  <2>3. /\ all \in [1..N -> I] /\ \A j, k \in 1..N : j < k => all[j] < all[k]
        /\ \A i \in I : \E k \in 1..N : all[k] = i
    BY <1>5, <2>1, <2>2
  <2> QED BY <2>2, <2>3
<1>7. all \in Seq(1..n) /\ all \in Seq(Int) /\ Len(all) = N /\ DOMAIN all = 1..N
  <2>1. I \subseteq 1..n /\ I \subseteq Int  OBVIOUS
  <2>2. all \in [1..N -> 1..n] /\ all \in [1..N -> Int]  BY <1>6, <2>1
  <2> QED BY <2>2
<1>8. PICK m \in Nat : m = Min({N, limit}) /\ m <= N /\ m <= limit
  BY <1>6, MinOfTwo
<1>9. m = N \/ m = limit
  <2>1. \E x \in {N, limit} : \A y \in {N, limit} : x <= y  OBVIOUS
  <2> QED BY <1>8, <2>1 DEF Min
<1>10. PICK picked : picked = SubSeq(all, 1, m)  OBVIOUS
<1>11. /\ picked \in Seq(Int) /\ Len(picked) = m /\ DOMAIN picked = 1..m
       /\ \A k \in 1..m : picked[k] = all[k]
  <2>1. \A i \in 1..m : all[i] \in Int  BY <1>7, <1>8
  <2>2. /\ SubSeq(all, 1, m) \in Seq(Int)
        /\ Len(SubSeq(all, 1, m)) = (IF 1 <= m THEN m - 1 + 1 ELSE 0)
        /\ \A i \in 1..(m - 1 + 1) : SubSeq(all, 1, m)[i] = all[1 + i - 1]
    BY <2>1, SubSeqProperties, 1 \in Int, m \in Int
  <2>3. picked \in Seq(Int) /\ Len(picked) = m  BY <1>10, <2>2
  <2>4. \A k \in 1..m : picked[k] = all[k]
    <3>1. \A i \in 1..m : 1 + i - 1 = i /\ i \in 1..(m - 1 + 1)  OBVIOUS
    <3> QED BY <1>10, <2>2, <3>1
  <2> QED BY <2>3, <2>4
<1>12. picked = all <=> m = N
  <2>1. CASE m = N
    <3>1. all = [k \in 1..N |-> all[k]] /\ picked = [k \in 1..m |-> picked[k]]  BY <1>6, <1>11
    <3>2. \A k \in 1..N : picked[k] = all[k]  BY <1>11, <2>1
    <3> QED BY <1>11, <2>1, <3>1, <3>2
  <2>2. CASE m # N  BY <1>7, <1>11, <2>2
  <2> QED BY <2>1, <2>2
<1>13. PICK p : p = ListEvents(L, c, matching, limit)  OBVIOUS
<1>14. p.events = [k \in DOMAIN picked |-> L[picked[k]]] /\ p.cursor = LastScanned(L, from, picked, all)
  <2>1. picked = SubSeq(all, 1, Min({Len(all), limit}))  BY <1>7, <1>8, <1>10
  <2>2. all = Ascending({i \in (from + 1)..Len(L) : L[i] \in matching})  BY <1>4, <1>5, Zenon
  <2> DEFINE from0 == IF c = None THEN 0 ELSE CHOOSE i \in DOMAIN L : L[i].id = c
             all0 == Ascending({i \in (from0 + 1)..Len(L) : L[i] \in matching})
             picked0 == SubSeq(all0, 1, Min({Len(all0), limit}))
  <2>3. p = [events |-> [k \in DOMAIN picked0 |-> L[picked0[k]]],
             cursor |-> LastScanned(L, from0, picked0, all0)]
    BY <1>13 DEF ListEvents
  <2>4. from0 = from  BY <1>1
  <2> HIDE DEF from0
  <2>5. all0 = all  BY <2>2, <2>4
  <2> HIDE DEF all0
  <2>6. picked0 = picked  BY <2>1, <2>5
  <2> HIDE DEF picked0
  <2> QED BY <2>3, <2>4, <2>5, <2>6
<1>15. p.events = [k \in 1..m |-> L[all[k]]]
  <2>1. \A k \in 1..m : L[picked[k]] = L[all[k]]  BY <1>11
  <2> QED BY <1>11, <1>14, <2>1
<1>16. p.cursor = IF m = N /\ from < Len(L) THEN L[Len(L)].id
                  ELSE IF m # N THEN L[all[m]].id ELSE IF from = 0 THEN None ELSE L[from].id
  <2>1. CASE m = N /\ from < Len(L)  BY <1>12, <1>14, <2>1 DEF LastScanned
  <2>2. CASE m # N
    <3>1. m \in 1..m  BY <1>8, <1>9, <2>2
    <3>2. picked # all /\ L[picked[Len(picked)]] = L[all[m]]  BY <1>11, <1>12, <2>2, <3>1
    <3> QED BY <1>14, <2>2, <3>2 DEF LastScanned
  <2>3. CASE m = N /\ ~(from < Len(L))  BY <1>12, <1>14, <2>3 DEF LastScanned
  <2> QED BY <2>1, <2>2, <2>3
<1>17. \A k \in DOMAIN all : from < all[k] /\ L[all[k]] \in matching
  <2>1. \A i \in I : from < i /\ L[i] \in matching  BY <1>2, <1>3, <1>4
  <2> QED BY <1>6, <1>7, <2>1
<1>18. \A i \in (from + 1)..Len(L) : L[i] \in matching => \E k \in DOMAIN all : all[k] = i
  BY <1>4, <1>6, <1>7
<1>19. m \in 0..Len(all) /\ (Len(all) > 0 => m > 0)  BY <1>7, <1>8, <1>9
<1>20. all \in Seq(1..Len(L)) /\ \A j, k \in DOMAIN all : j < k => all[j] < all[k]
  BY <1>3, <1>6, <1>7
<1>21. PageOf(L, c, matching, limit, from, all, m)
  BY <1>2, <1>7, <1>13, <1>15, <1>16, <1>17, <1>18, <1>19, <1>20 DEF PageOf
<1> QED BY <1>21

(* A page goes on where the one before it ended.                           *)
LEMMA PageKeeps ==
  ASSUME NEW S, \A a \in S : a.id # None, \A a, b \in S : a.id = b.id => a = b,
         NEW L \in Seq(S), \A i, j \in DOMAIN L : L[i].id = L[j].id => i = j,
         NEW c, CursorFound(L, c), NEW g, Sent(L, c, g, S), NEW limit \in Nat \ {0},
         NEW matching, \A i \in DOMAIN L : L[i] \in matching <=> Matches(L[i])
  PROVE  Sent(L, ListEvents(L, c, matching, limit).cursor,
              g \o ListEvents(L, c, matching, limit).events, S)
<1>1. PICK from, all, m : PageOf(L, c, matching, limit, from, all, m)  BY PageIs
<1>2. PICK n \in Nat : n = Len(L) /\ DOMAIN L = 1..n  OBVIOUS
<1>3. PICK N \in Nat : N = Len(all) /\ DOMAIN all = 1..N  BY <1>1 DEF PageOf
<1>4. /\ from \in 0..n /\ (c = None => from = 0) /\ (c # None => from \in 1..n /\ L[from].id = c)
      /\ \A k \in 1..N : all[k] \in 1..n /\ from < all[k] /\ L[all[k]] \in matching
      /\ \A j, k \in 1..N : j < k => all[j] < all[k]
      /\ \A i \in (from + 1)..n : L[i] \in matching => \E k \in 1..N : all[k] = i
      /\ m \in 0..N /\ (N > 0 => m > 0)
  <2>1. all \in Seq(1..n)  BY <1>1, <1>2 DEF PageOf
  <2>2. \A k \in 1..N : all[k] \in 1..n  BY <1>3, <2>1
  <2> QED BY <1>1, <1>2, <1>3, <2>2 DEF PageOf
<1>5. m \in Nat /\ from \in Nat /\ 1..m \subseteq 1..N /\ 1..n \subseteq Nat  BY <1>2, <1>3, <1>4
<1>6. PICK ev : ev = [k \in 1..m |-> L[all[k]]] /\ ev = ListEvents(L, c, matching, limit).events
  BY <1>1 DEF PageOf
<1>7. PICK d : /\ d = ListEvents(L, c, matching, limit).cursor
               /\ d = IF m = N /\ from < n THEN L[n].id
                      ELSE IF m # N THEN L[all[m]].id ELSE IF from = 0 THEN None ELSE L[from].id
  BY <1>1, <1>2, <1>3 DEF PageOf
<1>8. ev \in Seq(S) /\ DOMAIN ev = 1..m /\ Len(ev) = m
  <2>1. \A k \in 1..m : L[all[k]] \in S  BY <1>2, <1>4, <1>5
  <2>2. ev \in [1..m -> S]  BY <1>6, <2>1
  <2> QED BY <1>5, <2>2
<1>9. g \in Seq(S) /\ \A i, j \in DOMAIN g : i # j => g[i].id # g[j].id  BY DEF Sent
<1>10. PICK l \in Nat : l = Len(g) /\ DOMAIN g = 1..l  BY <1>9
<1>11. PICK h : h = g \o ev  OBVIOUS
<1>12. /\ h \in Seq(S) /\ DOMAIN h = 1..(l + m)
       /\ \A i \in 1..l : h[i] = g[i]
       /\ \A i \in (l + 1)..(l + m) : i - l \in 1..m /\ h[i] = L[all[i - l]]
  <2>1. h \in Seq(S) /\ Len(h) = l + m
    <3>1. g \in Seq(S) /\ ev \in Seq(S) /\ h = g \o ev  BY <1>8, <1>9, <1>11
    <3>2. h \in Seq(S) /\ Len(h) = Len(g) + Len(ev)  BY <3>1
    <3> QED BY <1>8, <1>10, <3>2
  <2>2. \A i \in 1..l : h[i] = g[i]  BY <1>8, <1>9, <1>10, <1>11
  <2>3. \A i \in (l + 1)..(l + m) : i - l \in 1..m /\ h[i] = ev[i - l]
    BY <1>5, <1>8, <1>9, <1>10, <1>11
  <2>4. \A k \in 1..m : ev[k] = L[all[k]]  BY <1>6
  <2>5. \A i \in (l + 1)..(l + m) : i - l \in 1..m /\ h[i] = L[all[i - l]]  BY <2>3, <2>4
  <2>6. DOMAIN h = 1..(l + m)  BY <2>1
  <2> QED BY <2>1, <2>2, <2>5, <2>6
<1>13. ToSet(h) = ToSet(g) \cup {L[all[k]] : k \in 1..m}
  <2>1. \A i \in DOMAIN h : i \in 1..l \/ i \in (l + 1)..(l + m)  BY <1>5, <1>10, <1>12
  <2>2. ToSet(h) \subseteq ToSet(g) \cup {L[all[k]] : k \in 1..m}
    BY <1>10, <1>12, <2>1 DEF ToSet
  <2>3. ToSet(g) \subseteq ToSet(h)
    <3>1. 1..l \subseteq 1..(l + m)  BY <1>5, <1>10
    <3> QED BY <1>10, <1>12, <3>1 DEF ToSet
  <2>4. \A k \in 1..m : L[all[k]] \in ToSet(h)
    <3> TAKE k \in 1..m
    <3>1. l + k \in (l + 1)..(l + m) /\ l + k \in 1..(l + m) /\ (l + k) - l = k  BY <1>5, <1>10
    <3> QED BY <1>12, <3>1 DEF ToSet
  <2> QED BY <2>2, <2>3, <2>4
(* Nothing of this page was sent before.                                   *)
<1>14. \A i \in (from + 1)..n : L[i] \notin ToSet(g)
  <2>1. CASE c = None
    <3>1. g = <<>>  BY <2>1 DEF Sent
    <3>2. ToSet(g) = {}  BY <3>1 DEF ToSet
    <3> QED BY <3>2
  <2>2. CASE c # None
    <3>1. from \in DOMAIN L /\ L[from].id = c  BY <1>2, <1>4, <2>2
    <3> QED BY <1>2, <2>2, <3>1 DEF Sent
  <2> QED BY <2>1, <2>2
<1>15. \A i \in 1..from : Matches(L[i]) => L[i] \in ToSet(g)
  <2>1. CASE c = None
    <3>1. from = 0  BY <1>4, <2>1
    <3> QED BY <3>1
  <2>2. CASE c # None
    <3>1. from \in DOMAIN L /\ L[from].id = c  BY <1>2, <1>4, <2>2
    <3> QED BY <2>2, <3>1 DEF Sent
  <2> QED BY <2>1, <2>2
<1>16. \A i \in 1..n : L[i] \in S  BY <1>2
<1>17. \A i \in 1..l, k \in 1..m : g[i].id # L[all[k]].id
  <2> SUFFICES ASSUME NEW i \in 1..l, NEW k \in 1..m, g[i].id = L[all[k]].id PROVE FALSE  OBVIOUS
  <2>1. k \in 1..N  BY <1>5
  <2>2. all[k] \in 1..n /\ from < all[k]  BY <1>4, <2>1
  <2>3. all[k] \in (from + 1)..n  BY <1>5, <2>2
  <2>4. g[i] = L[all[k]]  BY <1>9, <1>10, <1>16, <2>2
  <2>5. g[i] \in ToSet(g)  BY <1>10 DEF ToSet
  <2> QED BY <1>14, <2>3, <2>4, <2>5
<1>18. \A j, k \in 1..m : j # k => L[all[j]].id # L[all[k]].id
  <2> SUFFICES ASSUME NEW j \in 1..m, NEW k \in 1..m, j # k PROVE L[all[j]].id # L[all[k]].id  OBVIOUS
  <2>1. j \in 1..N /\ k \in 1..N /\ j \in Nat /\ k \in Nat  BY <1>5
  <2>2. all[j] \in 1..n /\ all[k] \in 1..n /\ (j < k => all[j] < all[k]) /\ (k < j => all[k] < all[j])
    BY <1>4, <2>1
  <2>3. all[j] \in Nat /\ all[k] \in Nat  BY <1>5, <2>2
  <2>4. all[j] # all[k]  BY <2>1, <2>2, <2>3
  <2> QED BY <1>2, <2>2, <2>4
<1>19. ASSUME NEW i \in DOMAIN h, NEW j \in DOMAIN h, i # j PROVE h[i].id # h[j].id
  <2>1. i \in 1..l \/ i \in (l + 1)..(l + m)  BY <1>5, <1>10, <1>12
  <2>2. j \in 1..l \/ j \in (l + 1)..(l + m)  BY <1>5, <1>10, <1>12
  <2>3. CASE i \in 1..l /\ j \in 1..l  BY <1>9, <1>10, <1>12, <1>19, <2>3
  <2>4. CASE i \in 1..l /\ j \in (l + 1)..(l + m)  BY <1>12, <1>17, <2>4
  <2>5. CASE i \in (l + 1)..(l + m) /\ j \in 1..l  BY <1>12, <1>17, <2>5
  <2>6. CASE i \in (l + 1)..(l + m) /\ j \in (l + 1)..(l + m)
    <3>1. i - l \in 1..m /\ j - l \in 1..m /\ h[i] = L[all[i - l]] /\ h[j] = L[all[j - l]]  BY <1>12, <2>6
    <3>2. i - l # j - l  BY <1>10, <1>19, <2>6
    <3> QED BY <1>18, <3>1, <3>2
  <2> QED BY <2>1, <2>2, <2>3, <2>4, <2>5, <2>6
(* The page ends at the row e.                                             *)
<1>20. ASSUME NEW e \in 1..n, d = L[e].id, from < e,
              \A i \in (from + 1)..e : L[i] \in matching => \E k \in 1..m : all[k] = i,
              \A k \in 1..m : all[k] <= e
       PROVE  Sent(L, d, h, S)
  <2>1. L[e] \in S /\ d # None  BY <1>16, <1>20
  <2>2. \A u \in DOMAIN L : L[u].id = d => u = e  BY <1>2, <1>20
  <2>3. \A i \in 1..e : Matches(L[i]) => L[i] \in ToSet(h)
    <3> SUFFICES ASSUME NEW i \in 1..e, Matches(L[i]) PROVE L[i] \in ToSet(h)  OBVIOUS
    <3>1. i \in 1..from \/ i \in (from + 1)..e  BY <1>5
    <3>2. CASE i \in 1..from  BY <1>13, <1>15, <3>2
    <3>3. CASE i \in (from + 1)..e
      <4>1. i \in DOMAIN L  BY <1>2
      <4>2. L[i] \in matching  BY <4>1
      <4>3. PICK k \in 1..m : all[k] = i  BY <1>20, <3>3, <4>2
      <4> QED BY <1>13, <4>3
    <3> QED BY <3>1, <3>2, <3>3
  <2>4. \A i \in (e + 1)..n : L[i] \notin ToSet(h)
    <3> SUFFICES ASSUME NEW i \in (e + 1)..n, L[i] \in ToSet(h) PROVE FALSE  OBVIOUS
    <3>1. e \in Nat /\ i \in Nat  BY <1>5
    <3>2. i \in (from + 1)..n /\ i \in 1..n  BY <1>5, <1>20, <3>1
    <3>3. L[i] \notin ToSet(g)  BY <1>14, <3>2
    <3>4. PICK k \in 1..m : L[i] = L[all[k]]  BY <1>13, <3>3
    <3>5. all[k] \in 1..n  BY <1>4, <1>5
    <3>6. all[k] = i  BY <1>2, <3>2, <3>4, <3>5
    <3>7. all[k] <= e  BY <1>20
    <3> QED BY <3>1, <3>6, <3>7
  <2>5. \A u \in DOMAIN L : L[u].id = d =>
          /\ \A i \in 1..u : Matches(L[i]) => L[i] \in ToSet(h)
          /\ \A i \in (u + 1)..Len(L) : L[i] \notin ToSet(h)
    <3> SUFFICES ASSUME NEW u \in DOMAIN L, L[u].id = d
                 PROVE  /\ \A i \in 1..u : Matches(L[i]) => L[i] \in ToSet(h)
                        /\ \A i \in (u + 1)..Len(L) : L[i] \notin ToSet(h)
      OBVIOUS
    <3>1. u = e  BY <2>2
    <3> QED BY <1>2, <2>3, <2>4, <3>1
  <2>6. h \in Seq(S) /\ (d = None => h = <<>>) /\ (d # None => \E a \in S : a.id = d)
    BY <1>12, <1>20, <2>1
  <2> QED BY <1>19, <2>5, <2>6 DEF Sent
<1>21. CASE m = N /\ from < n
  <2>1. n \in 1..n /\ d = L[n].id  BY <1>5, <1>7, <1>21
  <2>2. \A k \in 1..m : all[k] <= n
    <3>1. \A k \in 1..m : all[k] \in 1..n  BY <1>4, <1>5
    <3> QED BY <1>2, <3>1
  <2>3. \A i \in (from + 1)..n : L[i] \in matching => \E k \in 1..m : all[k] = i  BY <1>4, <1>21
  <2>4. Sent(L, d, h, S)  BY <1>20, <1>21, <2>1, <2>2, <2>3
  <2> QED BY <1>6, <1>7, <1>11, <2>4
<1>22. CASE m # N
  <2>1. m \in 1..m /\ m \in 1..N  BY <1>3, <1>4, <1>5, <1>22
  <2>2. PICK e \in 1..n : e = all[m]  BY <1>4, <2>1
  <2>3. d = L[e].id /\ from < e  BY <1>4, <1>7, <1>22, <2>1, <2>2
  <2>4. \A k \in 1..m : all[k] <= e
    <3> TAKE k \in 1..m
    <3>1. k \in 1..N /\ k \in Nat /\ k <= m  BY <1>5
    <3>2. all[k] \in 1..n /\ (k < m => all[k] < e)  BY <1>4, <2>1, <2>2, <3>1
    <3>3. all[k] \in Nat /\ e \in Nat  BY <1>5, <3>2
    <3> QED BY <1>5, <2>2, <3>1, <3>2, <3>3
  <2>5. \A i \in (from + 1)..e : L[i] \in matching => \E k \in 1..m : all[k] = i
    <3> SUFFICES ASSUME NEW i \in (from + 1)..e, L[i] \in matching PROVE \E k \in 1..m : all[k] = i  OBVIOUS
    <3>1. e \in Nat /\ e <= n  BY <1>2, <1>5
    <3>2. i \in (from + 1)..n /\ i <= e /\ i \in Nat  BY <1>2, <1>5, <3>1
    <3>3. PICK k \in 1..N : all[k] = i  BY <1>4, <3>2
    <3>4. ~(m < k)
      <4>1. m < k => e < i  BY <1>4, <2>1, <2>2, <3>3
      <4> QED BY <3>1, <3>2, <4>1
    <3>5. k \in 1..m  BY <1>3, <1>5, <3>4
    <3> QED BY <3>3, <3>5
  <2>6. Sent(L, d, h, S)  BY <1>20, <2>3, <2>4, <2>5
  <2> QED BY <1>6, <1>7, <1>11, <2>6
<1>23. CASE m = N /\ ~(from < n)
  <2>1. from = n  BY <1>2, <1>4, <1>5, <1>23
  <2>2. N = 0
    <3> SUFFICES ASSUME N # 0 PROVE FALSE  OBVIOUS
    <3>1. 1 \in 1..N  BY <1>3
    <3>2. all[1] \in 1..n /\ from < all[1]  BY <1>4, <3>1
    <3> QED BY <1>2, <2>1, <3>2
  <2>3. d = c
    <3>1. d = IF from = 0 THEN None ELSE L[from].id  BY <1>7, <1>23
    <3>2. CASE c = None
      <4>1. from = 0  BY <1>4, <3>2
      <4> QED BY <3>1, <3>2, <4>1
    <3>3. CASE c # None
      <4>1. from # 0 /\ L[from].id = c  BY <1>4, <3>3
      <4> QED BY <3>1, <4>1
    <3> QED BY <3>2, <3>3
  <2>4. ev = <<>>  BY <1>8, <1>23, <2>2
  <2>5. h = g  BY <1>9, <1>11, <2>4
  <2>6. Sent(L, d, h, S)  BY <2>3, <2>5
  <2> QED BY <1>6, <1>7, <1>11, <2>6
<1> QED BY <1>21, <1>22, <1>23

(* What others append was not sent, nor is it what was sent last.          *)
LEMMA SentExtends ==
  ASSUME NEW L, NEW M, NEW R, L \in Seq(R), M \in Seq(R), Len(L) <= Len(M),
         NEW c, NEW g, NEW S, Sent(L, c, g, S),
         \A i \in 1..Len(L) : M[i] = L[i],
         \A i \in (Len(L) + 1)..Len(M) : \A a \in S : a.id # M[i].id
  PROVE  Sent(M, c, g, S)
<1>1. PICK l \in Nat, m \in Nat : l = Len(L) /\ m = Len(M)  OBVIOUS
<1>2. DOMAIN L = 1..l /\ DOMAIN M = 1..m /\ l <= m  BY <1>1
<1>3. ToSet(g) \subseteq S  BY DEF Sent, ToSet
<1>4. ASSUME c # None, NEW u \in DOMAIN M, M[u].id = c
      PROVE  /\ \A i \in 1..u : Matches(M[i]) => M[i] \in ToSet(g)
             /\ \A i \in (u + 1)..Len(M) : M[i] \notin ToSet(g)
  <2>1. PICK a \in S : a.id = c  BY <1>4 DEF Sent
  <2>2. u \in 1..l
    <3> SUFFICES ASSUME u \notin 1..l PROVE FALSE  OBVIOUS
    <3>1. u \in (l + 1)..m  BY <1>2
    <3> QED BY <1>1, <1>4, <2>1, <3>1
  <2>3. /\ \A i \in 1..u : Matches(L[i]) => L[i] \in ToSet(g)
        /\ \A i \in (u + 1)..l : L[i] \notin ToSet(g)
    <3>1. u \in DOMAIN L /\ L[u].id = c  BY <1>1, <1>2, <1>4, <2>2
    <3> QED BY <1>1, <1>4, <3>1 DEF Sent
  <2>4. \A i \in 1..u : i \in 1..l  BY <2>2
  <2>5. \A i \in (u + 1)..m : (i \in (u + 1)..l /\ i \in 1..l) \/ i \in (l + 1)..m  BY <1>2, <2>2
  <2>6. \A i \in (l + 1)..m : M[i] \notin ToSet(g)  BY <1>1, <1>3
  <2>7. \A i \in (u + 1)..m : M[i] \notin ToSet(g)  BY <1>1, <2>3, <2>5, <2>6
  <2> QED BY <1>1, <2>3, <2>4, <2>7
<1> QED BY <1>4 DEF Sent

(* Pruned rows are not sent again, and none is skipped.                    *)
LEMMA SentSelect ==
  ASSUME NEW L, NEW R, L \in Seq(R), NEW I \in SUBSET (DOMAIN L),
         NEW c, NEW g, NEW S, Sent(L, c, g, S)
  PROVE  Sent(Select(L, I), c, g, S)
<1>1. PICK M : M = Select(L, I)  OBVIOUS
<1>2. M \in Seq(R) /\ Picked(L, I, M)  BY <1>1, SelectIs
<1>3. PICK f \in [DOMAIN M -> I] :
        /\ \A n \in DOMAIN M : M[n] = L[f[n]]
        /\ \A m, n \in DOMAIN M : m < n => f[m] < f[n]
  BY <1>2 DEF Picked
<1>4. PICK l \in Nat, m \in Nat : l = Len(L) /\ m = Len(M) /\ DOMAIN L = 1..l /\ DOMAIN M = 1..m
  BY <1>2
<1>5. \A n \in 1..m : f[n] \in 1..l /\ M[n] = L[f[n]]  BY <1>3, <1>4
<1>6. ASSUME c # None, NEW u \in DOMAIN M, M[u].id = c
      PROVE  /\ \A i \in 1..u : Matches(M[i]) => M[i] \in ToSet(g)
             /\ \A i \in (u + 1)..Len(M) : M[i] \notin ToSet(g)
  <2>1. u \in 1..m /\ u \in Nat /\ u <= m  BY <1>4
  <2>2. PICK v \in 1..l : v = f[u] /\ L[v].id = c  BY <1>5, <1>6, <2>1
  <2>3. /\ \A i \in 1..v : Matches(L[i]) => L[i] \in ToSet(g)
        /\ \A i \in (v + 1)..l : L[i] \notin ToSet(g)
    BY <1>4, <1>6, <2>2 DEF Sent
  <2>4. \A i \in 1..u : Matches(M[i]) => M[i] \in ToSet(g)
    <3> SUFFICES ASSUME NEW i \in 1..u, Matches(M[i]) PROVE M[i] \in ToSet(g)  OBVIOUS
    <3>1. i \in 1..m /\ (i = u \/ i < u)  BY <2>1
    <3>2. f[i] \in 1..l /\ (f[i] = v \/ f[i] < v)  BY <1>3, <1>4, <1>5, <2>1, <2>2, <3>1
    <3>3. f[i] \in 1..v  BY <3>2
    <3> QED BY <1>5, <2>3, <3>1, <3>3
  <2>5. \A i \in (u + 1)..m : M[i] \notin ToSet(g)
    <3> TAKE i \in (u + 1)..m
    <3>1. i \in 1..m /\ u < i  BY <2>1
    <3>2. f[i] \in 1..l /\ v < f[i]  BY <1>3, <1>4, <1>5, <2>1, <2>2, <3>1
    <3>3. f[i] \in (v + 1)..l  BY <3>2
    <3> QED BY <1>5, <2>3, <3>1, <3>3
  <2> QED BY <1>4, <2>4, <2>5
<1> QED BY <1>1, <1>6 DEF Sent

(* More was done than is asked about.                                      *)
LEMMA SentMore ==
  ASSUME NEW L, NEW c, NEW g, NEW S, NEW Q, S \subseteq Q, Sent(L, c, g, S)
  PROVE  Sent(L, c, g, Q)
<1>1. g \in Seq(Q)  BY DEF Sent
<1> QED BY <1>1 DEF Sent

LEMMA SentAppend ==
  ASSUME NEW L, NEW R, L \in Seq(R), NEW e, NEW c, NEW g, NEW S, Sent(L, c, g, S),
         \A a \in S : a.id # e.id
  PROVE  Sent(Append(L, e), c, g, S)
<1>1. PICK Q : Q = R \cup {e}  OBVIOUS
<1>2. PICK M : M = Append(L, e)  OBVIOUS
<1>3. L \in Seq(Q) /\ M \in Seq(Q)  BY <1>1, <1>2
<1>4. PICK l \in Nat : l = Len(L)  OBVIOUS
<1>5. Len(M) = l + 1 /\ M[l + 1] = e /\ \A i \in 1..l : M[i] = L[i]  BY <1>2, <1>4
<1>6. \A i \in (l + 1)..(l + 1) : M[i] = e
  <2>1. \A i \in (l + 1)..(l + 1) : i = l + 1  OBVIOUS
  <2> QED BY <1>5, <2>1
<1>7. Sent(M, c, g, S)  BY <1>3, <1>4, <1>5, <1>6, SentExtends
<1> QED BY <1>2, <1>7

(* The follower is as it was.                                              *)
LEMMA SameFollower ==
  ASSUME FollowInv, follower' = follower, NEW L, NEW S, rows' = L, Settled' = S,
         Sent(L, follower.cursor, follower.got, S)
  PROVE  FollowInv'
<1>1. PICK f : f = follower  OBVIOUS
<1>2. follower' = f /\ f = [state |-> f.state, cursor |-> f.cursor, got |-> f.got]  BY <1>1 DEF FollowInv
<1>3. Sent(L, f.cursor, f.got, S)  BY <1>1
<1> QED BY <1>2, <1>3 DEF FollowInv

(* Every step keeps what was sent.                                         *)
LEMMA FollowStep == ActsInv /\ FollowInv /\ [Next]_vars => FollowInv'
<1> SUFFICES ASSUME ActsInv, FollowInv, [Next]_vars PROVE FollowInv'  OBVIOUS
<1>a. PICK R, c, g, S : R = ToSet(rows) /\ c = follower.cursor /\ g = follower.got /\ S = Settled  OBVIOUS
<1>b. /\ rows \in Seq(R) /\ Sent(rows, c, g, S) /\ S = ToSet(acts) \ journal
       /\ journal \subseteq ToSet(acts)
  BY <1>a DEF ActsInv, Fits, FollowInv, Settled
<1>c. \A a \in ToSet(acts) : a.id \in {"evt"} \X Nat /\ ~Finding(a)
  <2>1. \A a \in ToSet(acts) : a.id \in {"evt"} \X (1..Len(acts)) /\ ~Finding(a)  BY ActIds
  <2>2. 1..Len(acts) \subseteq Nat  BY ActIds
  <2> QED BY <2>1, <2>2
<1>1. CASE \E x \in Work[scene] : Act(x)
  <2>1. PICK e : ActNew(e)  BY <1>1, ActIsNew
  <2>2. /\ acts' = Append(acts, e) /\ e \notin ToSet(acts) /\ \A a \in ToSet(acts) : a.id # e.id
        /\ follower' = follower
    BY <2>1 DEF ActNew
  <2>3. ToSet(acts') = ToSet(acts) \cup {e}
    <3>1. acts \in Seq(ToSet(acts))  BY DEF ActsInv
    <3>2. PICK n \in Nat : n = Len(acts) /\ DOMAIN acts = 1..n  BY <3>1
    <3>3. PICK A : A = acts'  OBVIOUS
    <3>4. DOMAIN A = 1..(n + 1) /\ A[n + 1] = e /\ \A i \in 1..n : A[i] = acts[i]
      <4>1. PICK Q : Q = ToSet(acts) \cup {e}  OBVIOUS
      <4>2. acts \in Seq(Q) /\ e \in Q  BY <3>1, <4>1
      <4> QED BY <2>2, <3>2, <3>3, <4>2
    <3>5. \A i \in 1..(n + 1) : i \in 1..n \/ i = n + 1  OBVIOUS
    <3>6. n + 1 \in 1..(n + 1) /\ 1..n \subseteq 1..(n + 1)  OBVIOUS
    <3>7. ToSet(A) = ToSet(acts) \cup {e}  BY <3>2, <3>4, <3>5, <3>6 DEF ToSet
    <3> QED BY <3>3, <3>7
  <2>4. PICK L, Q : L = rows' /\ Q = Settled'  OBVIOUS
  <2>5. CASE Written(Append(rows, e)) /\ UNCHANGED journal
    <3>1. L = Append(rows, e) /\ S \subseteq Q  BY <1>b, <2>3, <2>4, <2>5 DEF Written, Settled
    <3>2. Sent(L, c, g, S)  BY <1>b, <2>2, <3>1, SentAppend
    <3>3. Sent(L, c, g, Q)  BY <3>1, <3>2, SentMore
    <3> QED BY <1>a, <2>2, <2>4, <3>3, SameFollower
  <2>6. CASE journal' = journal \cup {e} /\ UNCHANGED file
    <3>1. L = rows /\ S \subseteq Q  BY <1>b, <2>2, <2>3, <2>4, <2>6 DEF file, Settled
    <3>2. Sent(L, c, g, Q)  BY <1>b, <3>1, SentMore
    <3> QED BY <1>a, <2>2, <2>4, <3>2, SameFollower
  <2> QED BY <2>1, <2>5, <2>6 DEF ActNew
<1>2. CASE \E e \in journal : Ingest(e)
  <2>1. PICK e \in journal : Ingest(e)  BY <1>2
  <2>2. /\ journal' = journal \ {e} /\ rows' = Append(rows, e) /\ acts' = acts /\ follower' = follower
    BY <2>1 DEF Ingest, Written
  <2>3. \A a \in S : a.id # e.id  BY <1>b, ActIds
  <2>4. PICK L, Q : L = rows' /\ Q = Settled'  OBVIOUS
  <2>5. S \subseteq Q  BY <1>b, <2>2, <2>4 DEF Settled
  <2>6. Sent(L, c, g, S)  BY <1>b, <2>2, <2>3, <2>4, SentAppend
  <2>7. Sent(L, c, g, Q)  BY <2>5, <2>6, SentMore
  <2> QED BY <1>a, <2>2, <2>4, <2>7, SameFollower
<1>3. CASE Tick \/ CloseDaemon \/ Checkpoint \/ UNCHANGED vars
  <2>1. UNCHANGED <<acts, journal, rows, follower>>
    BY <1>3 DEF Tick, CloseDaemon, Checkpoint, vars, file
  <2>2. PICK L : L = rows  OBVIOUS
  <2>3. rows' = L /\ Settled' = S /\ Sent(L, c, g, S)  BY <1>a, <1>b, <2>1, <2>2 DEF Settled
  <2> QED BY <1>a, <2>1, <2>3, SameFollower
<1>4. CASE \E w \in Windows : Ask(w)
  <2>1. PICK w \in Windows : Ask(w)  BY <1>4
  <2>2. UNCHANGED <<acts, journal, follower>>  BY <2>1, AskIs
  <2>3. PICK N : N \in Seq(ToSet(N)) /\ rows' = rows \o N /\ \A k \in DOMAIN N : Finding(N[k])
    BY <2>1, AskIs
  <2>4. PICK L : L = rows \o N  OBVIOUS
  <2>5. PICK Q : Q = R \cup ToSet(N)  OBVIOUS
  <2>6. rows \in Seq(Q) /\ N \in Seq(Q)  BY <1>b, <2>3, <2>5
  <2>7. PICK l \in Nat, n \in Nat : l = Len(rows) /\ n = Len(N) /\ DOMAIN N = 1..n  BY <2>6
  <2>8. L \in Seq(Q) /\ Len(L) = l + n  BY <2>4, <2>6, <2>7
  <2>9. \A i \in 1..l : L[i] = rows[i]  BY <2>4, <2>6, <2>7
  <2>10. \A i \in (l + 1)..(l + n) : i - l \in 1..n /\ L[i] = N[i - l]  BY <2>4, <2>6, <2>7
  <2>11. \A i \in (l + 1)..(l + n) : \A a \in S : a.id # L[i].id
    <3>1. \A a \in S, k \in 1..n : a.id # N[k].id
      <4> SUFFICES ASSUME NEW a \in S, NEW k \in 1..n PROVE a.id # N[k].id  OBVIOUS
      <4>1. a.id \in {"evt"} \X Nat  BY <1>b, <1>c
      <4>2. Finding(N[k])  BY <2>3, <2>7
      <4> QED BY <4>1, <4>2 DEF Finding
    <3> QED BY <2>10, <3>1
  <2>12. Sent(L, c, g, S)
    <3>1. Len(rows) <= Len(L) /\ \A i \in 1..Len(rows) : L[i] = rows[i]  BY <2>7, <2>8, <2>9
    <3>2. \A i \in (Len(rows) + 1)..Len(L) : \A a \in S : a.id # L[i].id  BY <2>7, <2>8, <2>11
    <3> QED BY <1>b, <2>6, <2>8, <3>1, <3>2, SentExtends
  <2>13. rows' = L /\ Settled' = S  BY <1>a, <2>2, <2>3, <2>4 DEF Settled
  <2> QED BY <1>a, <2>2, <2>12, <2>13, SameFollower
<1>5. CASE Prune
  <2>1. Written(Select(rows, {i \in DOMAIN rows : rows[i].at >= now})) /\ UNCHANGED <<acts, journal, follower>>
    BY <1>5 DEF Prune
  <2>2. PICK I \in SUBSET (DOMAIN rows) : I = {i \in DOMAIN rows : rows[i].at >= now}  OBVIOUS
  <2>3. PICK L : L = Select(rows, I)  OBVIOUS
  <2>4. Sent(L, c, g, S)  BY <1>b, <2>3, SentSelect
  <2>5. rows' = L /\ Settled' = S  BY <1>a, <2>1, <2>2, <2>3 DEF Written, Settled
  <2> QED BY <1>a, <2>1, <2>4, <2>5, SameFollower
<1>6. CASE OpenDaemon
  <2>1. follower' = [state |-> "following", cursor |-> None, got |-> <<>>]  BY <1>6 DEF OpenDaemon, Following
  <2>2. PICK f : f = [state |-> "following", cursor |-> None, got |-> <<>>]  OBVIOUS
  <2>3. \A L, Q : Sent(L, None, <<>>, Q)  BY DEF Sent
  <2>4. f = [state |-> f.state, cursor |-> f.cursor, got |-> f.got] /\ f.cursor = None /\ f.got = <<>>  BY <2>2
  <2>5. \A L, Q : Sent(L, f.cursor, f.got, Q)  BY <2>3, <2>4
  <2>6. PICK L, Q : L = rows' /\ Q = Settled'  OBVIOUS
  <2> QED BY <2>1, <2>2, <2>4, <2>5, <2>6 DEF FollowInv
<1>7. CASE Poll
  <2>1. PICK f : f = follower  OBVIOUS
  <2>2. UNCHANGED <<acts, journal, rows>>  BY <1>7 DEF Poll, file
  <2>3. PICK matching, p :
          /\ matching = {e \in ToSet(rows) : Matches(e)}
          /\ p = ListEvents(rows, c, matching, Limit)
    OBVIOUS
  <2>4. follower' = CASE ~Readable -> [f EXCEPT !.state = "unavailable"]
                      [] Readable /\ ~CursorFound(rows, c) -> [f EXCEPT !.state = "cursor"]
                      [] OTHER -> [f EXCEPT !.cursor = p.cursor, !.got = @ \o p.events]
    BY <1>a, <1>7, <2>1, <2>3 DEF Poll
  <2>5. f = [state |-> f.state, cursor |-> c, got |-> g]  BY <1>a, <2>1 DEF FollowInv
  <2>6. \E s, d, h : follower' = [state |-> s, cursor |-> d, got |-> h] /\ Sent(rows, d, h, S)
    <3>1. CASE ~Readable
      <4>1. follower' = [f EXCEPT !.state = "unavailable"]  BY <2>4, <3>1
      <4>2. follower' = [state |-> "unavailable", cursor |-> c, got |-> g]  BY <2>5, <4>1
      <4> QED BY <1>b, <4>2
    <3>2. CASE Readable /\ ~CursorFound(rows, c)
      <4>1. follower' = [f EXCEPT !.state = "cursor"]  BY <2>4, <3>2
      <4>2. follower' = [state |-> "cursor", cursor |-> c, got |-> g]  BY <2>5, <4>1
      <4> QED BY <1>b, <4>2
    <3>3. CASE Readable /\ CursorFound(rows, c)
      <4>1. follower' = [f EXCEPT !.cursor = p.cursor, !.got = @ \o p.events]  BY <2>4, <3>3
      <4>2. follower' = [state |-> f.state, cursor |-> p.cursor, got |-> g \o p.events]
        <5>1. PICK s, h, d : s = f.state /\ h = g \o p.events /\ d = p.cursor  OBVIOUS
        <5>2. f.got = g /\ f = [state |-> s, cursor |-> c, got |-> g]  BY <2>5, <5>1
        <5>3. follower' = [f EXCEPT !.cursor = d, !.got = h]  BY <4>1, <5>1, <5>2
        <5>4. PICK k : k = follower'  OBVIOUS
        <5>6. k = [f EXCEPT !.cursor = d, !.got = h]  BY <5>3, <5>4
        <5>8. PICK r : r = [f EXCEPT !.cursor = d]  OBVIOUS
        <5>9. r = [state |-> s, cursor |-> d, got |-> g]  BY <5>2, <5>8
        <5>10. k = [r EXCEPT !.got = h]  BY <5>6, <5>8
        <5>7. k = [state |-> s, cursor |-> d, got |-> h]  BY <5>9, <5>10
        <5>5. follower' = [state |-> s, cursor |-> d, got |-> h]  BY <5>4, <5>7
        <5> QED BY <5>1, <5>5
      <4>3. \A i \in DOMAIN rows : rows[i] \in S
        <5> TAKE i \in DOMAIN rows
        <5>1. ~Finding(rows[i])  BY <3>3 DEF Readable, Finding
        <5>2. rows[i] \in ToSet(rows)  BY DEF ToSet
        <5> QED BY <1>b, <5>1, <5>2 DEF ActsInv, Fits
      <4>4. rows \in Seq(S)
        <5>1. PICK n \in Nat : n = Len(rows) /\ DOMAIN rows = 1..n /\ rows \in [1..n -> R]  BY <1>b
        <5>2. rows \in [1..n -> S]  BY <4>3, <5>1
        <5> QED BY <5>2
      <4>5. \A i, j \in DOMAIN rows : rows[i].id = rows[j].id => i = j
        <5>1. \A i \in DOMAIN rows : ~Finding(rows[i])  BY <3>3 DEF Readable, Finding
        <5> QED BY <5>1 DEF ActsInv, Fits
      <4>6. \A a \in S : a.id # None  BY <1>b, <1>c, AnswersAssumption
      <4>7. \A a, b \in S : a.id = b.id => a = b  BY <1>b, ActIds
      <4>8. \A i \in DOMAIN rows : rows[i] \in matching <=> Matches(rows[i])  BY <2>3 DEF ToSet
      <4>9. Sent(rows, p.cursor, g \o p.events, S)
        BY <1>b, <2>3, <3>3, <4>4, <4>5, <4>6, <4>7, <4>8, PageKeeps, AnswersAssumption
      <4> QED BY <4>2, <4>9
    <3> QED BY <3>1, <3>2, <3>3
  <2>7. PICK s, d, h : follower' = [state |-> s, cursor |-> d, got |-> h] /\ Sent(rows, d, h, S)  BY <2>6
  <2>8. PICK L : L = rows  OBVIOUS
  <2>9. rows' = L /\ Settled' = S /\ Sent(L, d, h, S)  BY <1>a, <2>2, <2>7, <2>8 DEF Settled
  <2>10. follower' = [state |-> follower.state, cursor |-> follower.cursor, got |-> follower.got]'
         /\ follower.cursor' = d /\ follower.got' = h
    BY <2>7
  <2> QED BY <2>9, <2>10 DEF FollowInv
<1> QED BY <1>1, <1>2, <1>3, <1>4, <1>5, <1>6, <1>7 DEF Next

(* A follower is sent every matching row up to its cursor once             *)
(* (services.ts, listEvents and followEvents), whatever is drained late,   *)
(* pruned or found meanwhile.                                              *)
THEOREM FollowedProven == Spec => []FollowedOnce
<1>1. Init => FollowInv
  <2> SUFFICES ASSUME Init PROVE FollowInv  OBVIOUS
  <2>1. follower = [state |-> "following", cursor |-> None, got |-> <<>>]  BY DEF Init, Following
  <2>2. \A L, Q : Sent(L, None, <<>>, Q)  BY DEF Sent
  <2> QED BY <2>1, <2>2 DEF FollowInv
<1>2. ActsInv /\ FollowInv => FollowedOnce
  <2> SUFFICES ASSUME ActsInv, FollowInv PROVE FollowedOnce  OBVIOUS
  <2>1. PICK c, g, S : c = follower.cursor /\ g = follower.got /\ S = Settled  OBVIOUS
  <2>2. Sent(rows, c, g, S)  BY <2>1 DEF FollowInv
  <2>3. PICK u : u = IF c = None \/ ~CursorFound(rows, c) THEN 0
                     ELSE CHOOSE i \in DOMAIN rows : rows[i].id = c
    OBVIOUS
  <2>4. DOMAIN rows = 1..Len(rows) /\ Len(rows) \in Nat  BY DEF ActsInv, Fits
  <2>5. /\ \A i, j \in DOMAIN g : i # j => g[i].id # g[j].id
        /\ \A i \in 1..u : Matches(rows[i]) => rows[i] \in ToSet(g)
        /\ CursorFound(rows, c) => \A i \in (u + 1)..Len(rows) : rows[i] \notin ToSet(g)
    <3>1. \A i, j \in DOMAIN g : i # j => g[i].id # g[j].id  BY <2>2 DEF Sent
    <3>2. CASE c # None /\ CursorFound(rows, c)
      <4>1. \E i \in DOMAIN rows : rows[i].id = c  BY <3>2 DEF CursorFound
      <4>2. u = CHOOSE i \in DOMAIN rows : rows[i].id = c  BY <2>3, <3>2
      <4>3. u \in DOMAIN rows /\ rows[u].id = c  BY <4>1, <4>2
      <4> QED BY <2>2, <3>1, <3>2, <4>3 DEF Sent
    <3>3. CASE c = None
      <4>1. u = 0 /\ g = <<>>  BY <2>2, <2>3, <3>3 DEF Sent
      <4>2. ToSet(g) = {}  BY <4>1 DEF ToSet
      <4> QED BY <3>1, <4>1, <4>2
    <3>4. CASE ~CursorFound(rows, c)
      <4>1. u = 0  BY <2>3, <3>4
      <4> QED BY <3>1, <3>4, <4>1
    <3> QED BY <3>2, <3>3, <3>4
  <2> QED BY <2>1, <2>3, <2>5 DEF FollowedOnce
<1>3. Spec => [](ActsInv /\ FollowInv)  BY <1>1, ActsAlways, FollowStep, PTL DEF Spec
<1> QED BY <1>2, <1>3, PTL

-----------------------------------------------------------------------------
(* Work at once.                                                           *)
LEMMA TwoOf ==
  ASSUME NEW S, IsFiniteSet(S), NEW x \in S, NEW y \in S, x # y
  PROVE  Cardinality(S) >= 2
<1>1. IsFiniteSet({x}) /\ Cardinality({x}) = 1  BY FS_Singleton
<1>2. IsFiniteSet({x} \cup {y}) /\ Cardinality({x} \cup {y}) = 2  BY <1>1, FS_AddElement
<1>3. {x} \cup {y} \subseteq S  OBVIOUS
<1>4. Cardinality({x} \cup {y}) <= Cardinality(S)  BY <1>3, FS_Subset
<1>5. Cardinality(S) \in Nat  BY FS_CardinalityType
<1> QED BY <1>2, <1>4, <1>5

(* The changes asked about are in the order of the ledger.                 *)
InStep(L, T) == \E h \in [DOMAIN T -> DOMAIN L] :
  /\ \A n \in DOMAIN T : T[n] = L[h[n]]
  /\ \A m, n \in DOMAIN T : m < n => h[m] < h[n]

(* Selecting keeps the order.                                              *)
LEMMA SelectInStep ==
  ASSUME NEW R, NEW L \in Seq(R), NEW I \in SUBSET (DOMAIN L)
  PROVE  InStep(L, Select(L, I))
<1>1. PICK M : M = Select(L, I)  OBVIOUS
<1>2. Picked(L, I, M)  BY <1>1, SelectIs
<1>3. PICK f \in [DOMAIN M -> I] :
        /\ \A n \in DOMAIN M : M[n] = L[f[n]]
        /\ \A m, n \in DOMAIN M : m < n => f[m] < f[n]
  BY <1>2 DEF Picked
<1>4. f \in [DOMAIN M -> DOMAIN L]  OBVIOUS
<1>5. InStep(L, M)  BY <1>3, <1>4 DEF InStep
<1> QED BY <1>1, <1>5

LEMMA TouchesInStep ==
  ASSUME NEW R, NEW L \in Seq(R), NEW q, NEW W, NEW T, NEW types,
         W = ReadWindow(L, q.since, types), T = Touches(W, q)
  PROVE  InStep(L, T)
<1>1. PICK I \in SUBSET (DOMAIN L) : I = {i \in DOMAIN L : L[i].type \in types /\ L[i].at >= q.since}  OBVIOUS
<1>2. W \in Seq(R) /\ InStep(L, W)
  <2>1. W = Select(L, I)  BY <1>1 DEF ReadWindow
  <2>2. W \in Seq(R)  BY WindowIs
  <2>3. InStep(L, Select(L, I))  BY SelectInStep
  <2> QED BY <2>1, <2>2, <2>3
<1>3. PICK J \in SUBSET (DOMAIN W) : J = {i \in DOMAIN W :
        /\ W[i].type = "file.changed" /\ (W[i].task # None \/ Known(W[i]))
        /\ q.path \in {None, W[i].what}}
  OBVIOUS
<1>4. InStep(W, T)  BY <1>2, <1>3, SelectInStep DEF Touches
<1>5. PICK h \in [DOMAIN W -> DOMAIN L] :
        /\ \A n \in DOMAIN W : W[n] = L[h[n]]
        /\ \A m, n \in DOMAIN W : m < n => h[m] < h[n]
  BY <1>2 DEF InStep
<1>6. PICK k \in [DOMAIN T -> DOMAIN W] :
        /\ \A n \in DOMAIN T : T[n] = W[k[n]]
        /\ \A m, n \in DOMAIN T : m < n => k[m] < k[n]
  BY <1>4 DEF InStep
<1>7. PICK j : j = [n \in DOMAIN T |-> h[k[n]]]  OBVIOUS
<1>8. j \in [DOMAIN T -> DOMAIN L]  BY <1>7
<1>9. \A n \in DOMAIN T : T[n] = L[j[n]]  BY <1>5, <1>6, <1>7
<1>10. \A m, n \in DOMAIN T : m < n => j[m] < j[n]  BY <1>5, <1>6, <1>7
<1> QED BY <1>8, <1>9, <1>10 DEF InStep

(* Every change of a file comes with or after the first of its side.       *)
LEMMA FirstOf ==
  ASSUME NEW R, NEW T \in Seq(R), NEW n \in DOMAIN T
  PROVE  \E i \in FirstTouches(T, T[n].what) : i <= n /\ Participant(T[i]) = Participant(T[n])
<1>1. PICK f, p : f = T[n].what /\ p = Participant(T[n])  OBVIOUS
<1>2. PICK S : S = {i \in DOMAIN T : T[i].what = f /\ Participant(T[i]) = p}  OBVIOUS
<1>3. PICK l \in Nat : l = Len(T) /\ DOMAIN T = 1..l  OBVIOUS
<1>4. S \subseteq Nat /\ n \in S  BY <1>1, <1>2, <1>3
<1>5. PICK i \in S : \A m \in S : i <= m  BY <1>4, Least
<1>6. i \in DOMAIN T /\ T[i].what = f /\ Participant(T[i]) = p  BY <1>2
<1>7. \A j \in 1..(i - 1) : T[j].what = f => Participant(T[j]) # p
  <2> SUFFICES ASSUME NEW j \in 1..(i - 1), T[j].what = f, Participant(T[j]) = p PROVE FALSE  OBVIOUS
  <2>1. j \in DOMAIN T /\ j < i /\ i \in Nat /\ j \in Nat  BY <1>3, <1>6
  <2>2. j \in S  BY <1>2, <2>1
  <2> QED BY <1>5, <2>1, <2>2
<1>8. i \in FirstTouches(T, f)  BY <1>6, <1>7 DEF FirstTouches
<1> QED BY <1>1, <1>4, <1>5, <1>6, <1>8

(* Files are put in a strict and total order.                              *)
LatestFirst(T, F) == {p \in F \X F :
  \/ Latest(T, p[1]) > Latest(T, p[2])
  \/ Latest(T, p[1]) = Latest(T, p[2]) /\ FirstRow(T, p[1]) < FirstRow(T, p[2])}

LEMMA LatestOrders ==
  ASSUME NEW R, NEW T \in Seq(R), NEW b \in Nat, \A i \in DOMAIN T : T[i].at \in 0..b,
         NEW F, \A f \in F : \E i \in DOMAIN T : T[i].what = f
  PROVE  Orders(LatestFirst(T, F), F)
<1>1. PICK l \in Nat : l = Len(T) /\ DOMAIN T = 1..l  OBVIOUS
<1>2. \A f \in F : Latest(T, f) \in Nat
  <2> TAKE f \in F
  <2>1. PICK n \in DOMAIN T : T[n].what = f  OBVIOUS
  <2>2. PICK i \in FirstTouches(T, f) : i <= n  BY <2>1, FirstOf
  <2>3. PICK S : S = {T[k].at : k \in FirstTouches(T, f)}  OBVIOUS
  <2>4. S \subseteq 0..b /\ S # {}  BY <2>2, <2>3 DEF FirstTouches
  <2>5. Max(S) \in S  BY <2>4, Extremes
  <2>6. 0..b \subseteq Nat  OBVIOUS
  <2> QED BY <2>3, <2>4, <2>5, <2>6 DEF Latest
<1>3. \A f \in F : FirstRow(T, f) \in Nat /\ T[FirstRow(T, f)].what = f
  <2> TAKE f \in F
  <2>1. PICK S : S = {i \in DOMAIN T : T[i].what = f}  OBVIOUS
  <2>2. S \subseteq 0..l /\ S # {}  BY <1>1, <2>1
  <2>3. Min(S) \in S  BY <2>2, Extremes
  <2>4. 0..l \subseteq Nat  OBVIOUS
  <2>5. PICK m : m = Min(S)  OBVIOUS
  <2>6. m \in Nat /\ T[m].what = f  BY <2>1, <2>2, <2>3, <2>4, <2>5
  <2> QED BY <2>1, <2>5, <2>6 DEF FirstRow
<1> DEFINE g(f) == Latest(T, f)
           r(f) == FirstRow(T, f)
<1>4. \A x, y \in F : <<x, y>> \in LatestFirst(T, F) <=> (g(x) > g(y) \/ (g(x) = g(y) /\ r(x) < r(y)))
  BY DEF LatestFirst
<1>5. \A x \in F : g(x) \in Nat /\ r(x) \in Nat  BY <1>2, <1>3
<1>6. \A x, y \in F : x # y => r(x) # r(y)  BY <1>3
<1> HIDE DEF g, r
<1>7. \A x \in F : <<x, x>> \notin LatestFirst(T, F)  BY <1>4, <1>5
<1>8. ASSUME NEW x \in F, NEW y \in F, NEW z \in F,
             <<x, y>> \in LatestFirst(T, F), <<y, z>> \in LatestFirst(T, F)
      PROVE  <<x, z>> \in LatestFirst(T, F)
  <2>1. g(x) > g(y) \/ (g(x) = g(y) /\ r(x) < r(y))  BY <1>4, <1>8
  <2>2. g(y) > g(z) \/ (g(y) = g(z) /\ r(y) < r(z))  BY <1>4, <1>8
  <2>3. /\ g(x) \in Nat /\ g(y) \in Nat /\ g(z) \in Nat
        /\ r(x) \in Nat /\ r(y) \in Nat /\ r(z) \in Nat
    BY <1>5
  <2>4. g(x) > g(z) \/ (g(x) = g(z) /\ r(x) < r(z))  BY <2>1, <2>2, <2>3
  <2> QED BY <1>4, <2>4
<1>9. ASSUME NEW x \in F, NEW y \in F, x # y
      PROVE  <<x, y>> \in LatestFirst(T, F) \/ <<y, x>> \in LatestFirst(T, F)
  <2>1. r(x) # r(y)  BY <1>6, <1>9
  <2>2. g(x) \in Nat /\ g(y) \in Nat /\ r(x) \in Nat /\ r(y) \in Nat  BY <1>5
  <2>3. \/ g(x) > g(y) \/ (g(x) = g(y) /\ r(x) < r(y))
        \/ g(y) > g(x) \/ (g(y) = g(x) /\ r(y) < r(x))
    BY <2>1, <2>2
  <2> QED BY <1>4, <2>3
<1> QED BY <1>7, <1>8, <1>9 DEF Orders

WorkTypes == {"tool.requested", "file.changed"}

(* A change no other of its side comes before is at its side's first row.  *)
LEMMA SideIs ==
  ASSUME ActsInv, NEW f, InOrder(f), NEW R, rows \in Seq(R), R = ToSet(rows),
         NEW q, q.path = None, q.since \in Nat, NEW W \in Seq(R), NEW T \in Seq(R),
         W = ReadWindow(rows, q.since, WorkTypes), T = Touches(W, q),
         NEW e \in Changed(f) \cap R, Known(e), q.since <= e.at,
         \A x \in Changed(f) : Participant(x) = Participant(e) =>
           x.at < q.since \/ e.at < x.at \/ (e.at = x.at /\ Worker(x) = Worker(e))
  PROVE  \E i \in FirstTouches(T, f) : T[i].at = e.at /\ Worker(T[i]) = Worker(e)
                                       /\ Participant(T[i]) = Participant(e)
<1>1. /\ ToSet(W) = {x \in R : x.type \in WorkTypes /\ x.at >= q.since}
      /\ ToSet(T) = {x \in ToSet(W) : x.type = "file.changed" /\ (x.task # None \/ Known(x))}
  <2>1. ToSet(ReadWindow(rows, q.since, WorkTypes)) =
          {x \in ToSet(rows) : x.type \in WorkTypes /\ x.at >= q.since}
    BY WindowIs
  <2>2. \A x : x \in ToSet(Touches(W, q)) <=>
                /\ x \in ToSet(W) /\ x.type = "file.changed"
                /\ (x.task # None \/ Known(x)) /\ q.path \in {None, x.what}
    BY TouchesAre
  <2> QED BY <2>1, <2>2
<1>2. e.type = "file.changed" /\ e.what = f  BY DEF Changed
<1>3. \A x \in ToSet(acts) : x.at \in 0..now /\ x.type # "finding.created"
  BY DEF ActsInv, ActIs, ToSet
<1>4. now \in Nat /\ 0..now \subseteq Nat  BY DEF ActsInv
<1>5. e.at \in Nat  BY <1>3, <1>4 DEF Changed
<1>6. e \in ToSet(T)  BY <1>1, <1>2, <1>5 DEF WorkTypes
<1>7. PICK n \in DOMAIN T : T[n] = e  BY <1>6 DEF ToSet
<1>8. PICK i \in FirstTouches(T, f) : i <= n /\ Participant(T[i]) = Participant(e)
  <2>1. \E i \in FirstTouches(T, T[n].what) : i <= n /\ Participant(T[i]) = Participant(T[n])  BY FirstOf
  <2> QED BY <1>2, <1>7, <2>1
<1>9. i \in DOMAIN T /\ T[i].what = f  BY <1>8 DEF FirstTouches
<1>10. PICK x : x = T[i]  OBVIOUS
<1>11. /\ x \in ToSet(T) /\ x \in R /\ x.type = "file.changed" /\ x.what = f /\ x.at >= q.since
       /\ Participant(x) = Participant(e)
  <2>1. x \in ToSet(T)  BY <1>9, <1>10 DEF ToSet
  <2> QED BY <1>1, <1>8, <1>9, <1>10, <2>1
<1>12. x \in Changed(f) /\ x.at \in Nat
  <2>1. x \in ToSet(acts)  BY <1>11 DEF ActsInv, Fits, Finding
  <2> QED BY <1>3, <1>4, <1>11, <2>1 DEF Changed
<1>13. ~(e.at < x.at)
  <2>0. SUFFICES ASSUME e.at < x.at PROVE FALSE  OBVIOUS
  <2>1. Index(rows, e) < Index(rows, x)  BY <1>11, <1>12, <2>0 DEF InOrder
  <2>2. PICK h \in [DOMAIN T -> DOMAIN rows] :
          /\ \A k \in DOMAIN T : T[k] = rows[h[k]]
          /\ \A m, k \in DOMAIN T : m < k => h[m] < h[k]
    <3>1. InStep(rows, T)  BY TouchesInStep
    <3> QED BY <3>1 DEF InStep
  <2>3. ASSUME NEW k \in DOMAIN T, T[k] \in Changed(f) PROVE Index(rows, T[k]) = h[k]
    <3>1. rows[h[k]] = T[k] /\ h[k] \in DOMAIN rows  BY <2>2
    <3>2. ~Finding(T[k])  BY <1>3, <2>3 DEF Finding, Changed
    <3>3. \A j \in DOMAIN rows : rows[j] = T[k] => h[k] = j  BY <3>1, <3>2 DEF ActsInv, Fits
    <3> QED BY <3>1, <3>3 DEF Index
  <2>4. h[n] < h[i]  BY <1>7, <1>9, <1>10, <1>12, <2>1, <2>3
  <2>5. i < n
    <3>1. i # n  BY <1>5, <1>7, <1>10, <2>0
    <3>2. DOMAIN T = 1..Len(T)  OBVIOUS
    <3>3. i \in Nat /\ n \in Nat  BY <1>9, <3>2
    <3> QED BY <1>8, <3>1, <3>3
  <2>6. h[i] < h[n]  BY <1>9, <2>2, <2>5
  <2>7. h[i] \in Nat /\ h[n] \in Nat
    <3>1. DOMAIN rows = 1..Len(rows)  OBVIOUS
    <3>2. h[i] \in DOMAIN rows /\ h[n] \in DOMAIN rows  BY <1>9
    <3> QED BY <3>1, <3>2
  <2> QED BY <2>4, <2>6, <2>7
<1>14. e.at = x.at /\ Worker(x) = Worker(e)  BY <1>5, <1>11, <1>12, <1>13
<1> QED BY <1>8, <1>10, <1>14

(* What the invariant says of work at once.                                *)
LEMMA SeenNow == ActsInv => InterleavingSeen
<1> SUFFICES ASSUME ActsInv, NEW f, NEW w \in Windows, InOrder(f), f \notin Ignored, AtOnce(f, Since(w))
             PROVE  \/ FindOverlappingWork(rows, Question(Since(w))).truncated > 0
                    \/ \E i \in DOMAIN FindOverlappingWork(rows, Question(Since(w))).overlaps :
                         FindOverlappingWork(rows, Question(Since(w))).overlaps[i].path = f
  BY DEF InterleavingSeen
<1>1. now \in Nat /\ 0..now \subseteq Nat  BY DEF ActsInv
<1>2. PICK since \in Nat : since = Since(w)  BY <1>1, AnswersAssumption DEF Since
<1>3. PICK q : /\ q = Question(since) /\ q.since = since /\ q.path = None /\ q.task = None /\ q.limit = Limit
  <2>1. PICK q : q = Question(since)  OBVIOUS
  <2>2. q.since = since /\ q.path = None /\ q.task = None /\ q.limit = Limit  BY <2>1 DEF Question
  <2> QED BY <2>1, <2>2
<1>4. PICK R : R = ToSet(rows)  OBVIOUS
<1>5. rows \in Seq(R)  BY <1>4 DEF ActsInv, Fits
<1>6. PICK W \in Seq(R), T \in Seq(R) : \E F, all : AnswerOf(rows, q, W, T, F, all)  BY <1>5, AnswerIs
<1>7. PICK F, all : AnswerOf(rows, q, W, T, F, all)  BY <1>6
<1>8. /\ W = ReadWindow(rows, since, WorkTypes) /\ T = Touches(W, q)
      /\ F = Contested(W, T, q) /\ IsFiniteSet(F)
      /\ all \in Seq(ToSet(all)) /\ Len(all) = Cardinality(F)
      /\ \A n \in DOMAIN all : all[n] = Overlap(rows, W, T, ByLatest(T, F)[n])
  BY <1>3, <1>7 DEF AnswerOf, WorkTypes
<1>9. /\ ToSet(W) = {x \in R : x.type \in WorkTypes /\ x.at >= since}
      /\ ToSet(T) \subseteq ToSet(W)
  <2>1. ToSet(ReadWindow(rows, since, WorkTypes)) =
          {x \in ToSet(rows) : x.type \in WorkTypes /\ x.at >= since}
    BY <1>5, WindowIs
  <2>2. \A x : x \in ToSet(Touches(W, q)) <=>
                /\ x \in ToSet(W) /\ x.type = "file.changed"
                /\ (x.task # None \/ Known(x)) /\ q.path \in {None, x.what}
    BY TouchesAre
  <2> QED BY <1>4, <1>8, <2>1, <2>2
<1>10. \A x \in ToSet(acts) : x.at \in 0..now  BY DEF ActsInv, ActIs, ToSet
<1>11. ToSet(W) \subseteq ToSet(acts)
  BY <1>4, <1>9 DEF ActsInv, Fits, Finding, WorkTypes
<1>12. PICK e \in Changed(f), d \in Changed(f), g \in ToSet(acts) :
         /\ Known(e) /\ Known(d) /\ Worker(e) # Worker(d) /\ Participant(e) # Participant(d)
         /\ Worker(g) = Worker(e) /\ g.type \in WorkTypes
         /\ since <= e.at /\ e.at < d.at /\ d.at - e.at <= IdleGap /\ d.at < g.at
         /\ {e, d, g} \subseteq R
         /\ \A x \in Changed(f), y \in {e, d} : Participant(x) = Participant(y) =>
              \/ x.at < since \/ y.at < x.at
              \/ y.at = x.at /\ Worker(x) = Worker(y)
  BY <1>2, <1>4 DEF AtOnce, WorkTypes
<1>13. e.at \in Nat /\ d.at \in Nat /\ g.at \in Nat  BY <1>1, <1>10, <1>12 DEF Changed
<1>14. PICK i \in FirstTouches(T, f) :
         T[i].at = e.at /\ Worker(T[i]) = Worker(e) /\ Participant(T[i]) = Participant(e)
  <2>1. \A x \in Changed(f) : Participant(x) = Participant(e) =>
          x.at < q.since \/ e.at < x.at \/ (e.at = x.at /\ Worker(x) = Worker(e))
    BY <1>3, <1>12
  <2>2. e \in Changed(f) \cap R /\ Known(e) /\ q.since <= e.at  BY <1>3, <1>12
  <2>3. InOrder(f) /\ q.path = None /\ q.since \in Nat /\ W = ReadWindow(rows, q.since, WorkTypes)
        /\ T = Touches(W, q)
    BY <1>3, <1>8
  <2> QED BY <1>4, <1>5, <2>1, <2>2, <2>3, SideIs
<1>15. PICK j \in FirstTouches(T, f) :
         T[j].at = d.at /\ Worker(T[j]) = Worker(d) /\ Participant(T[j]) = Participant(d)
  <2>1. \A x \in Changed(f) : Participant(x) = Participant(d) =>
          x.at < q.since \/ d.at < x.at \/ (d.at = x.at /\ Worker(x) = Worker(d))
    BY <1>3, <1>12
  <2>2. d \in Changed(f) \cap R /\ Known(d) /\ q.since <= d.at  BY <1>2, <1>3, <1>12, <1>13
  <2>3. InOrder(f) /\ q.path = None /\ q.since \in Nat /\ W = ReadWindow(rows, q.since, WorkTypes)
        /\ T = Touches(W, q)
    BY <1>3, <1>8
  <2> QED BY <1>4, <1>5, <2>1, <2>2, <2>3, SideIs
<1>16. i \in DOMAIN T /\ j \in DOMAIN T /\ T[i].what = f /\ FirstTouches(T, f) \subseteq DOMAIN T
  BY <1>14, <1>15 DEF FirstTouches
<1>17. Contends(W, T, i, j)
  <2>1. Known(T[i]) /\ Known(T[j]) /\ Worker(T[i]) # Worker(T[j])  BY <1>12, <1>14, <1>15 DEF Known
  <2>2. Before(T, i, j)  BY <1>12, <1>14, <1>15 DEF Before
  <2>3. e \in ToSet(W) /\ g \in ToSet(W)
    BY <1>2, <1>9, <1>12, <1>13 DEF Changed, WorkTypes
  <2>4. e.at \in Activity(W, Worker(e)) /\ g.at \in Activity(W, Worker(e))
    BY <1>12, <2>3 DEF Activity, Known
  <2>5. StillThere(W, Worker(e), d.at)  BY <1>12, <1>13, <2>4 DEF StillThere
  <2> QED BY <1>14, <1>15, <2>1, <2>2, <2>5 DEF Contends
<1>18. f \in F
  <2>1. IsFiniteSet(DOMAIN T)
    <3>1. DOMAIN T = 1..Len(T) /\ Len(T) \in Int /\ 1 \in Int  OBVIOUS
    <3> QED BY <3>1, FS_Interval
  <2>2. PICK I : I = FirstTouches(T, f)  OBVIOUS
  <2>3. IsFiniteSet(I) /\ i \in I /\ j \in I  BY <1>14, <1>15, <1>16, <2>1, <2>2, FS_Subset
  <2>4. i # j  BY <1>12, <1>13, <1>14, <1>15
  <2>5. Cardinality(I) >= 2  BY <2>3, <2>4, TwoOf
  <2>6. Workers(T, I) \subseteq {Worker(T[k]) : k \in I}  BY DEF Workers
  <2>7. IsFiniteSet({Worker(T[k]) : k \in I})
    <3> DEFINE v == [k \in I |-> Worker(T[k])]
    <3>1. v = [k \in I |-> v[k]]  OBVIOUS
    <3>2. {v[k] : k \in I} = {Worker(T[k]) : k \in I}  OBVIOUS
    <3> HIDE DEF v
    <3>3. IsFiniteSet({v[k] : k \in I})  BY <2>3, <3>1, Images
    <3> QED BY <3>2, <3>3
  <2>8. IsFiniteSet(Workers(T, I))  BY <2>6, <2>7, FS_Subset
  <2>9. Worker(e) \in Workers(T, I) /\ Worker(d) \in Workers(T, I)
    BY <1>14, <1>15, <1>17, <2>2 DEF Workers, Contends
  <2>10. Cardinality(Workers(T, I)) >= 2  BY <1>12, <2>8, <2>9, TwoOf
  <2>11. f \in Shared(T, q)  BY <1>3, <1>16, <2>2, <2>5, <2>10 DEF Shared
  <2>12. <<i, j>> \in Contending(W, T, FirstTouches(T, f))  BY <1>14, <1>15, <1>17 DEF Contending
  <2> QED BY <1>8, <2>11, <2>12 DEF Contested
<1>19. PICK n \in 1..Cardinality(F) : ByLatest(T, F)[n] = f
  <2>1. \A x \in F : \E k \in DOMAIN T : T[k].what = x  BY <1>8 DEF Contested, Shared
  <2>2. \A k \in DOMAIN T : T[k].at \in 0..now
    <3>1. \A k \in DOMAIN T : T[k] \in ToSet(T)  BY DEF ToSet
    <3> QED BY <1>9, <1>10, <1>11, <3>1
  <2>3. Orders(LatestFirst(T, F), F)  BY <1>1, <2>1, <2>2, LatestOrders
  <2>4. ByLatest(T, F) = Ranked(F, LatestFirst(T, F))  BY DEF ByLatest, LatestFirst
  <2>5. PICK O : O = LatestFirst(T, F)  OBVIOUS
  <2>6. \A x \in F : \E n \in 1..Cardinality(F) : Ranked(F, O)[n] = x
    <3>1. IsFiniteSet(F) /\ Orders(O, F)  BY <1>8, <2>3, <2>5
    <3> QED BY <3>1, RankedIs
  <2> QED BY <1>18, <2>4, <2>5, <2>6
<1>20. PICK N \in Nat : N = Len(all) /\ DOMAIN all = 1..N /\ n \in 1..N  BY <1>8, <1>19
<1>21. all[n].path = f
  <2>1. all[n] = Overlap(rows, W, T, f)  BY <1>8, <1>19, <1>20
  <2> QED BY <2>1 DEF Overlap
<1>22. PICK m \in Nat : m = Min({N, q.limit}) /\ m <= N  BY <1>3, MinOfTwo, AnswersAssumption
<1>23. PICK o : o = SubSeq(all, 1, m)  OBVIOUS
<1>24. Len(o) = m /\ DOMAIN o = 1..m /\ \A k \in 1..m : o[k] = all[k]
  <2>1. 1..m \subseteq 1..N  BY <1>20, <1>22
  <2>2. \A k \in 1..m : all[k] \in ToSet(all)  BY <1>20, <2>1 DEF ToSet
  <2>3. /\ o \in Seq(ToSet(all)) /\ Len(o) = (IF 1 <= m THEN m - 1 + 1 ELSE 0)
        /\ \A k \in 1..(m - 1 + 1) : o[k] = all[1 + k - 1]
    BY <1>23, <2>2, SubSeqProperties, 1 \in Int, m \in Int
  <2>4. o \in Seq(ToSet(all)) /\ Len(o) = m  BY <1>22, <2>3
  <2>5. \A k \in 1..m : 1 + k - 1 = k /\ k \in 1..(m - 1 + 1)  BY <1>22
  <2>6. \A k \in 1..m : o[k] = all[k]  BY <2>3, <2>5
  <2> QED BY <2>4, <2>6
<1>25. /\ FindOverlappingWork(rows, Question(Since(w))).overlaps = o
       /\ FindOverlappingWork(rows, Question(Since(w))).truncated = N - m
  BY <1>2, <1>3, <1>7, <1>20, <1>22, <1>23, <1>24 DEF AnswerOf
<1>26. CASE n <= m
  <2>1. n \in 1..m  BY <1>20, <1>22, <1>26
  <2> QED BY <1>21, <1>24, <1>25, <2>1
<1>27. CASE ~(n <= m)
  <2>1. N - m > 0  BY <1>20, <1>22, <1>27
  <2> QED BY <1>25, <2>1
<1> QED BY <1>26, <1>27

(* Work at once on a file, by two sides and with the earlier one still at  *)
(* it afterwards, is told, or is among what the answer says it left out    *)
(* (overlap.ts, findOverlappingWork).                                      *)
THEOREM SeenProven == Spec => []InterleavingSeen
<1> QED BY ActsAlways, SeenNow, PTL
=============================================================================
