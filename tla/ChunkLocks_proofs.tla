-------------------------- MODULE ChunkLocks_proofs -------------------------
(***************************************************************************)
(* Proofs about ChunkLocks, for arrays of any size, every timeout and every*)
(* increment of the array, and that it implements LockSet.                 *)
(***************************************************************************)
EXTENDS ChunkLocks, SequenceTheorems, WellFoundedInduction, TLAPS

-----------------------------------------------------------------------------
(***************************************************************************)
(* Induction                                                               *)
(***************************************************************************)

(* The naturals are well ordered.                                          *)
LEMMA LeastElement ==
  ASSUME NEW T \in SUBSET Nat, T # {}
  PROVE  \E x \in T : \A y \in T : x <= y
<1> DEFINE R == {ss \in Nat \X Nat : ss[1] < ss[2]}
<1>1. IsWellFoundedOn(R, Nat)
  BY NatLessThanWellFounded DEF OpToRel
<1>2. PICK x \in T : \A y \in T : <<y, x>> \notin R
  <2> HIDE DEF R
  <2>1. QED
    BY <1>1, WFMin
<1>3. ASSUME NEW y \in T PROVE x <= y
  <2>1. <<y, x>> \in Nat \X Nat /\ <<y, x>> \notin R
    BY <1>2
  <2>2. QED
    BY <2>1
<1>4. QED
  BY <1>3

(* Induction up to n, on a set instead of a predicate.                     *)
LEMMA InductionUpTo ==
  ASSUME NEW n \in Nat, NEW T, 0 \in T, \A i \in 0 .. n - 1 : i \in T => i + 1 \in T
  PROVE  \A i \in 0 .. n : i \in T
<1> SUFFICES ASSUME NEW m \in 0 .. n, m \notin T PROVE FALSE
  OBVIOUS
<1> DEFINE U == {i \in 0 .. n : i \notin T}
<1>1. U \in SUBSET Nat /\ U # {}
  OBVIOUS
<1>2. PICK x \in U : \A y \in U : x <= y
  <2> HIDE DEF U
  <2>1. QED
    BY <1>1, LeastElement
<1>3. x # 0 /\ x \in 0 .. n /\ x \notin T
  BY <1>2
<1>4. x - 1 \in 0 .. n - 1 /\ x - 1 + 1 = x /\ x - 1 \notin U
  BY <1>2, <1>3
<1>5. QED
  BY <1>3, <1>4

-----------------------------------------------------------------------------
(***************************************************************************)
(* chunk_locks_cleanup                                                     *)
(***************************************************************************)

LEMMA RemoveAtProperties ==
  ASSUME NEW S, NEW s \in Seq(S), NEW i \in 1 .. Len(s)
  PROVE  /\ RemoveAt(s, i) \in Seq(S)
         /\ Len(RemoveAt(s, i)) = Len(s) - 1
         /\ \A j \in 1 .. Len(s) - 1 : RemoveAt(s, i)[j] = IF j < i THEN s[j] ELSE s[j + 1]
<1> DEFINE a == SubSeq(s, 1, i - 1)
           b == SubSeq(s, i + 1, Len(s))
<1>1. /\ a \in Seq(S) /\ Len(a) = i - 1 /\ \A j \in 1 .. i - 1 : a[j] = s[j]
      /\ b \in Seq(S) /\ Len(b) = Len(s) - i /\ \A j \in 1 .. Len(s) - i : b[j] = s[i + j]
  BY SubSeqProperties, LenProperties, ElementOfSeq
<1>2. Len(s) \in Nat /\ RemoveAt(s, i) = a \o b
  BY LenProperties DEF RemoveAt
<1> HIDE DEF a, b
<1>3. /\ a \o b \in Seq(S) /\ Len(a \o b) = Len(a) + Len(b)
      /\ \A j \in 1 .. Len(a) + Len(b) : (a \o b)[j] = IF j <= Len(a) THEN a[j] ELSE b[j - Len(a)]
  BY <1>1, ConcatProperties
<1>4. ASSUME NEW j \in 1 .. Len(s) - 1
      PROVE  (a \o b)[j] = IF j < i THEN s[j] ELSE s[j + 1]
  <2>1. (a \o b)[j] = IF j <= i - 1 THEN a[j] ELSE b[j - (i - 1)]
    BY <1>1, <1>2, <1>3
  <2>2. CASE j < i
    BY <1>1, <1>2, <2>1, <2>2
  <2>3. CASE ~(j < i)
    <3>1. j - (i - 1) \in 1 .. Len(s) - i /\ i + (j - (i - 1)) = j + 1
      BY <1>2, <2>3
    <3>2. b[j - (i - 1)] = s[j + 1]
      BY <1>1, <3>1
    <3>3. QED
      BY <2>1, <2>3, <3>2
  <2>4. QED
    BY <2>2, <2>3
<1>5. Len(a \o b) = Len(s) - 1
  BY <1>1, <1>2, <1>3
<1>6. QED
  BY <1>2, <1>3, <1>4, <1>5

(* How after of Cleanup unfolds.                                           *)
CleanStep(array, g, i) ==
  IF i = Len(array) + 1 THEN array
  ELSE IF TimedOut(g[i + 1][i]) THEN RemoveAt(g[i + 1], i) ELSE g[i + 1]

CleanRec(array, from, g) == g = [i \in from .. Len(array) + 1 |-> CleanStep(array, g, i)]

LEMMA CleanExists ==
  ASSUME NEW array, Len(array) \in Nat
  PROVE  \E g : CleanRec(array, 1, g)
<1> DEFINE n == Len(array)
           T == {m \in 0 .. n : \E g : CleanRec(array, n + 1 - m, g)}
<1>1. 0 \in T
  <2> DEFINE g == [i \in n + 1 .. n + 1 |-> array]
  <2>1. \A i \in n + 1 .. n + 1 : g[i] = CleanStep(array, g, i)
    BY DEF CleanStep
  <2>2. g = [i \in n + 1 .. n + 1 |-> CleanStep(array, g, i)]
    BY <2>1
  <2> HIDE DEF g
  <2>3. CleanRec(array, n + 1, g)
    BY <2>2 DEF CleanRec
  <2>4. n + 1 - 0 = n + 1 /\ 0 \in 0 .. n
    OBVIOUS
  <2>5. QED
    BY <2>3, <2>4
<1>2. ASSUME NEW m \in 0 .. n - 1, m \in T PROVE m + 1 \in T
  <2>1. PICK k \in 1 .. n : k = n - m /\ k + 1 = n + 1 - m /\ k = n + 1 - (m + 1)
    <3>1. n - m \in 1 .. n /\ n - m + 1 = n + 1 - m /\ n - m = n + 1 - (m + 1)
      OBVIOUS
    <3>2. QED
      BY <3>1
  <2>2. PICK g : CleanRec(array, k + 1, g)
    BY <1>2, <2>1
  <2> DEFINE h == [i \in k .. n + 1 |-> IF i = k THEN CleanStep(array, g, i) ELSE g[i]]
  <2>3. \A i \in k .. n + 1 : h[i] = CleanStep(array, h, i)
    <3> SUFFICES ASSUME NEW i \in k .. n + 1 PROVE h[i] = CleanStep(array, h, i)
      OBVIOUS
    <3>1. i # n + 1 => i + 1 \in k + 1 .. n + 1 /\ h[i + 1] = g[i + 1]
      OBVIOUS
    <3>2. h[i] = CleanStep(array, g, i)
      BY <2>2 DEF CleanRec
    <3>3. CleanStep(array, g, i) = CleanStep(array, h, i)
      BY <3>1 DEF CleanStep
    <3>4. QED
      BY <3>2, <3>3
  <2>4. h = [i \in k .. n + 1 |-> CleanStep(array, h, i)]
    BY <2>3
  <2> HIDE DEF h
  <2>5. CleanRec(array, k, h)
    BY <2>4 DEF CleanRec
  <2>6. m + 1 \in 0 .. n
    OBVIOUS
  <2>7. QED
    BY <2>1, <2>5, <2>6
<1> HIDE DEF T
<1>3. \A m \in 0 .. n : m \in T
  BY <1>1, <1>2, InductionUpTo
<1>4. n \in T /\ n + 1 - n = 1
  BY <1>3
<1>5. QED
  BY <1>4 DEF T

LEMMA CleanUnfolds ==
  ASSUME NEW array, Len(array) \in Nat
  PROVE  \E g : CleanRec(array, 1, g) /\ Cleanup(array) = g[1]
<1>1. Cleanup(array) = (CHOOSE g : CleanRec(array, 1, g))[1]
  BY DEF Cleanup, CleanRec, CleanStep
<1>2. QED
  BY <1>1, CleanExists

(* s is the array once its elements from i on were visited; f tells where  *)
(* each element was.  Those before i have not moved.                       *)
Visited(array, S, i, s, f) ==
  /\ s \in Seq(S) /\ i - 1 <= Len(s) /\ Len(s) <= Len(array)
  /\ \A j \in 1 .. Len(s) : f[j] \in 1 .. Len(array) /\ s[j] = array[f[j]]
  /\ \A j \in 1 .. i - 1 : f[j] = j
  /\ \A j \in i .. Len(s) : i <= f[j] /\ ~TimedOut(s[j])
  /\ \A j, k \in 1 .. Len(s) : j < k => f[j] < f[k]
  /\ \A k \in i .. Len(array) : ~TimedOut(array[k]) => \E j \in i .. Len(s) : f[j] = k

LEMMA VisitKeeps ==
  ASSUME NEW S, NEW array \in Seq(S), NEW i \in 1 .. Len(array), NEW s, NEW f,
         Visited(array, S, i + 1, s, f), ~TimedOut(s[i])
  PROVE  Visited(array, S, i, s, f)
<1>1. Len(array) \in Nat /\ s \in Seq(S) /\ Len(s) \in Nat /\ i <= Len(s)
  BY LenProperties DEF Visited
<1>2. f[i] = i /\ s[i] = array[i] /\ i \in 1 .. Len(s)
  BY <1>1 DEF Visited
<1>3. \A j \in i .. Len(s) : j = i \/ j \in i + 1 .. Len(s)
  BY <1>1
<1>4. \A j \in i .. Len(s) : i <= f[j] /\ ~TimedOut(s[j])
  <2> SUFFICES ASSUME NEW j \in i .. Len(s) PROVE i <= f[j] /\ ~TimedOut(s[j])
    OBVIOUS
  <2>1. CASE j = i
    BY <1>2, <2>1
  <2>2. CASE j \in i + 1 .. Len(s)
    <3>1. i + 1 <= f[j] /\ ~TimedOut(s[j]) /\ f[j] \in 1 .. Len(array)
      BY <1>1, <2>2 DEF Visited
    <3>2. QED
      BY <1>1, <3>1
  <2>3. QED
    BY <1>3, <2>1, <2>2
<1>5. \A k \in i .. Len(array) : ~TimedOut(array[k]) => \E j \in i .. Len(s) : f[j] = k
  <2> SUFFICES ASSUME NEW k \in i .. Len(array), ~TimedOut(array[k])
               PROVE  \E j \in i .. Len(s) : f[j] = k
    OBVIOUS
  <2>1. CASE k = i
    BY <1>1, <1>2, <2>1
  <2>2. CASE k # i
    <3>1. k \in i + 1 .. Len(array)
      BY <1>1, <2>2
    <3>2. PICK j \in i + 1 .. Len(s) : f[j] = k
      BY <3>1 DEF Visited
    <3>3. QED
      BY <1>1, <3>2
  <2>3. QED
    BY <2>1, <2>2
<1>6. (\A j \in 1 .. i - 1 : f[j] = j) /\ i - 1 <= Len(s)
  BY <1>1 DEF Visited
<1>7. QED
  BY <1>4, <1>5, <1>6 DEF Visited

LEMMA VisitRemoves ==
  ASSUME NEW S, NEW array \in Seq(S), NEW i \in 1 .. Len(array), NEW s, NEW f,
         Visited(array, S, i + 1, s, f), TimedOut(s[i])
  PROVE  \E g : Visited(array, S, i, RemoveAt(s, i), g)
<1>1. Len(array) \in Nat /\ s \in Seq(S) /\ Len(s) \in Nat /\ i <= Len(s) /\ Len(s) <= Len(array)
  BY LenProperties DEF Visited
<1>2. f[i] = i /\ s[i] = array[i] /\ i \in 1 .. Len(s)
  BY <1>1 DEF Visited
<1> DEFINE r == RemoveAt(s, i)
<1>3. /\ r \in Seq(S) /\ Len(r) = Len(s) - 1
      /\ \A j \in 1 .. Len(s) - 1 : r[j] = IF j < i THEN s[j] ELSE s[j + 1]
  BY <1>1, <1>2, RemoveAtProperties
<1> HIDE DEF r
<1> DEFINE Was(j) == IF j < i THEN j ELSE j + 1
           g == [j \in 1 .. Len(r) |-> f[Was(j)]]
<1>4. \A j \in 1 .. Len(r) : Was(j) \in 1 .. Len(s) /\ r[j] = s[Was(j)] /\ g[j] = f[Was(j)]
  BY <1>1, <1>2, <1>3
<1>5. \A j, k \in 1 .. Len(r) : j < k => Was(j) < Was(k)
  BY <1>1, <1>2, <1>3
<1>6. \A j \in 1 .. i - 1 : j \in 1 .. Len(r) /\ Was(j) = j
  BY <1>1, <1>2, <1>3
<1>7. \A j \in i .. Len(r) : j \in 1 .. Len(r) /\ Was(j) \in i + 1 .. Len(s)
  BY <1>1, <1>2, <1>3
<1>8. \A k \in i + 1 .. Len(s) : k - 1 \in i .. Len(r) /\ Was(k - 1) = k
  BY <1>1, <1>2, <1>3
<1> HIDE DEF Was, g
<1>9. \A j \in 1 .. Len(r) : g[j] \in 1 .. Len(array) /\ r[j] = array[g[j]]
  BY <1>4 DEF Visited
<1>10. \A j \in 1 .. i - 1 : g[j] = j
  BY <1>4, <1>6 DEF Visited
<1>11. \A j \in i .. Len(r) : i <= g[j] /\ ~TimedOut(r[j])
  <2> SUFFICES ASSUME NEW j \in i .. Len(r) PROVE i <= g[j] /\ ~TimedOut(r[j])
    OBVIOUS
  <2>1. i + 1 <= g[j] /\ ~TimedOut(r[j]) /\ g[j] \in 1 .. Len(array)
    BY <1>4, <1>7, <1>9 DEF Visited
  <2>2. QED
    BY <1>1, <2>1
<1>12. \A j, k \in 1 .. Len(r) : j < k => g[j] < g[k]
  BY <1>4, <1>5 DEF Visited
<1>13. \A k \in i .. Len(array) : ~TimedOut(array[k]) => \E j \in i .. Len(r) : g[j] = k
  <2> SUFFICES ASSUME NEW k \in i .. Len(array), ~TimedOut(array[k])
               PROVE  \E j \in i .. Len(r) : g[j] = k
    OBVIOUS
  <2>1. k \in i + 1 .. Len(array)
    BY <1>1, <1>2
  <2>2. PICK j \in i + 1 .. Len(s) : f[j] = k
    BY <2>1 DEF Visited
  <2>3. j - 1 \in i .. Len(r) /\ g[j - 1] = k
    BY <1>4, <1>7, <1>8, <2>2
  <2>4. QED
    BY <2>3
<1>14. i - 1 <= Len(r) /\ Len(r) <= Len(array)
  BY <1>1, <1>3
<1>15. Visited(array, S, i, r, g)
  BY <1>3, <1>9, <1>10, <1>11, <1>12, <1>13, <1>14 DEF Visited
<1>16. QED
  BY <1>15 DEF r

(* chunk_locks_cleanup on an array of any length.                          *)
LEMMA CleanupVisitsAll ==
  ASSUME NEW S, NEW array \in Seq(S)
  PROVE  \E f : Visited(array, S, 1, Cleanup(array), f)
<1> DEFINE n == Len(array)
<1>1. n \in Nat
  BY LenProperties
<1>2. PICK g : CleanRec(array, 1, g) /\ Cleanup(array) = g[1]
  BY <1>1, CleanUnfolds
<1>3. \A i \in 1 .. n + 1 : g[i] = CleanStep(array, g, i)
  BY <1>2 DEF CleanRec
<1> DEFINE T == {m \in 0 .. n : \E f : Visited(array, S, n + 1 - m, g[n + 1 - m], f)}
<1>4. 0 \in T
  <2>1. g[n + 1] = array /\ n + 1 - 0 = n + 1 /\ 0 \in 0 .. n
    BY <1>1, <1>3 DEF CleanStep
  <2> DEFINE f == [j \in 1 .. n |-> j]
  <2>2. Visited(array, S, n + 1, array, f)
    BY <1>1 DEF Visited
  <2>3. QED
    BY <2>1, <2>2
<1>5. ASSUME NEW m \in 0 .. n - 1, m \in T PROVE m + 1 \in T
  <2>1. PICK k \in 1 .. n : k + 1 = n + 1 - m /\ k = n + 1 - (m + 1)
    <3>1. n - m \in 1 .. n /\ n - m + 1 = n + 1 - m /\ n - m = n + 1 - (m + 1)
      BY <1>1
    <3>2. QED
      BY <3>1
  <2>2. PICK f : Visited(array, S, k + 1, g[k + 1], f)
    BY <1>5, <2>1
  <2>3. k \in 1 .. n + 1 /\ k # n + 1 /\ m + 1 \in 0 .. n
    BY <1>1
  <2>4. g[k] = IF TimedOut(g[k + 1][k]) THEN RemoveAt(g[k + 1], k) ELSE g[k + 1]
    BY <1>3, <2>3 DEF CleanStep
  <2>5. \E h : Visited(array, S, k, g[k], h)
    BY <2>2, <2>4, VisitKeeps, VisitRemoves
  <2>6. QED
    BY <2>1, <2>3, <2>5
<1> HIDE DEF T
<1>6. \A m \in 0 .. n : m \in T
  BY <1>1, <1>4, <1>5, InductionUpTo
<1>7. n \in T /\ n + 1 - n = 1
  BY <1>1, <1>6
<1>8. QED
  BY <1>2, <1>7 DEF T

-----------------------------------------------------------------------------
(***************************************************************************)
(* The invariant: an array never locks a chunk twice, since a lock that    *)
(* timed out is cleaned up before its chunk is locked again.               *)
(***************************************************************************)
LockRecs == [chunkid : ChunkIds, peer : Peers, timestamp : 0 .. MaxTime]

OneLockEach(array) == \A i, j \in 1 .. Len(array) : i # j => array[i].chunkid # array[j].chunkid

Inv == TypeOK /\ FreeElement /\ OneLockEach(locks)

(* What chunk_locks_cleanup leaves of such an array.                       *)
LEMMA CleanupLocks ==
  ASSUME NEW array \in Seq(LockRecs), OneLockEach(array)
  PROVE  LET clean == Cleanup(array)
         IN /\ clean \in Seq(LockRecs) /\ Len(clean) <= Len(array)
            /\ OneLockEach(clean)
            /\ \A i \in 1 .. Len(clean) :
                 ~TimedOut(clean[i]) /\ \E k \in Surviving(array) : clean[i] = array[k]
            /\ \A k \in Surviving(array) : \E i \in 1 .. Len(clean) : clean[i] = array[k]
<1> DEFINE clean == Cleanup(array)
<1>1. PICK f : Visited(array, LockRecs, 1, clean, f)
  BY CleanupVisitsAll
<1> HIDE DEF clean
<1>2. Len(array) \in Nat /\ DOMAIN array = 1 .. Len(array) /\ clean \in Seq(LockRecs) /\ Len(clean) \in Nat
  BY <1>1, LenProperties DEF Visited
<1>3. \A i \in 1 .. Len(clean) : f[i] \in 1 .. Len(array) /\ clean[i] = array[f[i]] /\ ~TimedOut(clean[i])
  BY <1>1 DEF Visited
<1>4. \A i \in 1 .. Len(clean) : ~TimedOut(clean[i]) /\ \E k \in Surviving(array) : clean[i] = array[k]
  BY <1>2, <1>3 DEF Surviving
<1>5. \A k \in Surviving(array) : \E i \in 1 .. Len(clean) : clean[i] = array[k]
  <2> SUFFICES ASSUME NEW k \in Surviving(array) PROVE \E i \in 1 .. Len(clean) : clean[i] = array[k]
    OBVIOUS
  <2>1. k \in 1 .. Len(array) /\ ~TimedOut(array[k])
    BY <1>2 DEF Surviving
  <2>2. PICK i \in 1 .. Len(clean) : f[i] = k
    BY <1>1, <2>1 DEF Visited
  <2>3. QED
    BY <1>3, <2>2
<1>6. OneLockEach(clean)
  <2> SUFFICES ASSUME NEW i \in 1 .. Len(clean), NEW j \in 1 .. Len(clean), i # j
               PROVE  clean[i].chunkid # clean[j].chunkid
    BY DEF OneLockEach
  <2>1. i < j \/ j < i
    BY <1>2
  <2>2. f[i] < f[j] \/ f[j] < f[i]
    BY <1>1, <2>1 DEF Visited
  <2>3. f[i] # f[j]
    BY <1>2, <1>3, <2>2
  <2>4. QED
    BY <1>3, <2>3 DEF OneLockEach
<1>7. QED
  BY <1>1, <1>4, <1>5, <1>6 DEF Visited, clean

(* chunk_unlock removes the lock of the chunk, if there is one.            *)
Unlocked(array, cid) == RemoveFirstMatch(array, LAMBDA l : l.chunkid = cid)

LEMMA UnlockLocks ==
  ASSUME NEW array \in Seq(LockRecs), OneLockEach(array), NEW cid
  PROVE  LET r == Unlocked(array, cid)
         IN /\ r \in Seq(LockRecs) /\ Len(r) <= Len(array)
            /\ OneLockEach(r)
            /\ \A i \in 1 .. Len(r) :
                 r[i].chunkid # cid /\ \E k \in 1 .. Len(array) : r[i] = array[k]
            /\ \A k \in 1 .. Len(array) :
                 array[k].chunkid # cid => \E i \in 1 .. Len(r) : r[i] = array[k]
<1> DEFINE I == {i \in 1 .. Len(array) : array[i].chunkid = cid}
           r == Unlocked(array, cid)
<1>1. Len(array) \in Nat /\ I \in SUBSET Nat
  BY LenProperties
<1>2. CASE I = {}
  <2>1. r = array
    BY <1>2 DEF Unlocked, RemoveFirstMatch
  <2>2. \A k \in 1 .. Len(array) : array[k].chunkid # cid
    BY <1>2
  <2>3. \A k \in 1 .. Len(array) : \E i \in 1 .. Len(array) : array[i] = array[k]
    OBVIOUS
  <2> HIDE DEF r
  <2>4. Len(r) <= Len(array)
    BY <1>1, <2>1
  <2>5. QED
    BY <2>1, <2>2, <2>3, <2>4 DEF r
<1>3. CASE I # {}
  <2> DEFINE k == Min(I)
  <2>1. r = RemoveAt(array, k)
    BY <1>3 DEF Unlocked, RemoveFirstMatch, SelectInSeq
  <2>2. k \in I
    <3> HIDE DEF I
    <3>1. QED
      BY <1>1, <1>3, LeastElement DEF Min
  <2>3. k \in 1 .. Len(array) /\ array[k].chunkid = cid
    BY <2>2
  <2> HIDE DEF k, I
  <2>4. /\ r \in Seq(LockRecs) /\ Len(r) = Len(array) - 1
        /\ \A j \in 1 .. Len(array) - 1 : r[j] = IF j < k THEN array[j] ELSE array[j + 1]
    BY <2>1, <2>3, RemoveAtProperties
  <2> HIDE DEF r
  <2> DEFINE Was(j) == IF j < k THEN j ELSE j + 1
  <2>5. \A j \in 1 .. Len(r) : Was(j) \in 1 .. Len(array) /\ Was(j) # k /\ r[j] = array[Was(j)]
    BY <1>1, <2>3, <2>4
  <2>6. \A i, j \in 1 .. Len(r) : i # j => Was(i) # Was(j)
    BY <1>1, <2>3, <2>4
  <2>7. \A i \in 1 .. Len(array) : i # k => \E j \in 1 .. Len(r) : Was(j) = i
    <3> SUFFICES ASSUME NEW i \in 1 .. Len(array), i # k PROVE \E j \in 1 .. Len(r) : Was(j) = i
      OBVIOUS
    <3>1. CASE i < k
      <4>1. i \in 1 .. Len(r) /\ Was(i) = i
        BY <1>1, <2>3, <2>4, <3>1
      <4>2. QED
        BY <4>1
    <3>2. CASE ~(i < k)
      <4>1. i - 1 \in 1 .. Len(r) /\ Was(i - 1) = i
        BY <1>1, <2>3, <2>4, <3>2
      <4>2. QED
        BY <4>1
    <3>3. QED
      BY <3>1, <3>2
  <2> HIDE DEF Was
  <2>8. OneLockEach(r)
    BY SMTT(30), <2>5, <2>6 DEF OneLockEach
  <2>9. \A i \in 1 .. Len(r) : r[i].chunkid # cid /\ \E j \in 1 .. Len(array) : r[i] = array[j]
    BY <2>3, <2>5 DEF OneLockEach
  <2>10. \A j \in 1 .. Len(array) : array[j].chunkid # cid => \E i \in 1 .. Len(r) : r[i] = array[j]
    <3> SUFFICES ASSUME NEW j \in 1 .. Len(array), array[j].chunkid # cid
                 PROVE  \E i \in 1 .. Len(r) : r[i] = array[j]
      OBVIOUS
    <3>1. PICK i \in 1 .. Len(r) : Was(i) = j
      BY <2>3, <2>7
    <3>2. QED
      BY <2>5, <3>1
  <2>11. Len(r) <= Len(array)
    BY <1>1, <2>4
  <2>12. QED
    BY <2>4, <2>8, <2>9, <2>10, <2>11 DEF r
<1>4. QED
  BY <1>2, <1>3

LEMMA TryLockInv ==
  ASSUME Inv, NEW cid \in ChunkIds, NEW p \in Peers, TryLock(cid, p)
  PROVE  Inv'
<1> DEFINE clean == Cleanup(locks)
           l == [chunkid |-> cid, peer |-> p, timestamp |-> now]
<1>1. /\ locks \in Seq(LockRecs) /\ OneLockEach(locks) /\ lsize \in Nat /\ now \in 0 .. MaxTime
      /\ Len(locks) < lsize /\ Len(locks) \in Nat
      /\ LSIZE_INCREMENT \in Nat \ {0}
  BY LenProperties, LockAssumption DEF Inv, TypeOK, FreeElement, lcount, LockRecs
<1>2. clean \in Seq(LockRecs) /\ Len(clean) <= Len(locks) /\ OneLockEach(clean) /\ Len(clean) \in Nat
  BY <1>1, CleanupLocks, LenProperties
<1>3. UNCHANGED now
  BY DEF TryLock
<1>4. CASE IsLocked(clean, cid)
  <2>1. locks' = clean /\ lsize' = lsize
    BY <1>4 DEF TryLock
  <2> HIDE DEF clean
  <2>2. QED
    BY <1>1, <1>2, <1>3, <2>1 DEF Inv, TypeOK, FreeElement, lcount, LockRecs
<1>5. CASE ~IsLocked(clean, cid)
  <2>1. locks' = Append(clean, l) /\ lsize' = Grow(Len(clean) + 1)
    BY <1>5 DEF TryLock, Stamp
  <2>2. l \in LockRecs /\ l.chunkid = cid
    BY <1>1 DEF LockRecs
  <2> HIDE DEF clean, l
  <2>3. /\ locks' \in Seq(LockRecs) /\ Len(locks') = Len(clean) + 1
        /\ \A i \in 1 .. Len(clean) : locks'[i] = clean[i]
        /\ locks'[Len(clean) + 1] = l
    BY <1>2, <2>1, <2>2, AppendProperties
  <2>4. \A i \in 1 .. Len(clean) : clean[i].chunkid # cid
    BY <1>2, <1>5, LenProperties DEF IsLocked
  <2>5. OneLockEach(locks')
    <3> SUFFICES ASSUME NEW i \in 1 .. Len(locks'), NEW j \in 1 .. Len(locks'), i # j
                 PROVE  locks'[i].chunkid # locks'[j].chunkid
      BY DEF OneLockEach
    <3>1. /\ i = Len(clean) + 1 \/ i \in 1 .. Len(clean)
          /\ j = Len(clean) + 1 \/ j \in 1 .. Len(clean)
      BY <1>2, <2>3
    <3>2. QED
      BY <1>2, <2>2, <2>3, <2>4, <3>1 DEF OneLockEach
  <2>6. lsize' \in Nat /\ Len(locks') < lsize'
    BY <1>1, <1>2, <2>1, <2>3 DEF Grow
  <2>7. QED
    BY <1>1, <1>3, <2>3, <2>5, <2>6 DEF Inv, TypeOK, FreeElement, lcount, LockRecs
<1>6. QED
  BY <1>4, <1>5

LEMMA ChunkUnlockInv ==
  ASSUME Inv, NEW cid \in ChunkIds, ChunkUnlock(cid)
  PROVE  Inv'
<1> DEFINE r == Unlocked(locks, cid)
<1>1. /\ locks \in Seq(LockRecs) /\ OneLockEach(locks) /\ lsize \in Nat
      /\ Len(locks) < lsize /\ Len(locks) \in Nat
  BY LenProperties DEF Inv, TypeOK, FreeElement, lcount, LockRecs
<1>2. r \in Seq(LockRecs) /\ Len(r) <= Len(locks) /\ OneLockEach(r) /\ Len(r) \in Nat
  BY <1>1, UnlockLocks, LenProperties
<1>3. locks' = r /\ UNCHANGED <<lsize, now>>
  BY DEF ChunkUnlock, Unlocked
<1> HIDE DEF r
<1>4. QED
  BY <1>1, <1>2, <1>3 DEF Inv, TypeOK, FreeElement, lcount, LockRecs

(* The inductive invariant.                                                *)
THEOREM Invariant == Spec => []Inv
<1>1. Init => Inv
  BY LockAssumption DEF Init, Inv, TypeOK, FreeElement, lcount, OneLockEach
<1>2. Inv /\ [Next]_vars => Inv'
  <2> SUFFICES ASSUME Inv, [Next]_vars PROVE Inv'
    OBVIOUS
  <2>1. CASE Tick
    BY <2>1, LockAssumption DEF Tick, Inv, TypeOK, FreeElement, lcount
  <2>2. CASE \E cid \in ChunkIds : ChunkUnlock(cid)
    BY <2>2, ChunkUnlockInv
  <2>3. CASE \E cid \in ChunkIds : \E p \in Peers : TryLock(cid, p)
    BY <2>3, TryLockInv
  <2>4. CASE UNCHANGED vars
    BY <2>4 DEF vars, Inv, TypeOK, FreeElement, lcount
  <2>5. QED
    BY <2>1, <2>2, <2>3, <2>4 DEF Next
<1>3. QED
  BY <1>1, <1>2, PTL DEF Spec

(* The array stays an array of locks.                                      *)
THEOREM TypeCorrect == Spec => []TypeOK
  BY Invariant, PTL DEF Inv

(* chunk_lock always has an element to write to, before it looks whether   *)
(* the array is full.                                                      *)
THEOREM AlwaysFreeElement == Spec => []FreeElement
  BY Invariant, PTL DEF Inv

(* chunk_locks_cleanup leaves exactly the locks that have not timed out, in*)
(* their order, although it removes while it iterates, for an array of any *)
(* size.                                                                   *)
THEOREM CleanupIsExact == Spec => []CleanupExact
<1>1. Inv => CleanupExact
  <2> SUFFICES ASSUME Inv PROVE CleanupExact
    OBVIOUS
  <2> DEFINE clean == Cleanup(locks)
  <2>1. locks \in Seq(LockRecs)
    BY DEF Inv, TypeOK, LockRecs
  <2>2. PICK h : Visited(locks, LockRecs, 1, clean, h)
    BY <2>1, CleanupVisitsAll
  <2> HIDE DEF clean
  <2>3. /\ DOMAIN locks = 1 .. Len(locks) /\ Len(locks) \in Nat
        /\ DOMAIN clean = 1 .. Len(clean) /\ Len(clean) \in Nat
    BY <2>1, <2>2, LenProperties DEF Visited
  <2>4. \A i \in DOMAIN clean : h[i] \in Surviving(locks) /\ clean[i] = locks[h[i]]
    BY <2>2, <2>3 DEF Visited, Surviving
  <2> DEFINE f == [i \in DOMAIN clean |-> h[i]]
  <2>5. f \in [DOMAIN clean -> Surviving(locks)]
    BY <2>4
  <2>6. \A i, j \in DOMAIN clean : i < j => f[i] < f[j]
    BY <2>2, <2>3 DEF Visited
  <2>7. \A k \in Surviving(locks) : \E i \in DOMAIN clean : f[i] = k
    BY <2>2, <2>3 DEF Visited, Surviving
  <2>8. Surviving(locks) = {f[i] : i \in DOMAIN clean}
    BY <2>4, <2>7
  <2>9. \A i \in DOMAIN clean : clean[i] = locks[f[i]]
    BY <2>4
  <2> HIDE DEF f
  <2>10. QED
    BY <2>5, <2>6, <2>8, <2>9 DEF CleanupExact, clean
<1>2. QED
  BY <1>1, Invariant, PTL

-----------------------------------------------------------------------------
(***************************************************************************)
(* The refinement of LockSet                                               *)
(***************************************************************************)
InForceLock(l) == [cid |-> l.chunkid, since |-> l.timestamp]

(* One step of the array is one step of the set, or none.                  *)
LEMMA RefineTick ==
  ASSUME Inv, Tick PROVE Abstract!TimePasses
<1>1. now' = now + 1 /\ now \in Nat /\ locks' = locks /\ toutdiff \in Nat
  BY LockAssumption DEF Tick, Inv, TypeOK
<1>2. /\ DOMAIN locks = 1 .. Len(locks)
      /\ \A k \in DOMAIN locks : locks[k].timestamp \in Nat
  <2>1. locks \in Seq(LockRecs)
    BY DEF Inv, TypeOK, LockRecs
  <2>2. DOMAIN locks = 1 .. Len(locks) /\ \A k \in DOMAIN locks : locks[k] \in LockRecs
    BY <2>1, LenProperties, ElementOfSeq
  <2>3. \A l \in LockRecs : l.timestamp \in Nat
    BY LockAssumption DEF LockRecs
  <2>4. QED
    BY <2>2, <2>3
<1>3. \A k \in DOMAIN locks :
        (k \in Surviving(locks))' <=> k \in Surviving(locks) /\ now' <= locks[k].timestamp + toutdiff
  <2> SUFFICES ASSUME NEW k \in DOMAIN locks
               PROVE  ~(now' > locks[k].timestamp + toutdiff)
                        <=> ~(now > locks[k].timestamp + toutdiff) /\ now' <= locks[k].timestamp + toutdiff
    BY <1>1 DEF Surviving, TimedOut
  <2>1. PICK t \in Nat : t = locks[k].timestamp
    BY <1>2
  <2>2. ~(now + 1 > t + toutdiff) <=> ~(now > t + toutdiff) /\ now + 1 <= t + toutdiff
    BY <1>1
  <2>3. QED
    BY <1>1, <2>1, <2>2
<1>4. \A k : k \in Surviving(locks) => k \in DOMAIN locks
  BY DEF Surviving
<1>5. \A k : (k \in Surviving(locks))' => k \in DOMAIN locks
  BY <1>1 DEF Surviving
<1>6. InForce' = {l \in InForce : now' <= l.since + toutdiff}
  <2>1. \A k \in DOMAIN locks : InForceLock(locks[k]).since = locks[k].timestamp
    BY DEF InForceLock
  <2>2. InForce' = {InForceLock(locks[k]) : k \in Surviving(locks)'}
    BY <1>1 DEF InForce, InForceLock
  <2>3. InForce = {InForceLock(locks[k]) : k \in Surviving(locks)}
    BY DEF InForce, InForceLock
  <2>4. QED
    BY <1>3, <1>4, <1>5, <2>1, <2>2, <2>3
<1>7. QED
  BY <1>1, <1>6 DEF Abstract!TimePasses

(* The locks in force of an array that was cleaned up.                     *)
LEMMA InForceClean ==
  ASSUME Inv
  PROVE  InForce = {InForceLock(Cleanup(locks)[i]) : i \in 1 .. Len(Cleanup(locks))}
<1> DEFINE clean == Cleanup(locks)
<1>1. /\ \A i \in 1 .. Len(clean) : \E k \in Surviving(locks) : clean[i] = locks[k]
      /\ \A k \in Surviving(locks) : \E i \in 1 .. Len(clean) : clean[i] = locks[k]
  BY CleanupLocks DEF Inv, TypeOK, LockRecs
<1> HIDE DEF clean
<1>2. InForce = {InForceLock(locks[k]) : k \in Surviving(locks)}
  BY DEF InForce, InForceLock
<1>3. InForce = {InForceLock(clean[i]) : i \in 1 .. Len(clean)}
  BY <1>1, <1>2
<1>4. QED
  BY <1>3 DEF clean

(* A step after which no lock of the array has timed out.                  *)
LEMMA InForceAll ==
  ASSUME NEW r \in Seq(LockRecs), locks' = r, now' = now, \A i \in 1 .. Len(r) : ~TimedOut(r[i])
  PROVE  InForce' = {InForceLock(r[i]) : i \in 1 .. Len(r)}
<1>1. DOMAIN r = 1 .. Len(r)
  BY LenProperties
<1>2. Surviving(locks)' = 1 .. Len(r)
  BY <1>1 DEF Surviving, TimedOut
<1>3. InForce' = {InForceLock(r[i]) : i \in Surviving(locks)'}
  BY DEF InForce, InForceLock
<1>4. QED
  BY <1>2, <1>3

LEMMA RefineTryLock ==
  ASSUME Inv, NEW cid \in ChunkIds, NEW p \in Peers, TryLock(cid, p)
  PROVE  Abstract!Lock(cid) \/ UNCHANGED (Abstract!vars)
<1> DEFINE clean == Cleanup(locks)
           l == [chunkid |-> cid, peer |-> p, timestamp |-> now]
<1>1. /\ now' = now /\ now \in 0 .. MaxTime /\ MaxTime \in Nat /\ toutdiff \in Nat
      /\ locks \in Seq(LockRecs) /\ OneLockEach(locks)
  BY LockAssumption DEF TryLock, Inv, TypeOK, LockRecs
<1>2. clean \in Seq(LockRecs) /\ \A i \in 1 .. Len(clean) : ~TimedOut(clean[i])
  BY <1>1, CleanupLocks
<1>3. DOMAIN clean = 1 .. Len(clean) /\ Len(clean) \in Nat
  BY <1>2, LenProperties
<1>4. InForce = {InForceLock(clean[i]) : i \in 1 .. Len(clean)}
  BY InForceClean
<1>5. CASE IsLocked(clean, cid)
  <2>1. locks' = clean
    BY <1>5 DEF TryLock
  <2> HIDE DEF clean
  <2>2. InForce' = InForce
    BY <1>1, <1>2, <1>4, <2>1, InForceAll
  <2>3. QED
    BY <1>1, <2>2 DEF Abstract!vars
<1>6. CASE ~IsLocked(clean, cid)
  <2>1. locks' = Append(clean, l)
    BY <1>6 DEF TryLock, Stamp
  <2>2. l \in LockRecs /\ InForceLock(l) = [cid |-> cid, since |-> now]
    BY <1>1 DEF LockRecs, InForceLock
  <2>3. ~TimedOut(l)
    BY <1>1 DEF TimedOut
  <2> HIDE DEF clean, l
  <2>4. /\ locks' \in Seq(LockRecs) /\ Len(locks') = Len(clean) + 1
        /\ \A i \in 1 .. Len(clean) : locks'[i] = clean[i]
        /\ locks'[Len(clean) + 1] = l
    BY <1>2, <2>1, <2>2, AppendProperties
  <2>5. \A i \in 1 .. Len(locks') : i = Len(clean) + 1 \/ i \in 1 .. Len(clean)
    BY <1>3, <2>4
  <2>6. \A i \in 1 .. Len(locks') : ~TimedOut(locks'[i])
    BY <1>2, <2>3, <2>4, <2>5
  <2>7. InForce' = {InForceLock(locks'[i]) : i \in 1 .. Len(locks')}
    <3>1. PICK r : r = locks'
      OBVIOUS
    <3>2. QED
      BY <1>1, <2>4, <2>6, <3>1, InForceAll
  <2>8. Len(clean) + 1 \in 1 .. Len(locks') /\ \A i \in 1 .. Len(clean) : i \in 1 .. Len(locks')
    BY <1>3, <2>4
  <2>9. InForce' = InForce \union {InForceLock(l)}
    BY <1>4, <2>4, <2>5, <2>7, <2>8
  <2>10. \A x \in InForce : x.cid # cid
    <3>1. \A i \in 1 .. Len(clean) : InForceLock(clean[i]).cid # cid
      BY <1>3, <1>6 DEF IsLocked, InForceLock
    <3>2. QED
      BY <1>4, <3>1
  <2>11. QED
    BY <1>1, <2>2, <2>9, <2>10 DEF Abstract!Lock
<1>7. QED
  BY <1>5, <1>6

LEMMA RefineUnlock ==
  ASSUME Inv, NEW cid \in ChunkIds, ChunkUnlock(cid)
  PROVE  Abstract!Unlock(cid)
<1> DEFINE r == Unlocked(locks, cid)
<1>1. locks' = r /\ now' = now /\ locks \in Seq(LockRecs)
  BY DEF ChunkUnlock, Unlocked, Inv, TypeOK, LockRecs
<1>2. /\ r \in Seq(LockRecs)
      /\ \A i \in 1 .. Len(r) : r[i].chunkid # cid /\ \E k \in 1 .. Len(locks) : r[i] = locks[k]
      /\ \A k \in 1 .. Len(locks) : locks[k].chunkid # cid => \E i \in 1 .. Len(r) : r[i] = locks[k]
  BY <1>1, UnlockLocks DEF Inv
<1> HIDE DEF r
<1>3. DOMAIN r = 1 .. Len(r) /\ DOMAIN locks = 1 .. Len(locks)
  BY <1>1, <1>2, LenProperties
<1>4. Surviving(locks)' = {i \in 1 .. Len(r) : ~TimedOut(r[i])}
  BY <1>1, <1>3 DEF Surviving, TimedOut
<1>5. Surviving(locks) = {k \in 1 .. Len(locks) : ~TimedOut(locks[k])}
  BY <1>3 DEF Surviving
<1>6. InForce' = {InForceLock(r[i]) : i \in Surviving(locks)'}
  BY <1>1 DEF InForce, InForceLock
<1>7. InForce = {InForceLock(locks[k]) : k \in Surviving(locks)}
  BY DEF InForce, InForceLock
<1>8. \A a : InForceLock(a).cid = a.chunkid
  BY DEF InForceLock
<1>9. InForce' \subseteq {x \in InForce : x.cid # cid}
  <2> SUFFICES ASSUME NEW i \in 1 .. Len(r), ~TimedOut(r[i])
               PROVE  InForceLock(r[i]) \in InForce /\ InForceLock(r[i]).cid # cid
    BY <1>4, <1>6
  <2>1. PICK k \in 1 .. Len(locks) : r[i] = locks[k]
    BY <1>2
  <2>2. QED
    BY <1>2, <1>5, <1>7, <1>8, <2>1
<1>10. {x \in InForce : x.cid # cid} \subseteq InForce'
  <2> SUFFICES ASSUME NEW k \in 1 .. Len(locks), ~TimedOut(locks[k]), locks[k].chunkid # cid
               PROVE  InForceLock(locks[k]) \in InForce'
    BY <1>5, <1>7, <1>8
  <2>1. PICK i \in 1 .. Len(r) : r[i] = locks[k]
    BY <1>2
  <2>2. QED
    BY <1>4, <1>6, <2>1
<1>11. QED
  BY <1>1, <1>9, <1>10 DEF Abstract!Unlock

(* chunklock.c implements LockSet, for every number of chunks and peers,   *)
(* every timeout and every increment: the trader may take the array for    *)
(* the set of the locks in force.                                          *)
THEOREM Refinement == Spec => ImplementsLockSet
<1>1. Init => Abstract!Init
  <2> SUFFICES ASSUME Init PROVE Abstract!Init
    OBVIOUS
  <2>1. Surviving(locks) = {}
    BY DEF Init, Surviving
  <2>2. QED
    BY <2>1 DEF Init, InForce, Abstract!Init
<1>2. Inv /\ [Next]_vars => [Abstract!Next]_(Abstract!vars)
  <2> SUFFICES ASSUME Inv, [Next]_vars PROVE Abstract!Next \/ UNCHANGED (Abstract!vars)
    OBVIOUS
  <2>1. CASE Tick
    BY <2>1, RefineTick DEF Abstract!Next
  <2>2. CASE \E cid \in ChunkIds : ChunkUnlock(cid)
    BY <2>2, RefineUnlock DEF Abstract!Next
  <2>3. CASE \E cid \in ChunkIds : \E p \in Peers : TryLock(cid, p)
    BY <2>3, RefineTryLock DEF Abstract!Next
  <2>4. CASE UNCHANGED vars
    BY <2>4 DEF vars, Abstract!vars, InForce, Surviving, TimedOut
  <2>5. QED
    BY <2>1, <2>2, <2>3, <2>4 DEF Next
<1>3. QED
  BY <1>1, <1>2, Invariant, PTL DEF Spec, ImplementsLockSet, Abstract!Spec
=============================================================================
