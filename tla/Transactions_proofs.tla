------------------------ MODULE Transactions_proofs ------------------------
(***************************************************************************)
(* Proofs about Transactions, for every width of the ids, every lifetime   *)
(* and every rate of offers that does not use up the ids in a lifetime.    *)
(***************************************************************************)
EXTENDS Transactions, FiniteSetTheorems, SequenceTheorems, TLAPS

-----------------------------------------------------------------------------
(***************************************************************************)
(* Induction                                                               *)
(***************************************************************************)

(* The naturals are well ordered.                                          *)
LEMMA LeastElement ==
  ASSUME NEW T \in SUBSET Nat, T # {}
  PROVE  \E x \in T : \A y \in T : x <= y
<1> DEFINE R == {ss \in Nat \X Nat : ss[1] < ss[2]}
<1>1. IsWellFoundedOn(R, Nat)
  BY NatLessThanWellFounded DEF OpToRel
<1>2. PICK x \in T : \A y \in T : <<y, x>> \notin R
  <2> HIDE DEF R
  <2>1. QED
    BY <1>1, WFMin
<1>3. ASSUME NEW y \in T PROVE x <= y
  <2>1. <<y, x>> \in Nat \X Nat /\ <<y, x>> \notin R
    BY <1>2
  <2>2. QED
    BY <2>1
<1>4. QED
  BY <1>3

(* Induction up to n, on a set instead of a predicate.                     *)
LEMMA InductionUpTo ==
  ASSUME NEW n \in Nat, NEW T, 0 \in T, \A i \in 0 .. n - 1 : i \in T => i + 1 \in T
  PROVE  \A i \in 0 .. n : i \in T
<1> SUFFICES ASSUME NEW m \in 0 .. n, m \notin T PROVE FALSE
  OBVIOUS
<1> DEFINE U == {i \in 0 .. n : i \notin T}
<1>1. U \in SUBSET Nat /\ U # {}
  OBVIOUS
<1>2. PICK x \in U : \A y \in U : x <= y
  <2> HIDE DEF U
  <2>1. QED
    BY <1>1, LeastElement
<1>3. x # 0 /\ x \in 0 .. n /\ x \notin T
  BY <1>2
<1>4. x - 1 \in 0 .. n - 1 /\ x - 1 + 1 = x /\ x - 1 \notin U
  BY <1>2, <1>3
<1>5. QED
  BY <1>3, <1>4

-----------------------------------------------------------------------------
(***************************************************************************)
(* The operations on the list                                              *)
(***************************************************************************)
TransRecs ==
  [trans_id : TransIds, offer : 0 .. MaxTime, accept : NoTime .. MaxTime,
   id : Peers, serial : 1 .. MaxOffers]

(* short is long without some elements; the times of the accepts apart.    *)
SameOffer(e, d) == e.trans_id = d.trans_id /\ e.offer = d.offer /\ e.serial = d.serial

Embeds(f, short, long) ==
  /\ \A i \in 1 .. Len(short) : f[i] \in 1 .. Len(long) /\ SameOffer(short[i], long[f[i]])
  /\ \A i, j \in 1 .. Len(short) : i < j => j - i <= f[j] - f[i]

Within(short, long) == \E f : Embeds(f, short, long)

(* How kept of check_neighbor_status_list unfolds.                         *)
KeptStep(list, time, g, i) ==
  IF i = 0 THEN << >>
  ELSE IF Expired(list[i], time) THEN g[i - 1] ELSE Append(g[i - 1], list[i])

KeptRec(list, time, n, g) == g = [i \in 0 .. n |-> KeptStep(list, time, g, i)]

LEMMA KeptExists ==
  ASSUME NEW list, NEW time, NEW n \in Nat
  PROVE  \E g : KeptRec(list, time, n, g)
<1> DEFINE T == {i \in 0 .. n : \E g : KeptRec(list, time, i, g)}
<1>1. 0 \in T
  <2> DEFINE g == [i \in 0 .. 0 |-> << >>]
  <2>1. g = [i \in 0 .. 0 |-> KeptStep(list, time, g, i)]
    BY DEF KeptStep
  <2>2. KeptRec(list, time, 0, g)
    BY <2>1 DEF KeptRec
  <2>3. QED
    BY <2>2
<1>2. ASSUME NEW i \in 0 .. n - 1, i \in T PROVE i + 1 \in T
  <2>1. PICK g : KeptRec(list, time, i, g)
    BY <1>2
  <2> DEFINE h == [k \in 0 .. i + 1 |-> IF k = i + 1 THEN KeptStep(list, time, g, k) ELSE g[k]]
  <2>2. \A k \in 0 .. i + 1 : h[k] = KeptStep(list, time, h, k)
    <3> SUFFICES ASSUME NEW k \in 0 .. i + 1 PROVE h[k] = KeptStep(list, time, h, k)
      OBVIOUS
    <3>1. k # 0 => k - 1 \in 0 .. i /\ h[k - 1] = g[k - 1]
      OBVIOUS
    <3>2. h[k] = KeptStep(list, time, g, k)
      BY <2>1 DEF KeptRec
    <3>3. KeptStep(list, time, g, k) = KeptStep(list, time, h, k)
      BY <3>1 DEF KeptStep
    <3>4. QED
      BY <3>2, <3>3
  <2>3. h = [k \in 0 .. i + 1 |-> KeptStep(list, time, h, k)]
    BY <2>2
  <2> HIDE DEF h
  <2>4. KeptRec(list, time, i + 1, h)
    BY <2>3 DEF KeptRec
  <2>5. QED
    BY <2>4
<1> HIDE DEF T
<1>3. \A i \in 0 .. n : i \in T
  BY <1>1, <1>2, InductionUpTo
<1>4. QED
  BY <1>3 DEF T

LEMMA KeptUnfolds ==
  ASSUME NEW S, NEW list \in Seq(S), NEW time
  PROVE  \E g : KeptRec(list, time, Len(list), g) /\ CheckNeighborStatusList(list, time) = g[Len(list)]
<1>1. CheckNeighborStatusList(list, time) = (CHOOSE g : KeptRec(list, time, Len(list), g))[Len(list)]
  BY DEF CheckNeighborStatusList, KeptRec, KeptStep
<1>2. Len(list) \in Nat
  BY LenProperties
<1>3. QED
  BY <1>1, <1>2, KeptExists

(* What is left of the first i elements, after the check: exactly those    *)
(* within their lifetime, in their order.                                  *)
KeptOf(list, time, S, i, s) ==
  /\ s \in Seq(S)
  /\ \A j \in 1 .. Len(s) : ~Expired(s[j], time)
  /\ \A k \in 1 .. i : ~Expired(list[k], time) => \E j \in 1 .. Len(s) : s[j] = list[k]
  /\ \E f : /\ \A j \in 1 .. Len(s) : f[j] \in 1 .. i /\ s[j] = list[f[j]]
            /\ \A j, k \in 1 .. Len(s) : j < k => k - j <= f[k] - f[j]

LEMMA KeptAppend ==
  ASSUME NEW S, NEW list \in Seq(S), NEW time, NEW i \in 0 .. Len(list) - 1, NEW s,
         KeptOf(list, time, S, i, s), ~Expired(list[i + 1], time)
  PROVE  KeptOf(list, time, S, i + 1, Append(s, list[i + 1]))
<1> DEFINE e == list[i + 1]
           r == Append(s, e)
<1>1. s \in Seq(S) /\ Len(s) \in Nat /\ Len(list) \in Nat
  BY LenProperties DEF KeptOf
<1>2. i + 1 \in 1 .. Len(list) /\ e \in S
  BY <1>1, ElementOfSeq
<1>3. /\ r \in Seq(S) /\ Len(r) = Len(s) + 1
      /\ \A j \in 1 .. Len(s) : r[j] = s[j]
      /\ r[Len(s) + 1] = e
  BY <1>1, <1>2, AppendProperties
<1> HIDE DEF r
<1>4. PICK f : /\ \A j \in 1 .. Len(s) : f[j] \in 1 .. i /\ s[j] = list[f[j]]
               /\ \A j, k \in 1 .. Len(s) : j < k => k - j <= f[k] - f[j]
  BY DEF KeptOf
<1>5. \A j \in 1 .. Len(s) : Len(s) - j <= i - f[j]
  <2> SUFFICES ASSUME NEW j \in 1 .. Len(s) PROVE Len(s) - j <= i - f[j]
    OBVIOUS
  <2>1. Len(s) \in 1 .. Len(s) /\ f[j] \in 1 .. i /\ f[Len(s)] \in 1 .. i
    BY <1>1, <1>4
  <2>2. CASE j = Len(s)
    BY <1>1, <2>1, <2>2
  <2>3. CASE j < Len(s)
    <3>1. Len(s) - j <= f[Len(s)] - f[j]
      BY <1>4, <2>1, <2>3
    <3>2. QED
      BY <1>1, <2>1, <3>1
  <2>4. QED
    BY <1>1, <2>2, <2>3
<1> DEFINE g == [j \in 1 .. Len(r) |-> IF j = Len(s) + 1 THEN i + 1 ELSE f[j]]
<1>6. \A j \in 1 .. Len(r) : g[j] \in 1 .. i + 1 /\ r[j] = list[g[j]]
  BY <1>1, <1>2, <1>3, <1>4
<1>7. \A j, k \in 1 .. Len(r) : j < k => k - j <= g[k] - g[j]
  <2> SUFFICES ASSUME NEW j \in 1 .. Len(r), NEW k \in 1 .. Len(r), j < k
               PROVE  k - j <= g[k] - g[j]
    OBVIOUS
  <2>1. j \in 1 .. Len(s) /\ g[j] = f[j] /\ f[j] \in 1 .. i
    BY <1>1, <1>3, <1>4
  <2>2. CASE k = Len(s) + 1
    BY <1>1, <1>3, <1>5, <2>1, <2>2
  <2>3. CASE k # Len(s) + 1
    <3>1. k \in 1 .. Len(s) /\ g[k] = f[k]
      BY <1>1, <1>3, <2>3
    <3>2. k - j <= f[k] - f[j]
      BY <1>4, <2>1, <3>1
    <3>3. QED
      BY <2>1, <3>1, <3>2
  <2>4. QED
    BY <2>2, <2>3
<1> HIDE DEF g
<1>8. \A j \in 1 .. Len(r) : ~Expired(r[j], time)
  <2> SUFFICES ASSUME NEW j \in 1 .. Len(r) PROVE ~Expired(r[j], time)
    OBVIOUS
  <2>1. j = Len(s) + 1 \/ j \in 1 .. Len(s)
    BY <1>1, <1>3
  <2>2. QED
    BY <1>3, <2>1 DEF KeptOf
<1>9. \A k \in 1 .. i + 1 : ~Expired(list[k], time) => \E j \in 1 .. Len(r) : r[j] = list[k]
  <2> SUFFICES ASSUME NEW k \in 1 .. i + 1, ~Expired(list[k], time)
               PROVE  \E j \in 1 .. Len(r) : r[j] = list[k]
    OBVIOUS
  <2>1. CASE k = i + 1
    <3>1. Len(r) \in 1 .. Len(r) /\ r[Len(r)] = list[k]
      BY <1>1, <1>3, <2>1
    <3>2. QED
      BY <3>1
  <2>2. CASE k # i + 1
    <3>1. k \in 1 .. i
      BY <2>2
    <3>2. PICK j \in 1 .. Len(s) : s[j] = list[k]
      BY <3>1 DEF KeptOf
    <3>3. j \in 1 .. Len(r) /\ r[j] = list[k]
      BY <1>1, <1>3, <3>2
    <3>4. QED
      BY <3>3
  <2>3. QED
    BY <2>1, <2>2
<1>10. KeptOf(list, time, S, i + 1, r)
  BY <1>3, <1>6, <1>7, <1>8, <1>9 DEF KeptOf
<1>11. QED
  BY <1>10 DEF r

LEMMA KeptSkip ==
  ASSUME NEW S, NEW list \in Seq(S), NEW time, NEW i \in 0 .. Len(list) - 1, NEW s,
         KeptOf(list, time, S, i, s), Expired(list[i + 1], time)
  PROVE  KeptOf(list, time, S, i + 1, s)
<1>1. Len(s) \in Nat
  BY LenProperties DEF KeptOf
<1>2. \A k \in 1 .. i + 1 : k = i + 1 \/ k \in 1 .. i
  OBVIOUS
<1>3. \A k \in 1 .. i + 1 : ~Expired(list[k], time) => \E j \in 1 .. Len(s) : s[j] = list[k]
  BY <1>2 DEF KeptOf
<1>4. PICK f : /\ \A j \in 1 .. Len(s) : f[j] \in 1 .. i /\ s[j] = list[f[j]]
               /\ \A j, k \in 1 .. Len(s) : j < k => k - j <= f[k] - f[j]
  BY DEF KeptOf
<1>5. \A j \in 1 .. Len(s) : f[j] \in 1 .. i + 1
  BY <1>4
<1>6. QED
  BY <1>3, <1>4, <1>5 DEF KeptOf

(* check_neighbor_status_list keeps exactly the elements within their      *)
(* lifetime, in their order, for a list of any length.                     *)
LEMMA CheckNeighborStatusListExact ==
  ASSUME NEW S, NEW list \in Seq(S), NEW time
  PROVE  KeptOf(list, time, S, Len(list), CheckNeighborStatusList(list, time))
<1>1. PICK g : /\ KeptRec(list, time, Len(list), g)
               /\ CheckNeighborStatusList(list, time) = g[Len(list)]
  BY KeptUnfolds
<1>2. Len(list) \in Nat
  BY LenProperties
<1>3. \A i \in 0 .. Len(list) : g[i] = KeptStep(list, time, g, i)
  BY <1>1 DEF KeptRec
<1> DEFINE T == {i \in 0 .. Len(list) : KeptOf(list, time, S, i, g[i])}
<1>4. 0 \in T
  <2>1. g[0] = << >> /\ 0 \in 0 .. Len(list)
    BY <1>2, <1>3 DEF KeptStep
  <2>2. << >> \in Seq(S) /\ Len(<< >>) = 0
    OBVIOUS
  <2>3. KeptOf(list, time, S, 0, << >>)
    BY <2>2 DEF KeptOf
  <2>4. QED
    BY <2>1, <2>3
<1>5. ASSUME NEW i \in 0 .. Len(list) - 1, i \in T PROVE i + 1 \in T
  <2>1. /\ i + 1 \in 0 .. Len(list) /\ i + 1 # 0 /\ i + 1 - 1 = i
        /\ KeptOf(list, time, S, i, g[i])
    BY <1>2, <1>5
  <2>2. g[i + 1] = IF Expired(list[i + 1], time) THEN g[i] ELSE Append(g[i], list[i + 1])
    BY <1>3, <2>1 DEF KeptStep
  <2>3. KeptOf(list, time, S, i + 1, g[i + 1])
    BY <2>1, <2>2, KeptAppend, KeptSkip
  <2>4. QED
    BY <2>1, <2>3
<1> HIDE DEF T
<1>6. \A i \in 0 .. Len(list) : i \in T
  BY <1>2, <1>4, <1>5, InductionUpTo
<1>7. Len(list) \in T
  BY <1>2, <1>6
<1>8. QED
  BY <1>1, <1>7 DEF T

LEMMA CheckNeighborStatusListWithin ==
  ASSUME NEW S, NEW list \in Seq(S), NEW time
  PROVE  Within(CheckNeighborStatusList(list, time), list)
<1> DEFINE kept == CheckNeighborStatusList(list, time)
<1>1. KeptOf(list, time, S, Len(list), kept)
  BY CheckNeighborStatusListExact
<1> HIDE DEF kept
<1>2. PICK f : /\ \A j \in 1 .. Len(kept) : f[j] \in 1 .. Len(list) /\ kept[j] = list[f[j]]
               /\ \A j, k \in 1 .. Len(kept) : j < k => k - j <= f[k] - f[j]
  BY <1>1 DEF KeptOf
<1>3. Embeds(f, kept, list)
  BY <1>2 DEF Embeds, SameOffer
<1>4. QED
  BY <1>3 DEF Within, kept

(* transaction_reg_accept and transaction_remove work at the first match.  *)
LEMMA PositionInList ==
  ASSUME NEW S, NEW list \in Seq(S), NEW trans_id, HasTrans(list, trans_id)
  PROVE  PositionOf(list, trans_id) \in 1 .. Len(list)
<1> DEFINE I == {i \in 1 .. Len(list) : list[i].trans_id = trans_id}
<1>1. I # {} /\ I \in SUBSET Nat
  BY LenProperties DEF HasTrans
<1>2. PositionOf(list, trans_id) = Min(I)
  BY <1>1 DEF PositionOf, SelectInSeq
<1>3. Min(I) \in I
  <2> HIDE DEF I
  <2>1. QED
    BY <1>1, LeastElement DEF Min
<1>4. QED
  BY <1>2, <1>3

LEMMA RemoveAtProperties ==
  ASSUME NEW S, NEW s \in Seq(S), NEW i \in 1 .. Len(s)
  PROVE  /\ RemoveAt(s, i) \in Seq(S)
         /\ Len(RemoveAt(s, i)) = Len(s) - 1
         /\ \A j \in 1 .. Len(s) - 1 : RemoveAt(s, i)[j] = IF j < i THEN s[j] ELSE s[j + 1]
<1> DEFINE a == SubSeq(s, 1, i - 1)
           b == SubSeq(s, i + 1, Len(s))
<1>1. /\ a \in Seq(S) /\ Len(a) = i - 1 /\ \A j \in 1 .. i - 1 : a[j] = s[j]
      /\ b \in Seq(S) /\ Len(b) = Len(s) - i /\ \A j \in 1 .. Len(s) - i : b[j] = s[i + j]
  BY SubSeqProperties, LenProperties, ElementOfSeq
<1>2. Len(s) \in Nat /\ RemoveAt(s, i) = a \o b
  BY LenProperties DEF RemoveAt
<1> HIDE DEF a, b
<1>3. /\ a \o b \in Seq(S) /\ Len(a \o b) = Len(a) + Len(b)
      /\ \A j \in 1 .. Len(a) + Len(b) : (a \o b)[j] = IF j <= Len(a) THEN a[j] ELSE b[j - Len(a)]
  BY <1>1, ConcatProperties
<1>4. ASSUME NEW j \in 1 .. Len(s) - 1
      PROVE  (a \o b)[j] = IF j < i THEN s[j] ELSE s[j + 1]
  <2>1. (a \o b)[j] = IF j <= i - 1 THEN a[j] ELSE b[j - (i - 1)]
    BY <1>1, <1>2, <1>3
  <2>2. CASE j < i
    BY <1>1, <1>2, <2>1, <2>2
  <2>3. CASE ~(j < i)
    <3>1. j - (i - 1) \in 1 .. Len(s) - i /\ i + (j - (i - 1)) = j + 1
      BY <1>2, <2>3
    <3>2. b[j - (i - 1)] = s[j + 1]
      BY <1>1, <3>1
    <3>3. QED
      BY <2>1, <2>3, <3>2
  <2>4. QED
    BY <2>2, <2>3
<1>5. Len(a \o b) = Len(s) - 1
  BY <1>1, <1>2, <1>3
<1>6. QED
  BY <1>2, <1>3, <1>4, <1>5

LEMMA TransactionRemoveWithin ==
  ASSUME NEW list \in Seq(TransRecs), NEW trans_id
  PROVE  /\ TransactionRemove(list, trans_id) \in Seq(TransRecs)
         /\ Within(TransactionRemove(list, trans_id), list)
<1>1. Len(list) \in Nat
  BY LenProperties
<1>2. CASE ~HasTrans(list, trans_id)
  <2>1. Embeds([i \in 1 .. Len(list) |-> i], list, list)
    BY <1>1 DEF Embeds, SameOffer
  <2>2. QED
    BY <1>2, <2>1 DEF TransactionRemove, Within
<1>3. CASE HasTrans(list, trans_id)
  <2> DEFINE k == PositionOf(list, trans_id)
             r == RemoveAt(list, k)
             f == [i \in 1 .. Len(list) - 1 |-> IF i < k THEN i ELSE i + 1]
  <2>1. k \in 1 .. Len(list)
    BY <1>3, PositionInList
  <2>2. /\ r \in Seq(TransRecs) /\ Len(r) = Len(list) - 1
        /\ \A j \in 1 .. Len(list) - 1 : r[j] = IF j < k THEN list[j] ELSE list[j + 1]
    <3> HIDE DEF k
    <3>1. QED
      BY <2>1, RemoveAtProperties
  <2>3. r = TransactionRemove(list, trans_id)
    BY <1>3 DEF TransactionRemove
  <2> HIDE DEF r, k
  <2>4. \A j \in 1 .. Len(r) : f[j] \in 1 .. Len(list) /\ r[j] = list[f[j]]
    BY <1>1, <2>1, <2>2
  <2>5. \A i, j \in 1 .. Len(r) : i < j => j - i <= f[j] - f[i]
    BY <1>1, <2>1, <2>2
  <2>6. Embeds(f, r, list)
    BY <2>4, <2>5 DEF Embeds, SameOffer
  <2>7. QED
    BY <2>2, <2>3, <2>6 DEF Within
<1>4. QED
  BY <1>2, <1>3

LEMMA TransactionRegAcceptWithin ==
  ASSUME NEW list \in Seq(TransRecs), NEW trans_id, NEW time \in 0 .. MaxTime
  PROVE  /\ TransactionRegAccept(list, trans_id, time) \in Seq(TransRecs)
         /\ Within(TransactionRegAccept(list, trans_id, time), list)
<1>1. Len(list) \in Nat /\ MaxTime \in Nat
  BY LenProperties, RateAssumption
<1> DEFINE r == TransactionRegAccept(list, trans_id, time)
           f == [i \in 1 .. Len(list) |-> i]
<1>2. r \in Seq(TransRecs) /\ Len(r) = Len(list) /\ \A i \in 1 .. Len(list) : SameOffer(r[i], list[i])
  <2>1. CASE ~(trans_id # INVALID_TRANSID /\ HasTrans(list, trans_id))
    BY <2>1 DEF TransactionRegAccept, SameOffer
  <2>2. CASE trans_id # INVALID_TRANSID /\ HasTrans(list, trans_id)
    <3> DEFINE k == PositionOf(list, trans_id)
               e == [list[k] EXCEPT !.accept = time]
    <3>1. k \in 1 .. Len(list)
      BY <2>2, PositionInList
    <3>2. r = [list EXCEPT ![k].accept = time]
      BY <2>2 DEF TransactionRegAccept
    <3> HIDE DEF k, r
    <3>3. list[k] \in TransRecs
      BY <3>1, ElementOfSeq
    <3>4. time \in NoTime .. MaxTime
      BY <1>1 DEF NoTime
    <3>5. e \in TransRecs /\ SameOffer(e, list[k])
      BY <3>3, <3>4 DEF TransRecs, SameOffer
    <3>6. r = [list EXCEPT ![k] = e]
      BY <3>2
    <3> HIDE DEF e
    <3>7. r \in Seq(TransRecs) /\ Len(r) = Len(list) /\ \A i \in 1 .. Len(list) : r[i] = IF i = k THEN e ELSE list[i]
      BY <3>1, <3>5, <3>6, ExceptSeq
    <3>8. QED
      BY <3>5, <3>7 DEF SameOffer
  <2>3. QED
    BY <2>1, <2>2
<1> HIDE DEF r
<1>3. Embeds(f, r, list)
  BY <1>1, <1>2 DEF Embeds
<1>4. QED
  BY <1>2, <1>3 DEF Within, r

-----------------------------------------------------------------------------
(***************************************************************************)
(* Ids and serial numbers                                                  *)
(*                                                                         *)
(* The offers of a lifetime are at most Span.  Of two open transactions,   *)
(* the serial numbers differ by less than that, and the newer id is        *)
(* reached from the older one in at least one and at most as many          *)
(* successors (fewer if the newest transaction was closed and its id used  *)
(* again).  As Span is at most TransIdMod, the ids never come full circle. *)
(***************************************************************************)
Span == Rate * (MaxLifetime + 1)

InTime(list, count, time, tick) ==
  \A j \in 1 .. Len(list) :
    /\ list[j].serial <= count
    /\ list[j].offer <= time
    /\ count - list[j].serial + 1 <= Rate * (time - list[j].offer) + tick

Follows(a, b, d) == \E k \in 1 .. d : b = a + k \/ b = a + k - TransIdMod

Linked(e, d) ==      \* e is newer than d
  /\ e.serial - d.serial < Span
  /\ Follows(d.trans_id, e.trans_id, e.serial - d.serial)

Chain(list) ==
  \A i, j \in 1 .. Len(list) : i < j =>
    /\ j - i <= list[i].serial - list[j].serial
    /\ Linked(list[i], list[j])

LEMMA Constants ==
  /\ TransIdMod \in Nat \ {0, 1} /\ MaxLifetime \in Nat /\ Rate \in Nat \ {0}
  /\ MaxTime \in Nat /\ MaxOffers \in Nat
  /\ Span \in Nat /\ Span <= TransIdMod
  /\ \A a \in Nat : Rate * a \in Nat /\ Rate * (a + 1) = Rate * a + Rate
  /\ \A a \in 0 .. MaxLifetime : Rate * a + Rate <= Span
<1>1. /\ TransIdMod \in Nat \ {0, 1} /\ MaxLifetime \in Nat /\ Rate \in Nat \ {0}
      /\ MaxTime \in Nat /\ MaxOffers \in Nat
  BY TransactionAssumption, RateAssumption
<1>2. \A a \in Nat : Rate * a \in Nat /\ Rate * (a + 1) = Rate * a + Rate
  BY <1>1
<1>3. Span \in Nat /\ Span <= TransIdMod
  BY <1>1, RateAssumption DEF Span
<1>4. \A a \in 0 .. MaxLifetime : Rate * a + Rate <= Span
  <2> SUFFICES ASSUME NEW a \in 0 .. MaxLifetime PROVE Rate * a + Rate <= Span
    OBVIOUS
  <2>1. PICK b \in Nat : MaxLifetime = a + b
    <3>1. MaxLifetime - a \in Nat /\ MaxLifetime = a + (MaxLifetime - a)
      BY <1>1
    <3>2. QED
      BY <3>1
  <2>2. Rate * b \in Nat /\ Rate * a \in Nat
    BY <1>2, <2>1
  <2>3. Rate * (a + b) = Rate * a + Rate * b
    BY <1>1, <2>1
  <2>4. Span = Rate * (a + b) + Rate
    BY <1>1, <1>2, <2>1 DEF Span
  <2>5. QED
    BY <1>1, <2>2, <2>3, <2>4
<1>5. QED
  BY <1>1, <1>2, <1>3, <1>4

LEMMA TransRecTypes ==
  ASSUME NEW list \in Seq(TransRecs)
  PROVE  /\ Len(list) \in Nat
         /\ \A i \in 1 .. Len(list) :
              /\ list[i].serial \in Nat /\ list[i].offer \in Nat
              /\ list[i].trans_id \in 0 .. TransIdMod - 1
<1>1. Len(list) \in Nat /\ \A i \in 1 .. Len(list) : list[i] \in TransRecs
  BY LenProperties, ElementOfSeq
<1>2. \A e \in TransRecs : e.serial \in Nat /\ e.offer \in Nat /\ e.trans_id \in 0 .. TransIdMod - 1
  BY Constants DEF TransRecs, TransIds
<1>3. QED
  BY <1>1, <1>2

(* Both properties of a list are those of what is left of it.              *)
LEMMA ChainWithin ==
  ASSUME NEW long \in Seq(TransRecs), NEW short \in Seq(TransRecs), Within(short, long), Chain(long)
  PROVE  Chain(short)
<1> SUFFICES ASSUME NEW i \in 1 .. Len(short), NEW j \in 1 .. Len(short), i < j
             PROVE  j - i <= short[i].serial - short[j].serial /\ Linked(short[i], short[j])
  BY DEF Chain
<1>1. PICK f : Embeds(f, short, long)
  BY DEF Within
<1>2. /\ f[i] \in 1 .. Len(long) /\ f[j] \in 1 .. Len(long) /\ j - i <= f[j] - f[i]
      /\ SameOffer(short[i], long[f[i]]) /\ SameOffer(short[j], long[f[j]])
  BY <1>1 DEF Embeds
<1>3. Len(short) \in Nat /\ Len(long) \in Nat
  BY TransRecTypes
<1>4. f[i] < f[j]
  BY <1>2, <1>3
<1>5. f[j] - f[i] <= long[f[i]].serial - long[f[j]].serial /\ Linked(long[f[i]], long[f[j]])
  BY <1>2, <1>4 DEF Chain
<1>6. long[f[i]].serial \in Nat /\ long[f[j]].serial \in Nat
  BY <1>2, TransRecTypes
<1>7. j - i <= long[f[i]].serial - long[f[j]].serial
  <2>1. PICK p \in Nat, q \in Nat, a \in Nat, b \in Nat :
          p = f[i] /\ q = f[j] /\ a = long[f[i]].serial /\ b = long[f[j]].serial
    <3>1. f[i] \in Nat /\ f[j] \in Nat
      BY <1>2, <1>3
    <3>2. QED
      BY <1>6, <3>1
  <2>2. j - i <= q - p /\ q - p <= a - b
    BY <1>2, <1>5, <2>1
  <2>3. j - i <= a - b
    BY <1>3, <2>2
  <2>4. QED
    BY <2>1, <2>3
<1>8. QED
  BY <1>2, <1>5, <1>7 DEF SameOffer, Linked

LEMMA InTimeWithin ==
  ASSUME NEW long, NEW short, Within(short, long), NEW n, NEW t, NEW k, InTime(long, n, t, k)
  PROVE  InTime(short, n, t, k)
<1>1. PICK f : Embeds(f, short, long)
  BY DEF Within
<1>2. \A j \in 1 .. Len(short) : f[j] \in 1 .. Len(long) /\ SameOffer(short[j], long[f[j]])
  BY <1>1 DEF Embeds
<1>3. QED
  BY <1>2 DEF InTime, SameOffer

(* The id after an id, and how far it is from the older ones.              *)
LEMMA SuccessorFollows ==
  ASSUME NEW a \in TransIds, NEW b \in TransIds, NEW d \in Nat, d < TransIdMod, (a = b /\ d = 0) \/ Follows(a, b, d)
  PROVE  Follows(a, (b + 1) % TransIdMod, d + 1)
<1>1. TransIdMod \in Nat \ {0, 1} /\ a \in 0 .. TransIdMod - 1 /\ b \in 0 .. TransIdMod - 1
  BY Constants DEF TransIds
<1>2. (b + 1) % TransIdMod = IF b = TransIdMod - 1 THEN 0 ELSE b + 1
  BY <1>1
<1>3. PICK k \in 0 .. d : b = a + k \/ b = a + k - TransIdMod
  <2>1. CASE a = b /\ d = 0
    BY <1>1, <2>1
  <2>2. CASE Follows(a, b, d)
    BY <2>2 DEF Follows
  <2>3. QED
    BY <2>1, <2>2
<1>4. k + 1 \in 1 .. d + 1
  OBVIOUS
<1>5. (b + 1) % TransIdMod \in {a + (k + 1), a + (k + 1) - TransIdMod}
  BY <1>1, <1>2, <1>3
<1>6. QED
  BY <1>4, <1>5 DEF Follows

LEMMA FollowsFurther ==
  ASSUME NEW a, NEW b, NEW c \in Nat, NEW d \in Nat, c <= d, Follows(a, b, c)
  PROVE  Follows(a, b, d)
<1>1. PICK k \in 1 .. c : b = a + k \/ b = a + k - TransIdMod
  BY DEF Follows
<1>2. k \in 1 .. d
  OBVIOUS
<1>3. QED
  BY <1>1, <1>2 DEF Follows

(* transaction_create on a list from which what is too old was removed.    *)
LEMMA ChainCreate ==
  ASSUME NEW kept \in Seq(TransRecs), Chain(kept), NEW n \in Nat, NEW t \in Nat, NEW k \in 0 .. Rate - 1,
         InTime(kept, n, t, k), \A j \in 1 .. Len(kept) : ~Expired(kept[j], t),
         NEW e, e.serial = n + 1, e.offer = t, e.trans_id = NewTransId(kept),
         NEW r, r = <<e>> \o kept, r \in Seq(TransRecs)
  PROVE  Chain(r) /\ InTime(r, n + 1, t, k + 1)
<1>1. /\ Len(kept) \in Nat
      /\ \A i \in 1 .. Len(kept) :
           /\ kept[i].serial \in Nat /\ kept[i].offer \in Nat
           /\ kept[i].trans_id \in 0 .. TransIdMod - 1
  BY TransRecTypes
<1>2. /\ TransIdMod \in Nat \ {0, 1} /\ MaxLifetime \in Nat /\ Rate \in Nat \ {0}
      /\ Span \in Nat /\ Span <= TransIdMod
      /\ \A a \in Nat : Rate * a \in Nat
      /\ \A a \in 0 .. MaxLifetime : Rate * a + Rate <= Span
  BY Constants
<1>3. /\ Len(r) = Len(kept) + 1 /\ r[1] = e
      /\ \A i \in 2 .. Len(r) : r[i] = kept[i - 1] /\ i - 1 \in 1 .. Len(kept)
  BY <1>1
<1>4. InTime(r, n + 1, t, k + 1)
  <2> SUFFICES ASSUME NEW j \in 1 .. Len(r)
               PROVE  /\ r[j].serial <= n + 1
                      /\ r[j].offer <= t
                      /\ (n + 1) - r[j].serial + 1 <= Rate * (t - r[j].offer) + (k + 1)
    BY DEF InTime
  <2>1. CASE j = 1
    <3>1. r[j].serial = n + 1 /\ r[j].offer = t /\ Rate * 0 = 0 /\ t - t = 0
      BY <1>2, <1>3, <2>1
    <3>2. QED
      BY <3>1
  <2>2. CASE j # 1
    <3>1. j \in 2 .. Len(r)
      BY <1>1, <1>3, <2>2
    <3>2. PICK a \in Nat, o \in Nat : a = r[j].serial /\ o = r[j].offer
      BY <1>1, <1>3, <3>1
    <3>3. a <= n /\ o <= t /\ n - a + 1 <= Rate * (t - o) + k
      BY <1>3, <3>1, <3>2 DEF InTime
    <3>4. PICK w \in Nat : w = Rate * (t - o)
      <4>1. t - o \in Nat
        BY <3>3
      <4>2. QED
        BY <1>2, <4>1
    <3>5. (n + 1) - a + 1 <= w + (k + 1)
      BY <3>3, <3>4
    <3>6. a <= n + 1
      BY <3>3
    <3>7. QED
      BY <3>2, <3>3, <3>4, <3>5, <3>6
  <2>3. QED
    BY <2>1, <2>2
<1>5. \A i \in 1 .. Len(kept) : (n + 1) - kept[i].serial < Span
  <2> SUFFICES ASSUME NEW i \in 1 .. Len(kept) PROVE (n + 1) - kept[i].serial < Span
    OBVIOUS
  <2>1. PICK a \in Nat, o \in Nat : a = kept[i].serial /\ o = kept[i].offer
    BY <1>1
  <2>2. o <= t /\ n - a + 1 <= Rate * (t - o) + k /\ ~(t - o > MaxLifetime)
    BY <2>1 DEF InTime, Expired
  <2>3. t - o \in 0 .. MaxLifetime
    BY <1>2, <2>2
  <2>4. PICK w \in Nat : w = Rate * (t - o) /\ w + Rate <= Span
    <3>1. PICK c \in 0 .. MaxLifetime : c = t - o
      BY <2>3
    <3>2. Rate * c \in Nat /\ Rate * c + Rate <= Span
      <4>1. c \in Nat
        BY <1>2
      <4>2. QED
        BY <4>1, Constants, Zenon
    <3>3. QED
      BY <3>1, <3>2
  <2>5. (n + 1) - a < Span
    BY <1>2, <2>2, <2>4
  <2>6. QED
    BY <2>1, <2>5
<1>6. \A i \in 1 .. Len(kept) :
        /\ i <= (n + 1) - kept[i].serial
        /\ Follows(kept[i].trans_id, e.trans_id, (n + 1) - kept[i].serial)
  <2> SUFFICES ASSUME NEW i \in 1 .. Len(kept)
               PROVE  /\ i <= (n + 1) - kept[i].serial
                      /\ Follows(kept[i].trans_id, e.trans_id, (n + 1) - kept[i].serial)
    OBVIOUS
  <2> DEFINE h == kept[1]
             d == kept[i]
  <2>1. /\ 1 \in 1 .. Len(kept) /\ h.serial \in Nat /\ d.serial \in Nat
        /\ h.trans_id \in TransIds /\ d.trans_id \in TransIds
    BY <1>1 DEF TransIds
  <2>2. h.serial <= n /\ d.serial <= n
    BY <2>1 DEF InTime
  <2>3. e.trans_id = (h.trans_id + 1) % TransIdMod
    BY <1>1, <2>1 DEF NewTransId
  <2>4. /\ i - 1 <= h.serial - d.serial /\ h.serial - d.serial < Span
        /\ \/ d.trans_id = h.trans_id /\ h.serial - d.serial = 0
           \/ Follows(d.trans_id, h.trans_id, h.serial - d.serial)
    <3>1. CASE i = 1
      BY <1>2, <2>1, <3>1, Constants DEF Span
    <3>2. CASE i # 1
      <4>1. 1 < i
        BY <3>2
      <4>2. QED
        BY <2>1, <4>1 DEF Chain, Linked
    <3>3. QED
      BY <3>1, <3>2
  <2> HIDE DEF h, d
  <2>5. h.serial - d.serial \in Nat /\ h.serial - d.serial < TransIdMod
    <3>1. PICK a \in Nat, b \in Nat : a = h.serial /\ b = d.serial
      BY <2>1
    <3>2. i - 1 <= a - b /\ a - b < Span
      BY <2>4, <3>1
    <3>3. a - b \in Nat /\ a - b < TransIdMod
      BY <1>2, <3>2
    <3>4. QED
      BY <3>1, <3>3
  <2>6. Follows(d.trans_id, e.trans_id, h.serial - d.serial + 1)
    BY <2>1, <2>3, <2>4, <2>5, SuccessorFollows
  <2>7. /\ h.serial - d.serial + 1 \in Nat /\ (n + 1) - d.serial \in Nat
        /\ h.serial - d.serial + 1 <= (n + 1) - d.serial /\ i <= (n + 1) - d.serial
    <3>1. PICK a \in Nat, b \in Nat : a = h.serial /\ b = d.serial
      BY <2>1
    <3>2. a <= n /\ b <= n /\ i - 1 <= a - b /\ a - b \in Nat
      BY <2>2, <2>4, <2>5, <3>1
    <3>3. /\ a - b + 1 \in Nat /\ (n + 1) - b \in Nat
          /\ a - b + 1 <= (n + 1) - b /\ i <= (n + 1) - b
      <4>1. n \in Nat /\ i \in Int
        BY <1>1
      <4>2. QED
        BY ONLY <3>2, <4>1, a \in Nat, b \in Nat
    <3>4. QED
      BY <3>1, <3>3
  <2>8. Follows(d.trans_id, e.trans_id, (n + 1) - d.serial)
    BY <2>6, <2>7, FollowsFurther
  <2>9. QED
    BY <2>7, <2>8 DEF d
<1>7. Chain(r)
  <2> SUFFICES ASSUME NEW i \in 1 .. Len(r), NEW j \in 1 .. Len(r), i < j
               PROVE  j - i <= r[i].serial - r[j].serial /\ Linked(r[i], r[j])
    BY DEF Chain
  <2>1. j \in 2 .. Len(r) /\ j - 1 \in 1 .. Len(kept) /\ r[j] = kept[j - 1]
    BY <1>1, <1>3
  <2>2. CASE i = 1
    <3>1. r[i] = e /\ e.serial = n + 1 /\ j - i = j - 1
      BY <1>3, <2>2
    <3>2. /\ j - 1 <= (n + 1) - kept[j - 1].serial /\ (n + 1) - kept[j - 1].serial < Span
          /\ Follows(kept[j - 1].trans_id, e.trans_id, (n + 1) - kept[j - 1].serial)
      BY <1>5, <1>6, <2>1
    <3>3. QED
      BY <2>1, <3>1, <3>2 DEF Linked
  <2>3. CASE i # 1
    <3>1. i - 1 \in 1 .. Len(kept) /\ r[i] = kept[i - 1] /\ i - 1 < j - 1 /\ (j - 1) - (i - 1) = j - i
      BY <1>1, <1>3, <2>1, <2>3
    <3>2. (j - 1) - (i - 1) <= kept[i - 1].serial - kept[j - 1].serial /\ Linked(kept[i - 1], kept[j - 1])
      BY <2>1, <3>1 DEF Chain
    <3>3. QED
      BY <2>1, <3>1, <3>2
  <2>4. QED
    BY <2>2, <2>3
<1>8. QED
  BY <1>4, <1>7

-----------------------------------------------------------------------------
(***************************************************************************)
(* The invariant                                                           *)
(***************************************************************************)
TypeInv ==
  /\ stl \in Seq(TransRecs)
  /\ now \in 0 .. MaxTime
  /\ inTick \in 0 .. Rate
  /\ IsFiniteSet(sent)
  /\ \A o \in sent : o.serial \in Nat /\ o.serial <= Cardinality(sent)

ListInv == InTime(stl, Cardinality(sent), now, inTick) /\ Chain(stl)

(* A transaction is opened.                                                *)
LEMMA SendOfferInv ==
  ASSUME TypeInv, ListInv, NEW p \in Peers, SendOffer(p)
  PROVE  TypeInv' /\ ListInv'
<1> DEFINE kept == CheckNeighborStatusList(stl, now)
           n == Cardinality(sent)
           t == NewTransId(kept)
           e == [trans_id |-> t, offer |-> now, accept |-> NoTime, id |-> p, serial |-> n + 1]
           o == [serial |-> n + 1, trans_id |-> t, id |-> p]
<1>1. /\ inTick < Rate /\ n + 1 <= MaxOffers /\ stl' = <<e>> \o kept /\ sent' = sent \union {o}
      /\ inTick' = inTick + 1 /\ now' = now
  BY DEF SendOffer
<1>2. /\ kept \in Seq(TransRecs)
      /\ \A j \in 1 .. Len(kept) : ~Expired(kept[j], now)
  BY CheckNeighborStatusListExact DEF TypeInv, KeptOf
<1>3. Within(kept, stl)
  BY CheckNeighborStatusListWithin DEF TypeInv
<1> HIDE DEF kept
<1>4. /\ n \in Nat /\ now \in Nat /\ now \in 0 .. MaxTime /\ inTick \in 0 .. Rate - 1
      /\ Rate \in Nat \ {0} /\ MaxTime \in Nat /\ MaxOffers \in Nat
  BY <1>1, FS_CardinalityType, Constants DEF TypeInv
<1>5. t \in TransIds
  <2>1. CASE kept = << >>
    BY <2>1, Constants DEF NewTransId, TransIds
  <2>2. CASE kept # << >>
    <3>1. Head(kept) \in TransRecs
      BY <1>2, <2>2, HeadTailProperties
    <3>2. PICK h \in Nat : h = Head(kept).trans_id
      BY <3>1, Constants DEF TransRecs, TransIds
    <3>3. (h + 1) % TransIdMod \in 0 .. TransIdMod - 1
      BY Constants
    <3>4. QED
      BY <2>2, <3>2, <3>3 DEF NewTransId, TransIds
  <2>3. QED
    BY <2>1, <2>2
<1>6. e \in TransRecs /\ e.serial = n + 1 /\ e.offer = now /\ e.trans_id = NewTransId(kept)
  <2>1. NoTime \in NoTime .. MaxTime /\ n + 1 \in 1 .. MaxOffers
    BY <1>1, <1>4 DEF NoTime
  <2> HIDE DEF t, n
  <2>2. QED
    BY <1>4, <1>5, <2>1 DEF TransRecs, t
<1>7. IsFiniteSet(sent)' /\ Cardinality(sent)' = n + 1 /\ \A q \in sent' : q.serial \in Nat /\ q.serial <= n + 1
  <2>1. o.serial = n + 1
    OBVIOUS
  <2> HIDE DEF o
  <2>2. o \notin sent
    BY <1>4, <2>1 DEF TypeInv
  <2>3. IsFiniteSet(sent \union {o}) /\ Cardinality(sent \union {o}) = n + 1
    BY <2>2, FS_AddElement DEF TypeInv
  <2>4. \A q \in sent \union {o} : q.serial \in Nat /\ q.serial <= n + 1
    <3>1. \A q \in sent : q.serial \in Nat /\ q.serial <= n
      BY DEF TypeInv
    <3>2. \A q \in sent : q.serial \in Nat /\ q.serial <= n + 1
      BY <1>4, <3>1
    <3>3. n + 1 \in Nat /\ n + 1 <= n + 1
      BY <1>4
    <3>4. QED
      BY <2>1, <3>2, <3>3
  <2>5. QED
    BY <1>1, <2>3, <2>4
<1> HIDE DEF e, n, t, o
<1>8. Chain(kept)
  BY <1>2, <1>3, ChainWithin DEF ListInv, TypeInv
<1>9. InTime(kept, n, now, inTick)
  BY <1>3, InTimeWithin DEF ListInv, n
<1>10. stl' \in Seq(TransRecs)
  <2>1. <<e>> \in Seq(TransRecs)
    BY <1>6
  <2>2. QED
    BY <1>1, <1>2, <2>1, ConcatProperties
<1>11. Chain(stl') /\ InTime(stl', n + 1, now, inTick + 1)
  BY <1>1, <1>2, <1>4, <1>6, <1>8, <1>9, <1>10, ChainCreate
<1>12. inTick + 1 \in 0 .. Rate
  BY <1>4
<1>13. QED
  BY <1>1, <1>4, <1>7, <1>10, <1>11, <1>12 DEF TypeInv, ListInv

(* Closing one, registering an accept, and the passing of time.            *)
LEMMA WithinInv ==
  ASSUME TypeInv, ListInv, stl' \in Seq(TransRecs), Within(stl', stl), UNCHANGED <<now, inTick, sent>>
  PROVE  TypeInv' /\ ListInv'
<1>1. Chain(stl')
  BY ChainWithin DEF TypeInv, ListInv
<1>2. InTime(stl', Cardinality(sent), now, inTick)
  BY InTimeWithin DEF ListInv
<1>3. QED
  BY <1>1, <1>2 DEF TypeInv, ListInv

LEMMA TickInv ==
  ASSUME TypeInv, ListInv, Tick
  PROVE  TypeInv' /\ ListInv'
<1> DEFINE n == Cardinality(sent)
<1>1. /\ now < MaxTime /\ now' = now + 1 /\ inTick' = 0 /\ UNCHANGED <<stl, sent>>
      /\ now \in Nat /\ inTick \in 0 .. Rate /\ n \in Nat
      /\ Rate \in Nat \ {0} /\ MaxTime \in Nat
  BY FS_CardinalityType, Constants DEF Tick, TypeInv
<1> HIDE DEF n
<1>2. InTime(stl, n, now + 1, 0)
  <2> SUFFICES ASSUME NEW j \in 1 .. Len(stl)
               PROVE  /\ stl[j].serial <= n
                      /\ stl[j].offer <= now + 1
                      /\ n - stl[j].serial + 1 <= Rate * ((now + 1) - stl[j].offer) + 0
    BY DEF InTime
  <2>1. PICK a \in Nat, q \in Nat : a = stl[j].serial /\ q = stl[j].offer
    BY TransRecTypes DEF TypeInv
  <2>2. a <= n /\ q <= now /\ n - a + 1 <= Rate * (now - q) + inTick
    BY <2>1 DEF ListInv, InTime, n
  <2>3. PICK d \in Nat : d = now - q /\ d + 1 = (now + 1) - q
    <3>1. now - q \in Nat /\ now - q + 1 = (now + 1) - q
      BY <1>1, <2>2
    <3>2. QED
      BY <3>1
  <2>4. PICK w \in Nat : w = Rate * d /\ Rate * (d + 1) = w + Rate
    BY Constants, Zenon
  <2>5. n - a + 1 <= w + inTick
    BY <2>2, <2>3, <2>4
  <2>6. n - a + 1 <= (w + Rate) + 0 /\ q <= now + 1
    BY <1>1, <2>2, <2>5
  <2>7. QED
    BY <2>1, <2>2, <2>3, <2>4, <2>6
<1>3. now + 1 \in 0 .. MaxTime /\ 0 \in 0 .. Rate
  BY <1>1
<1>4. QED
  BY <1>1, <1>2, <1>3 DEF TypeInv, ListInv, n

LEMMA InvNext == TypeInv /\ ListInv /\ [Next]_vars => TypeInv' /\ ListInv'
<1> SUFFICES ASSUME TypeInv, ListInv, [Next]_vars PROVE TypeInv' /\ ListInv'
  OBVIOUS
<1>1. CASE Tick
  BY <1>1, TickInv
<1>2. CASE \E p \in Peers : SendOffer(p)
  BY <1>2, SendOfferInv
<1>3. CASE \E o \in sent : AcceptArrives(o)
  BY <1>3, TransactionRegAcceptWithin, WithinInv DEF AcceptArrives, TypeInv
<1>4. CASE \E o \in sent \union {Push} : AckArrives(o)
  BY <1>4, TransactionRemoveWithin, WithinInv DEF AckArrives, TypeInv
<1>5. CASE UNCHANGED vars
  BY <1>5 DEF vars, TypeInv, ListInv
<1>6. QED
  BY <1>1, <1>2, <1>3, <1>4, <1>5 DEF Next

(* The inductive invariant: the serial numbers and ids of the open         *)
(* transactions, under the rate of the offer timer.                        *)
THEOREM ListInvariant == Spec => [](TypeInv /\ ListInv)
<1>1. Init => TypeInv /\ ListInv
  <2> SUFFICES ASSUME Init PROVE TypeInv /\ ListInv
    OBVIOUS
  <2>1. << >> \in Seq(TransRecs) /\ Len(<< >>) = 0
    OBVIOUS
  <2>2. IsFiniteSet({}) /\ MaxTime \in Nat /\ Rate \in Nat
    BY FS_EmptySet, Constants
  <2>3. QED
    BY <2>1, <2>2 DEF Init, TypeInv, ListInv, InTime, Chain
<1>2. QED
  BY <1>1, InvNext, PTL DEF Spec

(* The list stays a list of transactions.                                  *)
THEOREM TypeCorrect == Spec => []TypeOK
<1>1. TypeInv => TypeOK
  BY DEF TypeInv, TypeOK, TransRecs
<1>2. QED
  BY <1>1, ListInvariant, PTL

(* Two open transactions never have the same id, whatever the number of    *)
(* wrap-arounds of the counter transaction_create steps: transaction_remove*)
(* and transaction_reg_accept find the transaction that was meant, or none.*)
THEOREM IdsDistinct == Spec => []OpenIdsDistinct
<1>1. TypeInv /\ ListInv => OpenIdsDistinct
  <2> SUFFICES ASSUME TypeInv, ListInv, NEW i \in DOMAIN stl, NEW j \in DOMAIN stl, i < j
               PROVE  stl[i].trans_id # stl[j].trans_id
    <3>1. DOMAIN stl = 1 .. Len(stl) /\ Len(stl) \in Nat
      BY LenProperties DEF TypeInv
    <3>2. \A i, j \in DOMAIN stl : i # j => i < j \/ j < i
      BY <3>1
    <3>3. QED
      BY <3>2 DEF OpenIdsDistinct
  <2>1. i \in 1 .. Len(stl) /\ j \in 1 .. Len(stl)
    BY LenProperties DEF TypeInv
  <2>2. Linked(stl[i], stl[j])
    BY <2>1 DEF ListInv, Chain
  <2>3. PICK a \in Nat, b \in Nat, c \in 0 .. TransIdMod - 1, d \in 0 .. TransIdMod - 1 :
          /\ a = stl[i].serial /\ b = stl[j].serial
          /\ c = stl[i].trans_id /\ d = stl[j].trans_id
    BY <2>1, TransRecTypes DEF TypeInv
  <2>4. a - b < Span /\ \E k \in 1 .. a - b : c = d + k \/ c = d + k - TransIdMod
    BY <2>2, <2>3 DEF Linked, Follows
  <2>5. c # d
    BY <2>4, Constants
  <2>6. QED
    BY <2>3, <2>5
<1>2. QED
  BY <1>1, ListInvariant, PTL

(* The list never holds more than the offers of one lifetime, although     *)
(* check_neighbor_status_list runs only with transaction_create and every  *)
(* accept and ack may be lost.                                             *)
THEOREM ListBounded == Spec => []BoundedList
<1>1. TypeInv /\ ListInv => BoundedList
  <2> SUFFICES ASSUME TypeInv, ListInv PROVE Len(stl) <= Span
    BY DEF BoundedList, Span
  <2>1. Len(stl) \in Nat /\ Span \in Nat
    BY LenProperties, Constants DEF TypeInv
  <2>2. Span # 0
    BY Constants, TransactionAssumption DEF Span
  <2>3. CASE Len(stl) > 1
    <3>1. 1 \in 1 .. Len(stl) /\ Len(stl) \in 1 .. Len(stl)
      BY <2>1, <2>3
    <3>2. PICK a \in Nat, b \in Nat : a = stl[1].serial /\ b = stl[Len(stl)].serial
      BY <3>1, TransRecTypes DEF TypeInv
    <3>3. Len(stl) - 1 <= a - b /\ a - b < Span
      BY <2>3, <3>1, <3>2 DEF ListInv, Chain, Linked
    <3>4. QED
      BY <2>1, <3>3
  <2>4. QED
    BY <2>1, <2>2, <2>3
<1>2. QED
  BY <1>1, ListInvariant, PTL
=============================================================================
