-------------------------- MODULE NetHelper_proofs --------------------------
(***************************************************************************)
(* Proofs about NetHelper, for any nodes and messages, every fragment size *)
(* and buffer, every age of packets and every delay of the network and the *)
(* queue, at every rate that does not use up the packet ids meanwhile.     *)
(***************************************************************************)
EXTENDS NetHelper, FiniteSetTheorems, SequenceTheorems, TLAPS

-----------------------------------------------------------------------------
(***************************************************************************)
(* The inductive invariant                                                 *)
(***************************************************************************)
Ids == 0 .. PidMod - 1
Data == ((Nat \X Nat) \X Nat) \union {NoData}
FragArrays == UNION {[0 .. m - 1 -> Data] : m \in Nat}
PacketRecs == [pid : Ids, born : Nat, frags : FragArrays]
EndpointRecs == [out_id : Ids, outgoing : Seq(PacketRecs), incoming : Seq(PacketRecs)]
ElemRecs(n) == [type : {"fragment", "request"}, to : Others(n), pid : Ids, id : Nat]
GramRecs == [from : Nodes, to : Nodes, pid : Ids, num : Nat, id : Nat, data : Data, left : Nat]
SentRecs == [from : Nodes, to : Nodes, msg : Nat \X Nat, at : Nat]

TypeInv ==
  /\ now \in Nat
  /\ ep = [n \in Nodes |-> ep[n]]
  /\ \A n \in Nodes : ep[n] \in [Others(n) -> EndpointRecs]
  /\ outqueue = [n \in Nodes |-> outqueue[n]]
  /\ \A n \in Nodes : outqueue[n] \in Seq(ElemRecs(n))
  /\ net \in SUBSET GramRecs
  /\ sent \in Seq(SentRecs)
  /\ restarted \in [Nodes -> Int]
  /\ pending \in SUBSET (1 .. Len(sent))

(* The messages sent, and how many of them in a second.                    *)
SentAt(n, p, t) == {k \in 1 .. Len(sent) : sent[k].from = n /\ sent[k].to = p /\ sent[k].at = t}

LogInv ==
  /\ Len(sent) <= Len(Sizes)
  /\ \A k \in 1 .. Len(sent) :
       sent[k].msg = <<k, Sizes[k]>> /\ sent[k].at <= now /\ sent[k].to # sent[k].from
  /\ \A j, k \in 1 .. Len(sent) : j <= k => sent[j].at <= sent[k].at
  /\ \A n, p \in Nodes : \A t \in 0 .. now : Cardinality(SentAt(n, p, t)) <= Rate

(* Message k went from n to p.  Since counts the messages from it on.      *)
Went(n, p, k) == k \in 1 .. Len(sent) /\ sent[k].from = n /\ sent[k].to = p
From(n, p, k) == {j \in k .. Len(sent) : sent[j].from = n /\ sent[j].to = p}
Since(n, p, k) == Cardinality(From(n, p, k))

(* pid is the id that message k got from the counter that is out_id now.   *)
Stamped(n, p, k, pid) == (pid + Since(n, p, k)) % PidMod = ep[n][p].out_id

(* Buckets: the oldest first, an id once.                                  *)
Ordered(bucket) ==
  \A i, j \in 1 .. Len(bucket) :
    i < j => bucket[i].born <= bucket[j].born /\ bucket[i].pid # bucket[j].pid

(* A packet in n's bucket of what it sent to p.                            *)
OutPacket(n, p, q) ==
  \E k \in 1 .. Len(sent) :
    /\ Went(n, p, k)
    /\ sent[k].at = q.born
    /\ q = NewPacket(q.pid, sent[k].msg, q.born)
    /\ Stamped(n, p, k, q.pid)

OutInv ==
  \A n \in Nodes : \A p \in Others(n) :
    /\ Ordered(ep[n][p].outgoing)
    /\ \A q \in Range(ep[n][p].outgoing) : OutPacket(n, p, q)

(* A fragment in n's queue: part of a packet that is not too old.          *)
Queued(n, e) ==
  \E q \in Packet(ep[n][e.to].outgoing, e.pid) : e.id \in FragIds(q) /\ now - q.born <= QueueDelay

Once(queue) ==
  \A k, l \in 1 .. Len(queue) :
    k # l /\ queue[k].type = "fragment" /\ queue[l].type = "fragment" => queue[k] # queue[l]

QueueInv ==
  \A n \in Nodes :
    /\ Once(outqueue[n])
    /\ \A e \in Range(outqueue[n]) : e.type = "fragment" => Queued(n, e)

(* A datagram of message k.                                                *)
Carries(d, k) ==
  /\ Went(d.from, d.to, k)
  /\ d.data = Piece(sent[k].msg, d.id)
  /\ d.num = FragNum(Sizes[k])
  /\ d.id \in 0 .. d.num - 1
  /\ sent[k].at <= d.left
  /\ d.left - sent[k].at <= QueueDelay
  /\ d.left > restarted[d.from] => Stamped(d.from, d.to, k, d.pid)

NetInv ==
  \A d \in net :
    /\ d.to # d.from
    /\ d.left <= now
    /\ now - d.left <= NetDelay
    /\ \E k \in 1 .. Len(sent) : Carries(d, k)

(* A packet in n's bucket of what came from p, and what is written in it.  *)
Settled(p, q) == q.born > restarted[p] + NetDelay

Holds(n, p, q, id, k) ==
  /\ Went(p, n, k)
  /\ q.frags[id] = Piece(sent[k].msg, id)
  /\ q.born <= sent[k].at + NetDelay + QueueDelay
  /\ sent[k].at < q.born + max_pkt_age
  /\ Settled(p, q) =>
       /\ Stamped(p, n, k, q.pid)
       /\ FragIds(q) = 0 .. FragNum(Sizes[k]) - 1
       /\ sent[k].at <= q.born

InPacket(n, p, q) ==
  /\ q.born <= now
  /\ Missing(q) # {}
  /\ Missing(q) # FragIds(q)
  /\ \A id \in FragIds(q) \ Missing(q) : \E k \in 1 .. Len(sent) : Holds(n, p, q, id, k)

InInv ==
  \A n \in Nodes : \A p \in Others(n) :
    /\ Ordered(ep[n][p].incoming)
    /\ \A q \in Range(ep[n][p].incoming) : InPacket(n, p, q)

IndInv ==
  /\ TypeInv
  /\ LogInv
  /\ OutInv
  /\ QueueInv
  /\ NetInv
  /\ InInv
  /\ ~corrupt
-----------------------------------------------------------------------------
(***************************************************************************)
(* Induction, as in Transactions_proofs                                    *)
(***************************************************************************)
LEMMA LeastElement ==
  ASSUME NEW T \in SUBSET Nat, T # {}
  PROVE  \E x \in T : \A y \in T : x <= y
<1> DEFINE R == {ss \in Nat \X Nat : ss[1] < ss[2]}
<1>1. IsWellFoundedOn(R, Nat)
  BY NatLessThanWellFounded DEF OpToRel
<1>2. PICK x \in T : \A y \in T : <<y, x>> \notin R
  <2> HIDE DEF R
  <2>1. QED
    BY <1>1, WFMin
<1>3. ASSUME NEW y \in T PROVE x <= y
  <2>1. <<y, x>> \in Nat \X Nat /\ <<y, x>> \notin R
    BY <1>2
  <2>2. QED
    BY <2>1
<1>4. QED
  BY <1>3

LEMMA InductionUpTo ==
  ASSUME NEW n \in Nat, NEW T, 0 \in T, \A i \in 0 .. n - 1 : i \in T => i + 1 \in T
  PROVE  \A i \in 0 .. n : i \in T
<1> SUFFICES ASSUME NEW m \in 0 .. n, m \notin T PROVE FALSE
  OBVIOUS
<1> DEFINE U == {i \in 0 .. n : i \notin T}
<1>1. U \in SUBSET Nat /\ U # {}
  OBVIOUS
<1>2. PICK x \in U : \A y \in U : x <= y
  <2> HIDE DEF U
  <2>1. QED
    BY <1>1, LeastElement
<1>3. x # 0 /\ x \in 0 .. n /\ x \notin T
  BY <1>2
<1>4. x - 1 \in 0 .. n - 1 /\ x - 1 + 1 = x /\ x - 1 \notin U
  BY <1>2, <1>3
<1>5. QED
  BY <1>3, <1>4
-----------------------------------------------------------------------------
(***************************************************************************)
(* Selected: what stays of a list, in its order                            *)
(***************************************************************************)
LeftStep(s, K, g, i) ==
  IF i = 0 THEN << >> ELSE IF i \in K THEN Append(g[i - 1], s[i]) ELSE g[i - 1]

LeftRec(s, K, n, g) == g = [i \in 0 .. n |-> LeftStep(s, K, g, i)]

LEMMA LeftExists ==
  ASSUME NEW s, NEW K, NEW n \in Nat
  PROVE  \E g : LeftRec(s, K, n, g)
<1> DEFINE T == {i \in 0 .. n : \E g : LeftRec(s, K, i, g)}
<1>1. 0 \in T
  <2> DEFINE g == [i \in 0 .. 0 |-> << >>]
  <2>1. g = [i \in 0 .. 0 |-> LeftStep(s, K, g, i)]
    BY DEF LeftStep
  <2>2. LeftRec(s, K, 0, g)
    BY <2>1 DEF LeftRec
  <2>3. QED
    BY <2>2
<1>2. ASSUME NEW i \in 0 .. n - 1, i \in T PROVE i + 1 \in T
  <2>1. PICK g : LeftRec(s, K, i, g)
    BY <1>2
  <2> DEFINE h == [k \in 0 .. i + 1 |-> IF k = i + 1 THEN LeftStep(s, K, g, k) ELSE g[k]]
  <2>2. \A k \in 0 .. i + 1 : h[k] = LeftStep(s, K, h, k)
    <3> SUFFICES ASSUME NEW k \in 0 .. i + 1 PROVE h[k] = LeftStep(s, K, h, k)
      OBVIOUS
    <3>1. k # 0 => k - 1 \in 0 .. i /\ h[k - 1] = g[k - 1]
      OBVIOUS
    <3>2. h[k] = LeftStep(s, K, g, k)
      BY <2>1 DEF LeftRec
    <3>3. LeftStep(s, K, g, k) = LeftStep(s, K, h, k)
      BY <3>1 DEF LeftStep
    <3>4. QED
      BY <3>2, <3>3
  <2>3. h = [k \in 0 .. i + 1 |-> LeftStep(s, K, h, k)]
    BY <2>2
  <2> HIDE DEF h
  <2>4. LeftRec(s, K, i + 1, h)
    BY <2>3 DEF LeftRec
  <2>5. QED
    BY <2>4
<1> HIDE DEF T
<1>3. \A i \in 0 .. n : i \in T
  BY <1>1, <1>2, InductionUpTo
<1>4. QED
  BY <1>3 DEF T

(* r is what stays of the first i elements of s; f says where it was.      *)
Places(s, K, i, r, f) ==
  /\ \A j \in 1 .. Len(r) : f[j] \in 1 .. i /\ f[j] \in K /\ r[j] = s[f[j]]
  /\ \A j, k \in 1 .. Len(r) : j < k => f[j] < f[k]
  /\ \A k \in 1 .. i : k \in K => \E j \in 1 .. Len(r) : f[j] = k

LEMMA PlacesAppend ==
  ASSUME NEW S, NEW s \in Seq(S), NEW K, NEW i \in 0 .. Len(s) - 1, NEW r \in Seq(S), NEW f,
         Places(s, K, i, r, f), i + 1 \in K
  PROVE  /\ Append(r, s[i + 1]) \in Seq(S)
         /\ \E h : Places(s, K, i + 1, Append(r, s[i + 1]), h)
<1> DEFINE e == s[i + 1]
           q == Append(r, e)
           h == [j \in 1 .. Len(r) + 1 |-> IF j = Len(r) + 1 THEN i + 1 ELSE f[j]]
<1>1. Len(r) \in Nat /\ Len(s) \in Nat
  BY LenProperties
<1>2. e \in S
  BY <1>1, ElementOfSeq
<1>3. /\ q \in Seq(S) /\ Len(q) = Len(r) + 1 /\ q[Len(r) + 1] = e
      /\ \A j \in 1 .. Len(r) : q[j] = r[j]
  BY <1>1, <1>2, AppendProperties
<1> HIDE DEF q
<1>4. /\ \A j \in 1 .. Len(r) : h[j] = f[j] /\ f[j] \in 1 .. i /\ f[j] \in K /\ r[j] = s[f[j]]
      /\ h[Len(r) + 1] = i + 1
  BY <1>1 DEF Places
<1>5. \A j \in 1 .. Len(q) : j = Len(r) + 1 \/ j \in 1 .. Len(r)
  BY <1>1, <1>3
<1> HIDE DEF h
<1>6. \A j \in 1 .. Len(q) : h[j] \in 1 .. i + 1 /\ h[j] \in K /\ q[j] = s[h[j]]
  BY <1>1, <1>3, <1>4, <1>5
<1>7. \A j, k \in 1 .. Len(q) : j < k => h[j] < h[k]
  <2> SUFFICES ASSUME NEW j \in 1 .. Len(q), NEW k \in 1 .. Len(q), j < k PROVE h[j] < h[k]
    OBVIOUS
  <2>1. j \in 1 .. Len(r) /\ h[j] = f[j] /\ f[j] \in 1 .. i
    BY <1>1, <1>3, <1>4
  <2>2. CASE k = Len(r) + 1
    BY <1>4, <2>1, <2>2
  <2>3. CASE k \in 1 .. Len(r)
    BY <1>4, <2>1, <2>3 DEF Places
  <2>4. QED
    BY <1>5, <2>2, <2>3
<1>8. \A k \in 1 .. i + 1 : k \in K => \E j \in 1 .. Len(q) : h[j] = k
  <2> SUFFICES ASSUME NEW k \in 1 .. i + 1, k \in K PROVE \E j \in 1 .. Len(q) : h[j] = k
    OBVIOUS
  <2>1. CASE k = i + 1
    <3>1. Len(r) + 1 \in 1 .. Len(q)
      BY <1>1, <1>3
    <3>2. QED
      BY <1>4, <2>1, <3>1
  <2>2. CASE k # i + 1
    <3>1. k \in 1 .. i
      BY <2>2
    <3>2. PICK j \in 1 .. Len(r) : f[j] = k
      BY <3>1 DEF Places
    <3>3. j \in 1 .. Len(q) /\ h[j] = k
      BY <1>1, <1>3, <1>4, <3>2
    <3>4. QED
      BY <3>3
  <2>3. QED
    BY <2>1, <2>2
<1>9. Places(s, K, i + 1, q, h)
  BY <1>6, <1>7, <1>8 DEF Places
<1>10. QED
  BY <1>3, <1>9 DEF q

LEMMA SelectedPlaces ==
  ASSUME NEW S, NEW s \in Seq(S), NEW K
  PROVE  /\ Selected(s, K) \in Seq(S)
         /\ \E f : Places(s, K, Len(s), Selected(s, K), f)
<1>1. Len(s) \in Nat
  BY LenProperties
<1>2. Selected(s, K) = (CHOOSE g : LeftRec(s, K, Len(s), g))[Len(s)]
  BY DEF Selected, LeftRec, LeftStep
<1>3. PICK g : LeftRec(s, K, Len(s), g) /\ Selected(s, K) = g[Len(s)]
  BY <1>1, <1>2, LeftExists
<1>4. \A i \in 0 .. Len(s) : g[i] = LeftStep(s, K, g, i)
  BY <1>3 DEF LeftRec
<1> DEFINE T == {i \in 0 .. Len(s) : g[i] \in Seq(S) /\ \E f : Places(s, K, i, g[i], f)}
<1>5. 0 \in T
  <2>1. g[0] = << >> /\ 0 \in 0 .. Len(s)
    BY <1>1, <1>4 DEF LeftStep
  <2>2. << >> \in Seq(S) /\ Len(<< >>) = 0
    OBVIOUS
  <2>3. Places(s, K, 0, << >>, << >>)
    BY <2>2 DEF Places
  <2>4. QED
    BY <2>1, <2>2, <2>3
<1>6. ASSUME NEW i \in 0 .. Len(s) - 1, i \in T PROVE i + 1 \in T
  <2>1. i + 1 \in 0 .. Len(s) /\ i + 1 # 0 /\ (i + 1) - 1 = i
    BY <1>1
  <2>2. g[i + 1] = IF i + 1 \in K THEN Append(g[i], s[i + 1]) ELSE g[i]
    BY <1>4, <2>1 DEF LeftStep
  <2>3. g[i] \in Seq(S)
    BY <1>6
  <2>4. PICK f : Places(s, K, i, g[i], f)
    BY <1>6
  <2>5. CASE i + 1 \in K
    <3>1. g[i + 1] \in Seq(S) /\ \E h : Places(s, K, i + 1, g[i + 1], h)
      BY <2>2, <2>3, <2>4, <2>5, PlacesAppend
    <3>2. QED
      BY <2>1, <3>1
  <2>6. CASE i + 1 \notin K
    <3>1. g[i + 1] = g[i]
      BY <2>2, <2>6
    <3>2. \A k \in 1 .. i + 1 : k = i + 1 \/ k \in 1 .. i
      OBVIOUS
    <3>3. \A j \in 1 .. Len(g[i]) : f[j] \in 1 .. i + 1
      BY <2>4 DEF Places
    <3>4. Places(s, K, i + 1, g[i], f)
      BY <2>4, <2>6, <3>2, <3>3 DEF Places
    <3>5. QED
      BY <2>1, <2>3, <3>1, <3>4
  <2>7. QED
    BY <2>5, <2>6
<1> HIDE DEF T
<1>7. \A i \in 0 .. Len(s) : i \in T
  BY <1>1, <1>5, <1>6, InductionUpTo
<1>8. Len(s) \in T
  BY <1>1, <1>7
<1>9. QED
  BY <1>3, <1>8 DEF T
-----------------------------------------------------------------------------
(***************************************************************************)
(* Buckets: what the operations make of the set of their packets           *)
(***************************************************************************)
LEMMA Constants ==
  /\ frag_size \in Nat \ {0} /\ max_pkt_age \in Nat \ {0} /\ PidMod \in Nat \ {0}
  /\ buffer_size \in Nat /\ NetDelay \in Nat /\ QueueDelay \in Nat /\ Rate \in Nat
  /\ Sizes \in Seq(Nat \ {0}) /\ Len(Sizes) \in Nat
  /\ Senders \subseteq Nodes /\ RequestIds \subseteq Nat
  /\ PidMod >= Rate * (max_pkt_age + QueueDelay + NetDelay)
  /\ QueueDelay + 1 >= max_pkt_age /\ frag_size < buffer_size
<1>1. Sizes \in Seq(Nat \ {0})
  BY NetHelperAssumption
<1>2. Len(Sizes) \in Nat
  BY <1>1, LenProperties
<1>3. QED
  BY <1>1, <1>2, NetHelperAssumption

LEMMA InRange ==
  ASSUME NEW S, NEW s \in Seq(S)
  PROVE  /\ Len(s) \in Nat /\ DOMAIN s = 1 .. Len(s)
         /\ \A x : x \in Range(s) <=> \E i \in 1 .. Len(s) : x = s[i]
         /\ \A i \in 1 .. Len(s) : s[i] \in S
         /\ Range(s) \subseteq S
<1>1. Len(s) \in Nat /\ DOMAIN s = 1 .. Len(s) /\ \A i \in 1 .. Len(s) : s[i] \in S
  BY LenProperties, ElementOfSeq
<1>2. QED
  BY <1>1 DEF Range

LEMMA PacketTypes ==
  ASSUME NEW q \in PacketRecs
  PROVE  /\ q.pid \in Ids /\ q.born \in Nat /\ q.frags \in FragArrays
         /\ \E m \in Nat : FragIds(q) = 0 .. m - 1 /\ q.frags \in [0 .. m - 1 -> Data]
         /\ \A id \in FragIds(q) : q.frags[id] \in Data
         /\ q = [pid |-> q.pid, born |-> q.born, frags |-> q.frags]
<1>1. q.pid \in Ids /\ q.born \in Nat /\ q.frags \in FragArrays
  BY DEF PacketRecs
<1>2. PICK m \in Nat : q.frags \in [0 .. m - 1 -> Data]
  BY <1>1 DEF FragArrays
<1>3. FragIds(q) = 0 .. m - 1 /\ \A id \in FragIds(q) : q.frags[id] \in Data
  BY <1>2 DEF FragIds
<1>4. q = [pid |-> q.pid, born |-> q.born, frags |-> q.frags]
  BY DEF PacketRecs
<1>5. QED
  BY <1>1, <1>2, <1>3, <1>4

(* An id finds one packet.                                                 *)
LEMMA UniquePacket ==
  ASSUME NEW b \in Seq(PacketRecs), Ordered(b), NEW q \in Range(b)
  PROVE  Packet(b, q.pid) = {q} /\ The(Packet(b, q.pid)) = q
<1>1. PICK i \in 1 .. Len(b) : q = b[i]
  BY InRange
<1>2. ASSUME NEW x \in Packet(b, q.pid) PROVE x = q
  <2>1. x \in Range(b) /\ x.pid = q.pid
    BY DEF Packet
  <2>2. PICK j \in 1 .. Len(b) : x = b[j]
    BY <2>1, InRange
  <2>3. Len(b) \in Nat
    BY InRange
  <2>4. QED
    BY <1>1, <2>1, <2>2, <2>3 DEF Ordered
<1>3. Packet(b, q.pid) = {q}
  BY <1>2 DEF Packet
<1>4. QED
  BY <1>3 DEF The

LEMMA NoPacket ==
  ASSUME NEW b, NEW pid
  PROVE  Packet(b, pid) = {} <=> \A q \in Range(b) : q.pid # pid
  BY DEF Packet

(* packet_bucket_periodic_refresh removes all that is too old.             *)
LEMMA RefreshBucket ==
  ASSUME NEW b \in Seq(PacketRecs), Ordered(b), NEW t \in Nat
  PROVE  /\ Refresh(b, t) \in Seq(PacketRecs)
         /\ Ordered(Refresh(b, t))
         /\ Range(Refresh(b, t)) = {q \in Range(b) : ~Old(q, t)}
<1> DEFINE young == {k \in DOMAIN b : ~Old(b[k], t)}
<1>1. Len(b) \in Nat /\ DOMAIN b = 1 .. Len(b) /\ \A i \in 1 .. Len(b) : b[i] \in PacketRecs
  BY InRange
<1>2. \A i \in 1 .. Len(b) : b[i].born \in Nat
  BY <1>1, PacketTypes
<1>3. CASE young = {}
  <2>1. Refresh(b, t) = << >>
    BY <1>3 DEF Refresh
  <2>2. << >> \in Seq(PacketRecs) /\ Len(<< >>) = 0 /\ Range(<< >>) = {}
    BY DEF Range
  <2>3. Ordered(<< >>)
    BY <2>2 DEF Ordered
  <2>4. {q \in Range(b) : ~Old(q, t)} = {}
    BY <1>1, <1>3, InRange
  <2>5. QED
    BY <2>1, <2>2, <2>3, <2>4
<1>4. CASE young # {}
  <2> DEFINE c == CHOOSE k \in young : \A l \in young : k <= l
             r == SubSeq(b, c, Len(b))
  <2>1. Refresh(b, t) = r
    BY <1>4 DEF Refresh
  <2>2. c \in young /\ \A l \in young : c <= l
    <3>1. young \in SUBSET Nat
      BY <1>1
    <3> HIDE DEF young
    <3>2. \E k \in young : \A l \in young : k <= l
      BY <1>4, <3>1, LeastElement
    <3>3. QED
      BY <3>2
  <2> HIDE DEF c
  <2>3. c \in 1 .. Len(b) /\ ~Old(b[c], t)
    BY <1>1, <2>2
  <2>4. /\ r \in Seq(PacketRecs) /\ Len(r) = Len(b) - c + 1
        /\ \A j \in 1 .. Len(b) - c + 1 : r[j] = b[c + j - 1]
    <3>1. \A i \in c .. Len(b) : b[i] \in PacketRecs
      BY <1>1, <2>3
    <3>2. c \in 1 .. Len(b) + 1 /\ Len(b) \in c - 1 .. Len(b)
      BY <1>1, <2>3
    <3>3. QED
      BY <1>1, <2>3, <3>1, <3>2, SubSeqProperties
  <2> HIDE DEF r
  <2>5. Ordered(r)
    <3> SUFFICES ASSUME NEW i \in 1 .. Len(r), NEW j \in 1 .. Len(r), i < j
                 PROVE  r[i].born <= r[j].born /\ r[i].pid # r[j].pid
      BY DEF Ordered
    <3>1. c + i - 1 \in 1 .. Len(b) /\ c + j - 1 \in 1 .. Len(b) /\ c + i - 1 < c + j - 1
      BY <1>1, <2>3, <2>4
    <3>2. QED
      BY <2>4, <3>1 DEF Ordered
  <2>6. \A i \in 1 .. Len(b) : ~Old(b[i], t) <=> i >= c
    <3> SUFFICES ASSUME NEW i \in 1 .. Len(b) PROVE ~Old(b[i], t) <=> i >= c
      OBVIOUS
    <3>1. ~Old(b[i], t) => c <= i
      BY <1>1, <2>2
    <3>2. ASSUME c < i PROVE ~Old(b[i], t)
      <4>1. b[c].born <= b[i].born
        BY <2>3, <3>2 DEF Ordered
      <4>2. PICK x \in Nat, y \in Nat : x = b[c].born /\ y = b[i].born
        BY <1>2, <2>3
      <4>3. ~(t - x >= max_pkt_age) /\ x <= y /\ max_pkt_age \in Nat
        BY <2>3, <4>1, <4>2, Constants DEF Old
      <4>4. ~(t - y >= max_pkt_age)
        BY <4>2, <4>3
      <4>5. QED
        BY <4>2, <4>4 DEF Old
    <3>3. QED
      BY <1>1, <2>3, <3>1, <3>2
  <2>7. \A x : x \in Range(r) <=> x \in Range(b) /\ ~Old(x, t)
    <3> TAKE x
    <3>1. ASSUME x \in Range(r) PROVE x \in Range(b) /\ ~Old(x, t)
      <4>1. PICK j \in 1 .. Len(r) : x = r[j]
        BY <2>4, <3>1, InRange
      <4>2. c + j - 1 \in 1 .. Len(b) /\ c + j - 1 >= c /\ x = b[c + j - 1]
        BY <1>1, <2>3, <2>4, <4>1
      <4>3. QED
        BY <2>6, <4>2, InRange
    <3>2. ASSUME x \in Range(b), ~Old(x, t) PROVE x \in Range(r)
      <4>1. PICK i \in 1 .. Len(b) : x = b[i]
        BY <3>2, InRange
      <4>2. i >= c
        BY <2>6, <3>2, <4>1
      <4>3. (i - c) + 1 \in 1 .. Len(r) /\ c + ((i - c) + 1) - 1 = i
        BY <1>1, <2>3, <2>4, <4>2
      <4>4. r[(i - c) + 1] = x
        BY <2>4, <4>1, <4>3
      <4>5. QED
        BY <2>4, <4>3, <4>4, InRange
    <3>3. QED
      BY <3>1, <3>2
  <2>8. Range(r) = {q \in Range(b) : ~Old(q, t)}
    BY <2>7
  <2>9. QED
    BY <2>1, <2>4, <2>5, <2>8
<1>5. QED
  BY <1>3, <1>4

(* packet_bucket_add_packet, packet_bucket_add_fragment: the newest packet *)
(* goes to the end.                                                        *)
LEMMA AppendBucket ==
  ASSUME NEW b \in Seq(PacketRecs), Ordered(b), NEW q \in PacketRecs,
         Packet(b, q.pid) = {}, \A x \in Range(b) : x.born <= q.born
  PROVE  /\ Append(b, q) \in Seq(PacketRecs)
         /\ Ordered(Append(b, q))
         /\ Range(Append(b, q)) = Range(b) \union {q}
<1> DEFINE r == Append(b, q)
<1>1. Len(b) \in Nat
  BY InRange
<1>2. /\ r \in Seq(PacketRecs) /\ Len(r) = Len(b) + 1 /\ r[Len(b) + 1] = q
      /\ \A i \in 1 .. Len(b) : r[i] = b[i]
  BY AppendProperties
<1> HIDE DEF r
<1>3. \A i \in 1 .. Len(r) : i = Len(b) + 1 \/ i \in 1 .. Len(b)
  BY <1>1, <1>2
<1>4. \A i \in 1 .. Len(b) : b[i] \in Range(b) /\ b[i].pid # q.pid /\ b[i].born <= q.born
  <2>1. \A i \in 1 .. Len(b) : b[i] \in Range(b)
    BY InRange
  <2>2. QED
    BY <2>1, NoPacket
<1>5. Ordered(r)
  <2> SUFFICES ASSUME NEW i \in 1 .. Len(r), NEW j \in 1 .. Len(r), i < j
               PROVE  r[i].born <= r[j].born /\ r[i].pid # r[j].pid
    BY DEF Ordered
  <2>1. i \in 1 .. Len(b) /\ r[i] = b[i]
    BY <1>1, <1>2
  <2>2. CASE j = Len(b) + 1
    BY <1>2, <1>4, <2>1, <2>2
  <2>3. CASE j \in 1 .. Len(b)
    BY <1>2, <2>1, <2>3 DEF Ordered
  <2>4. QED
    BY <1>3, <2>2, <2>3
<1>6. \A x : x \in Range(r) <=> x \in Range(b) \union {q}
  <2> TAKE x
  <2>1. x \in Range(r) => x \in Range(b) \union {q}
    BY <1>2, <1>3, <1>4, InRange
  <2>2. x \in Range(b) => x \in Range(r)
    <3> SUFFICES ASSUME x \in Range(b) PROVE x \in Range(r)
      OBVIOUS
    <3>1. PICK i \in 1 .. Len(b) : x = b[i]
      BY InRange
    <3>2. i \in 1 .. Len(r) /\ x = r[i]
      BY <1>1, <1>2, <3>1
    <3>3. QED
      BY <1>2, <3>2, InRange
  <2>3. q \in Range(r)
    <3>1. Len(b) + 1 \in 1 .. Len(r) /\ q = r[Len(b) + 1]
      BY <1>1, <1>2
    <3>2. QED
      BY <1>2, <3>1, InRange
  <2>4. QED
    BY <2>1, <2>2, <2>3
<1>7. Range(r) = Range(b) \union {q}
  BY <1>6
<1>8. QED
  BY <1>2, <1>5, <1>7 DEF r

(* packet_bucket_destroy_packet *)
LEMMA WithoutBucket ==
  ASSUME NEW b \in Seq(PacketRecs), Ordered(b), NEW pid
  PROVE  /\ Without(b, pid) \in Seq(PacketRecs)
         /\ Ordered(Without(b, pid))
         /\ Range(Without(b, pid)) = {q \in Range(b) : q.pid # pid}
<1> DEFINE K == {k \in DOMAIN b : b[k].pid # pid}
           r == Selected(b, K)
<1>1. Without(b, pid) = r
  BY DEF Without
<1>2. r \in Seq(PacketRecs) /\ \E f : Places(b, K, Len(b), r, f)
  <2> HIDE DEF K
  <2>1. QED
    BY SelectedPlaces
<1>3. PICK f : Places(b, K, Len(b), r, f)
  BY <1>2
<1> HIDE DEF r
<1>4. /\ \A j \in 1 .. Len(r) : f[j] \in 1 .. Len(b) /\ b[f[j]].pid # pid /\ r[j] = b[f[j]]
      /\ \A j, k \in 1 .. Len(r) : j < k => f[j] < f[k]
      /\ \A k \in 1 .. Len(b) : b[k].pid # pid => \E j \in 1 .. Len(r) : f[j] = k
  <2>1. DOMAIN b = 1 .. Len(b)
    BY InRange
  <2>2. QED
    BY <1>3, <2>1 DEF Places
<1>5. Ordered(r)
  BY <1>4 DEF Ordered
<1>6. \A x : x \in Range(r) <=> x \in Range(b) /\ x.pid # pid
  <2> TAKE x
  <2>1. ASSUME x \in Range(r) PROVE x \in Range(b) /\ x.pid # pid
    <3>1. PICK j \in 1 .. Len(r) : x = r[j]
      BY <1>2, <2>1, InRange
    <3>2. QED
      BY <1>4, <3>1, InRange
  <2>2. ASSUME x \in Range(b), x.pid # pid PROVE x \in Range(r)
    <3>1. PICK i \in 1 .. Len(b) : x = b[i]
      BY <2>2, InRange
    <3>2. PICK j \in 1 .. Len(r) : f[j] = i
      BY <1>4, <2>2, <3>1
    <3>3. x = r[j]
      BY <1>4, <3>1, <3>2
    <3>4. QED
      BY <1>2, <3>3, InRange
  <2>3. QED
    BY <2>1, <2>2
<1>7. Range(r) = {q \in Range(b) : q.pid # pid}
  BY <1>6
<1>8. QED
  BY <1>1, <1>2, <1>5, <1>7
(* fragmented_packet_write_fragment *)
Written(q, f) ==
  IF q.pid = f.pid /\ f.id \in FragIds(q) THEN [q EXCEPT !.frags[f.id] = f.data] ELSE q

LEMMA WrittenFacts ==
  ASSUME NEW q \in PacketRecs, NEW f, f.data \in Data
  PROVE  /\ Written(q, f) \in PacketRecs
         /\ Written(q, f).pid = q.pid /\ Written(q, f).born = q.born
         /\ FragIds(Written(q, f)) = FragIds(q)
         /\ \A id \in FragIds(q) :
              Written(q, f).frags[id] = IF q.pid = f.pid /\ id = f.id THEN f.data ELSE q.frags[id]
<1> DEFINE w == Written(q, f)
<1>1. PICK m \in Nat : FragIds(q) = 0 .. m - 1 /\ q.frags \in [0 .. m - 1 -> Data]
  BY PacketTypes
<1>2. q.pid \in Ids /\ q.born \in Nat /\ q = [pid |-> q.pid, born |-> q.born, frags |-> q.frags]
  BY PacketTypes
<1>3. CASE q.pid = f.pid /\ f.id \in FragIds(q)
  <2> DEFINE g == [q.frags EXCEPT ![f.id] = f.data]
  <2>1. w = [q EXCEPT !.frags = g]
    BY <1>3 DEF Written
  <2>2. g \in [0 .. m - 1 -> Data] /\ \A id \in 0 .. m - 1 : g[id] = IF id = f.id THEN f.data ELSE q.frags[id]
    BY <1>1, <1>3
  <2> HIDE DEF g
  <2>3. w = [pid |-> q.pid, born |-> q.born, frags |-> g]
    BY <1>2, <2>1
  <2> HIDE DEF w
  <2>4. g \in FragArrays
    BY <2>2 DEF FragArrays
  <2>5. w \in PacketRecs /\ w.pid = q.pid /\ w.born = q.born /\ w.frags = g
    BY <1>2, <2>3, <2>4 DEF PacketRecs
  <2>6. FragIds(w) = 0 .. m - 1
    BY <2>2, <2>5 DEF FragIds
  <2>7. QED
    BY <1>1, <1>3, <2>2, <2>5, <2>6 DEF w
<1>4. CASE ~(q.pid = f.pid /\ f.id \in FragIds(q))
  <2>1. w = q
    BY <1>4 DEF Written
  <2>2. QED
    BY <1>4, <2>1
<1>5. QED
  BY <1>3, <1>4

LEMMA WriteFragmentBucket ==
  ASSUME NEW b \in Seq(PacketRecs), Ordered(b), NEW f, f.data \in Data
  PROVE  /\ WriteFragment(b, f) \in Seq(PacketRecs)
         /\ Ordered(WriteFragment(b, f))
         /\ Range(WriteFragment(b, f)) = {Written(q, f) : q \in Range(b)}
<1> DEFINE r == WriteFragment(b, f)
<1>1. Len(b) \in Nat /\ DOMAIN b = 1 .. Len(b) /\ \A i \in 1 .. Len(b) : b[i] \in PacketRecs
  BY InRange
<1>2. r = [k \in 1 .. Len(b) |-> Written(b[k], f)]
  BY <1>1 DEF WriteFragment, Written
<1>3. \A k \in 1 .. Len(b) : /\ Written(b[k], f) \in PacketRecs
                              /\ Written(b[k], f).pid = b[k].pid /\ Written(b[k], f).born = b[k].born
  BY <1>1, WrittenFacts
<1>4. r \in Seq(PacketRecs) /\ Len(r) = Len(b) /\ \A k \in 1 .. Len(b) : r[k] = Written(b[k], f)
  <2>1. r \in [1 .. Len(b) -> PacketRecs]
    BY <1>2, <1>3
  <2> HIDE DEF r
  <2>2. r \in Seq(PacketRecs) /\ Len(r) = Len(b)
    BY <1>1, <2>1
  <2>3. QED
    BY <1>2, <2>2
<1> HIDE DEF r
<1>5. Ordered(r)
  BY <1>3, <1>4 DEF Ordered
<1>6. \A x : x \in Range(r) <=> \E q \in Range(b) : x = Written(q, f)
  <2> TAKE x
  <2>1. ASSUME x \in Range(r) PROVE \E q \in Range(b) : x = Written(q, f)
    <3>1. PICK k \in 1 .. Len(b) : x = Written(b[k], f)
      BY <1>4, <2>1, InRange
    <3>2. b[k] \in Range(b)
      BY InRange
    <3>3. QED
      BY <3>1, <3>2
  <2>2. ASSUME NEW q \in Range(b), x = Written(q, f) PROVE x \in Range(r)
    <3>1. PICK k \in 1 .. Len(b) : q = b[k]
      BY InRange
    <3>2. k \in 1 .. Len(r) /\ x = r[k]
      BY <1>4, <2>2, <3>1
    <3>3. QED
      BY <1>4, <3>2, InRange
  <2>3. QED
    BY <2>1, <2>2
<1>7. Range(r) = {Written(q, f) : q \in Range(b)}
  BY <1>6
<1>8. QED
  BY <1>4, <1>5, <1>7 DEF r
-----------------------------------------------------------------------------
(***************************************************************************)
(* Fragments of a message                                                  *)
(***************************************************************************)
LEMMA FragNumNat ==
  ASSUME NEW size \in Nat
  PROVE  FragNum(size) \in Nat
<1>1. size \div frag_size \in Nat
  BY Constants
<1>2. QED
  BY <1>1 DEF FragNum

LEMMA FragNumPositive ==
  ASSUME NEW size \in Nat \ {0}
  PROVE  FragNum(size) \in Nat \ {0}
<1>1. frag_size \in Nat \ {0} /\ size \div frag_size \in Nat
  BY Constants
<1>2. CASE size < frag_size
  <2>1. size % frag_size = size
    BY <1>1, <1>2
  <2>2. QED
    BY <1>1, <2>1 DEF FragNum
<1>3. CASE size >= frag_size
  <2>1. size \div frag_size >= 1
    BY <1>1, <1>3
  <2>2. QED
    BY <1>1, <2>1 DEF FragNum
<1>4. QED
  BY <1>1, <1>2, <1>3

LEMMA SizeFacts ==
  ASSUME NEW k \in 1 .. Len(Sizes)
  PROVE  Sizes[k] \in Nat \ {0} /\ FragNum(Sizes[k]) \in Nat \ {0}
<1>1. Sizes[k] \in Nat \ {0}
  BY Constants, ElementOfSeq
<1>2. QED
  BY <1>1, FragNumPositive

(* fragmented_packet_create: all its fragments are there.                  *)
LEMMA NewPacketFacts ==
  ASSUME NEW pid \in Ids, NEW k \in 1 .. Len(Sizes), NEW t \in Nat, NEW q,
         q = NewPacket(pid, <<k, Sizes[k]>>, t)
  PROVE  /\ q \in PacketRecs /\ q.pid = pid /\ q.born = t
         /\ FragIds(q) = 0 .. FragNum(Sizes[k]) - 1
         /\ Cardinality(FragIds(q)) = FragNum(Sizes[k])
         /\ \A id \in FragIds(q) : q.frags[id] = Piece(<<k, Sizes[k]>>, id)
<1> DEFINE m == FragNum(Sizes[k])
           g == [id \in 0 .. m - 1 |-> Piece(<<k, Sizes[k]>>, id)]
<1>1. m \in Nat \ {0} /\ Sizes[k] \in Nat
  BY SizeFacts
<1>2. q = [pid |-> pid, born |-> t, frags |-> g]
  BY DEF NewPacket, SizeOf
<1> HIDE DEF m
<1>3. \A id \in 0 .. m - 1 : Piece(<<k, Sizes[k]>>, id) \in Data
  <2>1. k \in Nat
    BY Constants
  <2>2. QED
    BY <1>1, <2>1 DEF Piece, Data
<1>4. g \in [0 .. m - 1 -> Data] /\ \A id \in 0 .. m - 1 : g[id] = Piece(<<k, Sizes[k]>>, id)
  BY <1>3
<1> HIDE DEF g
<1>5. g \in FragArrays
  BY <1>1, <1>4 DEF FragArrays
<1>6. q \in PacketRecs /\ q.pid = pid /\ q.born = t /\ q.frags = g
  BY <1>2, <1>5 DEF PacketRecs
<1>7. FragIds(q) = 0 .. m - 1
  BY <1>4, <1>6 DEF FragIds
<1>8. Cardinality(0 .. m - 1) = m
  BY <1>1, FS_Interval
<1>9. QED
  BY <1>4, <1>6, <1>7, <1>8 DEF m

(* fragmented_packet_empty: none of its fragments is there.                *)
LEMMA EmptyPacketFacts ==
  ASSUME NEW pid \in Ids, NEW m \in Nat, NEW t \in Nat, NEW q, q = EmptyPacket(pid, m, t)
  PROVE  /\ q \in PacketRecs /\ q.pid = pid /\ q.born = t
         /\ FragIds(q) = 0 .. m - 1
         /\ \A id \in FragIds(q) : q.frags[id] = NoData
<1> DEFINE g == [id \in 0 .. m - 1 |-> NoData]
<1>1. q = [pid |-> pid, born |-> t, frags |-> g]
  BY DEF EmptyPacket
<1>2. g \in [0 .. m - 1 -> Data] /\ \A id \in 0 .. m - 1 : g[id] = NoData
  BY DEF Data
<1> HIDE DEF g
<1>3. g \in FragArrays
  BY <1>2 DEF FragArrays
<1>4. q \in PacketRecs /\ q.pid = pid /\ q.born = t /\ q.frags = g
  BY <1>1, <1>3 DEF PacketRecs
<1>5. FragIds(q) = 0 .. m - 1
  BY <1>2, <1>4 DEF FragIds
<1>6. QED
  BY <1>2, <1>4, <1>5

(* A piece is data.                                                        *)
LEMMA PieceFacts ==
  /\ \A msg, id : Piece(msg, id) # NoData
  /\ \A k, l, x, y, i, j : Piece(<<k, x>>, i) = Piece(<<l, y>>, j) => k = l /\ i = j
<1>1. ASSUME NEW msg, NEW id PROVE Piece(msg, id) # NoData
  <2>1. <<msg, id>> # << >>
    OBVIOUS
  <2>2. QED
    BY <2>1 DEF Piece, NoData
<1>2. ASSUME NEW k, NEW l, NEW x, NEW y, NEW i, NEW j, Piece(<<k, x>>, i) = Piece(<<l, y>>, j)
      PROVE  k = l /\ i = j
  BY <1>2 DEF Piece
<1>3. QED
  BY <1>1, <1>2
-----------------------------------------------------------------------------
(***************************************************************************)
(* Packet ids                                                              *)
(***************************************************************************)
LEMMA DivMod ==
  ASSUME NEW x \in Nat, NEW m \in Nat \ {0}
  PROVE  x % m \in 0 .. m - 1 /\ \E q \in Nat : x = m * q + (x % m)
<1>1. x % m \in 0 .. m - 1
  OBVIOUS
<1>2. x = m * (x \div m) + (x % m)
  BY Z3
<1>3. x \div m \in Nat
  OBVIOUS
<1>4. QED
  BY <1>1, <1>2, <1>3, Zenon

LEMMA ModUnique ==
  ASSUME NEW m \in Nat \ {0}, NEW q \in Nat, NEW r \in 0 .. m - 1, NEW s \in Nat, s = m * q + r
  PROVE  s % m = r
  OBVIOUS

LEMMA ModAdd ==
  ASSUME NEW x \in Nat, NEW m \in Nat \ {0}, NEW c \in 0 .. m
  PROVE  (x + c) % m = IF (x % m) + c < m THEN (x % m) + c ELSE (x % m) + c - m
<1>1. PICK r \in 0 .. m - 1, q \in Nat : r = x % m /\ x = m * q + r
  BY DivMod
<1>2. CASE r + c < m
  <2>1. x + c = m * q + (r + c) /\ r + c \in 0 .. m - 1 /\ x + c \in Nat
    <3>1. PICK w \in Int : w = m * q
      OBVIOUS
    <3>2. QED
      BY <1>1, <1>2, <3>1
  <2>2. (x + c) % m = r + c
    <3>1. PICK s \in Nat, u \in 0 .. m - 1 : s = x + c /\ u = r + c
      BY <2>1
    <3>2. s = m * q + u
      BY <2>1, <3>1
    <3>3. s % m = u
      BY <3>2, ModUnique
    <3>4. QED
      BY <3>1, <3>3
  <2>3. QED
    BY <1>1, <1>2, <2>2
<1>3. CASE ~(r + c < m)
  <2>1. m * (q + 1) = m * q + m
    OBVIOUS
  <2>2. x + c = m * (q + 1) + (r + c - m) /\ r + c - m \in 0 .. m - 1 /\ x + c \in Nat /\ q + 1 \in Nat
    <3>1. PICK w \in Int : w = m * q
      OBVIOUS
    <3>2. x = w + r /\ m * (q + 1) = w + m
      BY <1>1, <2>1, <3>1
    <3>3. QED
      BY <1>1, <1>3, <3>2
  <2>3. (x + c) % m = r + c - m
    <3>1. PICK s \in Nat, u \in 0 .. m - 1, v \in Nat : s = x + c /\ u = r + c - m /\ v = q + 1
      BY <2>2
    <3>2. s = m * v + u
      BY <2>2, <3>1
    <3>3. s % m = u
      BY <3>2, ModUnique
    <3>4. QED
      BY <3>1, <3>3
  <2>4. QED
    BY <1>1, <1>3, <2>3
<1>4. QED
  BY <1>2, <1>3

(* The counter of ids goes on by one.                                      *)
LEMMA NextIdFacts ==
  ASSUME NEW x \in Nat
  PROVE  /\ NextId(x % PidMod) = (x + 1) % PidMod
         /\ x % PidMod \in Ids
         /\ \A id \in Ids : NextId(id) \in Ids /\ id % PidMod = id
<1>1. PidMod \in Nat \ {0}
  BY Constants
<1>2. PICK r \in 0 .. PidMod - 1 : r = x % PidMod
  BY <1>1, DivMod
<1>3. \A id \in 0 .. PidMod - 1 : id % PidMod = id
  BY <1>1
<1>4. (x + 1) % PidMod = IF r + 1 < PidMod THEN r + 1 ELSE r + 1 - PidMod
  <2>1. 1 \in 0 .. PidMod
    BY <1>1
  <2>2. (x + 1) % PidMod = IF (x % PidMod) + 1 < PidMod THEN (x % PidMod) + 1 ELSE (x % PidMod) + 1 - PidMod
    BY <1>1, <2>1, ModAdd, Zenon
  <2>3. QED
    BY <1>2, <2>2, Zenon
<1>5. (r + 1) % PidMod = IF r + 1 < PidMod THEN r + 1 ELSE r + 1 - PidMod
  <2>1. 1 \in 0 .. PidMod /\ r \in Nat
    BY <1>1
  <2>2. (r + 1) % PidMod = IF (r % PidMod) + 1 < PidMod THEN (r % PidMod) + 1 ELSE (r % PidMod) + 1 - PidMod
    BY <1>1, <2>1, ModAdd, Zenon
  <2>3. r % PidMod = r
    BY <1>3
  <2>4. QED
    BY <2>2, <2>3, Zenon
<1>6. \A id \in 0 .. PidMod - 1 : (id + 1) % PidMod \in 0 .. PidMod - 1
  BY <1>1, DivMod
<1>7. QED
  BY <1>2, <1>3, <1>4, <1>5, <1>6 DEF NextId, Ids

(* An id comes round again after PidMod others.                            *)
LEMMA IdsComeRound ==
  ASSUME NEW x \in Nat, NEW c \in Nat, (x + c) % PidMod = x % PidMod, c < PidMod
  PROVE  c = 0
<1>1. PidMod \in Nat \ {0} /\ c \in 0 .. PidMod
  BY Constants
<1>2. PICK r \in 0 .. PidMod - 1 : r = x % PidMod
  BY <1>1, DivMod
<1>3. (x + c) % PidMod = IF r + c < PidMod THEN r + c ELSE r + c - PidMod
  BY <1>1, <1>2, ModAdd
<1>4. QED
  BY <1>1, <1>2, <1>3
-----------------------------------------------------------------------------
(***************************************************************************)
(* The rate: no id comes round within max_pkt_age + QueueDelay + NetDelay  *)
(***************************************************************************)
SentWithin(n, p, t, m) ==
  {k \in 1 .. Len(sent) : sent[k].from = n /\ sent[k].to = p /\ t <= sent[k].at /\ sent[k].at < t + m}

LEMMA RateTimes ==
  \A x \in Nat : Rate * x \in Nat /\ Rate * (x + 1) = Rate * x + Rate
<1>1. Rate \in Nat
  BY Constants
<1>2. QED
  BY <1>1

LEMMA SentTypes ==
  ASSUME TypeInv
  PROVE  /\ Len(sent) \in Nat /\ now \in Nat
         /\ \A k \in 1 .. Len(sent) : /\ sent[k].at \in Nat /\ sent[k].from \in Nodes
                                      /\ sent[k].to \in Nodes
<1>1. sent \in Seq(SentRecs) /\ now \in Nat
  BY DEF TypeInv
<1>2. Len(sent) \in Nat /\ \A k \in 1 .. Len(sent) : sent[k] \in SentRecs
  BY <1>1, InRange
<1>3. QED
  BY <1>1, <1>2 DEF SentRecs

LEMMA RateWindow ==
  ASSUME TypeInv, LogInv, NEW n \in Nodes, NEW p \in Nodes, NEW t \in Nat, NEW m \in Nat
  PROVE  /\ IsFiniteSet(SentWithin(n, p, t, m))
         /\ Cardinality(SentWithin(n, p, t, m)) <= Rate * m
<1> DEFINE W(i) == SentWithin(n, p, t, i)
           T == {i \in 0 .. m : IsFiniteSet(W(i)) /\ Cardinality(W(i)) <= Rate * i}
<1>1. Len(sent) \in Nat /\ now \in Nat /\ \A k \in 1 .. Len(sent) : sent[k].at \in Nat
  BY SentTypes
<1>2. 0 \in T
  <2>1. W(0) = {}
    BY <1>1 DEF SentWithin
  <2>2. Rate * 0 = 0
    BY Constants
  <2>3. IsFiniteSet(W(0)) /\ Cardinality(W(0)) <= Rate * 0
    <3>1. IsFiniteSet({}) /\ Cardinality({}) = 0
      BY FS_EmptySet
    <3> HIDE DEF W
    <3>2. QED
      BY <2>1, <2>2, <3>1
  <2> HIDE DEF W
  <2>4. QED
    BY <2>3
<1>3. ASSUME NEW i \in 0 .. m - 1, i \in T PROVE i + 1 \in T
  <2> DEFINE A == SentAt(n, p, t + i)
  <2>1. W(i + 1) = W(i) \union A
    <3>1. \A k \in 1 .. Len(sent) :
            (t <= sent[k].at /\ sent[k].at < t + (i + 1))
              <=> (t <= sent[k].at /\ sent[k].at < t + i) \/ sent[k].at = t + i
      <4> TAKE k \in 1 .. Len(sent)
      <4>1. PICK a \in Nat : a = sent[k].at
        BY <1>1
      <4>2. (t <= a /\ a < t + (i + 1)) <=> (t <= a /\ a < t + i) \/ a = t + i
        BY ONLY a \in Nat, t \in Nat, i \in 0 .. m - 1, m \in Nat
      <4>3. QED
        BY <4>1, <4>2
    <3>2. QED
      BY <3>1 DEF SentWithin, SentAt
  <2>2. IsFiniteSet(A) /\ Cardinality(A) \in Nat /\ Cardinality(A) <= Rate
    <3>1. IsFiniteSet(1 .. Len(sent)) /\ A \in SUBSET (1 .. Len(sent))
      BY <1>1, FS_Interval DEF SentAt
    <3>2. IsFiniteSet(A) /\ Cardinality(A) \in Nat
      <4> HIDE DEF A
      <4>1. QED
        BY <3>1, FS_Subset, FS_CardinalityType
    <3>3. CASE t + i \in 0 .. now
      BY <3>2, <3>3 DEF LogInv
    <3>4. CASE t + i \notin 0 .. now
      <4>1. t + i > now
        BY <1>1, <3>4
      <4>2. A = {}
        BY <1>1, <4>1 DEF SentAt, LogInv
      <4>3. QED
        BY <3>2, <4>2, FS_EmptySet, Constants
    <3>5. QED
      BY <3>2, <3>3, <3>4
  <2>3. IsFiniteSet(W(i)) /\ Cardinality(W(i)) <= Rate * i
    BY <1>3
  <2> HIDE DEF A, W
  <2>4. /\ IsFiniteSet(W(i) \union A)
        /\ Cardinality(W(i) \union A) = Cardinality(W(i)) + Cardinality(A) - Cardinality(W(i) \cap A)
        /\ Cardinality(W(i)) \in Nat /\ Cardinality(W(i) \cap A) \in Nat
    <3>1. IsFiniteSet(W(i) \cap A)
      BY <2>3, FS_Intersection
    <3>2. QED
      BY <2>2, <2>3, <3>1, FS_Union, FS_CardinalityType
  <2>5. Cardinality(W(i) \union A) <= Rate * (i + 1)
    <3>1. PICK x \in Nat, y \in Nat, z \in Nat, u \in Nat :
            /\ x = Cardinality(W(i)) /\ y = Cardinality(A) /\ z = Cardinality(W(i) \cap A)
            /\ u = Rate * i
      BY <2>2, <2>4, RateTimes
    <3>2. Rate * (i + 1) = u + Rate /\ Rate \in Nat
      BY <3>1, RateTimes, Constants
    <3>3. x <= u /\ y <= Rate
      BY <2>2, <2>3, <3>1
    <3>4. x + y - z <= u + Rate
      BY <3>1, <3>2, <3>3
    <3>5. QED
      BY <2>4, <3>1, <3>2, <3>4
  <2>6. IsFiniteSet(W(i + 1)) /\ Cardinality(W(i + 1)) <= Rate * (i + 1)
    BY <2>1, <2>4, <2>5, Zenon
  <2>7. i + 1 \in 0 .. m
    OBVIOUS
  <2>8. QED
    BY <2>6, <2>7, Zenon
<1> HIDE DEF T
<1>4. \A i \in 0 .. m : i \in T
  BY <1>2, <1>3, InductionUpTo
<1>5. QED
  BY <1>4 DEF T

LEMMA RateMonotone ==
  ASSUME NEW x \in Nat, NEW y \in Nat, x <= y
  PROVE  Rate * x <= Rate * y
<1>1. Rate \in Nat
  BY Constants
<1>2. PICK d \in Nat : y = x + d
  <2>1. y - x \in Nat /\ y = x + (y - x)
    OBVIOUS
  <2>2. QED
    BY <2>1
<1>3. Rate * (x + d) = Rate * x + Rate * d /\ Rate * d \in Nat /\ Rate * x \in Nat
  BY <1>1
<1>4. PICK u \in Nat, v \in Nat : u = Rate * x /\ v = Rate * d
  BY <1>3
<1>5. Rate * y = u + v
  BY <1>2, <1>3, <1>4
<1>6. QED
  BY <1>4, <1>5

LEMMA FromFacts ==
  ASSUME TypeInv, NEW n, NEW p, NEW k \in Nat
  PROVE  IsFiniteSet(From(n, p, k)) /\ Since(n, p, k) \in Nat
<1>1. k \in Int /\ Len(sent) \in Int
  BY SentTypes
<1>2. IsFiniteSet(k .. Len(sent))
  BY <1>1, FS_Interval
<1>3. From(n, p, k) \in SUBSET (k .. Len(sent))
  BY DEF From
<1>4. QED
  BY <1>2, <1>3, FS_Subset, FS_CardinalityType DEF Since

LEMMA EndpointTypes ==
  ASSUME TypeInv, NEW n \in Nodes, NEW p \in Others(n)
  PROVE  /\ ep[n][p] \in EndpointRecs
         /\ ep[n][p].out_id \in Ids
         /\ ep[n][p].outgoing \in Seq(PacketRecs)
         /\ ep[n][p].incoming \in Seq(PacketRecs)
<1>1. ep[n][p] \in EndpointRecs
  BY DEF TypeInv
<1>2. QED
  BY <1>1 DEF EndpointRecs

(* Two messages of one id that are not far apart are the same.             *)
LEMMA SameMessageUpTo ==
  ASSUME TypeInv, LogInv, NEW n \in Nodes, NEW p \in Nodes, NEW j, NEW k, NEW pid \in Ids,
         Went(n, p, j), Went(n, p, k), Stamped(n, p, j, pid), Stamped(n, p, k, pid), j <= k,
         sent[k].at < sent[j].at + max_pkt_age + QueueDelay + NetDelay
  PROVE  j = k
<1>1. /\ Len(sent) \in Nat /\ j \in 1 .. Len(sent) /\ k \in 1 .. Len(sent)
      /\ \A i \in 1 .. Len(sent) : sent[i].at \in Nat
  BY SentTypes DEF Went
<1> DEFINE C == {i \in j .. k - 1 : sent[i].from = n /\ sent[i].to = p}
<1>2. From(n, p, j) = C \union From(n, p, k) /\ C \cap From(n, p, k) = {}
  <2>1. \A i : i \in j .. Len(sent) <=> i \in j .. k - 1 \/ i \in k .. Len(sent)
    BY <1>1
  <2>2. \A i : ~(i \in j .. k - 1 /\ i \in k .. Len(sent))
    BY <1>1
  <2>3. QED
    BY <2>1, <2>2 DEF From
<1>3. IsFiniteSet(C) /\ Cardinality(C) \in Nat
  <2>0. j \in Int /\ k - 1 \in Int /\ C \in SUBSET (j .. k - 1)
    BY <1>1
  <2>1. IsFiniteSet(j .. k - 1) /\ C \in SUBSET (j .. k - 1)
    BY <2>0, FS_Interval
  <2> HIDE DEF C
  <2>2. QED
    BY <2>1, FS_Subset, FS_CardinalityType
<1>4. IsFiniteSet(From(n, p, k)) /\ Since(n, p, k) \in Nat
  BY <1>1, FromFacts
<1>5. Since(n, p, j) = Cardinality(C) + Since(n, p, k)
  <2>1. Cardinality(C \cap From(n, p, k)) = 0
    BY <1>2, FS_EmptySet
  <2> HIDE DEF C
  <2>2. Cardinality(C \union From(n, p, k))
          = Cardinality(C) + Cardinality(From(n, p, k)) - Cardinality(C \cap From(n, p, k))
    BY <1>3, <1>4, FS_Union
  <2>3. QED
    BY <1>2, <1>3, <1>4, <2>1, <2>2 DEF Since
<1>6. Cardinality(C) < PidMod
  <2>1. PICK u \in Nat, v \in Nat : u = sent[j].at /\ v = sent[k].at
    BY <1>1
  <2>2. u <= v /\ v - u + 1 \in Nat /\ v - u + 1 <= max_pkt_age + QueueDelay + NetDelay
    <3>1. u <= v
      BY <1>1, <2>1 DEF LogInv
    <3>2. v < u + max_pkt_age + QueueDelay + NetDelay
      BY <2>1
    <3>3. QED
      BY <3>1, <3>2, Constants
  <2>3. k \notin C /\ C \union {k} \subseteq SentWithin(n, p, u, v - u + 1)
    <3>1. ASSUME NEW i \in j .. k, sent[i].from = n, sent[i].to = p
          PROVE  i \in SentWithin(n, p, u, v - u + 1)
      <4>1. i \in 1 .. Len(sent) /\ j <= i /\ i <= k
        BY <1>1
      <4>2. PICK w \in Nat : w = sent[i].at
        BY <1>1, <4>1
      <4>3. u <= w /\ w <= v
        BY <1>1, <2>1, <4>1, <4>2 DEF LogInv
      <4>4. w < u + (v - u + 1)
        BY <4>3
      <4>5. QED
        BY <3>1, <4>1, <4>2, <4>3, <4>4 DEF SentWithin
    <3>2. k \in j .. k /\ sent[k].from = n /\ sent[k].to = p /\ k \notin C
      BY <1>1 DEF Went
    <3>3. \A i \in C : i \in j .. k
      BY <1>1
    <3>4. QED
      BY <3>1, <3>2, <3>3
  <2>4. Cardinality(C \union {k}) = Cardinality(C) + 1
    <3> HIDE DEF C
    <3>1. QED
      BY <1>3, <2>3, FS_AddElement
  <2>5. /\ IsFiniteSet(SentWithin(n, p, u, v - u + 1))
        /\ Cardinality(SentWithin(n, p, u, v - u + 1)) <= Rate * (v - u + 1)
    BY <2>2, RateWindow
  <2>6. /\ Cardinality(C \union {k}) <= Cardinality(SentWithin(n, p, u, v - u + 1))
        /\ Cardinality(SentWithin(n, p, u, v - u + 1)) \in Nat
    <3> HIDE DEF C
    <3>1. QED
      BY <2>3, <2>5, FS_Subset, FS_CardinalityType
  <2>7. PICK s \in Nat : s = max_pkt_age + QueueDelay + NetDelay
    BY Constants
  <2>8. Rate * (v - u + 1) <= Rate * s
    BY <2>2, <2>7, RateMonotone
  <2>9. PICK x \in Nat, y \in Nat, z \in Nat, w \in Nat :
          /\ x = Rate * (v - u + 1) /\ y = Rate * s /\ z = Cardinality(C)
          /\ w = Cardinality(SentWithin(n, p, u, v - u + 1))
    <3>1. Rate * (v - u + 1) \in Nat /\ Rate * s \in Nat
      BY <2>2, RateTimes
    <3>2. QED
      BY <1>3, <2>6, <3>1
  <2>10. z + 1 <= w /\ w <= x /\ x <= y /\ y <= PidMod /\ PidMod \in Nat
    <3>1. y <= PidMod /\ PidMod \in Nat
      BY <2>7, <2>9, Constants
    <3>2. QED
      BY <2>4, <2>5, <2>6, <2>8, <2>9, <3>1
  <2>11. z < PidMod
    BY <2>10
  <2>12. QED
    BY <2>9, <2>11
<1>7. Cardinality(C) = 0
  <2>1. PICK c \in Nat, s \in Nat : c = Cardinality(C) /\ s = Since(n, p, k)
    BY <1>3, <1>4
  <2>2. pid \in Nat
    BY Constants DEF Ids
  <2>3. PICK x \in Nat : x = pid + s
    BY <2>2
  <2>4. pid + Since(n, p, j) = x + c
    BY <1>5, <2>1, <2>2, <2>3
  <2>5. (x + c) % PidMod = x % PidMod
    BY <2>1, <2>3, <2>4 DEF Stamped
  <2>6. c < PidMod
    BY <1>6, <2>1
  <2>7. c = 0
    BY <2>5, <2>6, IdsComeRound
  <2>8. QED
    BY <2>1, <2>7
<1>8. C = {}
  <2> HIDE DEF C
  <2>1. QED
    BY <1>3, <1>7, FS_EmptySet
<1>9. ASSUME j < k PROVE FALSE
  <2>1. j \in C
    BY <1>1, <1>9 DEF Went
  <2>2. QED
    BY <1>8, <2>1
<1>10. QED
  BY <1>1, <1>9

LEMMA SameMessage ==
  ASSUME TypeInv, LogInv, NEW n \in Nodes, NEW p \in Nodes, NEW j, NEW k, NEW pid \in Ids,
         Went(n, p, j), Went(n, p, k), Stamped(n, p, j, pid), Stamped(n, p, k, pid),
         sent[k].at < sent[j].at + max_pkt_age + QueueDelay + NetDelay,
         sent[j].at < sent[k].at + max_pkt_age + QueueDelay + NetDelay
  PROVE  j = k
<1>1. j \in Nat /\ k \in Nat
  BY SentTypes DEF Went
<1>2. CASE j <= k
  BY <1>2, SameMessageUpTo
<1>3. CASE k <= j
  BY <1>3, SameMessageUpTo
<1>4. QED
  BY <1>1, <1>2, <1>3

(* The next id is none of a packet that is still kept.                     *)
LEMMA FreshId ==
  ASSUME TypeInv, LogInv, NEW n \in Nodes, NEW p \in Others(n), NEW k,
         Went(n, p, k), Stamped(n, p, k, ep[n][p].out_id),
         now < sent[k].at + max_pkt_age, SentNow(n, p) < Rate
  PROVE  FALSE
<1>1. /\ Len(sent) \in Nat /\ k \in 1 .. Len(sent) /\ now \in Nat /\ p \in Nodes
      /\ \A i \in 1 .. Len(sent) : sent[i].at \in Nat
  BY SentTypes DEF Went, Others
<1>2. PICK u \in Nat : u = sent[k].at
  BY <1>1
<1>3. u <= now /\ now - u \in Nat /\ now - u + 1 <= max_pkt_age
  <2>1. u <= now
    BY <1>1, <1>2 DEF LogInv
  <2>2. now < u + max_pkt_age /\ max_pkt_age \in Nat
    BY <1>2, Constants
  <2>3. QED
    BY <1>1, <2>1, <2>2
<1> DEFINE W == SentWithin(n, p, u, now - u)
           A == SentAt(n, p, now)
           F == From(n, p, k)
<1>4. F \subseteq W \union A
  <2> SUFFICES ASSUME NEW i \in F PROVE i \in W \union A
    OBVIOUS
  <2>1. i \in 1 .. Len(sent) /\ k <= i /\ sent[i].from = n /\ sent[i].to = p
    BY <1>1 DEF From
  <2>2. PICK w \in Nat : w = sent[i].at
    BY <1>1, <2>1
  <2>3. u <= w /\ w <= now
    BY <1>1, <1>2, <2>1, <2>2 DEF LogInv
  <2>4. w = now \/ w < u + (now - u)
    BY <1>1, <2>3
  <2>5. QED
    BY <2>1, <2>2, <2>3, <2>4 DEF SentWithin, SentAt
<1>5. IsFiniteSet(W) /\ Cardinality(W) <= Rate * (now - u) /\ Cardinality(W) \in Nat
  <2>1. IsFiniteSet(W) /\ Cardinality(W) <= Rate * (now - u)
    BY <1>1, <1>3, RateWindow
  <2>2. QED
    BY <2>1, FS_CardinalityType
<1>6. IsFiniteSet(A) /\ Cardinality(A) \in Nat /\ Cardinality(A) < Rate
  <2>0. 1 \in Int /\ Len(sent) \in Int /\ A \in SUBSET (1 .. Len(sent))
    BY <1>1 DEF SentAt
  <2>1. IsFiniteSet(1 .. Len(sent)) /\ A \in SUBSET (1 .. Len(sent))
    BY <2>0, FS_Interval
  <2>2. DOMAIN sent = 1 .. Len(sent)
    BY InRange DEF TypeInv
  <2>3. Cardinality(A) < Rate
    BY <2>2 DEF SentNow, SentAt
  <2> HIDE DEF A
  <2>4. QED
    BY <2>1, <2>3, FS_Subset, FS_CardinalityType
<1>7. IsFiniteSet(F) /\ Since(n, p, k) \in Nat
  BY <1>1, FromFacts
<1> HIDE DEF W, A
<1>8. Cardinality(F) <= Cardinality(W) + Cardinality(A)
  <2>1. IsFiniteSet(W \cap A)
    BY <1>5, FS_Intersection
  <2>2. Cardinality(W \cap A) \in Nat
    BY <2>1, FS_CardinalityType
  <2>3. /\ IsFiniteSet(W \union A)
        /\ Cardinality(W \union A) = Cardinality(W) + Cardinality(A) - Cardinality(W \cap A)
    BY <1>5, <1>6, FS_Union
  <2> HIDE DEF F
  <2>4. Cardinality(F) <= Cardinality(W \union A) /\ Cardinality(F) \in Nat
    BY <1>4, <1>7, <2>3, FS_Subset, FS_CardinalityType
  <2>5. PICK f \in Nat, x \in Nat, y \in Nat, z \in Nat :
          f = Cardinality(F) /\ x = Cardinality(W) /\ y = Cardinality(A) /\ z = Cardinality(W \cap A)
    BY <1>5, <1>6, <2>2, <2>4
  <2>6. f <= x + y - z
    BY <2>3, <2>4, <2>5
  <2>7. f <= x + y
    BY <2>6
  <2>8. QED
    BY <2>5, <2>7
<1>9. Since(n, p, k) < PidMod
  <2>1. PICK f \in Nat, x \in Nat, y \in Nat, a \in Nat :
          /\ f = Since(n, p, k) /\ x = Cardinality(W) /\ y = Cardinality(A)
          /\ a = Rate * (now - u)
    BY <1>3, <1>5, <1>6, <1>7, RateTimes
  <2>2. f <= x + y /\ x <= a /\ y < Rate
    BY <1>5, <1>6, <1>8, <2>1 DEF Since
  <2>3. Rate * ((now - u) + 1) = a + Rate
    BY <1>3, <2>1, RateTimes
  <2>4. PICK s \in Nat : s = max_pkt_age + QueueDelay + NetDelay /\ (now - u) + 1 <= s
    BY <1>3, Constants
  <2>5. Rate * ((now - u) + 1) <= Rate * s
    BY <1>3, <2>4, RateMonotone
  <2>6. PICK b \in Nat : b = Rate * s
    BY <2>4, RateTimes
  <2>7. a + Rate <= b /\ b <= PidMod /\ PidMod \in Nat /\ Rate \in Nat
    <3>1. b <= PidMod /\ PidMod \in Nat /\ Rate \in Nat
      BY <2>4, <2>6, Constants
    <3>2. QED
      BY <2>3, <2>5, <2>6, <3>1
  <2>8. f < PidMod
    BY <2>2, <2>7
  <2>9. QED
    BY <2>1, <2>8
<1>10. Since(n, p, k) = 0
  <2>1. PICK c \in Nat, x \in Nat : c = Since(n, p, k) /\ x = ep[n][p].out_id /\ x \in Ids
    <3>1. ep[n][p].out_id \in Ids /\ Ids \subseteq Nat
      BY EndpointTypes, Constants DEF Ids
    <3>2. QED
      BY <1>7, <3>1
  <2>2. x % PidMod = x
    BY <2>1, NextIdFacts
  <2>3. (x + c) % PidMod = x % PidMod
    BY <2>1, <2>2 DEF Stamped
  <2>4. c = 0
    BY <1>9, <2>1, <2>3, IdsComeRound
  <2>5. QED
    BY <2>1, <2>4
<1>11. k \in F
  BY <1>1 DEF From, Went
<1>12. QED
  <2>1. Cardinality(F) = 0
    BY <1>10 DEF Since
  <2> HIDE DEF F
  <2>2. F = {}
    BY <1>7, <2>1, FS_EmptySet
  <2>3. QED
    BY <1>11, <2>2
-----------------------------------------------------------------------------
(***************************************************************************)
(* The queue: what the operations make of the set of its elements          *)
(***************************************************************************)
Stays(e, p, kept) == e.type = "fragment" /\ e.to = p => Packet(kept, e.pid) # {}

(* fragment_deinit *)
LEMMA UnlinkQueue ==
  ASSUME NEW S, NEW queue \in Seq(S), Once(queue), NEW p, NEW kept
  PROVE  /\ Unlink(queue, p, kept) \in Seq(S)
         /\ Once(Unlink(queue, p, kept))
         /\ Range(Unlink(queue, p, kept)) = {e \in Range(queue) : Stays(e, p, kept)}
<1> DEFINE K == {k \in DOMAIN queue : Stays(queue[k], p, kept)}
           r == Selected(queue, K)
<1>1. Unlink(queue, p, kept) = r
  BY DEF Unlink, Stays
<1>2. r \in Seq(S) /\ \E f : Places(queue, K, Len(queue), r, f)
  <2> HIDE DEF K
  <2>1. QED
    BY SelectedPlaces
<1>3. PICK f : Places(queue, K, Len(queue), r, f)
  BY <1>2
<1> HIDE DEF r
<1>4. /\ Len(r) \in Nat
      /\ \A j \in 1 .. Len(r) : f[j] \in 1 .. Len(queue) /\ Stays(queue[f[j]], p, kept) /\ r[j] = queue[f[j]]
      /\ \A j, k \in 1 .. Len(r) : j < k => f[j] < f[k]
      /\ \A k \in 1 .. Len(queue) : Stays(queue[k], p, kept) => \E j \in 1 .. Len(r) : f[j] = k
  <2>1. DOMAIN queue = 1 .. Len(queue) /\ Len(r) \in Nat
    BY <1>2, InRange
  <2>2. QED
    BY <1>3, <2>1 DEF Places
<1>5. Once(r)
  <2> SUFFICES ASSUME NEW k \in 1 .. Len(r), NEW l \in 1 .. Len(r), k # l,
                      r[k].type = "fragment", r[l].type = "fragment"
               PROVE  r[k] # r[l]
    BY DEF Once
  <2>1. Len(queue) \in Nat /\ f[k] \in Nat /\ f[l] \in Nat
    BY <1>4, InRange
  <2>2. f[k] # f[l]
    BY <1>4, <2>1
  <2>3. QED
    BY <1>4, <2>2 DEF Once
<1>6. \A x : x \in Range(r) <=> x \in Range(queue) /\ Stays(x, p, kept)
  <2> TAKE x
  <2>1. ASSUME x \in Range(r) PROVE x \in Range(queue) /\ Stays(x, p, kept)
    <3>1. PICK j \in 1 .. Len(r) : x = r[j]
      BY <1>2, <2>1, InRange
    <3>2. QED
      BY <1>4, <3>1, InRange
  <2>2. ASSUME x \in Range(queue), Stays(x, p, kept) PROVE x \in Range(r)
    <3>1. PICK i \in 1 .. Len(queue) : x = queue[i]
      BY <2>2, InRange
    <3>2. PICK j \in 1 .. Len(r) : f[j] = i
      BY <1>4, <2>2, <3>1
    <3>3. x = r[j]
      BY <1>4, <3>1, <3>2
    <3>4. QED
      BY <1>2, <3>3, InRange
  <2>3. QED
    BY <2>1, <2>2
<1>7. Range(r) = {e \in Range(queue) : Stays(e, p, kept)}
  BY <1>6
<1>8. QED
  BY <1>1, <1>2, <1>5, <1>7

(* list_splice *)
LEMMA SpliceQueue ==
  ASSUME NEW S, NEW new \in Seq(S), NEW queue \in Seq(S), Once(new), Once(queue),
         \A x \in Range(new) : x.type = "fragment" => x \notin Range(queue)
  PROVE  /\ Splice(new, queue) \in Seq(S)
         /\ Once(Splice(new, queue))
         /\ Range(Splice(new, queue)) = Range(new) \union Range(queue)
<1> DEFINE r == Splice(new, queue)
<1>1. Len(new) \in Nat /\ Len(queue) \in Nat
  BY InRange
<1>2. /\ r \in Seq(S) /\ Len(r) = Len(new) + Len(queue)
      /\ \A i \in 1 .. Len(new) + Len(queue) :
           r[i] = IF i <= Len(new) THEN new[i] ELSE queue[i - Len(new)]
  BY ConcatProperties DEF Splice
<1> HIDE DEF r
<1>3. \A i \in 1 .. Len(r) : \/ i \in 1 .. Len(new) /\ r[i] = new[i] /\ new[i] \in Range(new)
                             \/ /\ i - Len(new) \in 1 .. Len(queue) /\ r[i] = queue[i - Len(new)]
                                /\ queue[i - Len(new)] \in Range(queue)
  <2> SUFFICES ASSUME NEW i \in 1 .. Len(r)
               PROVE  \/ i \in 1 .. Len(new) /\ r[i] = new[i] /\ new[i] \in Range(new)
                      \/ /\ i - Len(new) \in 1 .. Len(queue) /\ r[i] = queue[i - Len(new)]
                         /\ queue[i - Len(new)] \in Range(queue)
    OBVIOUS
  <2>1. CASE i <= Len(new)
    <3>1. i \in 1 .. Len(new) /\ r[i] = new[i]
      BY <1>1, <1>2, <2>1
    <3>2. QED
      BY <3>1, InRange
  <2>2. CASE ~(i <= Len(new))
    <3>1. i - Len(new) \in 1 .. Len(queue) /\ r[i] = queue[i - Len(new)]
      BY <1>1, <1>2, <2>2
    <3>2. QED
      BY <3>1, InRange
  <2>3. QED
    BY <2>1, <2>2
<1>4. Once(r)
  <2> SUFFICES ASSUME NEW k \in 1 .. Len(r), NEW l \in 1 .. Len(r), k # l,
                      r[k].type = "fragment", r[l].type = "fragment", r[k] = r[l]
               PROVE  FALSE
    BY DEF Once
  <2>1. CASE k \in 1 .. Len(new) /\ r[k] = new[k] /\ new[k] \in Range(new)
    <3>1. CASE l \in 1 .. Len(new) /\ r[l] = new[l]
      BY <2>1, <3>1 DEF Once
    <3>2. CASE r[l] \in Range(queue)
      BY <2>1, <3>2
    <3>3. QED
      BY <1>3, <3>1, <3>2
  <2>2. CASE k - Len(new) \in 1 .. Len(queue) /\ r[k] = queue[k - Len(new)] /\ r[k] \in Range(queue)
    <3>1. CASE l \in 1 .. Len(new) /\ r[l] = new[l] /\ new[l] \in Range(new)
      BY <2>2, <3>1
    <3>2. CASE l - Len(new) \in 1 .. Len(queue) /\ r[l] = queue[l - Len(new)]
      <4>1. k - Len(new) # l - Len(new)
        BY <1>1
      <4>2. QED
        BY <2>2, <3>2, <4>1 DEF Once
    <3>3. QED
      BY <1>3, <3>1, <3>2
  <2>3. QED
    BY <1>3, <2>1, <2>2
<1>5. \A x : x \in Range(r) <=> x \in Range(new) \union Range(queue)
  <2> TAKE x
  <2>1. ASSUME x \in Range(r) PROVE x \in Range(new) \union Range(queue)
    <3>1. PICK i \in 1 .. Len(r) : x = r[i]
      BY <1>2, <2>1, InRange
    <3>2. QED
      BY <1>3, <3>1
  <2>2. ASSUME x \in Range(new) PROVE x \in Range(r)
    <3>1. PICK i \in 1 .. Len(new) : x = new[i]
      BY <2>2, InRange
    <3>2. i \in 1 .. Len(r) /\ x = r[i]
      BY <1>1, <1>2, <3>1
    <3>3. QED
      BY <1>2, <3>2, InRange
  <2>3. ASSUME x \in Range(queue) PROVE x \in Range(r)
    <3>1. PICK i \in 1 .. Len(queue) : x = queue[i]
      BY <2>3, InRange
    <3>2. /\ Len(new) + i \in 1 .. Len(r) /\ ~(Len(new) + i <= Len(new))
          /\ (Len(new) + i) - Len(new) = i
      BY <1>1, <1>2
    <3>3. x = r[Len(new) + i]
      BY <1>2, <3>1, <3>2
    <3>4. QED
      BY <1>2, <3>2, <3>3, InRange
  <2>4. QED
    BY <2>1, <2>2, <2>3
<1>6. Range(r) = Range(new) \union Range(queue)
  BY <1>5
<1>7. QED
  BY <1>2, <1>4, <1>6 DEF r

LEMMA ElemFacts ==
  ASSUME NEW n, NEW p \in Others(n), NEW pid \in Ids, NEW id \in Nat
  PROVE  /\ FragElem(p, pid, id) \in ElemRecs(n) /\ ReqElem(p, pid, id) \in ElemRecs(n)
         /\ FragElem(p, pid, id).type = "fragment" /\ FragElem(p, pid, id).to = p
         /\ FragElem(p, pid, id).pid = pid /\ FragElem(p, pid, id).id = id
         /\ ReqElem(p, pid, id).type = "request"
  BY DEF FragElem, ReqElem, ElemRecs

(* network_manager_enqueue_outgoing_packet *)
Unqueued(queue, p, pid) ==
  \A e \in Range(queue) : ~(e.type = "fragment" /\ e.to = p /\ e.pid = pid)

LEMMA EnqueuePacketQueue ==
  ASSUME NEW n, NEW queue \in Seq(ElemRecs(n)), Once(queue), NEW p \in Others(n),
         NEW q \in PacketRecs,
         Unqueued(queue, p, q.pid)
  PROVE  /\ EnqueuePacket(queue, p, q) \in Seq(ElemRecs(n))
         /\ Once(EnqueuePacket(queue, p, q))
         /\ \A x : x \in Range(EnqueuePacket(queue, p, q)) <=>
              x \in Range(queue) \/ \E id \in FragIds(q) : x = FragElem(p, q.pid, id)
<1>1. PICK m \in Nat : FragIds(q) = 0 .. m - 1
  BY PacketTypes
<1> DEFINE new == [k \in 1 .. m |-> FragElem(p, q.pid, k - 1)]
<1>2. Cardinality(FragIds(q)) = m
  <2>1. 0 \in Int /\ m - 1 \in Int
    OBVIOUS
  <2>2. Cardinality(0 .. m - 1) = IF 0 > m - 1 THEN 0 ELSE (m - 1) - 0 + 1
    BY <2>1, FS_Interval
  <2>3. QED
    BY <1>1, <2>2
<1>3. EnqueuePacket(queue, p, q) = Splice(new, queue)
  BY <1>2 DEF EnqueuePacket
<1>4. \A k \in 1 .. m : k - 1 \in Nat
  OBVIOUS
<1>5. \A k \in 1 .. m : /\ new[k] = FragElem(p, q.pid, k - 1) /\ new[k] \in ElemRecs(n)
                        /\ new[k].type = "fragment" /\ new[k].to = p /\ new[k].pid = q.pid
                        /\ new[k].id = k - 1
  BY <1>4, ElemFacts, PacketTypes
<1>6. new \in Seq(ElemRecs(n)) /\ Len(new) = m
  <2>1. new \in [1 .. m -> ElemRecs(n)]
    BY <1>5
  <2> HIDE DEF new
  <2>2. QED
    BY <2>1
<1> HIDE DEF new
<1>7. \A x : x \in Range(new) <=> \E k \in 1 .. m : x = new[k]
  BY <1>6, InRange
<1>8. Once(new)
  BY <1>5, <1>6 DEF Once
<1>9. \A x \in Range(new) : x.type = "fragment" => x \notin Range(queue)
  BY <1>5, <1>7 DEF Unqueued
<1>10. /\ Splice(new, queue) \in Seq(ElemRecs(n))
      /\ Once(Splice(new, queue))
      /\ Range(Splice(new, queue)) = Range(new) \union Range(queue)
  BY <1>6, <1>8, <1>9, SpliceQueue
<1>11. Range(new) = {FragElem(p, q.pid, id) : id \in FragIds(q)}
  <2>1. \A k \in 1 .. m : k - 1 \in 0 .. m - 1
    OBVIOUS
  <2>2. \A id \in 0 .. m - 1 : id + 1 \in 1 .. m /\ (id + 1) - 1 = id
    OBVIOUS
  <2>3. ASSUME NEW x \in Range(new) PROVE x \in {FragElem(p, q.pid, id) : id \in 0 .. m - 1}
    BY <1>5, <1>7, <2>1
  <2>4. ASSUME NEW id \in 0 .. m - 1 PROVE FragElem(p, q.pid, id) \in Range(new)
    <3>1. new[id + 1] = FragElem(p, q.pid, id)
      BY <1>5, <2>2
    <3>2. QED
      BY <1>7, <2>2, <3>1
  <2>5. QED
    BY <1>1, <2>3, <2>4
<1>12. QED
  BY <1>3, <1>10, <1>11

(* network_manager_add_incoming_fragment *)
LEMMA EnqueueRequestsQueue ==
  ASSUME NEW n, NEW queue \in Seq(ElemRecs(n)), Once(queue), NEW p \in Others(n),
         NEW q \in PacketRecs
  PROVE  /\ EnqueueRequests(queue, p, q) \in Seq(ElemRecs(n))
         /\ Once(EnqueueRequests(queue, p, q))
         /\ \A e : e.type = "fragment" =>
              (e \in Range(EnqueueRequests(queue, p, q)) <=> e \in Range(queue))
<1> DEFINE w == Wanted(q)
           new == [k \in DOMAIN w |-> ReqElem(p, q.pid, w[k])]
<1>1. w \in Seq(Nat)
  <2>1. PICK m \in Nat : FragIds(q) = 0 .. m - 1
    BY PacketTypes
  <2>2. Cardinality(FragIds(q)) = m
    <3>1. 0 \in Int /\ m - 1 \in Int
      OBVIOUS
    <3>2. Cardinality(0 .. m - 1) = IF 0 > m - 1 THEN 0 ELSE (m - 1) - 0 + 1
      BY <3>1, FS_Interval
    <3>3. QED
      BY <2>1, <3>2
  <2> DEFINE down == [k \in 1 .. m |-> m - k]
  <2>3. down \in Seq(Nat)
    <3>1. down \in [1 .. m -> Nat]
      OBVIOUS
    <3> HIDE DEF down
    <3>2. QED
      BY <3>1
  <2>4. \E K : w = Selected(down, K)
    BY <2>2 DEF Wanted
  <2> HIDE DEF down, w
  <2>5. QED
    BY <2>3, <2>4, SelectedPlaces
<1>2. EnqueueRequests(queue, p, q) = Splice(new, queue)
  BY DEF EnqueueRequests
<1> HIDE DEF w
<1>3. DOMAIN w = 1 .. Len(w) /\ Len(w) \in Nat /\ \A k \in 1 .. Len(w) : w[k] \in Nat
  BY <1>1, InRange
<1>4. \A k \in 1 .. Len(w) : new[k] \in ElemRecs(n) /\ new[k].type = "request"
  BY <1>3, ElemFacts, PacketTypes
<1>5. new \in Seq(ElemRecs(n)) /\ Len(new) = Len(w)
  <2>1. new \in [1 .. Len(w) -> ElemRecs(n)]
    BY <1>3, <1>4
  <2> HIDE DEF new
  <2>2. QED
    BY <1>3, <2>1
<1> HIDE DEF new
<1>6. \A x \in Range(new) : x.type = "request"
  BY <1>4, <1>5, InRange
<1>7. Once(new)
  BY <1>4, <1>5 DEF Once
<1>8. /\ Splice(new, queue) \in Seq(ElemRecs(n))
      /\ Once(Splice(new, queue))
      /\ Range(Splice(new, queue)) = Range(new) \union Range(queue)
  BY <1>5, <1>6, <1>7, SpliceQueue
<1>9. QED
  BY <1>2, <1>6, <1>8

(* network_manager_enqueue_outgoing_fragment *)
LEMMA EnqueueFragmentQueue ==
  ASSUME NEW S, NEW queue \in Seq(S), Once(queue), NEW e \in S
  PROVE  /\ EnqueueFragment(queue, e) \in Seq(S)
         /\ Once(EnqueueFragment(queue, e))
         /\ Range(EnqueueFragment(queue, e)) = Range(queue) \union {e}
<1>1. CASE e \in Range(queue)
  <2>1. EnqueueFragment(queue, e) = queue
    BY <1>1 DEF EnqueueFragment
  <2>2. QED
    BY <1>1, <2>1
<1>2. CASE e \notin Range(queue)
  <2> DEFINE r == Append(queue, e)
  <2>1. EnqueueFragment(queue, e) = r
    BY <1>2 DEF EnqueueFragment
  <2>2. Len(queue) \in Nat
    BY InRange
  <2>3. /\ r \in Seq(S) /\ Len(r) = Len(queue) + 1 /\ r[Len(queue) + 1] = e
        /\ \A i \in 1 .. Len(queue) : r[i] = queue[i]
    BY AppendProperties
  <2> HIDE DEF r
  <2>4. \A i \in 1 .. Len(r) : i = Len(queue) + 1 \/ i \in 1 .. Len(queue)
    BY <2>2, <2>3
  <2>5. \A i \in 1 .. Len(queue) : queue[i] # e
    BY <1>2, InRange
  <2>6. Once(r)
    <3> SUFFICES ASSUME NEW k \in 1 .. Len(r), NEW l \in 1 .. Len(r), k # l,
                        r[k].type = "fragment", r[l].type = "fragment"
                 PROVE  r[k] # r[l]
      BY DEF Once
    <3>1. CASE k \in 1 .. Len(queue) /\ l \in 1 .. Len(queue)
      BY <2>3, <3>1 DEF Once
    <3>2. CASE k = Len(queue) + 1 /\ l \in 1 .. Len(queue)
      BY <2>3, <2>5, <3>2
    <3>3. CASE l = Len(queue) + 1 /\ k \in 1 .. Len(queue)
      BY <2>3, <2>5, <3>3
    <3>4. QED
      BY <2>4, <3>1, <3>2, <3>3
  <2>7. \A x : x \in Range(r) <=> x \in Range(queue) \union {e}
    <3> TAKE x
    <3>1. x \in Range(r) => x \in Range(queue) \union {e}
      BY <2>3, <2>4, InRange
    <3>2. ASSUME x \in Range(queue) PROVE x \in Range(r)
      <4>1. PICK i \in 1 .. Len(queue) : x = queue[i]
        BY <3>2, InRange
      <4>2. i \in 1 .. Len(r) /\ x = r[i]
        BY <2>2, <2>3, <4>1
      <4>3. QED
        BY <2>3, <4>2, InRange
    <3>3. e \in Range(r)
      <4>1. Len(queue) + 1 \in 1 .. Len(r)
        BY <2>2, <2>3
      <4>2. QED
        BY <2>3, <4>1, InRange
    <3>4. QED
      BY <3>1, <3>2, <3>3
  <2>8. Range(r) = Range(queue) \union {e}
    BY <2>7
  <2>9. QED
    BY <2>1, <2>3, <2>6, <2>8
<1>3. QED
  BY <1>1, <1>2

(* network_manager_pop_outgoing_net_msg *)
LEMMA TailQueue ==
  ASSUME NEW S, NEW queue \in Seq(S), Once(queue), queue # << >>
  PROVE  /\ Head(queue) \in Range(queue)
         /\ Tail(queue) \in Seq(S)
         /\ Once(Tail(queue))
         /\ \A x : x \in Range(queue) <=> x = Head(queue) \/ x \in Range(Tail(queue))
<1> DEFINE r == Tail(queue)
<1>1. Len(queue) \in Nat
  BY InRange
<1>2. /\ r \in Seq(S) /\ Len(r) = Len(queue) - 1 /\ Head(queue) = queue[1] /\ Len(queue) >= 1
      /\ \A i \in 1 .. Len(queue) - 1 : r[i] = queue[i + 1]
  OBVIOUS
<1> HIDE DEF r
<1>3. \A i \in 1 .. Len(r) : i + 1 \in 1 .. Len(queue) /\ r[i] = queue[i + 1]
  BY <1>1, <1>2
<1>4. Once(r)
  <2> SUFFICES ASSUME NEW k \in 1 .. Len(r), NEW l \in 1 .. Len(r), k # l,
                      r[k].type = "fragment", r[l].type = "fragment"
               PROVE  r[k] # r[l]
    BY DEF Once
  <2>1. k + 1 # l + 1
    OBVIOUS
  <2>2. QED
    BY <1>3, <2>1 DEF Once
<1>5. Head(queue) \in Range(queue)
  <2>1. 1 \in 1 .. Len(queue)
    BY <1>1, <1>2
  <2>2. QED
    BY <1>2, <2>1, InRange
<1>6. \A x : x \in Range(queue) <=> x = Head(queue) \/ x \in Range(r)
  <2> TAKE x
  <2>1. ASSUME x \in Range(queue) PROVE x = Head(queue) \/ x \in Range(r)
    <3>1. PICK i \in 1 .. Len(queue) : x = queue[i]
      BY <2>1, InRange
    <3>2. CASE i = 1
      BY <1>2, <3>1, <3>2
    <3>3. CASE i # 1
      <4>1. i - 1 \in 1 .. Len(r) /\ (i - 1) + 1 = i
        BY <1>1, <1>2, <3>3
      <4>2. x = r[i - 1]
        BY <1>3, <3>1, <4>1
      <4>3. QED
        BY <1>2, <4>1, <4>2, InRange
    <3>4. QED
      BY <3>2, <3>3
  <2>2. ASSUME x \in Range(r) PROVE x \in Range(queue)
    <3>1. PICK i \in 1 .. Len(r) : x = r[i]
      BY <1>2, <2>2, InRange
    <3>2. QED
      BY <1>3, <3>1, InRange
  <2>3. QED
    BY <1>5, <2>1, <2>2
<1>7. QED
  BY <1>2, <1>4, <1>5, <1>6 DEF r
-----------------------------------------------------------------------------
(***************************************************************************)
(* What every step keeps: messages are only added to those sent, and an id *)
(* stays that of its message until its sender restarts.                    *)
(***************************************************************************)
StampsKept(n) ==
  \A p \in Others(n) : \A k \in 1 .. Len(sent) : \A pid \in Ids :
    Went(n, p, k) /\ Stamped(n, p, k, pid) => Stamped(n, p, k, pid)'

Onward ==
  /\ now' \in {now, now + 1}
  /\ Len(sent') \in Nat /\ Len(sent) <= Len(sent')
  /\ \A k \in 1 .. Len(sent) : sent'[k] = sent[k]
  /\ restarted' \in [Nodes -> Int]
  /\ \A n \in Nodes : restarted'[n] = now \/ (restarted'[n] = restarted[n] /\ StampsKept(n))

LEMMA WentKept ==
  ASSUME TypeInv, Onward, NEW n, NEW p, NEW k, Went(n, p, k)
  PROVE  k \in 1 .. Len(sent) /\ Went(n, p, k)' /\ sent'[k] = sent[k] /\ k \in 1 .. Len(sent')
<1>1. Len(sent) \in Nat /\ k \in 1 .. Len(sent) /\ sent'[k] = sent[k]
  BY SentTypes DEF Went, Onward
<1>2. k \in 1 .. Len(sent')
  BY <1>1 DEF Onward
<1>3. QED
  BY <1>1, <1>2 DEF Went

LEMMA OutPacketKept ==
  ASSUME TypeInv, Onward, NEW n \in Nodes, NEW p \in Others(n), NEW q \in PacketRecs,
         OutPacket(n, p, q), StampsKept(n)
  PROVE  OutPacket(n, p, q)'
<1>1. PICK k \in 1 .. Len(sent) : /\ Went(n, p, k) /\ sent[k].at = q.born
                                  /\ q = NewPacket(q.pid, sent[k].msg, q.born)
                                  /\ Stamped(n, p, k, q.pid)
  BY DEF OutPacket
<1>2. k \in 1 .. Len(sent') /\ Went(n, p, k)' /\ sent'[k] = sent[k]
  BY <1>1, WentKept
<1>3. q.pid \in Ids
  BY PacketTypes
<1>4. Stamped(n, p, k, q.pid)'
  BY <1>1, <1>3 DEF StampsKept
<1>5. QED
  BY <1>1, <1>2, <1>4 DEF OutPacket

LEMMA CarriesKept ==
  ASSUME TypeInv, Onward, NEW d \in GramRecs, d.to # d.from, d.left <= now, NEW k, Carries(d, k)
  PROVE  k \in 1 .. Len(sent') /\ Carries(d, k)'
<1>1. Went(d.from, d.to, k)' /\ sent'[k] = sent[k] /\ k \in 1 .. Len(sent) /\ k \in 1 .. Len(sent')
  BY WentKept DEF Carries
<1>2. d.from \in Nodes /\ d.to \in Others(d.from) /\ d.pid \in Ids /\ d.left \in Nat /\ now \in Nat
  BY DEF GramRecs, Others, TypeInv
<1>3. ASSUME d.left > restarted'[d.from] PROVE Stamped(d.from, d.to, k, d.pid)'
  <2>1. restarted'[d.from] # now
    BY <1>2, <1>3
  <2>2. restarted'[d.from] = restarted[d.from] /\ StampsKept(d.from)
    BY <1>2, <2>1 DEF Onward
  <2>3. Stamped(d.from, d.to, k, d.pid) /\ Went(d.from, d.to, k)
    BY <1>3, <2>2 DEF Carries
  <2>4. QED
    BY <1>1, <1>2, <2>2, <2>3 DEF StampsKept
<1>4. QED
  BY <1>1, <1>3 DEF Carries

LEMMA HoldsKept ==
  ASSUME TypeInv, Onward, NEW n \in Nodes, NEW p \in Others(n), NEW q \in PacketRecs, q.born <= now,
         NEW id, NEW k, Holds(n, p, q, id, k)
  PROVE  k \in 1 .. Len(sent') /\ Holds(n, p, q, id, k)'
<1>1. Went(p, n, k)' /\ sent'[k] = sent[k] /\ k \in 1 .. Len(sent) /\ k \in 1 .. Len(sent')
  BY WentKept DEF Holds
<1>2. p \in Nodes /\ n \in Others(p) /\ q.pid \in Ids /\ q.born \in Nat /\ now \in Nat
  BY PacketTypes DEF Others, TypeInv
<1>3. ASSUME Settled(p, q)' PROVE Settled(p, q) /\ Stamped(p, n, k, q.pid)'
  <2>1. restarted'[p] # now
    <3>1. q.born > restarted'[p] + NetDelay
      BY <1>3 DEF Settled
    <3>2. QED
      BY <1>2, <3>1, Constants
  <2>2. restarted'[p] = restarted[p] /\ StampsKept(p)
    BY <1>2, <2>1 DEF Onward
  <2>3. Settled(p, q)
    BY <1>3, <2>2 DEF Settled
  <2>4. Stamped(p, n, k, q.pid) /\ Went(p, n, k)
    BY <2>3 DEF Holds
  <2>5. QED
    BY <1>1, <1>2, <2>2, <2>3, <2>4 DEF StampsKept
<1>4. QED
  BY <1>1, <1>3 DEF Holds

LEMMA InPacketKept ==
  ASSUME TypeInv, Onward, NEW n \in Nodes, NEW p \in Others(n), NEW q \in PacketRecs,
         InPacket(n, p, q)
  PROVE  InPacket(n, p, q)'
<1>1. q.born <= now /\ now \in Nat /\ q.born \in Nat
  BY PacketTypes DEF InPacket, TypeInv
<1>2. q.born <= now'
  BY <1>1 DEF Onward
<1>3. ASSUME NEW id \in FragIds(q) \ Missing(q)
      PROVE  \E k \in 1 .. Len(sent') : Holds(n, p, q, id, k)'
  <2>1. PICK k \in 1 .. Len(sent) : Holds(n, p, q, id, k)
    BY DEF InPacket
  <2>2. QED
    BY <1>1, <2>1, HoldsKept
<1>4. QED
  BY <1>2, <1>3 DEF InPacket

(* fragment_send: the datagram of a queued fragment carries its message.   *)
LEMMA DatagramFacts ==
  ASSUME IndInv, NEW n \in Nodes, NEW e \in Range(outqueue[n]), NEW d \in Datagrams(n, e)
  PROVE  /\ d \in GramRecs /\ d.from = n /\ d.to = e.to /\ d.pid = e.pid /\ d.id = e.id
         /\ e.to \in Others(n) /\ d.to # d.from /\ d.left = now /\ e.type = "fragment"
         /\ \E k \in 1 .. Len(sent) : Carries(d, k)
<1> USE DEF IndInv
<1>1. outqueue[n] \in Seq(ElemRecs(n))
  BY DEF TypeInv
<1>2. e \in ElemRecs(n)
  BY <1>1, InRange
<1>3. e.to \in Others(n) /\ e.pid \in Ids /\ e.id \in Nat /\ e.type \in {"fragment", "request"}
  BY <1>2 DEF ElemRecs
<1>4. e.type = "fragment" /\ d \in FragmentSend(n, e)
  BY <1>3 DEF Datagrams, RequestSend
<1>5. PICK q \in Packet(ep[n][e.to].outgoing, e.pid) : e.id \in FragIds(q) /\ now - q.born <= QueueDelay
  BY <1>4 DEF QueueInv, Queued
<1>6. q \in Range(ep[n][e.to].outgoing) /\ q.pid = e.pid
  BY <1>5 DEF Packet
<1>7. ep[n][e.to].outgoing \in Seq(PacketRecs) /\ Ordered(ep[n][e.to].outgoing)
  BY <1>3, EndpointTypes DEF OutInv
<1>8. q \in PacketRecs /\ The(Packet(ep[n][e.to].outgoing, e.pid)) = q
  BY <1>6, <1>7, UniquePacket, InRange
<1>9. OutPacket(n, e.to, q)
  BY <1>3, <1>6 DEF OutInv
<1>10. PICK k \in 1 .. Len(sent) : /\ Went(n, e.to, k) /\ sent[k].at = q.born
                                   /\ q = NewPacket(q.pid, sent[k].msg, q.born)
                                   /\ Stamped(n, e.to, k, q.pid)
  BY <1>9 DEF OutPacket
<1>11. k \in 1 .. Len(Sizes) /\ sent[k].msg = <<k, Sizes[k]>> /\ sent[k].at <= now
  <2>1. Len(sent) \in Nat /\ Len(Sizes) \in Nat
    BY SentTypes, Constants
  <2>2. QED
    BY <2>1 DEF LogInv
<1>12. q.pid \in Ids /\ q.born \in Nat /\ now \in Nat
  BY <1>8, PacketTypes DEF TypeInv
<1>13. /\ FragIds(q) = 0 .. FragNum(Sizes[k]) - 1
       /\ Cardinality(FragIds(q)) = FragNum(Sizes[k])
       /\ \A id \in FragIds(q) : q.frags[id] = Piece(<<k, Sizes[k]>>, id)
  BY <1>10, <1>11, <1>12, NewPacketFacts
<1>14. d = [from |-> n, to |-> e.to, pid |-> e.pid, num |-> FragNum(Sizes[k]),
            id |-> e.id, data |-> q.frags[e.id], left |-> now]
  BY <1>4, <1>8, <1>13 DEF FragmentSend
<1>15. FragNum(Sizes[k]) \in Nat /\ q.frags[e.id] \in Data /\ e.to \in Nodes /\ e.to # n
  BY <1>3, <1>5, <1>8, <1>11, SizeFacts, PacketTypes DEF Others
<1>16. d \in GramRecs
  BY <1>3, <1>12, <1>14, <1>15 DEF GramRecs
<1>17. /\ d.from = n /\ d.to = e.to /\ d.pid = e.pid /\ d.num = FragNum(Sizes[k])
       /\ d.id = e.id /\ d.data = q.frags[e.id] /\ d.left = now
  BY <1>14
<1>18. Carries(d, k)
  <2>1. d.data = Piece(sent[k].msg, d.id) /\ d.id \in 0 .. d.num - 1
    BY <1>5, <1>11, <1>13, <1>17
  <2>2. sent[k].at <= d.left /\ d.left - sent[k].at <= QueueDelay
    BY <1>5, <1>10, <1>11, <1>17
  <2>3. Stamped(d.from, d.to, k, d.pid)
    BY <1>6, <1>10, <1>17
  <2>4. QED
    BY <1>10, <1>17, <2>1, <2>2, <2>3 DEF Carries
<1>19. QED
  BY <1>3, <1>4, <1>15, <1>16, <1>17, <1>18

(* What is on the network came from it or from a queue.                    *)
LEMMA NetStep ==
  ASSUME IndInv, Onward,
         \A d \in net' : \/ d \in net
                         \/ \E n \in Nodes : \E e \in Range(outqueue[n]) : d \in Datagrams(n, e),
         \A d \in net' : now' - d.left <= NetDelay
  PROVE  net' \in SUBSET GramRecs /\ NetInv'
<1>1. ASSUME NEW d \in net'
      PROVE  /\ d \in GramRecs /\ d.to # d.from /\ d.left <= now
             /\ \E k \in 1 .. Len(sent) : Carries(d, k)
  <2>1. CASE d \in net
    BY <2>1 DEF IndInv, TypeInv, NetInv
  <2>2. CASE \E n \in Nodes : \E e \in Range(outqueue[n]) : d \in Datagrams(n, e)
    <3>1. PICK n \in Nodes : \E e \in Range(outqueue[n]) : d \in Datagrams(n, e)
      BY <2>2
    <3>2. PICK e \in Range(outqueue[n]) : d \in Datagrams(n, e)
      BY <3>1
    <3>3. d.left = now /\ now \in Nat
      BY <3>2, DatagramFacts DEF IndInv, TypeInv
    <3>4. d.left <= now
      BY <3>3
    <3>5. QED
      BY <3>2, <3>4, DatagramFacts
  <2>3. QED
    BY <2>1, <2>2
<1>2. ASSUME NEW d \in net'
      PROVE  d.to # d.from /\ d.left <= now' /\ \E k \in 1 .. Len(sent') : Carries(d, k)'
  <2>1. d \in GramRecs /\ d.to # d.from /\ d.left <= now
    BY <1>1
  <2>2. PICK k \in 1 .. Len(sent) : Carries(d, k)
    BY <1>1
  <2>3. k \in 1 .. Len(sent') /\ Carries(d, k)'
    BY <2>1, <2>2, CarriesKept DEF IndInv
  <2>4. d.left \in Nat /\ now \in Nat
    BY <2>1 DEF GramRecs, IndInv, TypeInv
  <2>5. d.left <= now'
    BY <2>1, <2>4 DEF Onward
  <2>6. QED
    BY <2>1, <2>3, <2>5
<1>3. NetInv'
  BY <1>2 DEF NetInv
<1>4. QED
  BY <1>1, <1>3
-----------------------------------------------------------------------------
(***************************************************************************)
(* What a step changes, and what follows for the rest                      *)
(***************************************************************************)
LEMMA EpUpdate ==
  ASSUME TypeInv, NEW n \in Nodes, NEW p \in Others(n), NEW x \in EndpointRecs,
         ep' = [ep EXCEPT ![n][p] = x]
  PROVE  /\ ep' = [m \in Nodes |-> ep'[m]]
         /\ \A m \in Nodes : ep'[m] \in [Others(m) -> EndpointRecs]
         /\ ep'[n][p] = x
         /\ \A m \in Nodes : \A q \in Others(m) : m # n \/ q # p => ep'[m][q] = ep[m][q]
<1>1. DOMAIN ep = Nodes /\ \A m \in Nodes : ep[m] \in [Others(m) -> EndpointRecs]
  BY Zenon DEF TypeInv
<1>2. ep' = [m \in Nodes |-> IF m = n THEN [ep[n] EXCEPT ![p] = x] ELSE ep[m]]
  BY <1>1
<1>3. \A m \in Nodes : ep'[m] = IF m = n THEN [ep[n] EXCEPT ![p] = x] ELSE ep[m]
  BY <1>2
<1>4. ep' = [m \in Nodes |-> ep'[m]]
  BY <1>2
<1>5. QED
  BY <1>1, <1>3, <1>4

LEMMA OutqueueUpdate ==
  ASSUME TypeInv, NEW n \in Nodes, NEW s \in Seq(ElemRecs(n)),
         outqueue' = [outqueue EXCEPT ![n] = s]
  PROVE  /\ outqueue' = [m \in Nodes |-> outqueue'[m]]
         /\ \A m \in Nodes : outqueue'[m] \in Seq(ElemRecs(m))
         /\ outqueue'[n] = s
         /\ \A m \in Nodes : m # n => outqueue'[m] = outqueue[m]
<1>1. DOMAIN outqueue = Nodes /\ \A m \in Nodes : outqueue[m] \in Seq(ElemRecs(m))
  BY Zenon DEF TypeInv
<1>2. outqueue' = [m \in Nodes |-> IF m = n THEN s ELSE outqueue[m]]
  BY <1>1
<1>3. \A m \in Nodes : outqueue'[m] = IF m = n THEN s ELSE outqueue[m]
  BY <1>2
<1>4. outqueue' = [m \in Nodes |-> outqueue'[m]]
  BY <1>2
<1>5. QED
  BY <1>1, <1>3, <1>4

LEMMA StampsSame ==
  ASSUME sent' = sent, NEW n, \A p \in Others(n) : ep'[n][p].out_id = ep[n][p].out_id
  PROVE  StampsKept(n)
BY DEF StampsKept, Stamped, Since, From

LEMMA OnwardQuiet ==
  ASSUME TypeInv, sent' = sent, restarted' = restarted, now' \in {now, now + 1},
         \A n \in Nodes : \A p \in Others(n) : ep'[n][p].out_id = ep[n][p].out_id
  PROVE  Onward /\ \A n \in Nodes : StampsKept(n)
<1>1. \A n \in Nodes : StampsKept(n)
  BY StampsSame
<1>2. Len(sent) \in Nat
  BY SentTypes
<1>3. restarted \in [Nodes -> Int]
  BY DEF TypeInv
<1>4. QED
  BY <1>1, <1>2, <1>3 DEF Onward

LEMMA LogSame ==
  ASSUME TypeInv, LogInv, sent' = sent, now' \in {now, now + 1}
  PROVE  LogInv'
<1>1. Len(sent) \in Nat /\ now \in Nat /\ \A k \in 1 .. Len(sent) : sent[k].at \in Nat
  BY SentTypes
<1>2. \A k \in 1 .. Len(sent) : sent[k].at <= now
  BY DEF LogInv
<1>3. \A k \in 1 .. Len(sent) : sent[k].at <= now'
  BY <1>1, <1>2
<1>4. ASSUME NEW n \in Nodes, NEW p \in Nodes, NEW t \in 0 .. now'
      PROVE  Cardinality(SentAt(n, p, t)') <= Rate
  <2>1. SentAt(n, p, t)' = SentAt(n, p, t)
    BY DEF SentAt
  <2>2. CASE t \in 0 .. now
    BY <2>1, <2>2 DEF LogInv
  <2>3. CASE t \notin 0 .. now
    <3>1. t > now
      BY <1>1, <2>3
    <3>2. \A k \in 1 .. Len(sent) : sent[k].at # t
      BY <1>1, <1>2, <3>1
    <3>3. SentAt(n, p, t) = {}
      BY <3>2 DEF SentAt
    <3>4. Cardinality(SentAt(n, p, t)') = 0
      BY <2>1, <3>3, FS_EmptySet
    <3>5. QED
      BY <3>4, Constants
  <2>4. QED
    BY <2>2, <2>3
<1>5. QED
  BY <1>3, <1>4 DEF LogInv

(* Packets leave a bucket of what was sent, none is added.                 *)
LEMMA OutKept ==
  ASSUME IndInv, Onward, NEW n \in Nodes, NEW p \in Others(n), StampsKept(n),
         Ordered(ep'[n][p].outgoing), Range(ep'[n][p].outgoing) \subseteq Range(ep[n][p].outgoing)
  PROVE  Ordered(ep[n][p].outgoing)' /\ \A q \in Range(ep'[n][p].outgoing) : OutPacket(n, p, q)'
<1>1. ASSUME NEW q \in Range(ep'[n][p].outgoing) PROVE OutPacket(n, p, q)'
  <2>1. q \in Range(ep[n][p].outgoing)
    OBVIOUS
  <2>2. q \in PacketRecs /\ OutPacket(n, p, q)
    BY <2>1, EndpointTypes, InRange DEF IndInv, OutInv
  <2>3. QED
    BY <2>2, OutPacketKept DEF IndInv
<1>2. Ordered(ep[n][p].outgoing)'
  BY DEF Ordered
<1>3. QED
  BY <1>1, <1>2

LEMMA OutSame ==
  ASSUME IndInv, Onward, NEW n \in Nodes, NEW p \in Others(n), StampsKept(n),
         ep'[n][p].outgoing = ep[n][p].outgoing
  PROVE  Ordered(ep[n][p].outgoing)' /\ \A q \in Range(ep'[n][p].outgoing) : OutPacket(n, p, q)'
BY OutKept DEF IndInv, OutInv

LEMMA InSame ==
  ASSUME IndInv, Onward, NEW n \in Nodes, NEW p \in Others(n),
         ep'[n][p].incoming = ep[n][p].incoming
  PROVE  Ordered(ep[n][p].incoming)' /\ \A q \in Range(ep'[n][p].incoming) : InPacket(n, p, q)'
<1>1. ASSUME NEW q \in Range(ep'[n][p].incoming) PROVE InPacket(n, p, q)'
  <2>1. q \in Range(ep[n][p].incoming)
    OBVIOUS
  <2>2. q \in PacketRecs /\ InPacket(n, p, q)
    BY <2>1, EndpointTypes, InRange DEF IndInv, InInv
  <2>3. QED
    BY <2>2, InPacketKept DEF IndInv
<1>2. Ordered(ep[n][p].incoming)
  BY DEF IndInv, InInv
<1>3. Ordered(ep[n][p].incoming)'
  BY <1>2 DEF Ordered
<1>4. QED
  BY <1>1, <1>3

(* Time goes on no further than the queue allows.                          *)
InTime == now' = now \/ (now' = now + 1 /\ MayTick)

(* What stays in a queue has its packet in the bucket.                     *)
LEMMA QueueKept ==
  ASSUME IndInv, InTime, NEW n \in Nodes, Once(outqueue'[n]),
         \A e \in Range(outqueue'[n]) : e.type = "fragment" =>
           /\ e \in Range(outqueue[n])
           /\ \A q \in Packet(ep[n][e.to].outgoing, e.pid) : q \in Range(ep'[n][e.to].outgoing)
  PROVE  /\ Once(outqueue[n])'
         /\ \A e \in Range(outqueue'[n]) : e.type = "fragment" => Queued(n, e)'
<1>1. ASSUME NEW e \in Range(outqueue'[n]), e.type = "fragment" PROVE Queued(n, e)'
  <2>1. e \in Range(outqueue[n])
    BY <1>1
  <2>2. PICK q \in Packet(ep[n][e.to].outgoing, e.pid) : e.id \in FragIds(q) /\ now - q.born <= QueueDelay
    BY <1>1, <2>1 DEF IndInv, QueueInv, Queued
  <2>3. q \in Range(ep'[n][e.to].outgoing)
    BY <1>1, <2>2
  <2>4. q \in Packet(ep'[n][e.to].outgoing, e.pid)
    BY <2>2, <2>3 DEF Packet
  <2>5. now' - q.born <= QueueDelay
    <3>1. CASE now' = now
      BY <2>2, <3>1
    <3>2. CASE now' = now + 1 /\ MayTick
      <4>1. now + 1 - q.born <= QueueDelay
        BY Zenon, <1>1, <2>1, <2>2, <3>2 DEF MayTick
      <4>2. outqueue[n] \in Seq(ElemRecs(n))
        BY DEF IndInv, TypeInv
      <4>3. e \in ElemRecs(n)
        BY <2>1, <4>2, InRange
      <4>4. e.to \in Others(n)
        BY <4>3 DEF ElemRecs
      <4>5. q \in PacketRecs
        BY <2>2, <4>4, EndpointTypes, InRange DEF IndInv, Packet
      <4>6. now \in Nat /\ q.born \in Nat /\ QueueDelay \in Nat
        BY <4>5, PacketTypes, Constants DEF IndInv, TypeInv
      <4>7. QED
        BY <3>2, <4>1, <4>6
    <3>3. QED
      BY <3>1, <3>2 DEF InTime
  <2>6. QED
    BY <2>2, <2>4, <2>5 DEF Queued
<1>2. Once(outqueue[n])'
  BY DEF Once
<1>3. QED
  BY <1>1, <1>2

LEMMA QueueSame ==
  ASSUME IndInv, InTime, NEW n \in Nodes, outqueue'[n] = outqueue[n],
         \A p \in Others(n) : ep'[n][p].outgoing = ep[n][p].outgoing
  PROVE  /\ Once(outqueue[n])'
         /\ \A e \in Range(outqueue'[n]) : e.type = "fragment" => Queued(n, e)'
<1>1. Once(outqueue'[n])
  BY DEF IndInv, QueueInv
<1>2. ASSUME NEW e \in Range(outqueue'[n]), e.type = "fragment"
      PROVE  /\ e \in Range(outqueue[n])
             /\ \A q \in Packet(ep[n][e.to].outgoing, e.pid) : q \in Range(ep'[n][e.to].outgoing)
  <2>1. e \in Range(outqueue[n])
    OBVIOUS
  <2>2. outqueue[n] \in Seq(ElemRecs(n))
    BY DEF IndInv, TypeInv
  <2>3. e \in ElemRecs(n)
    BY <2>1, <2>2, InRange
  <2>4. e.to \in Others(n)
    BY <2>3 DEF ElemRecs
  <2>5. QED
    BY <2>1, <2>4 DEF Packet
<1>3. QED
  BY <1>1, <1>2, QueueKept
-----------------------------------------------------------------------------
(***************************************************************************)
(* The steps                                                               *)
(***************************************************************************)
(* Time goes on, or a message is lost: nothing changes at the nodes.       *)
LEMMA QuietStep ==
  ASSUME IndInv, InTime, UNCHANGED <<ep, outqueue, corrupt, sent, restarted>>,
         pending' \subseteq pending, net' \subseteq net, \A d \in net' : now' - d.left <= NetDelay
  PROVE  IndInv'
<1> USE DEF IndInv
<1>1. now \in Nat /\ now' \in {now, now + 1} /\ now' \in Nat
  BY DEF InTime, TypeInv
<1>2. Onward /\ \A n \in Nodes : StampsKept(n)
  BY <1>1, OnwardQuiet
<1>3. net' \in SUBSET GramRecs /\ NetInv'
  BY <1>2, NetStep
<1>4. TypeInv'
  <2>1. /\ ep' = [n \in Nodes |-> ep'[n]]
        /\ \A n \in Nodes : ep'[n] \in [Others(n) -> EndpointRecs]
        /\ outqueue' = [n \in Nodes |-> outqueue'[n]]
        /\ \A n \in Nodes : outqueue'[n] \in Seq(ElemRecs(n))
    BY Zenon DEF TypeInv
  <2>2. sent' \in Seq(SentRecs) /\ restarted' \in [Nodes -> Int] /\ pending' \in SUBSET (1 .. Len(sent'))
    BY DEF TypeInv
  <2>3. QED
    BY <1>1, <1>3, <2>1, <2>2 DEF TypeInv
<1>5. LogInv'
  BY <1>1, LogSame
<1>6. OutInv'
  BY <1>2, OutSame DEF OutInv
<1>7. QueueInv'
  BY QueueSame DEF QueueInv
<1>8. InInv'
  BY <1>2, InSame DEF InInv
<1>9. QED
  BY <1>3, <1>4, <1>5, <1>6, <1>7, <1>8

LEMMA TickStep ==
  ASSUME IndInv, Tick
  PROVE  IndInv'
<1>1. InTime /\ UNCHANGED <<ep, outqueue, corrupt, sent, restarted>>
  BY DEF Tick, InTime
<1>2. pending' \subseteq pending /\ net' \subseteq net /\ \A d \in net' : now' - d.left <= NetDelay
  BY DEF Tick
<1>3. QED
  BY <1>1, <1>2, QuietStep

LEMMA LoseStep ==
  ASSUME IndInv, NEW d \in net, Lose(d)
  PROVE  IndInv'
<1>1. InTime /\ UNCHANGED <<ep, outqueue, corrupt, sent, restarted>>
  BY DEF Lose, InTime
<1>2. pending' \subseteq pending /\ net' \subseteq net /\ now' = now
  BY DEF Lose
<1>3. \A x \in net' : now' - x.left <= NetDelay
  BY <1>2 DEF IndInv, NetInv
<1>4. QED
  BY <1>1, <1>2, <1>3, QuietStep

LEMMA StutterStep ==
  ASSUME IndInv, UNCHANGED vars
  PROVE  IndInv'
<1>1. InTime /\ UNCHANGED <<ep, outqueue, corrupt, sent, restarted>>
  BY DEF vars, InTime
<1>2. pending' \subseteq pending /\ net' \subseteq net /\ now' = now
  BY DEF vars
<1>3. \A x \in net' : now' - x.left <= NetDelay
  BY <1>2 DEF IndInv, NetInv
<1>4. QED
  BY <1>1, <1>2, <1>3, QuietStep

(* net_helper_send_attempt *)
LEMMA SendAttemptStep ==
  ASSUME IndInv, NEW n \in Nodes, SendAttempt(n)
  PROVE  IndInv'
<1> USE DEF IndInv
<1> DEFINE e == Head(outqueue[n])
<1>1. /\ outqueue[n] # << >>
      /\ net' = net \union Datagrams(n, e)
      /\ outqueue' = [outqueue EXCEPT ![n] = Tail(outqueue[n])]
      /\ UNCHANGED <<now, ep, corrupt, sent, pending, restarted>>
  BY DEF SendAttempt
<1>2. outqueue[n] \in Seq(ElemRecs(n)) /\ Once(outqueue[n])
  BY DEF TypeInv, QueueInv
<1>3. /\ e \in Range(outqueue[n])
      /\ Tail(outqueue[n]) \in Seq(ElemRecs(n))
      /\ Once(Tail(outqueue[n]))
      /\ \A x : x \in Range(outqueue[n]) <=> x = e \/ x \in Range(Tail(outqueue[n]))
  BY <1>1, <1>2, TailQueue
<1> HIDE DEF e
<1>4. /\ outqueue' = [m \in Nodes |-> outqueue'[m]]
      /\ \A m \in Nodes : outqueue'[m] \in Seq(ElemRecs(m))
      /\ outqueue'[n] = Tail(outqueue[n])
      /\ \A m \in Nodes : m # n => outqueue'[m] = outqueue[m]
  BY <1>1, <1>3, OutqueueUpdate
<1>5. now' = now /\ now' \in {now, now + 1} /\ InTime /\ now \in Nat
  BY <1>1 DEF InTime, TypeInv
<1>6. Onward /\ \A m \in Nodes : StampsKept(m)
  BY <1>1, <1>5, OnwardQuiet
<1>7. net' \in SUBSET GramRecs /\ NetInv'
  <2>1. \A d \in Datagrams(n, e) : d.left = now
    BY <1>3, DatagramFacts
  <2>2. \A d \in net' : now' - d.left <= NetDelay
    BY <1>1, <1>5, <2>1, Constants DEF NetInv
  <2>3. QED
    BY <1>1, <1>3, <1>6, <2>2, NetStep
<1>8. TypeInv'
  <2>1. /\ ep' = [m \in Nodes |-> ep'[m]]
        /\ \A m \in Nodes : ep'[m] \in [Others(m) -> EndpointRecs]
    BY Zenon, <1>1 DEF TypeInv
  <2>2. sent' \in Seq(SentRecs) /\ restarted' \in [Nodes -> Int] /\ pending' \in SUBSET (1 .. Len(sent'))
    BY <1>1 DEF TypeInv
  <2>3. QED
    BY <1>4, <1>5, <1>7, <2>1, <2>2 DEF TypeInv
<1>9. LogInv'
  BY <1>1, <1>5, LogSame
<1>10. OutInv'
  BY <1>1, <1>6, OutSame DEF OutInv
<1>11. QueueInv'
  <2>1. ASSUME NEW m \in Nodes
        PROVE  /\ Once(outqueue[m])'
               /\ \A x \in Range(outqueue'[m]) : x.type = "fragment" => Queued(m, x)'
    <3>1. CASE m # n
      BY <1>1, <1>4, <1>5, <3>1, QueueSame
    <3>2. CASE m = n
      <4>1. \A x \in Range(outqueue'[n]) : x \in Range(outqueue[n])
        BY <1>3, <1>4
      <4>2. Once(outqueue'[n])
        BY <1>3, <1>4
      <4>3. \A x \in Range(outqueue'[n]) :
              \A q \in Packet(ep[n][x.to].outgoing, x.pid) : q \in Range(ep'[n][x.to].outgoing)
        BY <1>1 DEF Packet
      <4>4. QED
        BY <1>5, <3>2, <4>1, <4>2, <4>3, QueueKept
    <3>3. QED
      BY <3>1, <3>2
  <2>2. QED
    BY <2>1 DEF QueueInv
<1>12. InInv'
  BY <1>1, <1>6, InSame DEF InInv
<1>13. QED
  BY <1>1, <1>7, <1>8, <1>9, <1>10, <1>11, <1>12

LEMMA NewEndpointFacts ==
  /\ NewEndpoint \in EndpointRecs
  /\ NewEndpoint.outgoing = << >> /\ NewEndpoint.incoming = << >> /\ NewEndpoint.out_id = 0
  /\ Ordered(<< >>) /\ Once(<< >>) /\ Range(<< >>) = {}
<1>1. << >> \in Seq(PacketRecs) /\ Len(<< >>) = 0
  OBVIOUS
<1>2. 0 \in Ids
  BY Constants DEF Ids
<1>3. Range(<< >>) = {}
  BY <1>1 DEF Range
<1>4. Ordered(<< >>) /\ Once(<< >>)
  BY <1>1 DEF Ordered, Once
<1>5. QED
  BY <1>1, <1>2, <1>3, <1>4 DEF NewEndpoint, EndpointRecs

(* net_helper_deinit, net_helper_init *)
LEMMA RestartStep ==
  ASSUME IndInv, NEW n \in Nodes, Restart(n)
  PROVE  IndInv'
<1> USE DEF IndInv
<1>1. /\ ep' = [ep EXCEPT ![n] = NewEndpoints(n)]
      /\ outqueue' = [outqueue EXCEPT ![n] = << >>]
      /\ restarted' = [restarted EXCEPT ![n] = now]
      /\ UNCHANGED <<now, corrupt, sent>> /\ pending' \subseteq pending
      /\ net' \subseteq net \union UNION {Datagrams(n, e) : e \in Range(outqueue[n])}
  BY DEF Restart
<1>2. now' = now /\ now' \in {now, now + 1} /\ InTime /\ now \in Nat /\ now \in Int
  BY <1>1 DEF InTime, TypeInv
<1>3. << >> \in Seq(ElemRecs(n))
  OBVIOUS
<1>4. /\ outqueue' = [m \in Nodes |-> outqueue'[m]]
      /\ \A m \in Nodes : outqueue'[m] \in Seq(ElemRecs(m))
      /\ outqueue'[n] = << >>
      /\ \A m \in Nodes : m # n => outqueue'[m] = outqueue[m]
  BY <1>1, <1>3, OutqueueUpdate
<1>5. /\ ep' = [m \in Nodes |-> ep'[m]]
      /\ \A m \in Nodes : ep'[m] \in [Others(m) -> EndpointRecs]
      /\ \A p \in Others(n) : ep'[n][p] = NewEndpoint
      /\ \A m \in Nodes : m # n => ep'[m] = ep[m]
  <2>1. DOMAIN ep = Nodes /\ \A m \in Nodes : ep[m] \in [Others(m) -> EndpointRecs]
    BY Zenon DEF TypeInv
  <2>2. ep' = [m \in Nodes |-> IF m = n THEN NewEndpoints(n) ELSE ep[m]]
    BY <1>1, <2>1
  <2>3. \A m \in Nodes : ep'[m] = IF m = n THEN NewEndpoints(n) ELSE ep[m]
    BY <2>2
  <2>4. NewEndpoints(n) \in [Others(n) -> EndpointRecs]
    BY NewEndpointFacts DEF NewEndpoints
  <2>5. \A p \in Others(n) : ep'[n][p] = NewEndpoint
    BY <2>3 DEF NewEndpoints
  <2>6. ep' = [m \in Nodes |-> ep'[m]]
    BY <2>2
  <2>7. QED
    BY <2>1, <2>3, <2>4, <2>5, <2>6
<1>6. /\ restarted' \in [Nodes -> Int] /\ restarted'[n] = now
      /\ \A m \in Nodes : m # n => restarted'[m] = restarted[m]
  BY <1>1, <1>2 DEF TypeInv
<1>7. \A m \in Nodes : m # n => StampsKept(m)
  BY <1>1, <1>5, StampsSame
<1>8. Onward
  <2>1. Len(sent) \in Nat
    BY SentTypes
  <2>2. QED
    BY <1>1, <1>2, <1>6, <1>7, <2>1 DEF Onward
<1>9. net' \in SUBSET GramRecs /\ NetInv'
  <2>1. \A d \in net' : d \in net \/ \E e \in Range(outqueue[n]) : d \in Datagrams(n, e)
    BY <1>1
  <2>2. \A e \in Range(outqueue[n]) : \A d \in Datagrams(n, e) : d.left = now
    BY DatagramFacts
  <2>3. ASSUME NEW d \in net' PROVE now' - d.left <= NetDelay
    <3>1. CASE d \in net
      BY <1>2, <3>1 DEF NetInv
    <3>2. CASE d.left = now
      BY <1>2, <3>2, Constants
    <3>3. QED
      BY <2>1, <2>2, <3>1, <3>2
  <2>4. QED
    BY <1>8, <2>1, <2>3, NetStep
<1>10. TypeInv'
  <2>1. sent' \in Seq(SentRecs) /\ pending' \in SUBSET (1 .. Len(sent')) /\ now' \in Nat
    BY <1>1, <1>2 DEF TypeInv
  <2>2. QED
    BY <1>4, <1>5, <1>6, <1>9, <2>1 DEF TypeInv
<1>11. LogInv'
  BY <1>1, <1>2, LogSame
<1>12. OutInv'
  <2>1. ASSUME NEW m \in Nodes, NEW p \in Others(m)
        PROVE  /\ Ordered(ep[m][p].outgoing)'
               /\ \A q \in Range(ep'[m][p].outgoing) : OutPacket(m, p, q)'
    <3>1. CASE m # n
      BY <1>5, <1>7, <1>8, <3>1, OutSame
    <3>2. CASE m = n
      <4>1. ep'[m][p].outgoing = << >>
        BY <1>5, <3>2, NewEndpointFacts
      <4>2. QED
        BY <4>1, NewEndpointFacts DEF Ordered
    <3>3. QED
      BY <3>1, <3>2
  <2>2. QED
    BY <2>1 DEF OutInv
<1>13. QueueInv'
  <2>1. ASSUME NEW m \in Nodes
        PROVE  /\ Once(outqueue[m])'
               /\ \A x \in Range(outqueue'[m]) : x.type = "fragment" => Queued(m, x)'
    <3>1. CASE m # n
      BY <1>2, <1>4, <1>5, <3>1, QueueSame
    <3>2. CASE m = n
      BY <1>4, <3>2, NewEndpointFacts DEF Once
    <3>3. QED
      BY <3>1, <3>2
  <2>2. QED
    BY <2>1 DEF QueueInv
<1>14. InInv'
  <2>1. ASSUME NEW m \in Nodes, NEW p \in Others(m)
        PROVE  /\ Ordered(ep[m][p].incoming)'
               /\ \A q \in Range(ep'[m][p].incoming) : InPacket(m, p, q)'
    <3>1. CASE m # n
      BY <1>5, <1>8, <3>1, InSame
    <3>2. CASE m = n
      <4>1. ep'[m][p].incoming = << >>
        BY <1>5, <3>2, NewEndpointFacts
      <4>2. QED
        BY <4>1, NewEndpointFacts DEF Ordered
    <3>3. QED
      BY <3>1, <3>2
  <2>2. QED
    BY <2>1 DEF InInv
<1>15. QED
  BY <1>1, <1>9, <1>10, <1>11, <1>12, <1>13, <1>14

(* Nothing leaves n's bucket of what it sent to p, and n's queue, but what *)
(* is too old.                                                             *)
ExpiredOnly(n, p) ==
  /\ \A q \in Range(ep[n][p].outgoing) : ~Old(q, now) => q \in Range(ep'[n][p].outgoing)
  /\ \A e \in Range(outqueue[n]) :
       Stays(e, p, Refresh(ep[n][p].outgoing, now)) => e \in Range(outqueue'[n])
  /\ \A m \in Nodes : \A o \in Others(m) :
       /\ ep'[m][o].incoming = ep[m][o].incoming
       /\ m # n \/ o # p => ep'[m][o].outgoing = ep[m][o].outgoing
  /\ \A m \in Nodes : m # n => outqueue'[m] = outqueue[m]

(* What is too old leaves the bucket and the queue: what stays in the queue*)
(* is part of a packet that stays.                                         *)
LEMMA ExpiredOut ==
  ASSUME IndInv, NEW n \in Nodes, NEW p \in Others(n), NEW bucket, NEW queue,
         bucket = Refresh(ep[n][p].outgoing, now), queue = Unlink(outqueue[n], p, bucket)
  PROVE  /\ bucket \in Seq(PacketRecs) /\ Ordered(bucket)
         /\ Range(bucket) = {q \in Range(ep[n][p].outgoing) : ~Old(q, now)}
         /\ queue \in Seq(ElemRecs(n)) /\ Once(queue)
         /\ Range(queue) \subseteq Range(outqueue[n])
         /\ \A e \in Range(queue) : e.type = "fragment" /\ e.to = p =>
              \A q \in Packet(ep[n][p].outgoing, e.pid) : q \in Range(bucket)
<1> USE DEF IndInv
<1>1. ep[n][p].outgoing \in Seq(PacketRecs) /\ Ordered(ep[n][p].outgoing) /\ now \in Nat
  BY EndpointTypes DEF OutInv, TypeInv
<1>2. /\ bucket \in Seq(PacketRecs) /\ Ordered(bucket)
      /\ Range(bucket) = {q \in Range(ep[n][p].outgoing) : ~Old(q, now)}
  BY <1>1, RefreshBucket
<1>3. outqueue[n] \in Seq(ElemRecs(n)) /\ Once(outqueue[n])
  BY DEF TypeInv, QueueInv
<1>4. /\ queue \in Seq(ElemRecs(n)) /\ Once(queue)
      /\ Range(queue) = {e \in Range(outqueue[n]) : Stays(e, p, bucket)}
  BY <1>3, UnlinkQueue
<1>5. ASSUME NEW e \in Range(queue), e.type = "fragment", e.to = p,
             NEW q \in Packet(ep[n][p].outgoing, e.pid)
      PROVE  q \in Range(bucket)
  <2>1. PICK x \in Packet(bucket, e.pid) : TRUE
    BY <1>4, <1>5 DEF Stays
  <2>2. x \in Range(bucket) /\ x.pid = e.pid /\ x \in Range(ep[n][p].outgoing)
    BY <1>2, <2>1 DEF Packet
  <2>3. Packet(ep[n][p].outgoing, x.pid) = {x}
    BY <1>1, <2>2, UniquePacket
  <2>4. QED
    BY <2>2, <2>3
<1>6. QED
  BY <1>2, <1>4, <1>5

LEMMA ExpiredStays ==
  ASSUME IndInv, NEW n \in Nodes, NEW p, NEW bucket, NEW e \in Range(outqueue[n]),
         Stays(e, p, bucket)
  PROVE  e \in Range(Unlink(outqueue[n], p, bucket))
<1>1. outqueue[n] \in Seq(ElemRecs(n)) /\ Once(outqueue[n])
  BY DEF IndInv, TypeInv, QueueInv
<1>2. Range(Unlink(outqueue[n], p, bucket)) = {x \in Range(outqueue[n]) : Stays(x, p, bucket)}
  BY <1>1, UnlinkQueue
<1>3. QED
  BY <1>2

(* recv_from_peer, request *)
LEMMA ReceiveRequestStep ==
  ASSUME IndInv, NEW n \in Nodes, NEW p \in Others(n), NEW pid \in Ids, NEW id \in Nat,
         ReceiveRequest(n, p, pid, id)
  PROVE  IndInv' /\ ExpiredOnly(n, p)
<1> USE DEF IndInv
<1> DEFINE bucket == Refresh(ep[n][p].outgoing, now)
           queue == Unlink(outqueue[n], p, bucket)
           elem == FragElem(p, pid, id)
           next == IF HasFragment(bucket, pid, id) THEN EnqueueFragment(queue, elem) ELSE queue
           x == [ep[n][p] EXCEPT !.outgoing = bucket]
<1>1. /\ ep' = [ep EXCEPT ![n][p] = x]
      /\ outqueue' = [outqueue EXCEPT ![n] = next]
      /\ UNCHANGED <<now, net, corrupt, sent, pending, restarted>>
  BY DEF ReceiveRequest
<1>2. /\ bucket \in Seq(PacketRecs) /\ Ordered(bucket)
      /\ Range(bucket) = {q \in Range(ep[n][p].outgoing) : ~Old(q, now)}
      /\ queue \in Seq(ElemRecs(n)) /\ Once(queue)
      /\ Range(queue) \subseteq Range(outqueue[n])
      /\ \A e \in Range(queue) : e.type = "fragment" /\ e.to = p =>
           \A q \in Packet(ep[n][p].outgoing, e.pid) : q \in Range(bucket)
  BY ExpiredOut
<1>3. \A e \in Range(outqueue[n]) : Stays(e, p, bucket) => e \in Range(queue)
  BY ExpiredStays
<1> HIDE DEF bucket, queue
<1>4. /\ elem \in ElemRecs(n) /\ elem.type = "fragment" /\ elem.to = p
      /\ elem.pid = pid /\ elem.id = id
  BY ElemFacts
<1> HIDE DEF elem
<1>5. /\ next \in Seq(ElemRecs(n)) /\ Once(next)
      /\ \A e \in Range(next) : e \in Range(queue) \/ (e = elem /\ HasFragment(bucket, pid, id))
      /\ Range(queue) \subseteq Range(next)
  BY <1>2, <1>4, EnqueueFragmentQueue
<1> HIDE DEF next
<1>6. /\ x \in EndpointRecs /\ x.out_id = ep[n][p].out_id /\ x.outgoing = bucket
      /\ x.incoming = ep[n][p].incoming
  BY <1>2, EndpointTypes DEF EndpointRecs
<1> HIDE DEF x
<1>7. /\ ep' = [m \in Nodes |-> ep'[m]]
      /\ \A m \in Nodes : ep'[m] \in [Others(m) -> EndpointRecs]
      /\ ep'[n][p] = x
      /\ \A m \in Nodes : \A o \in Others(m) : m # n \/ o # p => ep'[m][o] = ep[m][o]
  <2>1. x \in EndpointRecs /\ ep' = [ep EXCEPT ![n][p] = x] /\ TypeInv
    BY <1>1, <1>6
  <2>2. QED
    BY ONLY ZenonT(30), <2>1, n \in Nodes, p \in Others(n), EpUpdate
<1>8. /\ outqueue' = [m \in Nodes |-> outqueue'[m]]
      /\ \A m \in Nodes : outqueue'[m] \in Seq(ElemRecs(m))
      /\ outqueue'[n] = next
      /\ \A m \in Nodes : m # n => outqueue'[m] = outqueue[m]
  BY <1>1, <1>5, OutqueueUpdate
<1>9. \A m \in Nodes : \A o \in Others(m) :
        /\ ep'[m][o].out_id = ep[m][o].out_id
        /\ ep'[m][o].incoming = ep[m][o].incoming
        /\ (m # n \/ o # p => ep'[m][o].outgoing = ep[m][o].outgoing)
  BY <1>6, <1>7
<1>10. now' = now /\ now' \in {now, now + 1} /\ InTime /\ now \in Nat
  BY <1>1 DEF InTime, TypeInv
<1>11. Onward /\ \A m \in Nodes : StampsKept(m)
  BY <1>1, <1>9, <1>10, OnwardQuiet
<1>12. net' \in SUBSET GramRecs /\ NetInv'
  <2>1. \A d \in net' : now' - d.left <= NetDelay
    BY <1>1, <1>10 DEF NetInv
  <2>2. QED
    BY <1>1, <1>11, <2>1, NetStep
<1>13. TypeInv'
  <2>1. /\ sent' \in Seq(SentRecs) /\ restarted' \in [Nodes -> Int]
        /\ pending' \in SUBSET (1 .. Len(sent')) /\ now' \in Nat
    BY <1>1 DEF TypeInv
  <2>2. QED
    BY <1>7, <1>8, <1>12, <2>1 DEF TypeInv
<1>14. LogInv'
  BY <1>1, <1>10, LogSame
<1>15. OutInv'
  <2>1. ASSUME NEW m \in Nodes, NEW o \in Others(m)
        PROVE  /\ Ordered(ep[m][o].outgoing)'
               /\ \A q \in Range(ep'[m][o].outgoing) : OutPacket(m, o, q)'
    <3>1. CASE m # n \/ o # p
      BY <1>9, <1>11, <3>1, OutSame
    <3>2. CASE m = n /\ o = p
      <4>1. ep'[m][o].outgoing = bucket /\ Range(bucket) \subseteq Range(ep[m][o].outgoing)
        BY <1>2, <1>6, <1>7, <3>2
      <4>2. QED
        BY <1>2, <1>11, <4>1, OutKept
    <3>3. QED
      BY <3>1, <3>2
  <2>2. QED
    BY <2>1 DEF OutInv
<1>16. QueueInv'
  <2>1. ASSUME NEW m \in Nodes, m # n
        PROVE  /\ Once(outqueue[m])'
               /\ \A e \in Range(outqueue'[m]) : e.type = "fragment" => Queued(m, e)'
    BY <1>8, <1>9, <1>10, <2>1, QueueSame
  <2>2. Once(outqueue[n])'
    BY <1>5, <1>8 DEF Once
  <2>3. ASSUME NEW e \in Range(queue), e.type = "fragment" PROVE Queued(n, e)'
    <3>1. e \in ElemRecs(n) /\ e \in Range(outqueue[n])
      BY <1>2, InRange
    <3>2. e.to \in Others(n)
      BY <3>1 DEF ElemRecs
    <3>3. PICK q \in Packet(ep[n][e.to].outgoing, e.pid) : e.id \in FragIds(q) /\ now - q.born <= QueueDelay
      BY <2>3, <3>1 DEF QueueInv, Queued
    <3>4. q \in Range(ep'[n][e.to].outgoing)
      <4>1. CASE e.to = p
        BY <1>2, <1>6, <1>7, <2>3, <3>3, <4>1
      <4>2. CASE e.to # p
        BY <1>9, <3>2, <3>3, <4>2 DEF Packet
      <4>3. QED
        BY <4>1, <4>2
    <3>5. q \in Packet(ep'[n][e.to].outgoing, e.pid) /\ now' - q.born <= QueueDelay
      BY <1>10, <3>3, <3>4 DEF Packet
    <3>6. QED
      BY <3>3, <3>5 DEF Queued
  <2>4. ASSUME HasFragment(bucket, pid, id) PROVE Queued(n, elem)'
    <3>1. PICK q \in Packet(bucket, pid) : id \in FragIds(q)
      BY <2>4 DEF HasFragment
    <3>2. q \in Range(bucket) /\ q.pid = pid /\ q \in PacketRecs /\ ~Old(q, now)
      BY <1>2, <3>1, InRange DEF Packet
    <3>3. q.born \in Nat
      BY <3>2, PacketTypes
    <3>4. now - q.born <= QueueDelay
      <4>1. ~(now - q.born >= max_pkt_age)
        BY <3>2 DEF Old
      <4>2. QED
        BY <1>10, <3>3, <4>1, Constants
    <3>5. q \in Packet(ep'[n][elem.to].outgoing, elem.pid)
      BY <1>4, <1>6, <1>7, <3>1
    <3>6. elem.id \in FragIds(q) /\ now' - q.born <= QueueDelay
      BY <1>4, <1>10, <3>1, <3>4
    <3>7. QED
      BY <3>5, <3>6 DEF Queued
  <2>5. \A e \in Range(outqueue'[n]) : e.type = "fragment" => Queued(n, e)'
    BY <1>5, <1>8, <2>3, <2>4
  <2>6. QED
    BY <2>1, <2>2, <2>5 DEF QueueInv
<1>17. InInv'
  BY <1>9, <1>11, InSame DEF InInv
<1>18. ExpiredOnly(n, p)
  <2>1. \A q \in Range(ep[n][p].outgoing) : ~Old(q, now) => q \in Range(ep'[n][p].outgoing)
    BY <1>2, <1>6, <1>7
  <2>2. \A e \in Range(outqueue[n]) :
          Stays(e, p, Refresh(ep[n][p].outgoing, now)) => e \in Range(outqueue'[n])
    BY <1>3, <1>5, <1>8 DEF bucket
  <2>3. QED
    BY <1>8, <1>9, <2>1, <2>2 DEF ExpiredOnly
<1>19. QED
  BY <1>1, <1>12, <1>13, <1>14, <1>15, <1>16, <1>17, <1>18

(* One more message is sent.                                               *)
LEMMA AppendSent ==
  ASSUME TypeInv, NEW r \in SentRecs, sent' = Append(sent, r)
  PROVE  /\ sent' \in Seq(SentRecs) /\ Len(sent') = Len(sent) + 1 /\ Len(sent) \in Nat
         /\ sent'[Len(sent) + 1] = r
         /\ \A k \in 1 .. Len(sent) : sent'[k] = sent[k]
         /\ \A k \in 1 .. Len(sent') : k = Len(sent) + 1 \/ k \in 1 .. Len(sent)
         /\ 1 .. Len(sent) \subseteq 1 .. Len(sent') /\ Len(sent) + 1 \in 1 .. Len(sent')
<1>1. sent \in Seq(SentRecs) /\ Len(sent) \in Nat
  BY SentTypes DEF TypeInv
<1>2. /\ sent' \in Seq(SentRecs) /\ Len(sent') = Len(sent) + 1 /\ sent'[Len(sent) + 1] = r
      /\ \A k \in 1 .. Len(sent) : sent'[k] = sent[k]
  BY <1>1, AppendProperties
<1>3. QED
  BY <1>1, <1>2

LEMMA SinceAppend ==
  ASSUME TypeInv, NEW r \in SentRecs, sent' = Append(sent, r), NEW n, NEW p,
         NEW k \in 1 .. Len(sent) + 1
  PROVE  /\ Since(n, p, k) \in Nat
         /\ Since(n, p, k)' = IF r.from = n /\ r.to = p THEN Since(n, p, k) + 1 ELSE Since(n, p, k)
<1> DEFINE l == Len(sent) + 1
<1>1. /\ Len(sent) \in Nat /\ Len(sent') = l /\ sent'[l] = r
      /\ \A j \in 1 .. Len(sent) : sent'[j] = sent[j]
  BY AppendSent
<1>2. k \in Nat /\ k <= l
  BY <1>1
<1>3. IsFiniteSet(From(n, p, k)) /\ Since(n, p, k) \in Nat
  BY <1>2, FromFacts
<1>4. l \notin From(n, p, k)
  BY <1>1 DEF From
<1>5. \A j : j \in k .. l <=> j = l \/ j \in k .. Len(sent)
  BY <1>1, <1>2
<1>6. \A j \in k .. Len(sent) : j \in 1 .. Len(sent)
  BY <1>1
<1>7. From(n, p, k)' = IF r.from = n /\ r.to = p THEN From(n, p, k) \union {l} ELSE From(n, p, k)
  <2>1. From(n, p, k)' = {j \in k .. l : sent'[j].from = n /\ sent'[j].to = p}
    BY <1>1 DEF From
  <2> HIDE DEF l
  <2>2. \A j : j \in From(n, p, k)' <=> (j \in From(n, p, k) \/ (j = l /\ r.from = n /\ r.to = p))
    BY <1>1, <1>4, <1>5, <1>6, <2>1 DEF From
  <2>3. QED
    BY <2>2
<1>8. Since(n, p, k)' = Cardinality(From(n, p, k)')
  BY DEF Since
<1>9. Cardinality(From(n, p, k) \union {l}) = Cardinality(From(n, p, k)) + 1
  BY <1>3, <1>4, FS_AddElement
<1>10. QED
  BY <1>3, <1>7, <1>8, <1>9 DEF Since

LEMMA SendOnward ==
  ASSUME TypeInv, NEW n \in Nodes, NEW p \in Others(n), NEW r \in SentRecs,
         r.from = n, r.to = p, sent' = Append(sent, r), now' = now, restarted' = restarted,
         NEW l, l = Len(sent) + 1, NEW pid, pid = ep[n][p].out_id, ep'[n][p].out_id = NextId(pid),
         \A m \in Nodes : \A o \in Others(m) : m # n \/ o # p => ep'[m][o].out_id = ep[m][o].out_id
  PROVE  /\ Onward /\ \A m \in Nodes : StampsKept(m)
         /\ Stamped(n, p, l, pid)'
<1>1. /\ Len(sent) \in Nat /\ Len(sent') = Len(sent) + 1
      /\ \A j \in 1 .. Len(sent) : sent'[j] = sent[j]
  BY AppendSent
<1>2. ASSUME NEW m \in Nodes PROVE StampsKept(m)
  <2> SUFFICES ASSUME NEW o \in Others(m), NEW k \in 1 .. Len(sent), NEW id \in Ids,
                      Stamped(m, o, k, id)
               PROVE  Stamped(m, o, k, id)'
    BY DEF StampsKept
  <2>1. k \in 1 .. Len(sent) + 1 /\ id \in Nat
    BY <1>1, Constants DEF Ids
  <2>2. PICK s \in Nat : s = Since(m, o, k)
    BY <2>1, SinceAppend
  <2>3. (id + s) % PidMod = ep[m][o].out_id
    BY <2>2 DEF Stamped
  <2>4. CASE m = n /\ o = p
    <3>1. Since(m, o, k)' = s + 1
      BY <2>1, <2>2, <2>4, SinceAppend
    <3>2. PICK x \in Nat : x = id + s
      BY <2>1
    <3>3. NextId(x % PidMod) = (x + 1) % PidMod
      BY NextIdFacts
    <3>4. ep'[m][o].out_id = (x + 1) % PidMod
      BY <2>3, <2>4, <3>2, <3>3
    <3>5. x + 1 = id + (s + 1)
      BY <2>1, <3>2
    <3>6. (id + Since(m, o, k)') % PidMod = ep'[m][o].out_id
      BY <3>1, <3>4, <3>5
    <3>7. QED
      BY <3>6 DEF Stamped
  <2>5. CASE m # n \/ o # p
    <3>1. Since(m, o, k)' = s
      BY <2>1, <2>2, <2>5, SinceAppend
    <3>2. ep'[m][o].out_id = ep[m][o].out_id
      BY <2>5
    <3>3. QED
      BY <2>3, <3>1, <3>2 DEF Stamped
  <2>6. QED
    BY <2>4, <2>5
<1>3. Stamped(n, p, l, pid)'
  <2>1. l \in 1 .. Len(sent) + 1 /\ l \in Nat
    BY <1>1
  <2>2. From(n, p, l) = {}
    BY <1>1 DEF From
  <2>3. Since(n, p, l) = 0
    BY <2>2, FS_EmptySet DEF Since
  <2>4. Since(n, p, l)' = 0 + 1
    BY <2>1, <2>3, SinceAppend
  <2>5. ep'[n][p].out_id = (pid + 1) % PidMod
    BY DEF NextId
  <2>6. (pid + Since(n, p, l)') % PidMod = ep'[n][p].out_id
    BY <2>4, <2>5
  <2>7. QED
    BY <2>6 DEF Stamped
<1>4. Onward
  <2>1. restarted \in [Nodes -> Int]
    BY DEF TypeInv
  <2>2. QED
    BY <1>1, <1>2, <2>1 DEF Onward
<1>5. QED
  BY <1>2, <1>3, <1>4

LEMMA SendLog ==
  ASSUME TypeInv, LogInv, NEW n \in Nodes, NEW p \in Others(n), SentNow(n, p) < Rate,
         Len(sent) < Len(Sizes), NEW l, l = Len(sent) + 1, NEW r \in SentRecs,
         r.from = n, r.to = p, r.at = now, r.msg = <<l, Sizes[l]>>,
         sent' = Append(sent, r), now' = now
  PROVE  LogInv'
<1>1. /\ Len(sent') = l /\ Len(sent) \in Nat /\ sent'[l] = r /\ l \in 1 .. Len(sent')
      /\ \A k \in 1 .. Len(sent) : sent'[k] = sent[k]
      /\ \A k \in 1 .. Len(sent') : k = l \/ k \in 1 .. Len(sent)
      /\ 1 .. Len(sent) \subseteq 1 .. Len(sent')
  BY AppendSent
<1>2. now \in Nat /\ p # n /\ p \in Nodes
  BY SentTypes DEF Others
<1>3. Len(sent') <= Len(Sizes)
  BY <1>1, Constants
<1>4. \A k \in 1 .. Len(sent') :
        /\ sent'[k].msg = <<k, Sizes[k]>> /\ sent'[k].at <= now' /\ sent'[k].to # sent'[k].from
  <2> SUFFICES ASSUME NEW k \in 1 .. Len(sent')
               PROVE  /\ sent'[k].msg = <<k, Sizes[k]>> /\ sent'[k].at <= now'
                      /\ sent'[k].to # sent'[k].from
    OBVIOUS
  <2>1. CASE k = l
    BY <1>1, <1>2, <2>1
  <2>2. CASE k \in 1 .. Len(sent)
    <3>1. sent'[k] = sent[k]
      BY <1>1, <2>2
    <3>2. QED
      BY <2>2, <3>1 DEF LogInv
  <2>3. QED
    BY <1>1, <2>1, <2>2
<1>5. ASSUME NEW j \in 1 .. Len(sent'), NEW k \in 1 .. Len(sent'), j <= k
      PROVE  sent'[j].at <= sent'[k].at
  <2>1. CASE k = l
    BY <1>1, <1>4, <2>1
  <2>2. CASE k \in 1 .. Len(sent)
    <3>1. j \in 1 .. Len(sent)
      BY <1>1, <1>5, <2>2
    <3>2. sent'[k] = sent[k] /\ sent'[j] = sent[j]
      BY <1>1, <2>2, <3>1
    <3>3. QED
      BY <1>5, <2>2, <3>1, <3>2 DEF LogInv
  <2>3. QED
    BY <1>1, <2>1, <2>2
<1>6. ASSUME NEW m \in Nodes, NEW o \in Nodes, NEW t \in 0 .. now'
      PROVE  Cardinality(SentAt(m, o, t)') <= Rate
  <2>1. \A k : k \in SentAt(m, o, t)' <=> k \in SentAt(m, o, t) \/ (k = l /\ m = n /\ o = p /\ t = now)
    <3> TAKE k
    <3>1. k \in SentAt(m, o, t)' <=> /\ k \in 1 .. Len(sent') /\ sent'[k].from = m
                                     /\ sent'[k].to = o /\ sent'[k].at = t
      BY DEF SentAt
    <3>2. k \in SentAt(m, o, t) <=> /\ k \in 1 .. Len(sent) /\ sent[k].from = m
                                    /\ sent[k].to = o /\ sent[k].at = t
      BY DEF SentAt
    <3>3. l \notin 1 .. Len(sent)
      BY <1>1
    <3>4. CASE k = l
      BY <1>1, <3>1, <3>2, <3>3, <3>4
    <3>5. CASE k # l
      BY <1>1, <3>1, <3>2, <3>5
    <3>6. QED
      BY <3>4, <3>5
  <2>2. t \in 0 .. now
    OBVIOUS
  <2>3. CASE m = n /\ o = p /\ t = now
    <3>1. SentAt(m, o, t)' = SentAt(m, o, t) \union {l}
      BY <2>1, <2>3
    <3>2. l \notin SentAt(m, o, t)
      BY <1>1 DEF SentAt
    <3>3. IsFiniteSet(SentAt(m, o, t))
      <4>1. IsFiniteSet(1 .. Len(sent))
        <5>1. 1 \in Int /\ Len(sent) \in Int
          BY <1>1
        <5>2. QED
          BY <5>1, FS_Interval
      <4>2. SentAt(m, o, t) \subseteq 1 .. Len(sent)
        BY DEF SentAt
      <4>3. QED
        BY <4>1, <4>2, FS_Subset
    <3>4. Cardinality(SentAt(m, o, t)) \in Nat
      BY <3>3, FS_CardinalityType
    <3>5. Cardinality(SentAt(m, o, t)') = Cardinality(SentAt(m, o, t)) + 1
      BY <3>1, <3>2, <3>3, FS_AddElement
    <3>6. SentNow(n, p) = Cardinality(SentAt(m, o, t))
      <4>1. DOMAIN sent = 1 .. Len(sent)
        BY InRange DEF TypeInv
      <4>2. QED
        BY <2>3, <4>1 DEF SentNow, SentAt
    <3>7. PICK c \in Nat : c = Cardinality(SentAt(m, o, t))
      BY <3>4
    <3>8. c < Rate /\ Rate \in Nat /\ Cardinality(SentAt(m, o, t)') = c + 1
      BY <3>5, <3>6, <3>7, Constants
    <3>9. QED
      BY ONLY <3>7, <3>8
  <2>4. CASE ~(m = n /\ o = p /\ t = now)
    <3>1. SentAt(m, o, t)' = SentAt(m, o, t)
      BY <2>1, <2>4
    <3>2. QED
      BY <2>2, <3>1 DEF LogInv
  <2>5. QED
    BY <2>3, <2>4
<1>7. QED
  BY <1>3, <1>4, <1>5, <1>6 DEF LogInv

(* All of message l is queued by n for p.                                  *)
NewQueued(n, p, l) ==
  \E q \in Range(ep'[n][p].outgoing) :
    /\ q \in PacketRecs /\ q = NewPacket(q.pid, <<l, Sizes[l]>>, now)
    /\ \A id \in FragIds(q) : FragElem(p, q.pid, id) \in Range(outqueue'[n])

(* send_to_peer *)
LEMMA SendToPeerStep ==
  ASSUME IndInv, NEW n \in Nodes, NEW p \in Others(n), SendToPeer(n, p)
  PROVE  IndInv' /\ ExpiredOnly(n, p) /\ NewQueued(n, p, Len(sent) + 1)
<1> USE DEF IndInv
<1> DEFINE bucket == Refresh(ep[n][p].outgoing, now)
           queue == Unlink(outqueue[n], p, bucket)
<1>1. PICK l : l = Len(sent) + 1
  OBVIOUS
<1>2. PICK pid : pid = ep[n][p].out_id
  OBVIOUS
<1>3. PICK packet : packet = NewPacket(pid, <<l, Sizes[l]>>, now)
  OBVIOUS
<1>4. PICK r : r = [from |-> n, to |-> p, msg |-> <<l, Sizes[l]>>, at |-> now]
  OBVIOUS
<1> DEFINE x == [ep[n][p] EXCEPT !.out_id = NextId(pid), !.outgoing = AddPacket(bucket, packet)]
           next == IF corrupt' THEN queue ELSE EnqueuePacket(queue, p, packet)
<1>5. /\ Len(sent) < Len(Sizes) /\ SentNow(n, p) < Rate
      /\ corrupt' = (Packet(bucket, pid) # {})
      /\ ep' = [ep EXCEPT ![n][p] = x]
      /\ outqueue' = [outqueue EXCEPT ![n] = next]
      /\ sent' = Append(sent, r)
      /\ pending' = pending \union {l}
      /\ UNCHANGED <<now, net, restarted>>
  BY <1>1, <1>2, <1>3, <1>4 DEF SendToPeer
<1>6. /\ bucket \in Seq(PacketRecs) /\ Ordered(bucket)
      /\ Range(bucket) = {q \in Range(ep[n][p].outgoing) : ~Old(q, now)}
      /\ queue \in Seq(ElemRecs(n)) /\ Once(queue)
      /\ Range(queue) \subseteq Range(outqueue[n])
      /\ \A e \in Range(queue) : e.type = "fragment" /\ e.to = p =>
           \A q \in Packet(ep[n][p].outgoing, e.pid) : q \in Range(bucket)
  BY ExpiredOut
<1>7. \A e \in Range(outqueue[n]) : Stays(e, p, bucket) => e \in Range(queue)
  BY ExpiredStays
<1> HIDE DEF bucket, queue
<1>8. /\ now' = now /\ now' \in {now, now + 1} /\ InTime /\ now \in Nat /\ Len(sent) \in Nat
      /\ pid \in Ids /\ p \in Nodes /\ p # n
  BY <1>2, <1>5, SentTypes, EndpointTypes DEF InTime, Others
<1>9. l \in 1 .. Len(Sizes) /\ Sizes[l] \in Nat \ {0} /\ FragNum(Sizes[l]) \in Nat \ {0}
  <2>1. Len(Sizes) \in Nat
    BY Constants
  <2>2. l \in 1 .. Len(Sizes)
    BY <1>1, <1>5, <1>8, <2>1
  <2>3. QED
    BY <2>2, SizeFacts
<1>10. /\ r \in SentRecs /\ r.from = n /\ r.to = p /\ r.msg = <<l, Sizes[l]>> /\ r.at = now
  BY <1>4, <1>8, <1>9 DEF SentRecs
<1>11. Packet(bucket, pid) = {}
  <2> SUFFICES ASSUME NEW q \in Packet(bucket, pid) PROVE FALSE
    OBVIOUS
  <2>1. q \in Range(ep[n][p].outgoing) /\ ~Old(q, now) /\ q.pid = pid
    BY <1>6 DEF Packet
  <2>2. q \in PacketRecs
    BY <2>1, EndpointTypes, InRange
  <2>3. PICK k \in 1 .. Len(sent) : Went(n, p, k) /\ sent[k].at = q.born /\ Stamped(n, p, k, q.pid)
    BY <2>1 DEF OutInv, OutPacket
  <2>4. ~(now - q.born >= max_pkt_age) /\ q.born \in Nat
    BY <2>1, <2>2, PacketTypes DEF Old
  <2>5. max_pkt_age \in Nat
    BY Constants
  <2>6. now < q.born + max_pkt_age
    BY <1>8, <2>4, <2>5
  <2>7. now < sent[k].at + max_pkt_age
    BY <2>3, <2>6
  <2>8. QED
    BY <1>2, <1>5, <2>1, <2>3, <2>7, FreshId
<1>12. /\ packet \in PacketRecs /\ packet.pid = pid /\ packet.born = now
       /\ FragIds(packet) = 0 .. FragNum(Sizes[l]) - 1
  BY <1>3, <1>8, <1>9, NewPacketFacts
<1>13. ~corrupt'
  BY <1>5, <1>11
<1>14. \A q \in Range(bucket) : q \in PacketRecs /\ q.born <= packet.born
  <2> SUFFICES ASSUME NEW q \in Range(bucket) PROVE q \in PacketRecs /\ q.born <= packet.born
    OBVIOUS
  <2>1. q \in Range(ep[n][p].outgoing) /\ q \in PacketRecs
    BY <1>6, InRange
  <2>2. PICK k \in 1 .. Len(sent) : sent[k].at = q.born
    BY <2>1 DEF OutInv, OutPacket
  <2>3. sent[k].at <= now
    BY DEF LogInv
  <2>4. QED
    BY <1>12, <2>1, <2>2, <2>3
<1>15. /\ AddPacket(bucket, packet) \in Seq(PacketRecs)
       /\ Ordered(AddPacket(bucket, packet))
       /\ Range(AddPacket(bucket, packet)) = Range(bucket) \union {packet}
  <2>1. AddPacket(bucket, packet) = Append(bucket, packet)
    BY <1>11, <1>12 DEF AddPacket
  <2>2. QED
    BY <1>6, <1>11, <1>12, <1>14, <2>1, AppendBucket
<1>16. /\ x \in EndpointRecs /\ x.out_id = NextId(pid) /\ x.outgoing = AddPacket(bucket, packet)
       /\ x.incoming = ep[n][p].incoming
  <2>1. NextId(pid) \in Ids
    BY <1>8, NextIdFacts
  <2>2. QED
    BY <1>15, <2>1, EndpointTypes DEF EndpointRecs
<1> HIDE DEF x
<1>17. /\ ep' = [m \in Nodes |-> ep'[m]]
       /\ \A m \in Nodes : ep'[m] \in [Others(m) -> EndpointRecs]
       /\ ep'[n][p] = x
       /\ \A m \in Nodes : \A o \in Others(m) : m # n \/ o # p => ep'[m][o] = ep[m][o]
  <2>1. x \in EndpointRecs /\ ep' = [ep EXCEPT ![n][p] = x] /\ TypeInv
    BY <1>5, <1>16
  <2>2. QED
    BY ONLY ZenonT(30), <2>1, n \in Nodes, p \in Others(n), EpUpdate
<1>18. Unqueued(queue, p, packet.pid)
  <2> SUFFICES ASSUME NEW e \in Range(queue), e.type = "fragment", e.to = p, e.pid = pid
               PROVE  FALSE
    BY <1>12 DEF Unqueued
  <2>1. PICK q \in Packet(ep[n][p].outgoing, pid) : TRUE
    BY <1>6 DEF QueueInv, Queued
  <2>2. q \in Range(bucket) /\ q.pid = pid
    BY <1>6, <2>1 DEF Packet
  <2>3. QED
    BY <1>11, <2>2 DEF Packet
<1>19. /\ next \in Seq(ElemRecs(n)) /\ Once(next)
       /\ \A e : e \in Range(next) <=>
            e \in Range(queue) \/ \E id \in FragIds(packet) : e = FragElem(p, pid, id)
  <2>1. next = EnqueuePacket(queue, p, packet)
    BY <1>13
  <2>2. /\ EnqueuePacket(queue, p, packet) \in Seq(ElemRecs(n))
        /\ Once(EnqueuePacket(queue, p, packet))
        /\ \A e : e \in Range(EnqueuePacket(queue, p, packet)) <=>
             e \in Range(queue) \/ \E id \in FragIds(packet) : e = FragElem(p, packet.pid, id)
    <3>1. queue \in Seq(ElemRecs(n)) /\ Once(queue) /\ packet \in PacketRecs
      BY <1>6, <1>12
    <3>2. QED
      BY ONLY <1>18, <3>1, p \in Others(n), EnqueuePacketQueue
  <2>3. QED
    BY <1>12, <2>1, <2>2
<1> HIDE DEF next
<1>20. /\ outqueue' = [m \in Nodes |-> outqueue'[m]]
       /\ \A m \in Nodes : outqueue'[m] \in Seq(ElemRecs(m))
       /\ outqueue'[n] = next
       /\ \A m \in Nodes : m # n => outqueue'[m] = outqueue[m]
  BY <1>5, <1>19, OutqueueUpdate
<1>21. Onward /\ (\A m \in Nodes : StampsKept(m)) /\ Stamped(n, p, l, pid)'
  <2>1. ep'[n][p].out_id = NextId(pid)
    BY <1>16, <1>17
  <2>2. \A m \in Nodes : \A o \in Others(m) : m # n \/ o # p => ep'[m][o].out_id = ep[m][o].out_id
    BY <1>17
  <2>3. QED
    BY <1>1, <1>2, <1>5, <1>10, <2>1, <2>2, SendOnward
<1>22. /\ sent' \in Seq(SentRecs) /\ Len(sent') = l /\ sent'[l] = r
       /\ 1 .. Len(sent) \subseteq 1 .. Len(sent') /\ l \in 1 .. Len(sent')
  BY <1>1, <1>5, <1>10, AppendSent
<1>23. net' \in SUBSET GramRecs /\ NetInv'
  <2>1. \A d \in net' : now' - d.left <= NetDelay
    BY <1>5, <1>8 DEF NetInv
  <2>2. QED
    BY <1>5, <1>21, <2>1, NetStep
<1>24. TypeInv'
  <2>1. restarted' \in [Nodes -> Int] /\ now' \in Nat
    BY <1>5 DEF TypeInv
  <2>2. pending' \in SUBSET (1 .. Len(sent'))
    BY <1>5, <1>22 DEF TypeInv
  <2>3. QED
    BY <1>17, <1>20, <1>22, <1>23, <2>1, <2>2 DEF TypeInv
<1>25. LogInv'
  BY <1>1, <1>5, <1>8, <1>10, SendLog
<1>26. OutInv'
  <2>1. ASSUME NEW m \in Nodes, NEW o \in Others(m), m # n \/ o # p
        PROVE  /\ Ordered(ep[m][o].outgoing)'
               /\ \A q \in Range(ep'[m][o].outgoing) : OutPacket(m, o, q)'
    BY <1>17, <1>21, <2>1, OutSame
  <2>2. Ordered(ep[n][p].outgoing)'
    <3>1. ep'[n][p].outgoing = AddPacket(bucket, packet)
      BY <1>16, <1>17
    <3>2. QED
      BY <1>15, <3>1 DEF Ordered
  <2>3. ASSUME NEW q \in Range(bucket) PROVE OutPacket(n, p, q)'
    <3>1. q \in PacketRecs /\ OutPacket(n, p, q)
      BY <1>6, <1>14 DEF OutInv
    <3>2. QED
      BY <1>21, <3>1, OutPacketKept
  <2>4. OutPacket(n, p, packet)'
    <3>1. Went(n, p, l)'
      BY <1>10, <1>22 DEF Went
    <3>2. sent'[l].at = packet.born /\ packet = NewPacket(packet.pid, sent'[l].msg, packet.born)
      BY <1>3, <1>10, <1>12, <1>22
    <3>3. Stamped(n, p, l, packet.pid)'
      BY <1>12, <1>21
    <3>4. QED
      BY <1>22, <3>1, <3>2, <3>3 DEF OutPacket
  <2>5. \A q \in Range(ep'[n][p].outgoing) : OutPacket(n, p, q)'
    BY <1>15, <1>16, <1>17, <2>3, <2>4
  <2>6. QED
    BY <2>1, <2>2, <2>5 DEF OutInv
<1>27. QueueInv'
  <2>1. ASSUME NEW m \in Nodes, m # n
        PROVE  /\ Once(outqueue[m])'
               /\ \A e \in Range(outqueue'[m]) : e.type = "fragment" => Queued(m, e)'
    BY <1>8, <1>17, <1>20, <2>1, QueueSame
  <2>2. Once(outqueue[n])'
    BY <1>19, <1>20 DEF Once
  <2>3. ASSUME NEW e \in Range(queue), e.type = "fragment" PROVE Queued(n, e)'
    <3>1. e \in ElemRecs(n) /\ e \in Range(outqueue[n])
      BY <1>6, InRange
    <3>2. e.to \in Others(n)
      BY <3>1 DEF ElemRecs
    <3>3. PICK q \in Packet(ep[n][e.to].outgoing, e.pid) : e.id \in FragIds(q) /\ now - q.born <= QueueDelay
      BY <2>3, <3>1 DEF QueueInv, Queued
    <3>4. q \in Range(ep'[n][e.to].outgoing)
      <4>1. CASE e.to = p
        BY <1>6, <1>15, <1>16, <1>17, <2>3, <3>3, <4>1
      <4>2. CASE e.to # p
        BY <1>17, <3>2, <3>3, <4>2 DEF Packet
      <4>3. QED
        BY <4>1, <4>2
    <3>5. q \in Packet(ep'[n][e.to].outgoing, e.pid) /\ now' - q.born <= QueueDelay
      BY <1>8, <3>3, <3>4 DEF Packet
    <3>6. QED
      BY <3>3, <3>5 DEF Queued
  <2>4. ASSUME NEW id \in FragIds(packet), NEW e, e = FragElem(p, pid, id) PROVE Queued(n, e)'
    <3>1. e.to = p /\ e.pid = pid /\ e.id = id
      BY <2>4 DEF FragElem
    <3>2. packet \in Packet(ep'[n][e.to].outgoing, e.pid)
      BY <1>12, <1>15, <1>16, <1>17, <3>1 DEF Packet
    <3>3. now' - packet.born <= QueueDelay
      BY <1>8, <1>12, Constants
    <3>4. QED
      BY <3>1, <3>2, <3>3 DEF Queued
  <2>5. \A e \in Range(outqueue'[n]) : e.type = "fragment" => Queued(n, e)'
    BY <1>19, <1>20, <2>3, <2>4
  <2>6. QED
    BY <2>1, <2>2, <2>5 DEF QueueInv
<1>28. InInv'
  <2>1. \A m \in Nodes : \A o \in Others(m) : ep'[m][o].incoming = ep[m][o].incoming
    BY <1>16, <1>17
  <2>2. QED
    BY <1>21, <2>1, InSame DEF InInv
<1>29. ExpiredOnly(n, p)
  <2>1. \A q \in Range(ep[n][p].outgoing) : ~Old(q, now) => q \in Range(ep'[n][p].outgoing)
    BY <1>6, <1>15, <1>16, <1>17
  <2>2. \A e \in Range(outqueue[n]) :
          Stays(e, p, Refresh(ep[n][p].outgoing, now)) => e \in Range(outqueue'[n])
    BY <1>7, <1>19, <1>20 DEF bucket
  <2>3. \A m \in Nodes : \A o \in Others(m) :
          /\ ep'[m][o].incoming = ep[m][o].incoming
          /\ m # n \/ o # p => ep'[m][o].outgoing = ep[m][o].outgoing
    BY <1>16, <1>17
  <2>4. QED
    BY <1>20, <2>1, <2>2, <2>3 DEF ExpiredOnly
<1>30. NewQueued(n, p, Len(sent) + 1)
  <2>1. packet \in Range(ep'[n][p].outgoing) /\ packet = NewPacket(packet.pid, <<l, Sizes[l]>>, now)
    BY <1>3, <1>12, <1>15, <1>16, <1>17
  <2>2. \A id \in FragIds(packet) : FragElem(p, packet.pid, id) \in Range(outqueue'[n])
    BY <1>12, <1>19, <1>20
  <2>3. QED
    BY <1>1, <1>12, <2>1, <2>2 DEF NewQueued
<1>31. QED
  BY <1>13, <1>23, <1>24, <1>25, <1>26, <1>27, <1>28, <1>29, <1>30

LEMMA GramFacts ==
  ASSUME IndInv, NEW d \in net
  PROVE  /\ d \in GramRecs /\ d.from \in Nodes /\ d.to \in Others(d.from) /\ d.to \in Nodes
         /\ d.from \in Others(d.to) /\ d.pid \in Ids /\ d.num \in Nat /\ d.id \in Nat
         /\ d.data \in Data /\ d.left \in Nat /\ now \in Nat
         /\ d.left <= now /\ now <= d.left + NetDelay
<1>1. d \in GramRecs /\ now \in Nat
  BY DEF IndInv, TypeInv
<1>2. /\ d.from \in Nodes /\ d.to \in Nodes /\ d.pid \in Ids /\ d.num \in Nat /\ d.id \in Nat
      /\ d.data \in Data /\ d.left \in Nat
  BY <1>1 DEF GramRecs
<1>3. d.to # d.from /\ d.left <= now /\ now - d.left <= NetDelay
  BY DEF IndInv, NetInv
<1>4. NetDelay \in Nat
  BY Constants
<1>5. now <= d.left + NetDelay
  BY <1>1, <1>2, <1>3, <1>4
<1>6. QED
  BY <1>1, <1>2, <1>3, <1>5 DEF Others

(* What is written in a packet, complete or not.                           *)
Held(n, p, q) ==
  \A id \in FragIds(q) \ Missing(q) : \E k \in 1 .. Len(sent) : Holds(n, p, q, id, k)

(* packet_bucket_add_fragment finds a packet that has something of the     *)
(* message in it, or begins a new one.                                     *)
LEMMA TouchBucket ==
  ASSUME IndInv, NEW d \in net, NEW n, n = d.to, NEW p, p = d.from, NEW bucket,
         bucket = Touch(Refresh(ep[n][p].incoming, now), d, now)
  PROVE  /\ bucket \in Seq(PacketRecs) /\ Ordered(bucket)
         /\ \A q \in Range(bucket) : q.pid # d.pid => q \in Range(ep[n][p].incoming)
         /\ \A q \in Range(ep[n][p].incoming) : ~Old(q, now) => q \in Range(bucket)
         /\ \E q \in Range(bucket) :
              /\ q.pid = d.pid
              /\ \/ q \in Range(ep[n][p].incoming) /\ ~Old(q, now)
                 \/ q = EmptyPacket(d.pid, d.num, now)
<1> USE DEF IndInv
<1> DEFINE b == Refresh(ep[n][p].incoming, now)
           new == EmptyPacket(d.pid, d.num, now)
<1>1. /\ n \in Nodes /\ p \in Others(n) /\ d.pid \in Ids /\ d.num \in Nat /\ now \in Nat
  BY GramFacts
<1>2. ep[n][p].incoming \in Seq(PacketRecs) /\ Ordered(ep[n][p].incoming)
  BY <1>1, EndpointTypes DEF InInv
<1>3. /\ b \in Seq(PacketRecs) /\ Ordered(b)
      /\ Range(b) = {q \in Range(ep[n][p].incoming) : ~Old(q, now)}
  BY <1>1, <1>2, RefreshBucket
<1>4. bucket = IF Packet(b, d.pid) = {} THEN Append(b, new) ELSE b
  BY DEF Touch
<1> HIDE DEF b
<1>5. CASE Packet(b, d.pid) = {}
  <2>1. new \in PacketRecs /\ new.pid = d.pid /\ new.born = now
    BY <1>1, EmptyPacketFacts
  <2>2. bucket = Append(b, new)
    BY <1>4, <1>5
  <2>3. \A q \in Range(b) : q.born <= new.born
    BY <1>1, <1>3, <2>1 DEF InInv, InPacket
  <2> HIDE DEF new
  <2>4. bucket \in Seq(PacketRecs) /\ Ordered(bucket) /\ Range(bucket) = Range(b) \union {new}
    BY <1>3, <1>5, <2>1, <2>2, <2>3, AppendBucket
  <2>5. new \in Range(bucket) /\ new = EmptyPacket(d.pid, d.num, now)
    BY <2>4 DEF new
  <2>6. \A q \in Range(bucket) : q.pid # d.pid => q \in Range(ep[n][p].incoming)
    BY <1>3, <2>1, <2>4
  <2>7. \A q \in Range(ep[n][p].incoming) : ~Old(q, now) => q \in Range(bucket)
    BY <1>3, <2>4
  <2>8. QED
    BY <2>1, <2>4, <2>5, <2>6, <2>7
<1>6. CASE Packet(b, d.pid) # {}
  <2>1. bucket = b
    BY <1>4, <1>6
  <2>2. PICK q \in Range(b) : q.pid = d.pid
    BY <1>6 DEF Packet
  <2>3. q \in Range(bucket) /\ q \in Range(ep[n][p].incoming) /\ ~Old(q, now)
    BY <1>3, <2>1, <2>2
  <2>4. QED
    BY <1>3, <2>1, <2>2, <2>3
<1>7. QED
  BY <1>5, <1>6

(* A settled packet only takes fragments of the message begun: no other one*)
(* has its id.                                                             *)
LEMMA SameInside ==
  ASSUME IndInv, NEW d \in net, NEW n, n = d.to, NEW p, p = d.from, NEW k, Carries(d, k),
         NEW q \in PacketRecs, q.pid = d.pid, q.born <= now, ~Old(q, now), Settled(p, q)
  PROVE  /\ Stamped(p, n, k, d.pid)
         /\ \A id \in FragIds(q) : \A j \in 1 .. Len(sent) : Holds(n, p, q, id, j) => j = k
<1> USE DEF IndInv
<1>1. /\ n \in Nodes /\ p \in Others(n) /\ d.pid \in Ids /\ now \in Nat /\ d.left \in Nat
      /\ d.left <= now /\ now <= d.left + NetDelay /\ p \in Nodes
  BY GramFacts
<1>2. k \in 1 .. Len(sent) /\ Went(p, n, k)
  BY DEF Carries, Went
<1>3. PICK a \in Nat : a = sent[k].at
  BY <1>2, SentTypes
<1>4. PICK born \in Nat : born = q.born
  BY PacketTypes
<1>5. PICK left \in Nat : left = d.left
  BY <1>1
<1>6. PICK r \in Int : r = restarted[p]
  BY <1>1 DEF TypeInv
<1>7. max_pkt_age \in Nat /\ max_pkt_age # 0 /\ QueueDelay \in Nat /\ NetDelay \in Nat
  BY Constants
<1>8. a <= left /\ left - a <= QueueDelay
  BY <1>3, <1>5 DEF Carries
<1>9. born <= now /\ ~(now - born >= max_pkt_age)
  BY <1>4 DEF Old
<1>10. born > r + NetDelay
  BY <1>4, <1>6 DEF Settled
<1>11. left <= now /\ now <= left + NetDelay
  BY <1>1, <1>5
<1>12. left > r
  BY <1>1, <1>7, <1>9, <1>10, <1>11
<1>13. Stamped(p, n, k, d.pid)
  BY <1>5, <1>6, <1>12 DEF Carries
<1>14. ASSUME NEW id \in FragIds(q), NEW j \in 1 .. Len(sent), Holds(n, p, q, id, j)
       PROVE  j = k
  <2>1. PICK c \in Nat : c = sent[j].at
    BY SentTypes
  <2>2. Went(p, n, j) /\ Stamped(p, n, j, d.pid) /\ born <= c + NetDelay + QueueDelay /\ c <= born
    BY <1>4, <1>14, <2>1 DEF Holds
  <2>3. a < c + max_pkt_age + QueueDelay + NetDelay /\ c < a + max_pkt_age + QueueDelay + NetDelay
    <3>1. now \in Nat
      BY <1>1
    <3>2. born <= c + NetDelay + QueueDelay /\ c <= born
      BY <2>2
    <3>3. now < born + max_pkt_age /\ born <= now
      BY ONLY <1>7, <1>9, <3>1, born \in Nat
    <3>4. a <= now /\ now <= a + QueueDelay + NetDelay
      BY ONLY <1>7, <1>8, <1>11, <3>1, a \in Nat, left \in Nat
    <3>5. a < c + max_pkt_age + QueueDelay + NetDelay
      BY ONLY <1>7, <3>1, <3>2, <3>3, <3>4, a \in Nat, born \in Nat, c \in Nat
    <3>6. c < a + max_pkt_age + QueueDelay + NetDelay
      BY ONLY <1>7, <3>1, <3>2, <3>3, <3>4, a \in Nat, born \in Nat, c \in Nat
    <3>7. QED
      BY <3>5, <3>6
  <2>4. /\ sent[k].at < sent[j].at + max_pkt_age + QueueDelay + NetDelay
        /\ sent[j].at < sent[k].at + max_pkt_age + QueueDelay + NetDelay
    BY <1>3, <2>1, <2>3
  <2>5. QED
    BY <1>1, <1>2, <1>13, <2>2, <2>4, SameMessage
<1>15. QED
  BY <1>13, <1>14

LEMMA AddFragmentBucket ==
  ASSUME IndInv, NEW d \in net, NEW n, n = d.to, NEW p, p = d.from, NEW bucket,
         bucket = AddFragment(Refresh(ep[n][p].incoming, now), d, now),
         NEW packet, packet = The(Packet(bucket, d.pid))
  PROVE  /\ bucket \in Seq(PacketRecs) /\ Ordered(bucket)
         /\ packet \in Range(bucket) /\ packet \in PacketRecs /\ packet.pid = d.pid
         /\ packet.born <= now /\ ~Old(packet, now)
         /\ \A q \in Range(bucket) : q.pid # d.pid => q \in Range(ep[n][p].incoming)
         /\ \A q \in Range(ep[n][p].incoming) :
              q.pid # d.pid /\ ~Old(q, now) => q \in Range(bucket)
         /\ Held(n, p, packet)
         /\ \A q \in Range(ep[n][p].incoming) : q.pid = d.pid /\ ~Old(q, now) =>
              /\ FragIds(packet) = FragIds(q) /\ packet.born = q.born
              /\ \A id \in FragIds(q) : id # d.id => packet.frags[id] = q.frags[id]
         /\ Missing(packet) # FragIds(packet)
         /\ IF d.id \in FragIds(packet) THEN packet.frags[d.id] = d.data ELSE Missing(packet) # {}
<1> USE DEF IndInv
<1> DEFINE b == Touch(Refresh(ep[n][p].incoming, now), d, now)
<1>1. /\ n \in Nodes /\ p \in Others(n) /\ d.pid \in Ids /\ now \in Nat /\ d.left \in Nat
      /\ d.left <= now /\ now <= d.left + NetDelay /\ p \in Nodes /\ d.data \in Data
      /\ d.num \in Nat /\ d.id \in Nat
  BY GramFacts
<1>2. /\ b \in Seq(PacketRecs) /\ Ordered(b)
      /\ \A q \in Range(b) : q.pid # d.pid => q \in Range(ep[n][p].incoming)
      /\ \A q \in Range(ep[n][p].incoming) : ~Old(q, now) => q \in Range(b)
  BY TouchBucket
<1>3. PICK q \in Range(b) :
        /\ q.pid = d.pid
        /\ \/ q \in Range(ep[n][p].incoming) /\ ~Old(q, now)
           \/ q = EmptyPacket(d.pid, d.num, now)
  BY TouchBucket
<1>4. bucket = WriteFragment(b, d)
  BY DEF AddFragment
<1> HIDE DEF b
<1>5. /\ bucket \in Seq(PacketRecs) /\ Ordered(bucket)
      /\ \A x : x \in Range(bucket) <=> \E y \in Range(b) : x = Written(y, d)
  <2>1. /\ bucket \in Seq(PacketRecs) /\ Ordered(bucket)
        /\ Range(bucket) = {Written(y, d) : y \in Range(b)}
    BY <1>1, <1>2, <1>4, WriteFragmentBucket
  <2>2. QED
    BY <2>1
<1>6. q \in PacketRecs
  BY <1>2, <1>3, InRange
<1> DEFINE w == Written(q, d)
<1>7. /\ w \in PacketRecs /\ w.pid = d.pid /\ w.born = q.born /\ FragIds(w) = FragIds(q)
      /\ \A id \in FragIds(q) : w.frags[id] = IF id = d.id THEN d.data ELSE q.frags[id]
  BY <1>1, <1>3, <1>6, WrittenFacts
<1>8. w \in Range(bucket)
  BY <1>3, <1>5
<1>9. \A x \in Range(b) : x.pid # d.pid => Written(x, d) = x
  BY DEF Written
<1> HIDE DEF w
<1>10. packet = w
  BY <1>5, <1>7, <1>8, UniquePacket
<1>11. \A x \in Range(bucket) : x.pid # d.pid => x \in Range(ep[n][p].incoming)
  <2> SUFFICES ASSUME NEW x \in Range(bucket), x.pid # d.pid PROVE x \in Range(ep[n][p].incoming)
    OBVIOUS
  <2>1. PICK y \in Range(b) : x = Written(y, d)
    BY <1>5
  <2>2. y \in PacketRecs
    BY <1>2, InRange
  <2>3. y.pid = x.pid
    BY <1>1, <2>1, <2>2, WrittenFacts
  <2>4. x = y
    BY <1>9, <2>1, <2>3
  <2>5. QED
    BY <1>2, <2>3, <2>4
<1>12. \A x \in Range(ep[n][p].incoming) : x.pid # d.pid /\ ~Old(x, now) => x \in Range(bucket)
  BY <1>2, <1>5, <1>9
<1>13. \A x \in Range(ep[n][p].incoming) : x.pid = d.pid /\ ~Old(x, now) => x = q
  <2> SUFFICES ASSUME NEW x \in Range(ep[n][p].incoming), x.pid = d.pid, ~Old(x, now) PROVE x = q
    OBVIOUS
  <2>1. x \in Range(b)
    BY <1>2
  <2>2. Packet(b, q.pid) = {q} /\ x \in Packet(b, q.pid)
    BY <1>2, <1>3, <2>1, UniquePacket DEF Packet
  <2>3. QED
    BY <2>2
<1>14. PICK k \in 1 .. Len(sent) : Carries(d, k)
  BY DEF NetInv
<1>15. /\ Went(p, n, k) /\ d.data = Piece(sent[k].msg, d.id) /\ d.num = FragNum(Sizes[k])
       /\ d.id \in 0 .. d.num - 1
  BY <1>14 DEF Carries
<1>16. d.data # NoData
  BY <1>15, PieceFacts
<1>17. q.born \in Nat /\ q.born <= now /\ ~Old(q, now)
  <2>1. CASE q \in Range(ep[n][p].incoming) /\ ~Old(q, now)
    BY <1>1, <1>6, <2>1, PacketTypes DEF InInv, InPacket
  <2>2. CASE q = EmptyPacket(d.pid, d.num, now)
    <3>1. q.born = now
      BY <2>2 DEF EmptyPacket
    <3>2. max_pkt_age \in Nat \ {0}
      BY Constants
    <3>3. QED
      BY <1>1, <3>1, <3>2 DEF Old
  <2>3. QED
    BY <1>3, <2>1, <2>2
<1>18. ~Old(w, now) /\ w.born <= now
  BY <1>7, <1>17 DEF Old
<1>19. \/ q \in Range(ep[n][p].incoming) /\ InPacket(n, p, q) /\ q # EmptyPacket(d.pid, d.num, now)
       \/ FragIds(q) = 0 .. d.num - 1 /\ q.born = now /\ \A id \in FragIds(q) : q.frags[id] = NoData
  <2>1. PICK pid, num : pid \in Ids /\ num \in Nat /\ pid = d.pid /\ num = d.num
    BY <1>1
  <2>2. PICK new : new = EmptyPacket(pid, num, now)
    OBVIOUS
  <2>3. /\ FragIds(new) = 0 .. num - 1 /\ new.born = now
        /\ \A id \in FragIds(new) : new.frags[id] = NoData
    <3>1. pid \in Ids /\ num \in Nat /\ now \in Nat /\ new = EmptyPacket(pid, num, now)
      BY <1>1, <2>1, <2>2
    <3>2. QED
      BY ONLY <3>1 DEF EmptyPacket, FragIds
  <2>4. new = EmptyPacket(d.pid, d.num, now)
    BY <2>1, <2>2
  <2>5. CASE q = new
    BY <2>1, <2>3, <2>5
  <2>6. CASE q # new
    <3>1. q \in Range(ep[n][p].incoming)
      BY <1>3, <2>4, <2>6
    <3>2. InPacket(n, p, q)
      BY <1>1, <3>1 DEF InInv
    <3>3. QED
      BY <2>4, <2>6, <3>1, <3>2
  <2>7. QED
    BY <2>5, <2>6
<1>20. CASE d.id \notin FragIds(q)
  <2>1. q \in Range(ep[n][p].incoming) /\ InPacket(n, p, q)
    BY <1>15, <1>19, <1>20
  <2>2. w = q
    BY <1>20 DEF w, Written
  <2>3. Held(n, p, w) /\ Missing(w) # {} /\ Missing(w) # FragIds(w)
    BY <2>1, <2>2 DEF InPacket, Held
  <2>4. QED
    BY <1>5, <1>7, <1>8, <1>10, <1>11, <1>12, <1>13, <1>18, <1>20, <2>3, SMTT(30)
<1>21. CASE d.id \in FragIds(q)
  <2>1. w.frags[d.id] = d.data /\ d.id \in FragIds(w)
    BY <1>7, <1>21
  <2>2. d.id \notin Missing(w)
    BY <1>16, <2>1 DEF Missing
  <2>3. Missing(w) # FragIds(w)
    BY <2>1, <2>2
  <2>4. ASSUME Settled(p, q)
        PROVE  /\ Stamped(p, n, k, d.pid) /\ FragIds(q) = 0 .. FragNum(Sizes[k]) - 1
               /\ sent[k].at <= q.born
    <3>1. /\ Stamped(p, n, k, d.pid)
          /\ \A id \in FragIds(q) : \A j \in 1 .. Len(sent) : Holds(n, p, q, id, j) => j = k
      BY <1>3, <1>6, <1>14, <1>17, <2>4, SameInside
    <3>2. CASE InPacket(n, p, q)
      <4>1. Missing(q) \subseteq FragIds(q)
        BY DEF Missing
      <4>2. PICK id \in FragIds(q) \ Missing(q) : TRUE
        BY <3>2, <4>1 DEF InPacket
      <4>3. PICK j \in 1 .. Len(sent) : Holds(n, p, q, id, j)
        BY <3>2 DEF InPacket
      <4>4. j = k
        BY <3>1, <4>3
      <4>5. QED
        BY <2>4, <3>1, <4>3, <4>4 DEF Holds
    <3>3. CASE FragIds(q) = 0 .. d.num - 1 /\ q.born = now
      <4>1. sent[k].at <= now
        BY DEF LogInv
      <4>2. QED
        BY <1>15, <3>1, <3>3, <4>1
    <3>4. QED
      BY <1>19, <3>2, <3>3
  <2>5. Holds(n, p, w, d.id, k)
    <3>1. w.frags[d.id] = Piece(sent[k].msg, d.id)
      BY <1>15, <2>1
    <3>2. w.born <= sent[k].at + NetDelay + QueueDelay /\ sent[k].at < w.born + max_pkt_age
      <4>1. PICK a \in Nat : a = sent[k].at
        BY SentTypes
      <4>2. PICK born \in Nat : born = w.born
        BY <1>7, <1>17
      <4>3. PICK left \in Nat : left = d.left
        BY <1>1
      <4>4. max_pkt_age \in Nat /\ QueueDelay \in Nat /\ NetDelay \in Nat
        BY Constants
      <4>5. a <= left /\ left - a <= QueueDelay
        BY <1>14, <4>1, <4>3 DEF Carries
      <4>6. born <= now /\ ~(now - born >= max_pkt_age)
        BY <1>18, <4>2 DEF Old
      <4>7. left <= now /\ now <= left + NetDelay
        BY <1>1, <4>3
      <4>8. born <= a + NetDelay + QueueDelay /\ a < born + max_pkt_age
        BY <1>1, <4>4, <4>5, <4>6, <4>7
      <4>9. QED
        BY <4>1, <4>2, <4>8
    <3>3. ASSUME Settled(p, w)
          PROVE  /\ Stamped(p, n, k, w.pid) /\ FragIds(w) = 0 .. FragNum(Sizes[k]) - 1
                 /\ sent[k].at <= w.born
      <4>1. Settled(p, q)
        BY <1>7, <3>3 DEF Settled
      <4>2. QED
        BY <1>7, <2>4, <4>1
    <3>4. QED
      BY <1>15, <3>1, <3>2, <3>3 DEF Holds
  <2>6. ASSUME NEW id \in FragIds(w) \ Missing(w), id # d.id
        PROVE  \E j \in 1 .. Len(sent) : Holds(n, p, w, id, j)
    <3>1. id \in FragIds(q) /\ w.frags[id] = q.frags[id]
      BY <1>7, <2>6
    <3>2. id \in FragIds(q) \ Missing(q)
      BY <2>6, <3>1 DEF Missing
    <3>3. q.frags[id] # NoData
      BY <3>2 DEF Missing
    <3>4. InPacket(n, p, q)
      BY <1>19, <3>1, <3>3
    <3>5. PICK j \in 1 .. Len(sent) : Holds(n, p, q, id, j)
      BY <3>2, <3>4 DEF InPacket
    <3>6. Holds(n, p, w, id, j)
      BY <1>3, <1>7, <3>1, <3>5 DEF Holds, Settled
    <3>7. QED
      BY <3>6
  <2>7. Held(n, p, w)
    BY <2>5, <2>6 DEF Held
  <2>8. QED
    BY <1>5, <1>7, <1>8, <1>10, <1>11, <1>12, <1>13, <1>18, <2>1, <2>3, <2>7
<1>22. QED
  BY ONLY Zenon, <1>20, <1>21

(* recv_from_peer: the bucket with the fragment added, its packet, and what*)
(* becomes of the bucket, the queue and the result.                        *)
Bucket(d) == AddFragment(Refresh(ep[d.to][d.from].incoming, now), d, now)
Arrived(d) == The(Packet(Bucket(d), d.pid))
Ready(d) == d.id \in FragIds(Arrived(d)) /\ Missing(Arrived(d)) = {}
BucketLeft(d, t) == IF Ready(d) THEN PopPacket(Bucket(d), d.pid, t) ELSE Bucket(d)
QueueLeft(d) ==
  IF d.id \in FragIds(Arrived(d)) THEN EnqueueRequests(outqueue[d.to], d.from, Arrived(d))
  ELSE outqueue[d.to]
Returned(d, t) ==
  IF ~Ready(d) \/ (/\ Packet(Refresh(Bucket(d), t), d.pid) # {}
                   /\ DumpData(Arrived(d), buffer_size) = << >>)
    THEN NoMessage
  ELSE IF Packet(Refresh(Bucket(d), t), d.pid) # {}
    THEN Message(d, DumpData(Arrived(d), buffer_size)) ELSE Garbage

LEMMA ReceiveFacts ==
  ASSUME now \in Nat, NEW d \in net, NEW t, ReceiveFragment(d, t)
  PROVE  /\ InTime /\ now' = t /\ t \in Nat /\ now' \in {now, now + 1}
         /\ ~Ready(d) => now' = now
         /\ net' \subseteq net /\ \A x \in net' : now' - x.left <= NetDelay
         /\ \A x \in net : x # d /\ now' - x.left <= NetDelay => x \in net'
         /\ ep' = [ep EXCEPT ![d.to][d.from].incoming = BucketLeft(d, t)]
         /\ outqueue' = [outqueue EXCEPT ![d.to] = QueueLeft(d)]
         /\ result' = Returned(d, t)
         /\ \A k : k \in pending' <=> k \in pending /\ ~Whole(result', sent[k])
         /\ UNCHANGED <<corrupt, sent, restarted>>
<1>1. t = now \/ (Ready(d) /\ t = now + 1 /\ MayTick)
  BY ONLY ZenonT(30), ReceiveFragment(d, t) DEF ReceiveFragment, Ready, Arrived, Bucket
<1>2. now' = t /\ Take(d, t) /\ UNCHANGED <<corrupt, sent, restarted>>
  BY ONLY Zenon, ReceiveFragment(d, t) DEF ReceiveFragment
<1>3. ep' = [ep EXCEPT ![d.to][d.from].incoming = BucketLeft(d, t)]
  BY ONLY SMTT(30), ReceiveFragment(d, t) DEF ReceiveFragment, BucketLeft, Ready, Arrived, Bucket
<1>4. outqueue' = [outqueue EXCEPT ![d.to] = QueueLeft(d)]
  BY ONLY ReceiveFragment(d, t) DEF ReceiveFragment, QueueLeft, Arrived, Bucket
<1>5. result' = Returned(d, t)
  BY ONLY Zenon, ReceiveFragment(d, t) DEF ReceiveFragment, Returned, Ready, Arrived, Bucket
<1>6. pending' = {k \in pending : ~Whole(result', sent[k])}
  BY ONLY Zenon, ReceiveFragment(d, t) DEF ReceiveFragment
<1>7. \A k : k \in pending' <=> k \in pending /\ ~Whole(result', sent[k])
  BY ONLY <1>6
<1>8. net' \subseteq net /\ \A x \in net' : now' - x.left <= NetDelay
  BY <1>2 DEF Take
<1>9. \A x \in net : x # d /\ now' - x.left <= NetDelay => x \in net'
  BY <1>2 DEF Take
<1>10. InTime /\ t \in Nat /\ now' \in {now, now + 1} /\ (~Ready(d) => now' = now)
  BY <1>1, <1>2 DEF InTime
<1>11. QED
  BY ONLY Zenon, <1>2, <1>3, <1>4, <1>5, <1>7, <1>8, <1>9, <1>10

LEMMA PopBucket ==
  ASSUME NEW b \in Seq(PacketRecs), Ordered(b), NEW pid, NEW t \in Nat
  PROVE  /\ PopPacket(b, pid, t) \in Seq(PacketRecs) /\ Ordered(PopPacket(b, pid, t))
         /\ Range(PopPacket(b, pid, t)) = {q \in Range(b) : ~Old(q, t) /\ q.pid # pid}
<1> DEFINE r == Refresh(b, t)
<1>1. r \in Seq(PacketRecs) /\ Ordered(r) /\ Range(r) = {q \in Range(b) : ~Old(q, t)}
  BY RefreshBucket
<1> HIDE DEF r
<1>2. /\ Without(r, pid) \in Seq(PacketRecs) /\ Ordered(Without(r, pid))
      /\ Range(Without(r, pid)) = {q \in Range(r) : q.pid # pid}
  BY <1>1, WithoutBucket
<1>3. PopPacket(b, pid, t) = Without(r, pid)
  BY DEF PopPacket, r
<1>4. QED
  BY <1>1, <1>2, <1>3

(* Nothing but the receiver's bucket of what came from the sender changes. *)
ReceivedOnly(d, t) ==
  /\ ep'[d.to][d.from].incoming = BucketLeft(d, t)
  /\ \A m \in Nodes : \A o \in Others(m) :
       /\ ep'[m][o].outgoing = ep[m][o].outgoing
       /\ m # d.to \/ o # d.from => ep'[m][o].incoming = ep[m][o].incoming
  /\ \A m \in Nodes : \A e \in Range(outqueue[m]) :
       e.type = "fragment" => e \in Range(outqueue'[m])

(* recv_from_peer, fragment *)
LEMMA ReceiveFragmentStep ==
  ASSUME IndInv, NEW d \in net, NEW t, ReceiveFragment(d, t)
  PROVE  IndInv' /\ ReceivedOnly(d, t)
<1> USE DEF IndInv
<1>1. PICK n : n = d.to
  OBVIOUS
<1>2. PICK p : p = d.from
  OBVIOUS
<1>3. PICK bucket : bucket = Bucket(d)
  OBVIOUS
<1>4. PICK packet : packet = Arrived(d)
  OBVIOUS
<1>5. PICK left : left = BucketLeft(d, t)
  OBVIOUS
<1>6. PICK next : next = QueueLeft(d)
  OBVIOUS
<1>7. /\ InTime /\ now' = t /\ t \in Nat /\ now' \in {now, now + 1}
      /\ net' \subseteq net /\ \A x \in net' : now' - x.left <= NetDelay
      /\ ep' = [ep EXCEPT ![n][p].incoming = left]
      /\ outqueue' = [outqueue EXCEPT ![n] = next]
      /\ pending' \subseteq pending
      /\ UNCHANGED <<corrupt, sent, restarted>>
  <2>1. now \in Nat
    BY DEF TypeInv
  <2>2. InTime /\ now' = t
    BY <2>1, ReceiveFacts
  <2>3. corrupt' = corrupt /\ sent' = sent /\ restarted' = restarted
    BY <2>1, ReceiveFacts
  <2>4. t \in Nat /\ now' \in {now, now + 1}
    BY <2>1, <2>2 DEF InTime
  <2>5. /\ ep' = [ep EXCEPT ![d.to][d.from].incoming = BucketLeft(d, t)]
        /\ outqueue' = [outqueue EXCEPT ![d.to] = QueueLeft(d)]
    BY <2>1, ReceiveFacts
  <2>6. ep' = [ep EXCEPT ![n][p].incoming = left] /\ outqueue' = [outqueue EXCEPT ![n] = next]
    BY <1>1, <1>2, <1>5, <1>6, <2>5
  <2>7. net' \subseteq net /\ \A x \in net' : now' - x.left <= NetDelay
    BY <2>1, ReceiveFacts
  <2>8. pending' \subseteq pending
    BY <2>1, ReceiveFacts
  <2>9. QED
    BY <2>2, <2>6, <2>7, <2>8, <2>3, <2>4
<1>8. n \in Nodes /\ p \in Others(n) /\ now \in Nat
  BY <1>1, <1>2, GramFacts
<1>9. /\ bucket \in Seq(PacketRecs) /\ Ordered(bucket)
      /\ packet \in Range(bucket) /\ packet \in PacketRecs /\ packet.pid = d.pid
      /\ packet.born <= now
      /\ \A q \in Range(bucket) : q.pid # d.pid => q \in Range(ep[n][p].incoming)
      /\ Held(n, p, packet)
      /\ Missing(packet) # FragIds(packet)
      /\ d.id \notin FragIds(packet) => Missing(packet) # {}
  <2>1. bucket = AddFragment(Refresh(ep[n][p].incoming, now), d, now)
    BY <1>1, <1>2, <1>3 DEF Bucket
  <2>2. packet = The(Packet(bucket, d.pid))
    BY <1>3, <1>4 DEF Arrived
  <2>3. QED
    BY <1>1, <1>2, <2>1, <2>2, AddFragmentBucket, SMTT(30)
<1>10. /\ left \in Seq(PacketRecs) /\ Ordered(left)
       /\ \A q \in Range(left) :
            q \in Range(ep[n][p].incoming) \/ (q = packet /\ ~Ready(d))
  <2>1. CASE Ready(d)
    <3>1. /\ left \in Seq(PacketRecs) /\ Ordered(left)
          /\ Range(left) = {q \in Range(bucket) : ~Old(q, t) /\ q.pid # d.pid}
      BY <1>3, <1>5, <1>7, <1>9, <2>1, PopBucket DEF BucketLeft
    <3>2. QED
      BY <1>9, <3>1
  <2>2. CASE ~Ready(d)
    <3>1. left = bucket
      BY <1>3, <1>5, <2>2 DEF BucketLeft
    <3>2. \A q \in Range(bucket) : q.pid = d.pid => q = packet
      <4>1. Packet(bucket, packet.pid) = {packet}
        BY <1>9, UniquePacket
      <4>2. QED
        BY <1>9, <4>1 DEF Packet
    <3>3. QED
      BY <1>9, <2>2, <3>1, <3>2
  <2>3. QED
    BY <2>1, <2>2
<1>11. next \in Seq(ElemRecs(n)) /\ Once(next)
       /\ \A e : e.type = "fragment" => (e \in Range(next) <=> e \in Range(outqueue[n]))
  <2>1. outqueue[n] \in Seq(ElemRecs(n)) /\ Once(outqueue[n])
    BY <1>8 DEF TypeInv, QueueInv
  <2>2. CASE d.id \in FragIds(packet)
    <3>1. next = EnqueueRequests(outqueue[n], p, packet)
      BY <1>1, <1>2, <1>4, <1>6, <2>2 DEF QueueLeft
    <3>2. QED
      BY <1>8, <1>9, <2>1, <3>1, EnqueueRequestsQueue
  <2>3. CASE d.id \notin FragIds(packet)
    <3>1. next = outqueue[n]
      BY <1>1, <1>4, <1>6, <2>3 DEF QueueLeft
    <3>2. QED
      BY <2>1, <3>1
  <2>4. QED
    BY <2>2, <2>3
<1> DEFINE x == [ep[n][p] EXCEPT !.incoming = left]
<1>12. /\ x \in EndpointRecs /\ x.out_id = ep[n][p].out_id /\ x.outgoing = ep[n][p].outgoing
       /\ x.incoming = left
  BY <1>8, <1>10, EndpointTypes DEF EndpointRecs
<1>13. ep' = [ep EXCEPT ![n][p] = x]
  BY <1>7
<1> HIDE DEF x
<1>14. /\ ep' = [m \in Nodes |-> ep'[m]]
       /\ \A m \in Nodes : ep'[m] \in [Others(m) -> EndpointRecs]
       /\ ep'[n][p] = x
       /\ \A m \in Nodes : \A o \in Others(m) : m # n \/ o # p => ep'[m][o] = ep[m][o]
  <2>1. x \in EndpointRecs /\ TypeInv
    BY <1>12
  <2>2. QED
    BY ONLY ZenonT(30), <1>8, <1>13, <2>1, EpUpdate
<1>15. /\ outqueue' = [m \in Nodes |-> outqueue'[m]]
       /\ \A m \in Nodes : outqueue'[m] \in Seq(ElemRecs(m))
       /\ outqueue'[n] = next
       /\ \A m \in Nodes : m # n => outqueue'[m] = outqueue[m]
  BY <1>7, <1>8, <1>11, OutqueueUpdate
<1>16. \A m \in Nodes : \A o \in Others(m) :
         /\ ep'[m][o].out_id = ep[m][o].out_id
         /\ ep'[m][o].outgoing = ep[m][o].outgoing
  BY <1>12, <1>14
<1>17. Onward /\ \A m \in Nodes : StampsKept(m)
  BY <1>7, <1>16, OnwardQuiet
<1>18. net' \in SUBSET GramRecs /\ NetInv'
  BY <1>7, <1>17, NetStep
<1>19. TypeInv'
  <2>1. /\ sent' \in Seq(SentRecs) /\ restarted' \in [Nodes -> Int]
        /\ pending' \in SUBSET (1 .. Len(sent')) /\ now' \in Nat
    BY <1>7 DEF TypeInv
  <2>2. QED
    BY <1>14, <1>15, <1>18, <2>1 DEF TypeInv
<1>20. LogInv'
  BY <1>7, LogSame
<1>21. OutInv'
  BY <1>16, <1>17, OutSame DEF OutInv
<1>22. QueueInv'
  <2>1. ASSUME NEW m \in Nodes, m # n
        PROVE  /\ Once(outqueue[m])'
               /\ \A e \in Range(outqueue'[m]) : e.type = "fragment" => Queued(m, e)'
    BY <1>7, <1>15, <1>16, <2>1, QueueSame
  <2>2. /\ Once(outqueue[n])'
        /\ \A e \in Range(outqueue'[n]) : e.type = "fragment" => Queued(n, e)'
    <3>1. ASSUME NEW e \in Range(outqueue'[n]), e.type = "fragment"
          PROVE  /\ e \in Range(outqueue[n])
                 /\ \A q \in Packet(ep[n][e.to].outgoing, e.pid) : q \in Range(ep'[n][e.to].outgoing)
      <4>1. e \in Range(next) /\ e \in Range(outqueue[n])
        BY <1>11, <1>15, <3>1
      <4>2. e \in ElemRecs(n)
        BY <1>11, <4>1, InRange
      <4>3. e.to \in Others(n)
        BY <4>2 DEF ElemRecs
      <4>4. QED
        BY <1>8, <1>16, <4>1, <4>3 DEF Packet
    <3>2. Once(outqueue'[n])
      BY <1>11, <1>15
    <3>3. QED
      BY <1>7, <1>8, <3>1, <3>2, QueueKept
  <2>3. QED
    BY <2>1, <2>2 DEF QueueInv
<1>23. InInv'
  <2>1. ASSUME NEW m \in Nodes, NEW o \in Others(m), m # n \/ o # p
        PROVE  /\ Ordered(ep[m][o].incoming)'
               /\ \A q \in Range(ep'[m][o].incoming) : InPacket(m, o, q)'
    BY <1>14, <1>17, <2>1, InSame
  <2>2. ep'[n][p].incoming = left
    BY <1>12, <1>14
  <2>3. Ordered(ep[n][p].incoming)'
    BY <1>10, <2>2 DEF Ordered
  <2>4. ASSUME NEW q \in Range(left) PROVE InPacket(n, p, q)'
    <3>1. q \in PacketRecs
      BY <1>10, InRange
    <3>2. InPacket(n, p, q)
      <4>1. CASE q \in Range(ep[n][p].incoming)
        BY <1>8, <4>1 DEF InInv
      <4>2. CASE q = packet /\ ~Ready(d)
        <5>1. Missing(packet) # {}
          BY <1>4, <1>9, <4>2 DEF Ready
        <5>2. QED
          BY <1>9, <4>2, <5>1 DEF InPacket, Held
      <4>3. QED
        BY <1>10, <4>1, <4>2
    <3>3. QED
      BY <1>8, <1>17, <3>1, <3>2, InPacketKept
  <2>5. QED
    BY <2>1, <2>2, <2>3, <2>4 DEF InInv
<1>24. ReceivedOnly(d, t)
  <2>1. ep'[d.to][d.from].incoming = BucketLeft(d, t)
    BY <1>1, <1>2, <1>5, <1>12, <1>14
  <2>2. \A m \in Nodes : \A o \in Others(m) :
          m # d.to \/ o # d.from => ep'[m][o].incoming = ep[m][o].incoming
    BY <1>1, <1>2, <1>14
  <2>3. \A m \in Nodes : \A e \in Range(outqueue[m]) :
          e.type = "fragment" => e \in Range(outqueue'[m])
    BY <1>11, <1>15
  <2>4. QED
    BY <1>16, <2>1, <2>2, <2>3 DEF ReceivedOnly
<1>25. QED
  BY <1>7, <1>18, <1>19, <1>20, <1>21, <1>22, <1>23, <1>24

LEMMA InitIndInv ==
  ASSUME Init
  PROVE  IndInv
<1> USE DEF Init
<1>1. << >> \in Seq(SentRecs) /\ Len(<< >>) = 0 /\ (\A n : << >> \in Seq(ElemRecs(n)))
  OBVIOUS
<1>2. \A n \in Nodes : ep[n] = [p \in Others(n) |-> NewEndpoint] /\ outqueue[n] = << >>
  BY DEF NewEndpoints
<1>3. TypeInv
  <2>1. \A n \in Nodes : ep[n] \in [Others(n) -> EndpointRecs]
    BY <1>2, NewEndpointFacts
  <2>2. Never \in Int
    BY Constants DEF Never
  <2>3. restarted \in [Nodes -> Int]
    BY <2>2
  <2>4. ep = [n \in Nodes |-> ep[n]] /\ outqueue = [n \in Nodes |-> outqueue[n]]
    OBVIOUS
  <2>5. now \in Nat /\ net \in SUBSET GramRecs /\ sent \in Seq(SentRecs)
        /\ pending \in SUBSET (1 .. Len(sent))
    BY <1>1
  <2>6. \A n \in Nodes : outqueue[n] \in Seq(ElemRecs(n))
    BY <1>1, <1>2
  <2>7. QED
    BY <2>1, <2>3, <2>4, <2>5, <2>6 DEF TypeInv
<1>4. LogInv
  <2>1. Len(sent) = 0 /\ Len(sent) <= Len(Sizes)
    BY <1>1, Constants
  <2>2. \A n, p \in Nodes : \A t \in 0 .. now : SentAt(n, p, t) = {}
    BY <2>1 DEF SentAt
  <2>3. \A n, p \in Nodes : \A t \in 0 .. now : Cardinality(SentAt(n, p, t)) <= Rate
    <3>1. Cardinality({}) = 0 /\ 0 <= Rate
      BY FS_EmptySet, Constants
    <3>2. QED
      BY <2>2, <3>1
  <2>4. QED
    BY <2>1, <2>3 DEF LogInv
<1>5. \A n \in Nodes : \A p \in Others(n) : ep[n][p].outgoing = << >> /\ ep[n][p].incoming = << >>
  BY <1>2, NewEndpointFacts
<1>6. OutInv
  BY <1>5, NewEndpointFacts DEF OutInv
<1>7. QueueInv
  BY <1>2, NewEndpointFacts DEF QueueInv
<1>8. InInv
  BY <1>5, NewEndpointFacts DEF InInv
<1>9. NetInv
  BY DEF NetInv
<1>10. QED
  BY <1>3, <1>4, <1>6, <1>7, <1>8, <1>9 DEF IndInv

LEMMA NextIndInv ==
  ASSUME IndInv, [Next]_vars
  PROVE  IndInv'
<1>1. ASSUME NEW n \in Senders, NEW p \in Others(n), SendToPeer(n, p) PROVE IndInv'
  BY <1>1, SendToPeerStep, Constants
<1>2. ASSUME NEW n \in Nodes, SendAttempt(n) PROVE IndInv'
  BY <1>2, SendAttemptStep
<1>3. ASSUME NEW n \in Nodes, Receive(n) PROVE IndInv'
  BY <1>3, ReceiveFragmentStep DEF Receive
<1>4. ASSUME NEW n \in Nodes, Restart(n) PROVE IndInv'
  BY <1>4, RestartStep
<1>5. ASSUME NEW n \in Senders, NEW p \in Others(n), NEW pid \in 0 .. PidMod - 1, NEW id \in RequestIds,
             ReceiveRequest(n, p, pid, id)
      PROVE  IndInv'
  <2>1. n \in Nodes /\ pid \in Ids /\ id \in Nat
    BY Constants DEF Ids
  <2>2. QED
    BY <1>5, <2>1, ReceiveRequestStep
<1>6. ASSUME NEW d \in net, Lose(d) PROVE IndInv'
  BY <1>6, LoseStep
<1>7. CASE Tick
  BY <1>7, TickStep
<1>8. CASE UNCHANGED vars
  BY <1>8, StutterStep
<1>9. QED
  BY <1>1, <1>2, <1>3, <1>4, <1>5, <1>6, <1>7, <1>8 DEF Next

(* The endpoints (network_manager, packet_bucket, net_helper-x.c) keep     *)
(* their books whatever is sent, received, asked for again, lost, repeated *)
(* or restarted: buckets are in order and hold an id once; what was sent is*)
(* under the id its message was given; the queue, the datagrams and the    *)
(* unfinished packets hold pieces of messages that were sent, none too old,*)
(* and a packet begun long enough after a restart only pieces of one.      *)
THEOREM Invariance == Spec => []IndInv
<1>1. Init => IndInv
  BY InitIndInv
<1>2. IndInv /\ [Next]_vars => IndInv'
  BY NextIndInv
<1>3. QED
  BY <1>1, <1>2, PTL DEF Spec

LEMMA NextClock ==
  ASSUME IndInv, now <= MaxTime, [Next]_vars
  PROVE  now' <= MaxTime
<1>1. now \in Nat /\ MaxTime \in Nat
  BY NetHelperAssumption DEF IndInv, TypeInv
<1>2. ASSUME InTime PROVE now' <= MaxTime
  BY <1>1, <1>2 DEF InTime, MayTick
<1>3. ASSUME NEW n, NEW p, SendToPeer(n, p) PROVE now' = now
  BY <1>3 DEF SendToPeer
<1>4. ASSUME NEW n, SendAttempt(n) \/ Restart(n) PROVE now' = now
  BY <1>4 DEF SendAttempt, Restart
<1>5. ASSUME NEW n, NEW p, NEW pid, NEW id, ReceiveRequest(n, p, pid, id) PROVE now' = now
  BY <1>5 DEF ReceiveRequest
<1>6. ASSUME NEW d, Lose(d) PROVE now' = now
  BY <1>6 DEF Lose
<1>7. Tick => InTime
  BY DEF Tick, InTime
<1>8. ASSUME NEW n, Receive(n) PROVE InTime
  <2>1. PICK d \in net, t \in {now, now + 1} : ReceiveFragment(d, t)
    BY <1>8 DEF Receive
  <2>2. QED
    BY <1>1, <2>1, ReceiveFacts
<1>9. UNCHANGED vars => now' = now
  BY DEF vars
<1>10. now' = now => InTime
  BY DEF InTime
<1>11. InTime
  BY <1>3, <1>4, <1>5, <1>6, <1>7, <1>8, <1>9, <1>10 DEF Next
<1>12. QED
  BY <1>2, <1>11

(* packet ids keep their 16 bits, a packet sent is all there, and one that *)
(* waits in an incoming bucket is not complete: recv_from_peer leaves none *)
(* that is.                                                                *)
THEOREM TypeCorrect == Spec => []TypeOK
<1>1. Init => now <= MaxTime
  BY NetHelperAssumption DEF Init
<1>2. IndInv /\ now <= MaxTime /\ [Next]_vars => (now <= MaxTime)'
  BY NextClock
<1>3. IndInv /\ now <= MaxTime => TypeOK
  <2> SUFFICES ASSUME IndInv, now <= MaxTime PROVE TypeOK
    OBVIOUS
  <2>1. now \in 0 .. MaxTime
    BY NetHelperAssumption DEF IndInv, TypeInv
  <2>2. ASSUME NEW n \in Nodes, NEW p \in Others(n)
        PROVE  /\ ep[n][p].out_id \in 0 .. PidMod - 1
               /\ \A q \in Range(ep[n][p].outgoing) : Missing(q) = {}
               /\ \A q \in Range(ep[n][p].incoming) : Missing(q) # {}
    <3>1. ep[n][p].out_id \in 0 .. PidMod - 1
      BY EndpointTypes DEF IndInv, Ids
    <3>2. ASSUME NEW q \in Range(ep[n][p].outgoing) PROVE Missing(q) = {}
      <4>1. q \in PacketRecs /\ OutPacket(n, p, q)
        BY EndpointTypes, InRange DEF IndInv, OutInv
      <4>2. PICK k \in 1 .. Len(sent) : q = NewPacket(q.pid, sent[k].msg, q.born)
        BY <4>1 DEF OutPacket
      <4>3. k \in 1 .. Len(Sizes) /\ sent[k].msg = <<k, Sizes[k]>>
        <5>1. Len(sent) \in Nat /\ Len(Sizes) \in Nat
          BY SentTypes, Constants DEF IndInv
        <5>2. QED
          BY <5>1 DEF IndInv, LogInv
      <4>4. PICK pid \in Ids, born \in Nat : pid = q.pid /\ born = q.born
        BY <4>1, PacketTypes
      <4>5. q = NewPacket(pid, <<k, Sizes[k]>>, born)
        BY <4>2, <4>3, <4>4
      <4>6. \A id \in FragIds(q) : q.frags[id] = Piece(<<k, Sizes[k]>>, id)
        BY <4>3, <4>5, NewPacketFacts
      <4>7. \A id \in FragIds(q) : q.frags[id] # NoData
        BY <4>6, PieceFacts
      <4>8. QED
        BY <4>7 DEF Missing
    <3>3. \A q \in Range(ep[n][p].incoming) : Missing(q) # {}
      BY DEF IndInv, InInv, InPacket
    <3>4. QED
      BY <3>1, <3>2, <3>3
  <2>3. ASSUME NEW n \in Nodes, NEW e \in Range(outqueue[n]) PROVE e.to \in Others(n)
    <3>1. e \in ElemRecs(n)
      BY InRange DEF IndInv, TypeInv
    <3>2. QED
      BY <3>1 DEF ElemRecs
  <2>4. QED
    BY <2>1, <2>2, <2>3 DEF TypeOK
<1>4. QED
  BY <1>1, <1>2, <1>3, Invariance, PTL DEF Spec

(* fragment_deinit, network_manager_enqueue_outgoing_fragment: whatever    *)
(* expires while it waits and is asked for again, a queued fragment is part*)
(* of a packet that still exists, and is linked once.                      *)
THEOREM QueueIsSound == Spec => []QueueSound
<1>1. IndInv => QueueSound
  <2> SUFFICES ASSUME IndInv, NEW n \in Nodes, NEW k \in DOMAIN outqueue[n],
                      outqueue[n][k].type = "fragment"
               PROVE  /\ \E packet \in Packet(ep[n][outqueue[n][k].to].outgoing, outqueue[n][k].pid) :
                           outqueue[n][k].id \in FragIds(packet)
                      /\ \A l \in DOMAIN outqueue[n] : outqueue[n][l].type = "fragment" =>
                           (l # k => outqueue[n][l] # outqueue[n][k])
    BY DEF QueueSound
  <2>1. outqueue[n] \in Seq(ElemRecs(n)) /\ Once(outqueue[n])
    BY DEF IndInv, TypeInv, QueueInv
  <2>2. DOMAIN outqueue[n] = 1 .. Len(outqueue[n]) /\ outqueue[n][k] \in Range(outqueue[n])
    BY <2>1, InRange
  <2>3. Queued(n, outqueue[n][k])
    BY <2>2 DEF IndInv, QueueInv
  <2>4. QED
    BY <2>1, <2>2, <2>3 DEF Once, Queued
<1>2. QED
  BY <1>1, Invariance, PTL

(* packet_bucket_add_packet: the id of a new packet is never that of one in*)
(* the bucket, so send_to_peer frees no list of fragments twice, as long as*)
(* the rate does not use up the ids within the time a message may live.    *)
THEOREM HeapIsSound == Spec => []HeapSound
<1>1. IndInv => HeapSound
  BY DEF IndInv, HeapSound
<1>2. QED
  BY <1>1, Invariance, PTL
-----------------------------------------------------------------------------
(***************************************************************************)
(* What recv_from_peer returns                                             *)
(***************************************************************************)
LenRec(q, n, g) == g = [k \in 0 .. n |-> PieceLen(q.frags[k]) + (IF k = 0 THEN 0 ELSE g[k - 1])]

LEMMA LenExists ==
  ASSUME NEW q, NEW n \in Nat
  PROVE  \E g : LenRec(q, n, g)
<1> DEFINE T == {i \in 0 .. n : \E g : LenRec(q, i, g)}
           L(k) == PieceLen(q.frags[k])
<1>1. 0 \in T
  <2> DEFINE g == [k \in 0 .. 0 |-> L(k) + 0]
  <2>1. g = [k \in 0 .. 0 |-> L(k) + (IF k = 0 THEN 0 ELSE g[k - 1])]
    OBVIOUS
  <2>2. LenRec(q, 0, g)
    BY <2>1 DEF LenRec
  <2>3. QED
    BY <2>2
<1>2. ASSUME NEW i \in 0 .. n - 1, i \in T PROVE i + 1 \in T
  <2>1. PICK g : LenRec(q, i, g)
    BY <1>2
  <2> HIDE DEF L
  <2>2. g = [k \in 0 .. i |-> L(k) + (IF k = 0 THEN 0 ELSE g[k - 1])]
    BY <2>1 DEF LenRec, L
  <2> DEFINE h == [k \in 0 .. i + 1 |-> IF k = i + 1 THEN L(k) + g[i] ELSE g[k]]
  <2>3. \A k \in 0 .. i + 1 : h[k] = L(k) + (IF k = 0 THEN 0 ELSE h[k - 1])
    <3> SUFFICES ASSUME NEW k \in 0 .. i + 1 PROVE h[k] = L(k) + (IF k = 0 THEN 0 ELSE h[k - 1])
      OBVIOUS
    <3>1. k # 0 => k - 1 \in 0 .. i /\ h[k - 1] = g[k - 1]
      OBVIOUS
    <3>2. CASE k = i + 1
      BY <3>1, <3>2
    <3>3. CASE k # i + 1
      <4>1. k \in 0 .. i /\ h[k] = g[k]
        BY <3>3
      <4>2. g[k] = L(k) + (IF k = 0 THEN 0 ELSE g[k - 1])
        BY <2>2, <4>1
      <4>3. QED
        BY <3>1, <4>1, <4>2
    <3>4. QED
      BY <3>2, <3>3
  <2>4. h = [k \in 0 .. i + 1 |-> L(k) + (IF k = 0 THEN 0 ELSE h[k - 1])]
    BY <2>3
  <2> HIDE DEF h
  <2>5. LenRec(q, i + 1, h)
    BY <2>4 DEF LenRec, L
  <2>6. QED
    BY <2>5
<1> HIDE DEF T
<1>3. \A i \in 0 .. n : i \in T
  BY <1>1, <1>2, InductionUpTo
<1>4. QED
  BY <1>3 DEF T

(* The data of a message up to one of its fragments is no longer than the  *)
(* message, and no longer than full fragments would make it.               *)
LEMMA LenBound ==
  ASSUME NEW q, NEW k, NEW size \in Nat, NEW id \in Nat,
         \A i \in 0 .. id : q.frags[i] = Piece(<<k, size>>, i)
  PROVE  /\ LenUpTo(q, id) \in Int /\ LenUpTo(q, id) <= size
         /\ id = 0 => LenUpTo(q, id) <= frag_size
<1>1. LenUpTo(q, id) = (CHOOSE g : LenRec(q, id, g))[id]
  BY DEF LenUpTo, LenRec
<1>2. PICK g : LenRec(q, id, g) /\ LenUpTo(q, id) = g[id]
  BY <1>1, LenExists
<1>3. frag_size \in Nat
  BY Constants
<1>4. \A i \in 0 .. id : g[i] = PieceLen(q.frags[i]) + (IF i = 0 THEN 0 ELSE g[i - 1])
  BY <1>2 DEF LenRec
<1>5. \A i \in 0 .. id : /\ PieceLen(q.frags[i]) \in Int /\ PieceLen(q.frags[i]) <= frag_size
                         /\ PieceLen(q.frags[i]) <= size - i * frag_size
  <2> SUFFICES ASSUME NEW i \in 0 .. id
               PROVE  /\ PieceLen(q.frags[i]) \in Int /\ PieceLen(q.frags[i]) <= frag_size
                      /\ PieceLen(q.frags[i]) <= size - i * frag_size
    OBVIOUS
  <2>1. PICK m \in Nat : m = i * frag_size
    BY <1>3
  <2>2. PieceLen(q.frags[i]) = IF size - m < frag_size THEN size - m ELSE frag_size
    BY <2>1 DEF PieceLen, Piece, SizeOf
  <2>3. QED
    BY <1>3, <2>1, <2>2
<1> DEFINE T == {i \in 0 .. id : g[i] \in Int /\ g[i] <= size /\ g[i] <= (i + 1) * frag_size}
<1>6. 0 \in T /\ g[0] <= frag_size
  <2>1. 0 \in 0 .. id /\ 0 * frag_size = 0 /\ (0 + 1) * frag_size = frag_size
    BY <1>3
  <2>2. PICK a \in Int : a = PieceLen(q.frags[0])
    BY <1>5, <2>1
  <2>3. a <= frag_size /\ a <= size
    BY <1>3, <1>5, <2>1, <2>2
  <2>4. g[0] = a + 0
    BY <1>4, <2>1, <2>2
  <2>5. QED
    BY <2>1, <2>2, <2>3, <2>4
<1>7. ASSUME NEW i \in 0 .. id - 1, i \in T PROVE i + 1 \in T
  <2>1. i + 1 \in 0 .. id /\ i + 1 # 0 /\ (i + 1) - 1 = i
    OBVIOUS
  <2>2. PICK b \in Int : b = g[i]
    BY <1>7
  <2>3. PICK c \in Nat : c = (i + 1) * frag_size
    BY <1>3
  <2>4. PICK a \in Int : a = PieceLen(q.frags[i + 1])
    BY <1>5, <2>1
  <2>5. a <= frag_size /\ a <= size - c /\ b <= c
    BY <1>5, <1>7, <2>1, <2>2, <2>3, <2>4
  <2>6. g[i + 1] = a + b
    BY <1>4, <2>1, <2>2, <2>4
  <2>7. ((i + 1) + 1) * frag_size = c + frag_size
    BY <1>3, <2>3
  <2>8. a + b \in Int /\ a + b <= size /\ a + b <= c + frag_size
    BY <1>3, <2>5
  <2>9. QED
    BY <2>1, <2>6, <2>7, <2>8
<1> HIDE DEF T
<1>8. \A i \in 0 .. id : i \in T
  BY <1>6, <1>7, InductionUpTo
<1>9. id \in T
  BY <1>8
<1>10. QED
  BY <1>2, <1>6, <1>9 DEF T

LEMMA PrefixFacts ==
  ASSUME NEW f, NEW c \in Nat, NEW m \in Nat, c <= m, NEW s, NEW t,
         s = [k \in 1 .. c |-> f[k]], t = [k \in 1 .. m |-> f[k]]
  PROVE  IsPrefix(s, t)
<1> DEFINE S == {f[k] : k \in 1 .. m}
<1>1. s \in [1 .. c -> S] /\ t \in [1 .. m -> S]
  OBVIOUS
<1> HIDE DEF S
<1>2. s \in Seq(S) /\ t \in Seq(S) /\ Len(s) = c /\ Len(t) = m
  BY <1>1
<1>3. Len(s) <= Len(t) /\ \A k \in 1 .. Len(s) : s[k] = t[k]
  BY <1>2
<1>4. SubSeq(s, 1, Len(s)) = SubSeq(t, 1, Len(s))
  BY <1>2, <1>3
<1>5. QED
  BY <1>3, <1>4 DEF IsPrefix

(* fragmented_packet_dump_data: a message that fits into the buffer comes  *)
(* out whole, another one cut short, but never without data.               *)
LEMMA DumpWhole ==
  ASSUME NEW k, NEW size \in Nat \ {0}, NEW q, FragIds(q) = 0 .. FragNum(size) - 1,
         \A id \in FragIds(q) : q.frags[id] = Piece(<<k, size>>, id),
         NEW r, r.msg = <<k, size>>, NEW d, d.from = r.from, d.to = r.to
  PROVE  /\ DumpData(q, buffer_size) # << >>
         /\ Whole(Message(d, DumpData(q, buffer_size)), r)
<1> DEFINE fitting == {id \in FragIds(q) : LenUpTo(q, id) < buffer_size}
           c == Cardinality(fitting)
           m == FragNum(size)
           dump == [i \in 1 .. c |-> q.frags[i - 1]]
           f == [i \in 1 .. m |-> Piece(<<k, size>>, i - 1)]
<1>1. DumpData(q, buffer_size) = dump
  BY DEF DumpData
<1>2. m \in Nat \ {0} /\ buffer_size \in Nat /\ frag_size \in Nat /\ frag_size < buffer_size
  BY FragNumPositive, Constants
<1> HIDE DEF m
<1>3. IsFiniteSet(FragIds(q)) /\ Cardinality(FragIds(q)) = m
  <2>1. 0 \in Int /\ m - 1 \in Int
    BY <1>2
  <2>2. IsFiniteSet(0 .. m - 1) /\ Cardinality(0 .. m - 1) = IF 0 > m - 1 THEN 0 ELSE (m - 1) - 0 + 1
    BY <2>1, FS_Interval
  <2>3. FragIds(q) = 0 .. m - 1
    BY DEF m
  <2>4. QED
    BY <1>2, <2>2, <2>3
<1>4. \A id \in 0 .. m - 1 : /\ LenUpTo(q, id) \in Int /\ LenUpTo(q, id) <= size
                             /\ id = 0 => LenUpTo(q, id) <= frag_size
  <2> SUFFICES ASSUME NEW id \in 0 .. m - 1
               PROVE  /\ LenUpTo(q, id) \in Int /\ LenUpTo(q, id) <= size
                      /\ id = 0 => LenUpTo(q, id) <= frag_size
    OBVIOUS
  <2>1. id \in Nat /\ \A i \in 0 .. id : i \in 0 .. m - 1
    BY <1>2
  <2>2. \A i \in 0 .. id : q.frags[i] = Piece(<<k, size>>, i)
    BY <2>1 DEF m
  <2>3. QED
    BY <2>1, <2>2, LenBound
<1>5. fitting \subseteq FragIds(q)
  OBVIOUS
<1>6. IsFiniteSet(fitting) /\ c \in Nat /\ c <= m
  BY <1>3, <1>5, FS_Subset, FS_CardinalityType
<1>7. c # 0
  <2>1. 0 \in 0 .. m - 1
    BY <1>2
  <2>2. LenUpTo(q, 0) \in Int /\ LenUpTo(q, 0) <= frag_size
    BY <1>4, <2>1
  <2>3. LenUpTo(q, 0) < buffer_size
    BY <1>2, <2>2
  <2>4. 0 \in fitting
    BY <2>1, <2>3 DEF m
  <2> HIDE DEF fitting
  <2>5. QED
    BY <1>6, <2>4, FS_EmptySet
<1>8. size < buffer_size => c = m
  <2>1. ASSUME size < buffer_size PROVE fitting = FragIds(q)
    <3>1. \A id \in 0 .. m - 1 : LenUpTo(q, id) < buffer_size
      BY <1>2, <1>4, <2>1
    <3>2. QED
      BY <3>1 DEF m
  <2> HIDE DEF fitting
  <2>2. QED
    BY <1>3, <2>1
<1> HIDE DEF c, fitting
<1>9. \A i \in 1 .. m : q.frags[i - 1] = f[i]
  <2> SUFFICES ASSUME NEW i \in 1 .. m PROVE q.frags[i - 1] = f[i]
    OBVIOUS
  <2>1. i - 1 \in 0 .. m - 1
    BY <1>2
  <2>2. QED
    BY <2>1 DEF m
<1>10. dump = [i \in 1 .. c |-> f[i]]
  <2>1. \A i \in 1 .. c : i \in 1 .. m
    BY <1>2, <1>6
  <2> HIDE DEF f
  <2>2. \A i \in 1 .. c : q.frags[i - 1] = f[i]
    BY <1>9, <2>1
  <2>3. QED
    BY <2>2
<1>11. Pieces(r.msg) = f
  BY DEF Pieces, SizeOf, m
<1>12. dump # << >>
  <2>1. 1 \in 1 .. c /\ DOMAIN dump = 1 .. c
    BY <1>6, <1>7
  <2> HIDE DEF dump
  <2>2. Range(<< >>) = {}
    BY NewEndpointFacts
  <2>3. dump[1] \in Range(dump)
    BY <2>1 DEF Range
  <2>4. QED
    BY <2>2, <2>3
<1>13. IsPrefix(dump, f)
  <2>1. f = [i \in 1 .. m |-> f[i]]
    OBVIOUS
  <2> HIDE DEF f, dump
  <2>2. QED
    BY <1>2, <1>6, <1>10, <2>1, PrefixFacts
<1>14. size < buffer_size => dump = f
  BY <1>8, <1>10
<1>15. SizeOf(r.msg) = size
  BY DEF SizeOf
<1> HIDE DEF f, dump
<1>16. /\ Message(d, dump).kind = "message" /\ Message(d, dump).from = d.from
       /\ Message(d, dump).to = d.to /\ Message(d, dump).pieces = dump
  BY DEF Message
<1>17. Whole(Message(d, dump), r)
  BY <1>11, <1>13, <1>14, <1>15, <1>16 DEF Whole
<1>18. QED
  BY <1>1, <1>12, <1>17

(* A settled packet that is complete holds one message, and is returned.   *)
LEMMA ReturnedWhole ==
  ASSUME IndInv, NEW d \in net, NEW t, ReceiveFragment(d, t), Ready(d),
         NEW packet, packet = Arrived(d), Settled(d.from, packet), ~Old(packet, t),
         NEW k, Carries(d, k)
  PROVE  k \in 1 .. Len(sent) /\ Whole(result', sent[k])
<1> USE DEF IndInv
<1>1. PICK n : n = d.to
  OBVIOUS
<1>2. PICK p : p = d.from
  OBVIOUS
<1>3. PICK bucket : bucket = Bucket(d)
  BY Zenon
<1>4. /\ bucket \in Seq(PacketRecs) /\ Ordered(bucket)
      /\ packet \in Range(bucket) /\ packet \in PacketRecs /\ packet.pid = d.pid
      /\ packet.born <= now /\ ~Old(packet, now)
      /\ Held(n, p, packet)
  <2>1. bucket = AddFragment(Refresh(ep[n][p].incoming, now), d, now)
    BY <1>1, <1>2, <1>3 DEF Bucket
  <2>2. packet = The(Packet(bucket, d.pid))
    BY <1>3 DEF Arrived
  <2>3. QED
    BY <1>1, <1>2, <2>1, <2>2, AddFragmentBucket, SMTT(30)
<1>5. d.id \in FragIds(packet) /\ Missing(packet) = {}
  BY DEF Ready
<1>6. \A id \in FragIds(packet) : \A j \in 1 .. Len(sent) : Holds(n, p, packet, id, j) => j = k
  BY <1>1, <1>2, <1>4, SameInside
<1>7. k \in 1 .. Len(sent) /\ Went(p, n, k)
  BY <1>1, <1>2 DEF Carries, Went
<1>8. \A id \in FragIds(packet) : Holds(n, p, packet, id, k)
  BY <1>4, <1>5, <1>6 DEF Held
<1>9. k \in 1 .. Len(Sizes) /\ sent[k].msg = <<k, Sizes[k]>> /\ sent[k].from = d.from /\ sent[k].to = d.to
  <2>1. Len(sent) \in Nat /\ Len(Sizes) \in Nat
    BY SentTypes, Constants
  <2>2. k \in 1 .. Len(Sizes) /\ sent[k].msg = <<k, Sizes[k]>>
    BY <1>7, <2>1 DEF LogInv
  <2>3. QED
    BY <1>1, <1>2, <1>7, <2>2 DEF Went
<1>10. Sizes[k] \in Nat \ {0}
  BY <1>9, SizeFacts
<1>11. FragIds(packet) = 0 .. FragNum(Sizes[k]) - 1
  BY <1>2, <1>5, <1>8 DEF Holds
<1>12. \A id \in FragIds(packet) : packet.frags[id] = Piece(<<k, Sizes[k]>>, id)
  BY <1>8, <1>9 DEF Holds
<1>13. /\ DumpData(packet, buffer_size) # << >>
       /\ Whole(Message(d, DumpData(packet, buffer_size)), sent[k])
  <2>1. PICK r : r = sent[k]
    OBVIOUS
  <2>2. PICK size \in Nat \ {0} : size = Sizes[k]
    BY <1>10
  <2>3. r.msg = <<k, size>> /\ d.from = r.from /\ d.to = r.to
    BY <1>9, <2>1, <2>2
  <2>4. /\ FragIds(packet) = 0 .. FragNum(size) - 1
        /\ \A id \in FragIds(packet) : packet.frags[id] = Piece(<<k, size>>, id)
    BY <1>11, <1>12, <2>2
  <2>5. /\ DumpData(packet, buffer_size) # << >>
        /\ Whole(Message(d, DumpData(packet, buffer_size)), r)
    BY ONLY <2>3, <2>4, size \in Nat \ {0}, DumpWhole
  <2>6. QED
    BY <2>1, <2>5
<1>14. now \in Nat
  BY DEF TypeInv
<1>15. result' = Returned(d, t) /\ t \in Nat
  <2>1. result' = Returned(d, t)
    BY <1>14, ReceiveFacts
  <2>2. now' = t /\ InTime
    BY <1>14, ReceiveFacts
  <2>3. QED
    BY <1>14, <2>1, <2>2 DEF InTime
<1>16. Packet(Refresh(bucket, t), d.pid) # {}
  <2>1. Range(Refresh(bucket, t)) = {q \in Range(bucket) : ~Old(q, t)}
    BY <1>4, <1>15, RefreshBucket
  <2>2. packet \in Packet(Refresh(bucket, t), d.pid)
    BY <1>4, <2>1 DEF Packet
  <2>3. QED
    BY <2>2
<1>17. result' = Message(d, DumpData(packet, buffer_size))
  BY <1>3, <1>13, <1>15, <1>16 DEF Returned
<1>18. QED
  BY <1>7, <1>13, <1>17

LEMMA ReceiveReceivedWhole ==
  ASSUME IndInv, NEW d \in net, NEW t, ReceiveFragment(d, t)
  PROVE  ReceivedWhole'
<1> USE DEF IndInv
<1>1. now \in Nat
  BY DEF TypeInv
<1>2. result' = Returned(d, t) /\ now' = t
  BY <1>1, ReceiveFacts
<1>3. sent' = sent /\ restarted' = restarted
  BY <1>1, ReceiveFacts
<1>4. InTime
  BY <1>1, ReceiveFacts
<1>5. t \in Nat
  BY <1>1, <1>2, <1>4 DEF InTime
<1> SUFFICES ASSUME result'.kind = "message", ~Confused(result.from, now)'
             PROVE  \E k \in DOMAIN sent' : Whole(result, sent[k])'
  BY DEF ReceivedWhole
<1>6. /\ Ready(d) /\ Packet(Refresh(Bucket(d), t), d.pid) # {}
      /\ result' = Message(d, DumpData(Arrived(d), buffer_size))
  <2>1. NoMessage.kind # "message" /\ Garbage.kind # "message"
    BY DEF NoMessage, Garbage
  <2>2. QED
    BY <1>2, <2>1 DEF Returned
<1>7. result'.from = d.from
  BY <1>6 DEF Message
<1>8. PICK packet : packet = Arrived(d)
  OBVIOUS
<1>9. PICK bucket : bucket = Bucket(d)
  OBVIOUS
<1>10. /\ bucket \in Seq(PacketRecs) /\ Ordered(bucket)
       /\ packet \in Range(bucket) /\ packet \in PacketRecs /\ packet.pid = d.pid
  <2>1. bucket = AddFragment(Refresh(ep[d.to][d.from].incoming, now), d, now)
    BY <1>9 DEF Bucket
  <2>2. packet = The(Packet(bucket, d.pid))
    BY <1>8, <1>9 DEF Arrived
  <2>3. QED
    BY <2>1, <2>2, AddFragmentBucket
<1>11. ~Old(packet, t)
  <2>1. Range(Refresh(bucket, t)) = {q \in Range(bucket) : ~Old(q, t)}
    BY <1>5, <1>10, RefreshBucket
  <2>2. PICK q \in Range(Refresh(bucket, t)) : q.pid = d.pid
    BY <1>6, <1>9 DEF Packet
  <2>3. q \in Range(bucket) /\ ~Old(q, t)
    BY <2>1, <2>2
  <2>4. Packet(bucket, packet.pid) = {packet}
    BY <1>10, UniquePacket
  <2>5. q = packet
    BY <1>10, <2>2, <2>3, <2>4 DEF Packet
  <2>6. QED
    BY <2>3, <2>5
<1>12. Settled(d.from, packet)
  <2>1. PICK r \in Int : r = restarted[d.from]
    BY GramFacts DEF TypeInv
  <2>2. PICK born \in Nat : born = packet.born
    BY <1>10, PacketTypes
  <2>3. ~(t - r < max_pkt_age + NetDelay)
    <3>1. Confused(result.from, now)' <=> now' - restarted'[result'.from] < max_pkt_age + NetDelay
      BY DEF Confused
    <3>2. QED
      BY <1>2, <1>3, <1>7, <2>1, <3>1
  <2>4. ~(t - born >= max_pkt_age)
    BY <1>11, <2>2 DEF Old
  <2>5. max_pkt_age \in Nat /\ NetDelay \in Nat
    BY Constants
  <2>6. born > r + NetDelay
    BY <1>5, <2>3, <2>4, <2>5
  <2>7. QED
    BY <2>1, <2>2, <2>6 DEF Settled
<1>13. PICK k \in 1 .. Len(sent) : Carries(d, k)
  BY DEF NetInv
<1>14. Whole(result', sent[k])
  BY <1>6, <1>8, <1>11, <1>12, <1>13, ReturnedWhole
<1>15. k \in DOMAIN sent
  BY InRange DEF TypeInv
<1>16. Whole(result, sent[k])'
  BY <1>3, <1>14
<1>17. QED
  BY <1>3, <1>15, <1>16

(* recv_from_peer: whatever was lost, repeated, overtaken or asked for     *)
(* again, and although ids come round, a message is returned as it was     *)
(* sent, cut short if it is longer than the buffer; only until the packets *)
(* begun before a restart of the sender have expired may two be mixed up.  *)
THEOREM MessagesWhole == Spec => []ReceivedWhole
<1>1. Init => ReceivedWhole
  BY DEF Init, ReceivedWhole, NoMessage
<1>2. IndInv /\ ReceivedWhole /\ [Next]_vars => ReceivedWhole'
  <2> SUFFICES ASSUME IndInv, ReceivedWhole, [Next]_vars PROVE ReceivedWhole'
    OBVIOUS
  <2>1. ASSUME result' = NoMessage PROVE ReceivedWhole'
    <3>1. result'.kind # "message"
      BY <2>1 DEF NoMessage
    <3>2. QED
      BY <3>1 DEF ReceivedWhole
  <2>2. ASSUME NEW n \in Nodes, Receive(n) PROVE ReceivedWhole'
    BY <2>2, ReceiveReceivedWhole DEF Receive
  <2>3. ASSUME NEW n, NEW p, SendToPeer(n, p) PROVE result' = NoMessage
    BY <2>3 DEF SendToPeer
  <2>4. ASSUME NEW n, SendAttempt(n) \/ Restart(n) PROVE result' = NoMessage
    BY <2>4 DEF SendAttempt, Restart
  <2>5. ASSUME NEW n, NEW p, NEW pid, NEW id, ReceiveRequest(n, p, pid, id)
        PROVE  result' = NoMessage
    BY <2>5 DEF ReceiveRequest
  <2>6. ASSUME NEW d, Lose(d) PROVE result' = NoMessage
    BY <2>6 DEF Lose
  <2>7. Tick => result' = NoMessage
    BY DEF Tick
  <2>8. CASE UNCHANGED vars
    <3>1. now' = now /\ result' = result /\ sent' = sent /\ restarted' = restarted
      BY <2>8 DEF vars
    <3>2. ASSUME result.kind = "message", ~Confused(result.from, now)'
          PROVE  \E k \in DOMAIN sent' : Whole(result, sent[k])'
      <4>1. ~Confused(result.from, now)
        BY <3>1, <3>2 DEF Confused
      <4>2. PICK k \in DOMAIN sent : Whole(result, sent[k])
        BY <3>2, <4>1 DEF ReceivedWhole
      <4>3. Whole(result, sent[k])'
        BY <3>1, <4>2
      <4>4. QED
        BY <3>1, <4>2, <4>3
    <3>3. QED
      BY <3>1, <3>2 DEF ReceivedWhole
  <2>9. QED
    BY <2>1, <2>2, <2>3, <2>4, <2>5, <2>6, <2>7, <2>8 DEF Next
<1>3. QED
  BY <1>1, <1>2, Invariance, PTL DEF Spec
-----------------------------------------------------------------------------
(***************************************************************************)
(* Where the fragments of a message are                                    *)
(***************************************************************************)
Part(k, id) == Piece(<<k, Sizes[k]>>, id)

WaitsIn(n, p, x) ==
  \E e \in Range(outqueue[n]) : /\ e.type = "fragment" /\ e.to = p
                                /\ \E q \in Packet(ep[n][p].outgoing, e.pid) :
                                     e.id \in FragIds(q) /\ q.frags[e.id] = x
OnTheWay(x) == \E d \in net : d.data = x
RestsIn(n, p, x) ==
  \E q \in Range(ep[p][n].incoming) : \E id \in FragIds(q) : q.frags[id] = x

Somewhere(n, p, x) == WaitsIn(n, p, x) \/ OnTheWay(x) \/ RestsIn(n, p, x)

(* A message young enough that nothing of it expires, and not mixed up.    *)
Young(k, t) == t - sent[k].at <= Grace /\ ~Confused(sent[k].from, sent[k].at)

Unlost ==
  \A k \in pending : Young(k, now) =>
    \A id \in 0 .. FragNum(Sizes[k]) - 1 : Somewhere(sent[k].from, sent[k].to, Part(k, id))

LEMMA GraceFacts ==
  Grace \in Nat /\ Grace <= NetDelay /\ Grace < max_pkt_age
<1>1. NetDelay \in Nat /\ max_pkt_age \in Nat \ {0}
  BY Constants
<1>2. QED
  BY <1>1 DEF Grace

LEMMA PendingFacts ==
  ASSUME IndInv, NEW k \in 1 .. Len(sent)
  PROVE  /\ sent[k].from \in Nodes /\ sent[k].to \in Others(sent[k].from) /\ sent[k].at \in Nat
         /\ Went(sent[k].from, sent[k].to, k) /\ sent[k].from \in Others(sent[k].to)
         /\ sent[k].to \in Nodes /\ sent[k].msg = <<k, Sizes[k]>> /\ sent[k].at <= now
         /\ FragNum(Sizes[k]) \in Nat \ {0} /\ restarted[sent[k].from] \in Int /\ now \in Nat
<1>1. sent[k].from \in Nodes /\ sent[k].to \in Nodes /\ sent[k].at \in Nat /\ Len(sent) \in Nat
  BY SentTypes DEF IndInv
<1>2. sent[k].to # sent[k].from /\ sent[k].msg = <<k, Sizes[k]>> /\ sent[k].at <= now
  BY DEF IndInv, LogInv
<1>3. k \in 1 .. Len(Sizes)
  <2>1. Len(Sizes) \in Nat /\ Len(sent) <= Len(Sizes)
    BY Constants DEF IndInv, LogInv
  <2>2. QED
    BY <1>1, <2>1
<1>4. FragNum(Sizes[k]) \in Nat \ {0}
  BY <1>3, SizeFacts
<1>5. restarted[sent[k].from] \in Int /\ now \in Nat
  BY <1>1 DEF IndInv, TypeInv
<1>6. QED
  BY <1>1, <1>2, <1>4, <1>5 DEF Went, Others

(* A message that is young after a step was so before it.                  *)
LEMMA YoungBefore ==
  ASSUME IndInv, NEW k \in 1 .. Len(sent), now' \in {now, now + 1}, sent'[k] = sent[k],
         restarted'[sent[k].from] = restarted[sent[k].from], Young(k, now)'
  PROVE  Young(k, now) /\ now' - sent[k].at <= Grace
<1>1. PICK a \in Nat : a = sent[k].at
  BY PendingFacts
<1>2. now' - sent[k].at <= Grace
  <2>1. now' - sent'[k].at <= Grace
    BY DEF Young, Grace
  <2>2. QED
    BY <2>1
<1>3. now - sent[k].at <= Grace
  <2>1. now \in Nat /\ Grace \in Nat
    BY PendingFacts, GraceFacts
  <2>2. now' - a <= Grace
    BY <1>1, <1>2
  <2>3. now - a <= Grace
    <3>1. CASE now' = now
      BY <2>2, <3>1
    <3>2. CASE now' = now + 1
      <4>1. now + 1 - a <= Grace
        BY <2>2, <3>2
      <4>2. QED
        BY ONLY <2>1, <4>1, a \in Nat
    <3>3. QED
      BY <3>1, <3>2
  <2>4. QED
    BY <1>1, <2>3
<1>4. ~Confused(sent[k].from, sent[k].at)
  BY DEF Young, Confused
<1>5. QED
  BY <1>2, <1>3, <1>4 DEF Young

(* Its datagrams do not get too old.                                       *)
LEMMA GramsLive ==
  ASSUME IndInv, NEW k \in 1 .. Len(sent), NEW id, NEW d \in net, d.data = Part(k, id),
         NEW t \in Nat, t - sent[k].at <= Grace
  PROVE  t - d.left <= NetDelay /\ Carries(d, k) /\ d.id = id
<1>1. PICK j \in 1 .. Len(sent) : Carries(d, j)
  BY DEF IndInv, NetInv
<1>2. sent[j].msg = <<j, Sizes[j]>>
  BY PendingFacts
<1>3. Piece(<<j, Sizes[j]>>, d.id) = Piece(<<k, Sizes[k]>>, id)
  BY <1>1, <1>2 DEF Carries, Part
<1>4. j = k /\ d.id = id
  BY ONLY <1>3, PieceFacts
<1>5. Carries(d, k)
  BY <1>1, <1>4
<1>6. PICK a \in Nat : a = sent[k].at
  BY PendingFacts
<1>7. PICK left \in Nat : left = d.left
  BY GramFacts
<1>8. t - d.left <= NetDelay
  <2>1. a <= left /\ t - a <= Grace
    BY <1>5, <1>6, <1>7 DEF Carries
  <2>2. Grace \in Nat /\ Grace <= NetDelay /\ NetDelay \in Nat
    BY GraceFacts, Constants
  <2>3. t - left <= NetDelay
    BY ONLY <2>1, <2>2, a \in Nat, left \in Nat, t \in Nat
  <2>4. QED
    BY <1>7, <2>3
<1>9. QED
  BY <1>4, <1>5, <1>8

(* Its packet does not expire in the sender's bucket.                      *)
LEMMA OutLives ==
  ASSUME IndInv, NEW k \in 1 .. Len(sent), NEW n \in Nodes, NEW p \in Others(n), NEW id, NEW i,
         NEW q \in Range(ep[n][p].outgoing), i \in FragIds(q), q.frags[i] = Part(k, id),
         NEW t \in Nat, t - sent[k].at <= Grace
  PROVE  ~Old(q, t)
<1>1. q \in PacketRecs /\ OutPacket(n, p, q)
  BY EndpointTypes, InRange DEF IndInv, OutInv
<1>2. PICK j \in 1 .. Len(sent) : sent[j].at = q.born /\ q = NewPacket(q.pid, sent[j].msg, q.born)
  BY <1>1 DEF OutPacket
<1>3. sent[j].msg = <<j, Sizes[j]>> /\ j \in 1 .. Len(Sizes)
  <2>1. Len(sent) \in Nat /\ Len(Sizes) \in Nat /\ Len(sent) <= Len(Sizes)
    BY SentTypes, Constants DEF IndInv, LogInv
  <2>2. QED
    BY <2>1, PendingFacts
<1>4. q.pid \in Ids /\ q.born \in Nat
  BY <1>1, PacketTypes
<1>5. q.frags[i] = Piece(<<j, Sizes[j]>>, i)
  <2>1. PICK pid \in Ids : pid = q.pid
    BY <1>4
  <2>2. PICK born \in Nat : born = q.born
    BY <1>4
  <2>3. q = NewPacket(pid, <<j, Sizes[j]>>, born)
    BY <1>2, <1>3, <2>1, <2>2
  <2>4. \A m \in FragIds(q) : q.frags[m] = Piece(<<j, Sizes[j]>>, m)
    BY <1>3, <2>3, NewPacketFacts
  <2>5. QED
    BY <2>4
<1>6. Piece(<<j, Sizes[j]>>, i) = Piece(<<k, Sizes[k]>>, id)
  BY <1>5 DEF Part
<1>7. j = k
  BY ONLY <1>6, PieceFacts
<1>8. q.born = sent[k].at
  BY <1>2, <1>7
<1>9. Grace \in Nat /\ Grace < max_pkt_age /\ max_pkt_age \in Nat
  BY GraceFacts, Constants
<1>10. ~(t - q.born >= max_pkt_age)
  BY <1>4, <1>8, <1>9
<1>11. QED
  BY <1>10 DEF Old

(* A packet in the receiver's bucket that holds a piece of it is settled,  *)
(* and does not expire.                                                    *)
LEMMA HolderLives ==
  ASSUME IndInv, NEW k \in 1 .. Len(sent), NEW n, NEW p, NEW q \in PacketRecs, NEW i,
         Holds(n, p, q, i, k), Young(k, now), NEW t \in Nat, t - sent[k].at <= Grace
  PROVE  Settled(p, q) /\ ~Old(q, t)
<1>1. PICK a \in Nat : a = sent[k].at
  BY PendingFacts
<1>2. PICK born \in Nat : born = q.born
  BY PacketTypes
<1>3. sent[k].from = p
  BY DEF Holds, Went
<1>4. PICK r \in Int : r = restarted[p]
  BY <1>3, PendingFacts
<1>5. max_pkt_age \in Nat /\ NetDelay \in Nat
  BY Constants
<1>6. ~(a - r < max_pkt_age + NetDelay)
  BY <1>1, <1>3, <1>4 DEF Young, Confused
<1>7. a < born + max_pkt_age
  BY <1>1, <1>2 DEF Holds
<1>8. born > r + NetDelay
  BY <1>5, <1>6, <1>7
<1>9. Settled(p, q)
  BY <1>2, <1>4, <1>8 DEF Settled
<1>10. a <= born
  BY <1>1, <1>2, <1>9 DEF Holds
<1>11. Grace \in Nat /\ Grace < max_pkt_age
  BY GraceFacts
<1>12. ~(t - born >= max_pkt_age)
  BY <1>1, <1>5, <1>10, <1>11
<1>13. QED
  BY <1>2, <1>9, <1>12 DEF Old

(* What a step does to a message that stays pending: nothing of it goes.   *)
Carried(k) ==
  /\ k \in pending
  /\ sent'[k] = sent[k]
  /\ restarted'[sent[k].from] = restarted[sent[k].from]
  /\ \A n, p, id : /\ n = sent[k].from /\ p = sent[k].to
                   /\ Young(k, now) /\ now' - sent[k].at <= Grace
                   /\ Somewhere(n, p, Part(k, id))
                   => Somewhere(n, p, Part(k, id))'

LEMMA CarriedUnlost ==
  ASSUME IndInv, Unlost, now' \in {now, now + 1}, NEW k, Carried(k), Young(k, now)',
         NEW id \in 0 .. FragNum(Sizes[k]) - 1
  PROVE  Somewhere(sent[k].from, sent[k].to, Part(k, id))'
<1>1. /\ k \in pending /\ k \in 1 .. Len(sent) /\ sent'[k] = sent[k]
      /\ restarted'[sent[k].from] = restarted[sent[k].from]
  BY DEF Carried, IndInv, TypeInv
<1>2. Young(k, now) /\ now' - sent[k].at <= Grace
  BY <1>1, YoungBefore
<1>3. PICK n, p : n = sent[k].from /\ p = sent[k].to
  OBVIOUS
<1>4. Somewhere(n, p, Part(k, id))
  BY <1>1, <1>2, <1>3 DEF Unlost
<1>5. Somewhere(n, p, Part(k, id))'
  BY <1>2, <1>3, <1>4 DEF Carried
<1>6. QED
  BY <1>1, <1>3, <1>5

(* The clock goes on, or a datagram is lost that is not of the message.    *)
LEMMA QuietCarried ==
  ASSUME IndInv, NEW k \in pending, UNCHANGED <<ep, outqueue, sent, restarted>>, now' \in Nat,
         \A d \in net : Carries(d, k) /\ now' - d.left <= NetDelay => d \in net'
  PROVE  Carried(k)
<1>1. k \in 1 .. Len(sent)
  BY DEF IndInv, TypeInv
<1>2. ASSUME NEW n, NEW p, NEW id, Young(k, now), now' - sent[k].at <= Grace,
             Somewhere(n, p, Part(k, id))
      PROVE  Somewhere(n, p, Part(k, id))'
  <2>1. WaitsIn(n, p, Part(k, id)) => WaitsIn(n, p, Part(k, id))'
    BY DEF WaitsIn
  <2>2. RestsIn(n, p, Part(k, id)) => RestsIn(n, p, Part(k, id))'
    BY DEF RestsIn
  <2>3. OnTheWay(Part(k, id)) => OnTheWay(Part(k, id))'
    <3> SUFFICES ASSUME NEW d \in net, d.data = Part(k, id) PROVE OnTheWay(Part(k, id))'
      BY DEF OnTheWay
    <3>1. now' - d.left <= NetDelay /\ Carries(d, k)
      BY <1>1, <1>2, GramsLive
    <3>2. d \in net'
      BY <3>1
    <3>3. QED
      BY <3>2 DEF OnTheWay
  <2>4. QED
    BY <1>2, <2>1, <2>2, <2>3 DEF Somewhere
<1>3. QED
  BY <1>2 DEF Carried

(* Packets that are too old go: none of the message is.                    *)
LEMMA ExpiredCarried ==
  ASSUME IndInv, NEW k \in pending, NEW m \in Nodes, NEW o \in Others(m), ExpiredOnly(m, o),
         UNCHANGED <<now, net, restarted>>, sent'[k] = sent[k]
  PROVE  Carried(k)
<1>1. k \in 1 .. Len(sent)
  BY DEF IndInv, TypeInv
<1>2. ASSUME NEW n, NEW p, NEW id, n = sent[k].from, p = sent[k].to, Young(k, now),
             now' - sent[k].at <= Grace, Somewhere(n, p, Part(k, id))
      PROVE  Somewhere(n, p, Part(k, id))'
  <2>1. n \in Nodes /\ p \in Others(n) /\ p \in Nodes /\ n \in Others(p) /\ now \in Nat
    BY <1>1, <1>2, PendingFacts
  <2>2. RestsIn(n, p, Part(k, id)) => RestsIn(n, p, Part(k, id))'
    BY <2>1 DEF RestsIn, ExpiredOnly
  <2>3. OnTheWay(Part(k, id)) => OnTheWay(Part(k, id))'
    BY DEF OnTheWay
  <2>4. WaitsIn(n, p, Part(k, id)) => WaitsIn(n, p, Part(k, id))'
    <3> SUFFICES ASSUME NEW e \in Range(outqueue[n]), e.type = "fragment", e.to = p,
                        NEW q \in Packet(ep[n][p].outgoing, e.pid), e.id \in FragIds(q),
                        q.frags[e.id] = Part(k, id)
                 PROVE  WaitsIn(n, p, Part(k, id))'
      BY DEF WaitsIn
    <3>1. q \in Range(ep[n][p].outgoing) /\ q.pid = e.pid
      BY DEF Packet
    <3>2. ~Old(q, now)
      BY <1>1, <1>2, <2>1, <3>1, OutLives
    <3>3. q \in Range(ep'[n][p].outgoing)
      BY <2>1, <3>1, <3>2 DEF ExpiredOnly
    <3>4. e \in Range(outqueue'[n])
      <4>1. CASE n # m
        BY <2>1, <4>1 DEF ExpiredOnly
      <4>2. CASE n = m
        <5>1. Stays(e, o, Refresh(ep[m][o].outgoing, now))
          <6>1. CASE p # o
            BY <6>1 DEF Stays
          <6>2. CASE p = o
            <7>1. ep[n][p].outgoing \in Seq(PacketRecs) /\ Ordered(ep[n][p].outgoing)
              BY <2>1, EndpointTypes DEF IndInv, OutInv
            <7>2. Range(Refresh(ep[n][p].outgoing, now)) = {x \in Range(ep[n][p].outgoing) : ~Old(x, now)}
              BY <2>1, <7>1, RefreshBucket
            <7>3. q \in Packet(Refresh(ep[n][p].outgoing, now), e.pid)
              BY <3>1, <3>2, <7>2 DEF Packet
            <7>4. QED
              BY <4>2, <6>2, <7>3 DEF Stays
          <6>3. QED
            BY <6>1, <6>2
        <5>2. QED
          BY <4>2, <5>1 DEF ExpiredOnly
      <4>3. QED
        BY <4>1, <4>2
    <3>5. q \in Packet(ep'[n][p].outgoing, e.pid)
      BY <3>1, <3>3 DEF Packet
    <3>6. QED
      BY <3>4, <3>5 DEF WaitsIn
  <2>5. QED
    BY <1>2, <2>2, <2>3, <2>4 DEF Somewhere
<1>3. QED
  BY <1>2 DEF Carried

(* net_helper_send_attempt: what leaves the queue is on its way.           *)
LEMMA SendAttemptCarried ==
  ASSUME IndInv, NEW m \in Nodes, SendAttempt(m), NEW k \in pending
  PROVE  Carried(k)
<1>1. k \in 1 .. Len(sent)
  BY DEF IndInv, TypeInv
<1>2. /\ outqueue[m] # << >> /\ net' = net \union Datagrams(m, Head(outqueue[m]))
      /\ outqueue' = [outqueue EXCEPT ![m] = Tail(outqueue[m])]
      /\ ep' = ep /\ sent' = sent /\ restarted' = restarted
  BY DEF SendAttempt
<1>3. outqueue[m] \in Seq(ElemRecs(m)) /\ Once(outqueue[m])
  BY DEF IndInv, TypeInv, QueueInv
<1>4. \A x : x \in Range(outqueue[m]) <=> x = Head(outqueue[m]) \/ x \in Range(Tail(outqueue[m]))
  BY <1>2, <1>3, TailQueue
<1>5. outqueue'[m] = Tail(outqueue[m]) /\ \A n \in Nodes : n # m => outqueue'[n] = outqueue[n]
  <2>1. DOMAIN outqueue = Nodes
    BY Zenon DEF IndInv, TypeInv
  <2>2. QED
    BY <1>2, <2>1
<1>6. ASSUME NEW n, NEW p, NEW id, n = sent[k].from, p = sent[k].to, Somewhere(n, p, Part(k, id))
      PROVE  Somewhere(n, p, Part(k, id))'
  <2>1. n \in Nodes /\ p \in Others(n)
    BY <1>1, <1>6, PendingFacts
  <2>2. RestsIn(n, p, Part(k, id)) => RestsIn(n, p, Part(k, id))'
    BY <1>2 DEF RestsIn
  <2>3. OnTheWay(Part(k, id)) => OnTheWay(Part(k, id))'
    BY <1>2 DEF OnTheWay
  <2>4. ASSUME WaitsIn(n, p, Part(k, id)) PROVE (WaitsIn(n, p, Part(k, id)) \/ OnTheWay(Part(k, id)))'
    <3>1. PICK e \in Range(outqueue[n]) :
            /\ e.type = "fragment" /\ e.to = p
            /\ \E q \in Packet(ep[n][p].outgoing, e.pid) :
                 e.id \in FragIds(q) /\ q.frags[e.id] = Part(k, id)
      BY <2>4 DEF WaitsIn
    <3>2. PICK q \in Packet(ep[n][p].outgoing, e.pid) :
            e.id \in FragIds(q) /\ q.frags[e.id] = Part(k, id)
      BY <3>1
    <3>3. CASE e \in Range(outqueue'[n])
      BY <1>2, <3>1, <3>2, <3>3 DEF WaitsIn
    <3>4. CASE e \notin Range(outqueue'[n])
      <4>1. n = m /\ e = Head(outqueue[m])
        BY <1>4, <1>5, <2>1, <3>4
      <4>2. The(Packet(ep[n][p].outgoing, e.pid)) = q
        <5>1. ep[n][p].outgoing \in Seq(PacketRecs) /\ Ordered(ep[n][p].outgoing)
          BY <2>1, EndpointTypes DEF IndInv, OutInv
        <5>2. q \in Range(ep[n][p].outgoing) /\ q.pid = e.pid
          BY <3>2 DEF Packet
        <5>3. QED
          BY <5>1, <5>2, UniquePacket
      <4>3. PICK d : d \in FragmentSend(n, e) /\ d.data = q.frags[e.id]
        BY <3>1, <4>2 DEF FragmentSend
      <4>4. d \in net'
        BY <1>2, <3>1, <4>1, <4>3 DEF Datagrams
      <4>5. QED
        BY <3>2, <4>3, <4>4 DEF OnTheWay
    <3>5. QED
      BY <3>3, <3>4
  <2>5. QED
    BY <1>6, <2>2, <2>3, <2>4 DEF Somewhere
<1>7. QED
  BY <1>2, <1>6 DEF Carried

(* net_helper_deinit, net_helper_init: what the others have stays.         *)
LEMMA RestartCarried ==
  ASSUME IndInv, NEW m \in Nodes, Restart(m), NEW k \in pending'
  PROVE  Carried(k)
<1>1. /\ pending' = {j \in pending : m \notin {sent[j].from, sent[j].to}}
      /\ ep' = [ep EXCEPT ![m] = NewEndpoints(m)]
      /\ outqueue' = [outqueue EXCEPT ![m] = << >>]
      /\ restarted' = [restarted EXCEPT ![m] = now]
      /\ sent' = sent /\ net \subseteq net'
  BY DEF Restart
<1>2. k \in pending /\ m # sent[k].from /\ m # sent[k].to
  BY <1>1
<1>3. k \in 1 .. Len(sent)
  BY <1>2 DEF IndInv, TypeInv
<1>4. \A n \in Nodes : n # m => /\ ep'[n] = ep[n] /\ outqueue'[n] = outqueue[n]
                                /\ restarted'[n] = restarted[n]
  <2>1. DOMAIN outqueue = Nodes /\ DOMAIN ep = Nodes /\ DOMAIN restarted = Nodes
    BY Zenon DEF IndInv, TypeInv
  <2>2. QED
    BY <1>1, <2>1
<1>5. ASSUME NEW n, NEW p, NEW id, n = sent[k].from, p = sent[k].to, Somewhere(n, p, Part(k, id))
      PROVE  Somewhere(n, p, Part(k, id))'
  <2>1. n \in Nodes /\ p \in Nodes /\ n # m /\ p # m
    BY <1>2, <1>3, <1>5, PendingFacts
  <2>2. ep'[n] = ep[n] /\ outqueue'[n] = outqueue[n] /\ ep'[p] = ep[p]
    BY <1>4, <2>1
  <2>3. RestsIn(n, p, Part(k, id)) => RestsIn(n, p, Part(k, id))'
    BY <2>2 DEF RestsIn
  <2>4. OnTheWay(Part(k, id)) => OnTheWay(Part(k, id))'
    BY <1>1 DEF OnTheWay
  <2>5. WaitsIn(n, p, Part(k, id)) => WaitsIn(n, p, Part(k, id))'
    BY <2>2 DEF WaitsIn
  <2>6. QED
    BY <1>5, <2>3, <2>4, <2>5 DEF Somewhere
<1>6. restarted'[sent[k].from] = restarted[sent[k].from]
  BY <1>2, <1>3, <1>4, PendingFacts
<1>7. QED
  BY <1>1, <1>2, <1>5, <1>6 DEF Carried

(* send_to_peer: all of the new message waits in the queue.                *)
LEMMA SendToPeerUnlost ==
  ASSUME IndInv, Unlost, NEW m \in Nodes, NEW o \in Others(m), SendToPeer(m, o)
  PROVE  Unlost'
<1>1. ExpiredOnly(m, o) /\ NewQueued(m, o, Len(sent) + 1)
  BY SendToPeerStep
<1>2. PICK l : l = Len(sent) + 1
  OBVIOUS
<1>3. PICK r : r = [from |-> m, to |-> o, msg |-> <<l, Sizes[l]>>, at |-> now]
  OBVIOUS
<1>4. /\ Len(sent) < Len(Sizes) /\ sent' = Append(sent, r) /\ pending' = pending \union {l}
      /\ UNCHANGED <<now, net, restarted>>
  BY <1>2, <1>3 DEF SendToPeer
<1>5. l \in 1 .. Len(Sizes) /\ now \in Nat
  <2>1. Len(sent) \in Nat /\ Len(Sizes) \in Nat /\ now \in Nat
    BY SentTypes, Constants DEF IndInv, TypeInv
  <2>2. QED
    BY <1>2, <1>4, <2>1
<1>6. sent'[l] = r /\ \A k \in 1 .. Len(sent) : sent'[k] = sent[k]
  <2>1. <<l, Sizes[l]>> \in Nat \X Nat
    <3>1. l \in Nat /\ Sizes[l] \in Nat
      BY <1>5, SizeFacts, Constants
    <3>2. QED
      BY <3>1
  <2>2. m \in Nodes /\ o \in Nodes
    BY DEF Others
  <2>3. r \in SentRecs
    BY <1>3, <1>5, <2>1, <2>2 DEF SentRecs
  <2>4. QED
    BY <1>2, <1>4, <2>3, AppendSent DEF IndInv
<1>7. ASSUME NEW k \in pending', Young(k, now)', NEW id \in 0 .. FragNum(Sizes[k]) - 1
      PROVE  Somewhere(sent[k].from, sent[k].to, Part(k, id))'
  <2>1. CASE k \in pending
    <3>1. k \in 1 .. Len(sent)
      BY <2>1 DEF IndInv, TypeInv
    <3>2. Carried(k)
      BY <1>1, <1>4, <1>6, <2>1, <3>1, ExpiredCarried
    <3>3. QED
      BY <1>4, <1>7, <3>2, CarriedUnlost
  <2>2. CASE k = l
    <3>1. PICK q \in Range(ep'[m][o].outgoing) :
            /\ q \in PacketRecs /\ q = NewPacket(q.pid, <<l, Sizes[l]>>, now)
            /\ \A i \in FragIds(q) : FragElem(o, q.pid, i) \in Range(outqueue'[m])
      BY <1>1, <1>2 DEF NewQueued
    <3>2. PICK pid \in Ids : pid = q.pid
      BY <3>1, PacketTypes
    <3>3. q = NewPacket(pid, <<l, Sizes[l]>>, now)
      BY <3>1, <3>2
    <3>4. id \in FragIds(q) /\ q.frags[id] = Part(k, id)
      <4>1. /\ FragIds(q) = 0 .. FragNum(Sizes[l]) - 1
            /\ \A i \in FragIds(q) : q.frags[i] = Piece(<<l, Sizes[l]>>, i)
        BY <1>5, <3>3, NewPacketFacts
      <4>2. id \in FragIds(q)
        BY <1>7, <2>2, <4>1
      <4>3. QED
        BY <2>2, <4>1, <4>2 DEF Part
    <3>5. PICK e : e = FragElem(o, pid, id)
      OBVIOUS
    <3>6. e \in Range(outqueue'[m])
      BY <3>1, <3>2, <3>4, <3>5
    <3>7. e.type = "fragment" /\ e.to = o /\ e.pid = pid /\ e.id = id
      BY <3>5 DEF FragElem
    <3>8. q \in Packet(ep'[m][o].outgoing, e.pid)
      BY <3>1, <3>2, <3>7 DEF Packet
    <3>9. WaitsIn(m, o, Part(k, id))'
      BY <3>4, <3>6, <3>7, <3>8 DEF WaitsIn
    <3>10. sent'[k].from = m /\ sent'[k].to = o
      BY <1>3, <1>6, <2>2
    <3>11. Somewhere(m, o, Part(k, id))'
      BY <3>9 DEF Somewhere
    <3>12. QED
      BY <3>10, <3>11
  <2>3. QED
    BY <1>4, <2>1, <2>2
<1>8. QED
  BY <1>7 DEF Unlost

(* recv_from_peer: a piece of the message in the packet of the fragment    *)
(* stays there, since the packet is not complete yet.                      *)
LEMMA InHand ==
  ASSUME IndInv, NEW d \in net, NEW t, ReceiveFragment(d, t), NEW k \in pending', Carries(d, k),
         NEW packet, packet = Arrived(d), Settled(d.from, packet), ~Old(packet, t),
         NEW n, n = d.from, NEW p, p = d.to, NEW x, NEW i \in FragIds(packet), packet.frags[i] = x
  PROVE  RestsIn(n, p, x)'
<1>1. ~Whole(result', sent[k])
  <2>1. now \in Nat
    BY DEF IndInv, TypeInv
  <2>2. QED
    BY <2>1, ReceiveFacts
<1>2. ~Ready(d)
  BY <1>1, ReturnedWhole
<1>3. ep'[p][n].incoming = Bucket(d)
  <2>1. ReceivedOnly(d, t)
    BY ReceiveFragmentStep
  <2>2. QED
    BY <1>2, <2>1 DEF ReceivedOnly, BucketLeft
<1>4. packet \in Range(Bucket(d))
  <2>1. PICK bucket : bucket = Bucket(d)
    OBVIOUS
  <2>2. bucket = AddFragment(Refresh(ep[d.to][d.from].incoming, now), d, now)
    BY <2>1 DEF Bucket
  <2>3. packet = The(Packet(bucket, d.pid))
    BY <2>1 DEF Arrived
  <2>4. packet \in Range(bucket)
    BY <2>2, <2>3, AddFragmentBucket, SMTT(30)
  <2>5. QED
    BY <2>1, <2>4
<1>5. QED
  BY <1>3, <1>4 DEF RestsIn

(* The packet of a fragment of the message.                                *)
LEMMA ArrivedFacts ==
  ASSUME IndInv, NEW d \in net, NEW packet, packet = Arrived(d)
  PROVE  /\ packet \in PacketRecs /\ packet.pid = d.pid /\ packet.born <= now /\ ~Old(packet, now)
         /\ Held(d.to, d.from, packet) /\ Missing(packet) # FragIds(packet)
         /\ d.id \in FragIds(packet) => packet.frags[d.id] = d.data
         /\ \A q \in Range(ep[d.to][d.from].incoming) :
              q.pid # d.pid /\ ~Old(q, now) => q \in Range(Bucket(d))
         /\ \A q \in Range(ep[d.to][d.from].incoming) : q.pid = d.pid /\ ~Old(q, now) =>
              /\ FragIds(packet) = FragIds(q) /\ packet.born = q.born
              /\ \A id \in FragIds(q) : id # d.id => packet.frags[id] = q.frags[id]
         /\ Bucket(d) \in Seq(PacketRecs) /\ Ordered(Bucket(d))
<1>1. PICK bucket : bucket = Bucket(d)
  OBVIOUS
<1>2. bucket = AddFragment(Refresh(ep[d.to][d.from].incoming, now), d, now)
  BY <1>1 DEF Bucket
<1>3. packet = The(Packet(bucket, d.pid))
  BY <1>1, SMTT(30) DEF Arrived
<1>4. /\ packet \in PacketRecs /\ packet.pid = d.pid /\ packet.born <= now /\ ~Old(packet, now)
      /\ Held(d.to, d.from, packet) /\ Missing(packet) # FragIds(packet)
      /\ d.id \in FragIds(packet) => packet.frags[d.id] = d.data
  BY <1>2, <1>3, AddFragmentBucket, SMTT(30)
<1>5. /\ \A q \in Range(ep[d.to][d.from].incoming) :
           q.pid # d.pid /\ ~Old(q, now) => q \in Range(bucket)
      /\ bucket \in Seq(PacketRecs) /\ Ordered(bucket)
  BY SMTT(30), <1>2, <1>3, AddFragmentBucket
<1>6. \A q \in Range(ep[d.to][d.from].incoming) : q.pid = d.pid /\ ~Old(q, now) =>
        /\ FragIds(packet) = FragIds(q) /\ packet.born = q.born
        /\ \A id \in FragIds(q) : id # d.id => packet.frags[id] = q.frags[id]
  BY SMTT(30), <1>2, <1>3, AddFragmentBucket
<1>7. QED
  BY <1>1, <1>4, <1>5, <1>6

LEMMA ArrivedLives ==
  ASSUME IndInv, NEW d \in net, NEW packet, packet = Arrived(d), NEW k \in 1 .. Len(sent),
         Carries(d, k), Young(k, now), NEW t \in Nat, t - sent[k].at <= Grace
  PROVE  /\ Settled(d.from, packet) /\ ~Old(packet, t)
         /\ d.id \in FragIds(packet) /\ packet.frags[d.id] = d.data
<1>1. PICK n, p : n = d.from /\ p = d.to
  OBVIOUS
<1>2. /\ packet \in PacketRecs /\ packet.pid = d.pid /\ packet.born <= now /\ ~Old(packet, now)
      /\ Held(p, n, packet) /\ Missing(packet) # FragIds(packet)
      /\ d.id \in FragIds(packet) => packet.frags[d.id] = d.data
  BY <1>1, ArrivedFacts
<1>3. Settled(n, packet)
  <2>1. PICK a \in Nat : a = sent[k].at
    BY PendingFacts
  <2>2. PICK born \in Nat : born = packet.born
    BY <1>2, PacketTypes
  <2>3. sent[k].from = n
    BY <1>1 DEF Carries, Went
  <2>4. PICK r \in Int : r = restarted[n]
    BY <2>3, PendingFacts
  <2>5. max_pkt_age \in Nat /\ NetDelay \in Nat /\ now \in Nat
    BY Constants, PendingFacts
  <2>6. a <= now
    BY <2>1, PendingFacts
  <2>7. ~(a - r < max_pkt_age + NetDelay)
    BY <2>1, <2>3, <2>4 DEF Young, Confused
  <2>8. ~(now - born >= max_pkt_age)
    BY <1>2, <2>2 DEF Old
  <2>9. born > r + NetDelay
    BY <2>5, <2>6, <2>7, <2>8
  <2>10. QED
    BY <2>2, <2>4, <2>9 DEF Settled
<1>4. PICK i \in FragIds(packet) \ Missing(packet) : TRUE
  BY <1>2 DEF Missing
<1>5. PICK j \in 1 .. Len(sent) : Holds(p, n, packet, i, j)
  BY <1>2, <1>4 DEF Held
<1>6. j = k
  BY <1>1, <1>2, <1>3, <1>4, <1>5, SameInside
<1>7. Settled(n, packet) /\ ~Old(packet, t)
  BY <1>2, <1>5, <1>6, HolderLives
<1>8. FragIds(packet) = 0 .. FragNum(Sizes[k]) - 1
  BY <1>5, <1>6, <1>7 DEF Holds
<1>9. d.id \in FragIds(packet)
  BY <1>8 DEF Carries
<1>10. QED
  BY <1>1, <1>2, <1>7, <1>9

(* recv_from_peer: what was on its way is in the packet then.              *)
LEMMA ReceiveCarried ==
  ASSUME IndInv, NEW d \in net, NEW t, ReceiveFragment(d, t), NEW k \in pending'
  PROVE  Carried(k)
<1>1. now \in Nat
  BY DEF IndInv, TypeInv
<1>2. k \in pending /\ now' = t /\ t \in Nat /\ sent' = sent /\ restarted' = restarted
  <2>1. k \in pending /\ now' = t /\ InTime
    BY <1>1, ReceiveFacts
  <2>2. sent' = sent /\ restarted' = restarted
    BY <1>1, ReceiveFacts
  <2>3. t \in Nat
    BY <1>1, <2>1 DEF InTime
  <2>4. QED
    BY <2>1, <2>2, <2>3
<1>3. \A g \in net : g # d /\ now' - g.left <= NetDelay => g \in net'
  BY <1>1, ReceiveFacts
<1>4. ReceivedOnly(d, t)
  BY ReceiveFragmentStep
<1>5. k \in 1 .. Len(sent)
  BY <1>2 DEF IndInv, TypeInv
<1>6. PICK packet : packet = Arrived(d)
  OBVIOUS
<1>7. ASSUME NEW n, NEW p, NEW id, n = sent[k].from, p = sent[k].to, Young(k, now),
             now' - sent[k].at <= Grace, Somewhere(n, p, Part(k, id))
      PROVE  Somewhere(n, p, Part(k, id))'
  <2>1. /\ n \in Nodes /\ p \in Others(n) /\ p \in Nodes /\ n \in Others(p)
        /\ sent[k].msg = <<k, Sizes[k]>> /\ t - sent[k].at <= Grace
    BY <1>2, <1>5, <1>7, PendingFacts
  <2>2. PICK x : x = Part(k, id)
    OBVIOUS
  <2>3. WaitsIn(n, p, x) => WaitsIn(n, p, x)'
    BY <1>4, <2>1 DEF WaitsIn, ReceivedOnly
  <2>4. ASSUME NEW g \in net, g.data = x PROVE OnTheWay(x)' \/ RestsIn(n, p, x)'
    <3>1. t - g.left <= NetDelay /\ Carries(g, k) /\ g.id = id
      BY <1>2, <1>5, <2>1, <2>2, <2>4, GramsLive
    <3>2. CASE g # d
      BY <1>2, <1>3, <2>4, <3>1, <3>2 DEF OnTheWay
    <3>3. CASE g = d
      <4>1. /\ Settled(d.from, packet) /\ ~Old(packet, t)
            /\ d.id \in FragIds(packet) /\ packet.frags[d.id] = d.data
        BY <1>2, <1>5, <1>6, <1>7, <2>1, <3>1, <3>3, ArrivedLives
      <4>2. n = d.from /\ p = d.to
        BY <1>7, <3>1, <3>3 DEF Carries, Went
      <4>3. RestsIn(n, p, x)'
        BY <1>6, <2>4, <3>1, <3>3, <4>1, <4>2, InHand
      <4>4. QED
        BY <4>3
    <3>4. QED
      BY <3>2, <3>3
  <2>5. ASSUME NEW q \in Range(ep[p][n].incoming), NEW i \in FragIds(q), q.frags[i] = x
        PROVE  RestsIn(n, p, x)'
    <3>1. q \in PacketRecs /\ InPacket(p, n, q) /\ q.born <= now
      BY <2>1, EndpointTypes, InRange DEF IndInv, InInv, InPacket
    <3>2. q.frags[i] # NoData
      BY <2>2, <2>5, PieceFacts DEF Part
    <3>3. PICK j \in 1 .. Len(sent) : Holds(p, n, q, i, j)
      BY <3>1, <3>2 DEF InPacket, Missing
    <3>4. j = k /\ i = id
      <4>1. sent[j].msg = <<j, Sizes[j]>>
        BY PendingFacts
      <4>2. Piece(<<j, Sizes[j]>>, i) = Piece(<<k, Sizes[k]>>, id)
        BY <2>2, <2>5, <3>3, <4>1 DEF Holds, Part
      <4>3. QED
        BY ONLY <4>2, PieceFacts
    <3>5. Holds(p, n, q, i, k)
      BY <3>3, <3>4
    <3>6. Settled(n, q) /\ ~Old(q, t)
      BY <1>2, <1>5, <1>7, <2>1, <3>1, <3>5, HolderLives
    <3>7. ~Old(q, now)
      <4>1. Young(k, now) => now - sent[k].at <= Grace
        BY DEF Young
      <4>2. QED
        BY <1>1, <1>5, <1>7, <3>1, <3>5, <4>1, HolderLives
    <3>8. CASE p # d.to \/ n # d.from
      <4>1. ep'[p][n].incoming = ep[p][n].incoming
        BY <1>4, <2>1, <3>8 DEF ReceivedOnly
      <4>2. QED
        BY <2>5, <4>1 DEF RestsIn
    <3>9. CASE p = d.to /\ n = d.from /\ q.pid # d.pid
      <4>1. q \in Range(Bucket(d)) /\ Bucket(d) \in Seq(PacketRecs) /\ Ordered(Bucket(d))
        BY <2>5, <3>7, <3>9, ArrivedFacts
      <4>2. q \in Range(BucketLeft(d, t))
        <5>1. Range(PopPacket(Bucket(d), d.pid, t)) = {y \in Range(Bucket(d)) : ~Old(y, t) /\ y.pid # d.pid}
          BY <1>2, <4>1, PopBucket
        <5>2. q \in Range(PopPacket(Bucket(d), d.pid, t))
          BY <3>6, <3>9, <4>1, <5>1
        <5>3. QED
          BY <4>1, <5>2 DEF BucketLeft
      <4>3. q \in Range(ep'[p][n].incoming)
        BY <1>4, <3>9, <4>2 DEF ReceivedOnly
      <4>4. QED
        BY <2>5, <4>3 DEF RestsIn
    <3>10. CASE p = d.to /\ n = d.from /\ q.pid = d.pid
      <4>1. /\ FragIds(packet) = FragIds(q) /\ packet.born = q.born
            /\ i # d.id => packet.frags[i] = q.frags[i]
            /\ d.id \in FragIds(packet) => packet.frags[d.id] = d.data
        BY <1>6, <2>5, <3>7, <3>10, ArrivedFacts
      <4>2. PICK l \in 1 .. Len(sent) : Carries(d, l)
        BY DEF IndInv, NetInv
      <4>3. k = l
        BY <1>5, <2>5, <3>1, <3>5, <3>6, <3>7, <3>10, <4>2, SameInside
      <4>4. Carries(d, k)
        BY <4>2, <4>3
      <4>5. packet.frags[i] = x
        <5>1. CASE i # d.id
          BY <2>5, <4>1, <5>1
        <5>2. CASE i = d.id
          <6>1. d.data = Piece(<<k, Sizes[k]>>, i)
            BY <2>1, <4>4, <5>2 DEF Carries
          <6>2. QED
            BY <2>2, <2>5, <3>4, <4>1, <5>2, <6>1 DEF Part
        <5>3. QED
          BY <5>1, <5>2
      <4>6. Settled(d.from, packet) /\ ~Old(packet, t)
        BY <3>6, <3>10, <4>1 DEF Settled, Old
      <4>7. i \in FragIds(packet)
        BY <2>5, <4>1
      <4>8. QED
        BY <1>6, <3>10, <4>4, <4>5, <4>6, <4>7, InHand
    <3>11. QED
      BY <3>8, <3>9, <3>10
  <2>6. Somewhere(n, p, x) => Somewhere(n, p, x)'
    BY <2>3, <2>4, <2>5 DEF Somewhere, OnTheWay, RestsIn
  <2>7. QED
    BY <1>7, <2>2, <2>6
<1>8. QED
  BY <1>2, <1>7 DEF Carried

LEMMA NextUnlost ==
  ASSUME IndInv, Unlost, [Next]_vars
  PROVE  Unlost'
<1>1. now \in Nat
  BY DEF IndInv, TypeInv
<1>2. ASSUME now' \in {now, now + 1}, \A k \in pending' : Carried(k) PROVE Unlost'
  BY <1>2, CarriedUnlost DEF Unlost
<1>3. ASSUME NEW n \in Senders, NEW p \in Others(n), SendToPeer(n, p) PROVE Unlost'
  BY <1>3, SendToPeerUnlost, Constants
<1>4. ASSUME NEW n \in Nodes, SendAttempt(n) PROVE Unlost'
  <2>1. now' = now /\ pending' = pending
    BY <1>4 DEF SendAttempt
  <2>2. QED
    BY <1>2, <1>4, <2>1, SendAttemptCarried
<1>5. ASSUME NEW n \in Nodes, Receive(n) PROVE Unlost'
  <2>1. PICK d \in net, t \in {now, now + 1} : ReceiveFragment(d, t)
    BY <1>5 DEF Receive
  <2>2. now' \in {now, now + 1}
    BY <1>1, <2>1, ReceiveFacts
  <2>3. QED
    BY <1>2, <2>1, <2>2, ReceiveCarried
<1>6. ASSUME NEW n \in Nodes, Restart(n) PROVE Unlost'
  <2>1. now' = now
    BY <1>6 DEF Restart
  <2>2. QED
    BY <1>2, <1>6, <2>1, RestartCarried
<1>7. ASSUME NEW n \in Senders, NEW p \in Others(n), NEW pid \in 0 .. PidMod - 1, NEW id \in RequestIds,
             ReceiveRequest(n, p, pid, id)
      PROVE  Unlost'
  <2>1. n \in Nodes /\ pid \in Ids /\ id \in Nat
    BY Constants DEF Ids
  <2>2. UNCHANGED <<now, net, sent, pending, restarted>>
    BY <1>7 DEF ReceiveRequest
  <2>3. ExpiredOnly(n, p)
    BY <1>7, <2>1, ReceiveRequestStep
  <2>4. \A k \in pending' : Carried(k)
    BY <2>1, <2>2, <2>3, ExpiredCarried
  <2>5. QED
    BY <1>2, <2>2, <2>4
<1>8. ASSUME NEW d \in net, Lose(d) PROVE Unlost'
  <2>1. /\ net' = net \ {d} /\ pending' = pending \ {d.data[1][1]}
        /\ UNCHANGED <<now, ep, outqueue, sent, restarted>>
    BY <1>8 DEF Lose
  <2>2. ASSUME NEW k \in pending' PROVE Carried(k)
    <3>1. k \in pending /\ k # d.data[1][1] /\ k \in 1 .. Len(sent)
      BY <2>1 DEF IndInv, TypeInv
    <3>2. sent[k].msg = <<k, Sizes[k]>>
      BY <3>1, PendingFacts
    <3>3. ~Carries(d, k)
      <4>1. Carries(d, k) => d.data = <<<<k, Sizes[k]>>, d.id>>
        BY <3>2 DEF Carries, Piece
      <4>2. QED
        BY <3>1, <4>1
    <3>4. \A g \in net : Carries(g, k) => g \in net'
      BY <2>1, <3>3
    <3>5. QED
      BY <1>1, <2>1, <3>1, <3>4, QuietCarried
  <2>3. QED
    BY <1>2, <2>1, <2>2
<1>9. CASE Tick
  <2>1. /\ now' = now + 1 /\ net' = {d \in net : now' - d.left <= NetDelay} /\ pending' = pending
        /\ UNCHANGED <<ep, outqueue, sent, restarted>>
    BY <1>9 DEF Tick
  <2>2. \A k \in pending' : Carried(k)
    BY <1>1, <2>1, QuietCarried
  <2>3. QED
    BY <1>2, <2>1, <2>2
<1>10. CASE UNCHANGED vars
  <2>1. UNCHANGED <<now, ep, outqueue, net, sent, pending, restarted>>
    BY <1>10 DEF vars
  <2>2. \A k \in pending' : Carried(k)
    BY <1>1, <2>1, QuietCarried
  <2>3. QED
    BY <1>2, <2>1, <2>2
<1>11. QED
  BY <1>3, <1>4, <1>5, <1>6, <1>7, <1>8, <1>9, <1>10 DEF Next

LEMMA UnlostStranded ==
  ASSUME IndInv, Unlost
  PROVE  NothingStranded
<1> SUFFICES ASSUME NEW k \in pending, now - sent[k].at <= Grace,
                    ~Confused(sent[k].from, sent[k].at),
                    NEW n, n = sent[k].from, NEW p, p = sent[k].to,
                    NEW piece \in Range(Pieces(sent[k].msg))
             PROVE  \/ \E e \in Range(outqueue[n]) :
                         e.type = "fragment" /\ \E d \in Datagrams(n, e) : d.data = piece
                    \/ \E d \in net : d.data = piece
                    \/ \E packet \in Range(ep[p][n].incoming) :
                         piece \in Range(packet.frags) /\ Missing(packet) # {}
  BY Zenon DEF NothingStranded
<1>1. k \in 1 .. Len(sent) /\ Young(k, now)
  BY DEF IndInv, TypeInv, Young
<1>2. /\ n \in Nodes /\ p \in Others(n) /\ p \in Nodes /\ n \in Others(p)
      /\ sent[k].msg = <<k, Sizes[k]>> /\ FragNum(Sizes[k]) \in Nat
  BY <1>1, PendingFacts
<1>3. PICK id \in 0 .. FragNum(Sizes[k]) - 1 : piece = Part(k, id)
  <2>1. PICK msg : msg = <<k, Sizes[k]>>
    OBVIOUS
  <2>2. piece \in Range(Pieces(msg)) /\ SizeOf(msg) = Sizes[k]
    BY <1>2, <2>1 DEF SizeOf
  <2>3. PICK j \in 1 .. FragNum(Sizes[k]) : piece = Piece(msg, j - 1)
    BY <2>2 DEF Pieces, Range
  <2>4. j - 1 \in 0 .. FragNum(Sizes[k]) - 1
    BY <1>2
  <2>5. QED
    BY <2>1, <2>3, <2>4 DEF Part
<1>4. Somewhere(n, p, piece)
  BY <1>1, <1>3 DEF Unlost
<1>5. ASSUME WaitsIn(n, p, piece)
      PROVE  \E e \in Range(outqueue[n]) :
               e.type = "fragment" /\ \E d \in Datagrams(n, e) : d.data = piece
  <2>1. PICK e \in Range(outqueue[n]) :
          /\ e.type = "fragment" /\ e.to = p
          /\ \E q \in Packet(ep[n][p].outgoing, e.pid) : e.id \in FragIds(q) /\ q.frags[e.id] = piece
    BY <1>5 DEF WaitsIn
  <2>2. PICK q \in Packet(ep[n][p].outgoing, e.pid) : q.frags[e.id] = piece
    BY <2>1
  <2>3. The(Packet(ep[n][p].outgoing, e.pid)) = q
    <3>1. ep[n][p].outgoing \in Seq(PacketRecs) /\ Ordered(ep[n][p].outgoing)
      BY <1>2, EndpointTypes DEF IndInv, OutInv
    <3>2. q \in Range(ep[n][p].outgoing) /\ q.pid = e.pid
      BY <2>2 DEF Packet
    <3>3. QED
      BY <3>1, <3>2, UniquePacket
  <2>4. PICK d : d \in FragmentSend(n, e) /\ d.data = q.frags[e.id]
    BY <2>1, <2>3 DEF FragmentSend
  <2>5. d \in Datagrams(n, e)
    BY <2>1, <2>4 DEF Datagrams
  <2>6. QED
    BY <2>1, <2>2, <2>4, <2>5
<1>6. ASSUME RestsIn(n, p, piece)
      PROVE  \E packet \in Range(ep[p][n].incoming) :
               piece \in Range(packet.frags) /\ Missing(packet) # {}
  <2>1. PICK q \in Range(ep[p][n].incoming) : \E id2 \in FragIds(q) : q.frags[id2] = piece
    BY <1>6 DEF RestsIn
  <2>2. Missing(q) # {}
    BY <1>2, <2>1 DEF IndInv, InInv, InPacket
  <2>3. piece \in Range(q.frags)
    BY <2>1 DEF FragIds, Range
  <2>4. QED
    BY <2>1, <2>2, <2>3
<1>7. QED
  BY <1>4, <1>5, <1>6 DEF Somewhere, OnTheWay

(* Nothing is stranded between send_to_peer and recv_from_peer: as long as *)
(* no part of it is lost or too old, nor mixed up after a restart of the   *)
(* sender, each fragment of a message that has not been returned waits in  *)
(* the queue, is on its way, or waits in the receiver's bucket.            *)
THEOREM NothingLost == Spec => []NothingStranded
<1>1. Init => Unlost
  BY DEF Init, Unlost
<1>2. IndInv /\ Unlost /\ [Next]_vars => Unlost'
  BY NextUnlost
<1>3. IndInv /\ Unlost => NothingStranded
  BY UnlostStranded
<1>4. QED
  BY <1>1, <1>2, <1>3, Invariance, PTL DEF Spec
=============================================================================
