------------------------ MODULE ChunkTrader_proofs -------------------------
(***************************************************************************)
(* Proofs about ChunkTrader, for every swarm, every number of chunks, every*)
(* buffer size and every bound on the network and its faults.              *)
(***************************************************************************)
EXTENDS ChunkTrader, FiniteSetTheorems, SequenceTheorems, TLAPS

-----------------------------------------------------------------------------
(***************************************************************************)
(* Sets of chunk ids                                                       *)
(***************************************************************************)

(* The naturals are well ordered.                                          *)
LEMMA LeastElement ==
  ASSUME NEW T \in SUBSET Nat, T # {}
  PROVE  \E x \in T : \A y \in T : x <= y
<1> DEFINE R == {ss \in Nat \X Nat : ss[1] < ss[2]}
<1>1. IsWellFoundedOn(R, Nat)
  BY NatLessThanWellFounded DEF OpToRel
<1>2. PICK x \in T : \A y \in T : <<y, x>> \notin R
  <2> HIDE DEF R
  <2>1. QED
    BY <1>1, WFMin
<1>3. ASSUME NEW y \in T PROVE x <= y
  <2>1. <<y, x>> \in Nat \X Nat /\ <<y, x>> \notin R
    BY <1>2
  <2>2. QED
    BY <2>1
<1>4. QED
  BY <1>3

(* chunkID_set_get_earliest *)
LEMMA EarliestIsLeast ==
  ASSUME NEW S \in SUBSET Nat, S # {}
  PROVE  Earliest(S) \in S /\ \A y \in S : Earliest(S) <= y
  BY LeastElement DEF Earliest

LEMMA TrimSubset ==
  ASSUME NEW S, NEW k
  PROVE  Trim(S, k) \subseteq S
  BY DEF Trim

(* chunkID_set_trim leaves at most k ids: all the others of those it leaves*)
(* are later than the earliest one.                                        *)
LEMMA TrimBound ==
  ASSUME NEW S \in SUBSET Nat, IsFiniteSet(S), NEW k \in Nat
  PROVE  IsFiniteSet(Trim(S, k)) /\ Cardinality(Trim(S, k)) <= k
<1> DEFINE T == Trim(S, k)
<1>1. T \subseteq S /\ IsFiniteSet(T) /\ Cardinality(T) \in Nat
  BY TrimSubset, FS_Subset, FS_CardinalityType
<1>2. CASE T = {}
  BY <1>2, FS_EmptySet
<1>3. CASE T # {}
  <2>1. PICK e \in T : \A y \in T : e <= y
    <3> HIDE DEF T
    <3>1. QED
      BY <1>1, <1>3, LeastElement
  <2> DEFINE later == {y \in S : y > e}
  <2>2. Cardinality(later) < k
    BY <2>1 DEF Trim
  <2>3. IsFiniteSet(later) /\ Cardinality(later) \in Nat
    <3>1. later \in SUBSET S
      OBVIOUS
    <3> HIDE DEF later
    <3>2. QED
      BY <3>1, FS_Subset, FS_CardinalityType
  <2> HIDE DEF T
  <2>4. T \ {e} \subseteq later
    <3> SUFFICES ASSUME NEW y \in T \ {e} PROVE y \in later
      OBVIOUS
    <3>1. y \in Nat /\ e \in Nat /\ y \in S /\ e <= y /\ y # e
      BY <1>1, <2>1
    <3>2. QED
      BY <3>1
  <2> HIDE DEF later
  <2>5. Cardinality(T \ {e}) = Cardinality(T) - 1 /\ Cardinality(T \ {e}) <= Cardinality(later)
    BY <1>1, <2>1, <2>3, <2>4, FS_RemoveElement, FS_Subset
  <2>6. QED
    BY <1>1, <2>2, <2>3, <2>5 DEF T
<1>4. QED
  BY <1>2, <1>3

LEMMA TrimSmall ==
  ASSUME NEW S \in SUBSET Nat, IsFiniteSet(S), NEW k \in Nat, Cardinality(S) <= k
  PROVE  Trim(S, k) = S
<1> SUFFICES ASSUME NEW x \in S PROVE Cardinality({y \in S : y > x}) < k
  BY DEF Trim
<1> DEFINE later == {y \in S : y > x}
<1>1. later \subseteq S \ {x}
  BY DEF later
<1>2. IsFiniteSet(S \ {x}) /\ Cardinality(S \ {x}) = Cardinality(S) - 1 /\ Cardinality(S) \in Nat
  BY FS_RemoveElement, FS_CardinalityType
<1> HIDE DEF later
<1>3. Cardinality(later) <= Cardinality(S \ {x}) /\ Cardinality(later) \in Nat
  BY <1>1, <1>2, FS_Subset, FS_CardinalityType
<1>4. QED
  BY <1>2, <1>3 DEF later

LEMMA TrimOne ==
  ASSUME NEW S \in SUBSET Nat, IsFiniteSet(S), NEW k \in Nat, Cardinality(S) = k + 1
  PROVE  Trim(S, k) = S \ {Earliest(S)}
<1> DEFINE e == Earliest(S)
           later(x) == {y \in S : y > x}
<1>1. S # {}
  BY FS_EmptySet
<1>2. e \in S /\ \A y \in S : e <= y
  BY <1>1, EarliestIsLeast
<1> HIDE DEF e
<1>3. Cardinality(later(e)) = k
  <2>1. ASSUME NEW y \in S PROVE y > e <=> y # e
    <3>1. y \in Nat /\ e \in Nat /\ e <= y
      BY <1>2
    <3>2. QED
      BY <3>1
  <2>2. later(e) = S \ {e}
    BY <2>1, <1>2
  <2> HIDE DEF later
  <2>3. QED
    BY <1>2, <2>2, FS_RemoveElement
<1>4. ASSUME NEW x \in S \ {e} PROVE Cardinality(later(x)) < k
  <2>1. later(x) \subseteq (S \ {e}) \ {x}
    BY <1>2
  <2>2. IsFiniteSet(S \ {e}) /\ Cardinality(S \ {e}) = k
    BY <1>2, FS_RemoveElement
  <2>3. IsFiniteSet((S \ {e}) \ {x}) /\ Cardinality((S \ {e}) \ {x}) = k - 1
    BY <2>2, FS_RemoveElement
  <2> HIDE DEF later
  <2>4. Cardinality(later(x)) <= k - 1 /\ Cardinality(later(x)) \in Nat
    BY <2>1, <2>3, FS_Subset, FS_CardinalityType
  <2>5. QED
    BY <2>4
<1>5. Trim(S, k) = {x \in S : Cardinality(later(x)) < k}
  BY DEF Trim
<1> HIDE DEF later
<1>6. ASSUME NEW x \in S PROVE Cardinality(later(x)) < k <=> x # e
  <2>1. CASE x = e
    BY <1>3, <2>1
  <2>2. CASE x # e
    BY <1>4, <2>2
  <2>3. QED
    BY <2>1, <2>2
<1>7. QED
  BY <1>5, <1>6 DEF e

(* cb_add_chunk: nothing is dropped while there is room; a full buffer     *)
(* drops its earliest chunk and stays full.                                *)
LEMMA CbAddProperties ==
  ASSUME NEW S \in SUBSET Nat, IsFiniteSet(S), Cardinality(S) <= cb_size, NEW x \in Nat
  PROVE  /\ CbAdd(S, x) \subseteq S \union {x}
         /\ IsFiniteSet(CbAdd(S, x)) /\ Cardinality(CbAdd(S, x)) <= cb_size
         /\ CbAccepts(S, x) /\ Cardinality(S) < cb_size => CbAdd(S, x) = S \union {x}
         /\ CbAccepts(S, x) /\ Cardinality(S) = cb_size =>
              /\ S # {} /\ Earliest(S) < x
              /\ CbAdd(S, x) = (S \union {x}) \ {Earliest(S)}
              /\ Cardinality(CbAdd(S, x)) = cb_size
<1> DEFINE U == S \union {x}
<1>1. cb_size \in Nat \ {0}
  BY TraderAssumption
<1>2. IsFiniteSet(U) /\ U \in SUBSET Nat /\ Cardinality(S) \in Nat
  BY FS_AddElement, FS_CardinalityType
<1>3. CASE ~CbAccepts(S, x)
  BY <1>3 DEF CbAdd
<1>4. CASE CbAccepts(S, x) /\ Cardinality(S) < cb_size
  <2>1. Cardinality(U) <= cb_size
    BY <1>1, <1>2, <1>4, FS_AddElement DEF CbAccepts
  <2>2. CbAdd(S, x) = U
    BY <1>1, <1>2, <1>4, <2>1, TrimSmall DEF CbAdd
  <2>3. QED
    BY <1>1, <1>2, <1>4, <2>1, <2>2
<1>5. CASE CbAccepts(S, x) /\ Cardinality(S) = cb_size
  <2>1. x \notin S /\ Earliest(S) < x /\ S # {}
    BY <1>1, <1>5, FS_EmptySet DEF CbAccepts
  <2>2. Cardinality(U) = cb_size + 1
    BY <1>2, <1>5, <2>1, FS_AddElement
  <2>3. Trim(U, cb_size) = U \ {Earliest(U)}
    BY <1>1, <1>2, <2>2, TrimOne
  <2>4. Earliest(S) \in S /\ \A y \in S : Earliest(S) <= y
    BY <2>1, EarliestIsLeast
  <2>5. Earliest(U) \in U /\ \A y \in U : Earliest(U) <= y
    BY <1>2, EarliestIsLeast
  <2>6. Earliest(U) = Earliest(S)
    <3>1. Earliest(S) \in Nat /\ Earliest(U) \in Nat /\ Earliest(U) <= Earliest(S)
      BY <1>2, <2>4, <2>5
    <3>2. Earliest(U) # x
      BY <2>1, <3>1
    <3>3. Earliest(S) <= Earliest(U)
      BY <2>4, <2>5, <3>2
    <3>4. QED
      BY <3>1, <3>3
  <2>7. CbAdd(S, x) = U \ {Earliest(S)}
    BY <1>5, <2>3, <2>6 DEF CbAdd
  <2>8. IsFiniteSet(U \ {Earliest(S)}) /\ Cardinality(U \ {Earliest(S)}) = cb_size
    BY <1>1, <1>2, <2>2, <2>4, FS_RemoveElement
  <2>9. QED
    BY <1>1, <1>5, <2>1, <2>7, <2>8
<1>6. QED
  BY <1>1, <1>2, <1>3, <1>4, <1>5

-----------------------------------------------------------------------------
(***************************************************************************)
(* Lists of transactions, and the network                                  *)
(***************************************************************************)
TransRecs == [trans_id : TransIds, id : Nodes, accept : {NoTime, 0}]

LEMMA RemoveAtProperties ==
  ASSUME NEW S, NEW s \in Seq(S), NEW i \in 1 .. Len(s)
  PROVE  /\ RemoveAt(s, i) \in Seq(S)
         /\ Len(RemoveAt(s, i)) = Len(s) - 1
<1> DEFINE a == SubSeq(s, 1, i - 1)
           b == SubSeq(s, i + 1, Len(s))
<1>1. /\ a \in Seq(S) /\ Len(a) = i - 1
      /\ b \in Seq(S) /\ Len(b) = Len(s) - i
  BY SubSeqProperties, LenProperties, ElementOfSeq
<1>2. Len(s) \in Nat /\ RemoveAt(s, i) = a \o b
  BY LenProperties DEF RemoveAt
<1> HIDE DEF a, b
<1>3. a \o b \in Seq(S) /\ Len(a \o b) = Len(a) + Len(b)
  BY <1>1, ConcatProperties
<1>4. QED
  BY <1>1, <1>2, <1>3

LEMMA PositionInList ==
  ASSUME NEW S, NEW list \in Seq(S), NEW trans_id, HasTrans(list, trans_id)
  PROVE  PositionOf(list, trans_id) \in 1 .. Len(list)
<1> DEFINE I == {i \in 1 .. Len(list) : list[i].trans_id = trans_id}
<1>1. I # {} /\ I \in SUBSET Nat
  BY LenProperties DEF HasTrans
<1>2. PositionOf(list, trans_id) = Min(I)
  BY <1>1 DEF PositionOf, SelectInSeq
<1>3. Min(I) \in I
  <2> HIDE DEF I
  <2>1. QED
    BY <1>1, LeastElement DEF Min
<1>4. QED
  BY <1>2, <1>3

(* transaction_create, transaction_reg_accept and transaction_remove keep  *)
(* the list a list of transactions; only transaction_create makes it longer*)
LEMMA TransactionTypes ==
  ASSUME NEW list \in Seq(TransRecs), NEW trans_id
  PROVE  /\ NewTransId(list) \in TransIds
         /\ TransactionRegAccept(list, trans_id, 0) \in Seq(TransRecs)
         /\ Len(TransactionRegAccept(list, trans_id, 0)) = Len(list)
         /\ TransactionRemove(list, trans_id) \in Seq(TransRecs)
         /\ Len(TransactionRemove(list, trans_id)) <= Len(list)
<1>1. TransIdMod \in Nat \ {0, 1} /\ Len(list) \in Nat
  BY TransactionAssumption, LenProperties
<1>2. NewTransId(list) \in TransIds
  <2>1. CASE list = << >>
    BY <1>1, <2>1 DEF NewTransId, TransIds
  <2>2. CASE list # << >>
    <3>1. Head(list) \in TransRecs
      BY <2>2, HeadTailProperties
    <3>2. Head(list).trans_id \in Nat
      BY <1>1, <3>1 DEF TransRecs, TransIds
    <3>3. QED
      BY <1>1, <2>2, <3>2 DEF NewTransId, TransIds
  <2>3. QED
    BY <2>1, <2>2
<1>3. CASE ~HasTrans(list, trans_id)
  BY <1>1, <1>2, <1>3 DEF TransactionRegAccept, TransactionRemove
<1>4. CASE HasTrans(list, trans_id)
  <2> DEFINE i == PositionOf(list, trans_id)
  <2>1. i \in 1 .. Len(list)
    BY <1>4, PositionInList
  <2>2. RemoveAt(list, i) \in Seq(TransRecs) /\ Len(RemoveAt(list, i)) = Len(list) - 1
    BY <2>1, RemoveAtProperties
  <2> HIDE DEF i
  <2>3. list[i] \in TransRecs
    BY <2>1, ElementOfSeq
  <2>4. [list[i] EXCEPT !.accept = 0] \in TransRecs
    BY <2>3 DEF TransRecs
  <2>5. /\ [list EXCEPT ![i].accept = 0] \in Seq(TransRecs)
        /\ Len([list EXCEPT ![i].accept = 0]) = Len(list)
    BY <2>1, <2>4, ExceptSeq
  <2>6. QED
    BY <1>1, <1>2, <1>4, <2>2, <2>5 DEF TransactionRegAccept, TransactionRemove, i
<1>5. QED
  BY <1>3, <1>4

(* The messages in flight once msgs are sent, and once m is handled and    *)
(* answered with msgs.                                                     *)
LEMMA SendBag ==
  ASSUME NEW B, IsABag(B), NEW msgs
  PROVE  LET C == B (+) SetToBag(msgs)
         IN IsABag(C) /\ BagToSet(C) = BagToSet(B) \union msgs
  BY DEF BagToSet, SetToBag, IsABag, (+)

LEMMA ReplyBag ==
  ASSUME NEW B, IsABag(B), NEW m, NEW msgs
  PROVE  LET C == (B (-) SetToBag({m})) (+) SetToBag(msgs)
         IN /\ IsABag(C)
            /\ BagToSet(C) \subseteq BagToSet(B) \union msgs
            /\ (BagToSet(B) \ {m}) \union msgs \subseteq BagToSet(C)
  BY DEF BagToSet, SetToBag, IsABag, (+), (-)

-----------------------------------------------------------------------------
(***************************************************************************)
(* Types                                                                   *)
(***************************************************************************)

(* A chunk message carries one chunk, and nobody sends to itself.          *)
WellFormed(m) ==
  /\ m.from # m.to
  /\ m.type = "chunk" => \E x \in Chunks : m.cset = {x}

BmapType ==
  /\ DOMAIN bmap = Nodes
  /\ \A n \in Nodes : bmap[n] \in [Others(n) -> SUBSET Chunks]

NetType ==
  /\ IsABag(net)
  /\ \A m \in BagToSet(net) : m \in Messages /\ WellFormed(m)

TypeInv ==
  /\ cb \in [Nodes -> SUBSET Chunks] /\ \A n \in Nodes : Cardinality(cb[n]) <= cb_size
  /\ neighs \in [Nodes -> SUBSET Nodes] /\ \A n \in Nodes : neighs[n] \subseteq Others(n)
  /\ BmapType
  /\ locked \in [Nodes -> SUBSET Chunks]
  /\ trans \in [Nodes -> Seq(TransRecs)] /\ \A n \in Nodes : Len(trans[n]) <= MaxTrans
  /\ NetType
  /\ injected \in 0 .. MaxChunk + 1
  /\ lost \in Nat /\ dups \in Nat
  /\ seen \in [Nodes -> SUBSET Chunks]
  /\ delivered \in [Nodes -> Seq(Chunks)]

LEMMA ChunkSets ==
  ASSUME NEW S \in SUBSET Chunks
  PROVE  S \in SUBSET Nat /\ IsFiniteSet(S) /\ Cardinality(S) \in Nat
<1>1. MaxChunk \in Nat
  BY TraderAssumption
<1>2. S \in SUBSET Nat /\ \A x \in S : x <= MaxChunk
  BY <1>1 DEF Chunks
<1>3. QED
  BY <1>1, <1>2, FS_BoundedSetOfNaturals, FS_CardinalityType

LEMMA CbAddTypes ==
  ASSUME NEW S \in SUBSET Chunks, Cardinality(S) <= cb_size, NEW x \in Chunks
  PROVE  CbAdd(S, x) \in SUBSET Chunks /\ Cardinality(CbAdd(S, x)) <= cb_size
<1>1. S \in SUBSET Nat /\ IsFiniteSet(S) /\ x \in Nat
  BY ChunkSets, TraderAssumption DEF Chunks
<1>2. CbAdd(S, x) \subseteq S \union {x} /\ Cardinality(CbAdd(S, x)) <= cb_size
  BY <1>1, CbAddProperties
<1>3. QED
  BY <1>2

LEMMA SendNet ==
  ASSUME NetType, NEW msgs, Send(msgs)
  PROVE  IsABag(net)' /\ BagToSet(net)' = BagToSet(net) \union msgs
<1> DEFINE C == net (+) SetToBag(msgs)
<1>1. IsABag(C) /\ BagToSet(C) = BagToSet(net) \union msgs
  BY SendBag DEF NetType
<1>2. net' = C
  BY DEF Send
<1> HIDE DEF C
<1>3. QED
  BY <1>1, <1>2

LEMMA ReplyNet ==
  ASSUME NetType, NEW m, NEW msgs, Reply(m, msgs)
  PROVE  /\ IsABag(net)'
         /\ BagToSet(net)' \subseteq BagToSet(net) \union msgs
         /\ (BagToSet(net) \ {m}) \union msgs \subseteq BagToSet(net)'
<1> DEFINE C == (net (-) SetToBag({m})) (+) SetToBag(msgs)
<1>1. /\ IsABag(C)
      /\ BagToSet(C) \subseteq BagToSet(net) \union msgs
      /\ (BagToSet(net) \ {m}) \union msgs \subseteq BagToSet(C)
  BY ReplyBag DEF NetType
<1>2. net' = C
  BY DEF Reply
<1> HIDE DEF C
<1>3. QED
  BY <1>1, <1>2

LEMMA SendTypes ==
  ASSUME NetType, NEW msgs, Send(msgs), \A m \in msgs : m \in Messages /\ WellFormed(m)
  PROVE  NetType'
  BY SendNet DEF NetType

LEMMA ReplyTypes ==
  ASSUME NetType, NEW m, NEW msgs, Reply(m, msgs), \A d \in msgs : d \in Messages /\ WellFormed(d)
  PROVE  NetType'
  BY ReplyNet DEF NetType

LEMMA ReceiveTypes ==
  ASSUME NetType, NEW m, Receive(m)
  PROVE  /\ NetType'
         /\ BagToSet(net)' \subseteq BagToSet(net)
         /\ BagToSet(net) \ {m} \subseteq BagToSet(net)'
  BY ReplyTypes, ReplyNet DEF Receive

LEMMA LearnTypes ==
  ASSUME BmapType, NEW n \in Nodes, NEW p \in Others(n), NEW S \in SUBSET Chunks, Learn(n, p, S)
  PROVE  /\ BmapType'
         /\ \A a \in Nodes : \A b \in Others(a) :
              bmap'[a][b] = IF a = n /\ b = p THEN S ELSE bmap[a][b]
  BY DEF BmapType, Learn

(* The chunk a chunk message carries.                                      *)
ChunkOf(m) == CHOOSE x \in m.cset : TRUE

LEMMA ChunkOfMessage ==
  ASSUME NEW m, WellFormed(m), m.type = "chunk"
  PROVE  ChunkOf(m) \in Chunks /\ m.cset = {ChunkOf(m)}
  BY DEF WellFormed, ChunkOf

LEMMA MsgTypes ==
  ASSUME NEW type \in {"bmap", "offer", "accept", "chunk", "ack"}, NEW n \in Nodes, NEW p \in Others(n),
         NEW S \in SUBSET Chunks, NEW trans_id \in TransIds
  PROVE  Msg(type, n, p, S, trans_id) \in Messages
  BY DEF Msg, Messages, Others

LEMMA InvalidId == INVALID_TRANSID \in TransIds
  BY TransactionAssumption DEF INVALID_TRANSID, TransIds

LEMMA InitType == Init => TypeInv
<1> SUFFICES ASSUME Init PROVE TypeInv
  OBVIOUS
<1>1. Cardinality({}) = 0 /\ cb_size \in Nat /\ MaxTrans \in Nat /\ MaxChunk \in Nat
  BY FS_EmptySet, TraderAssumption
<1>2. << >> \in Seq(TransRecs) /\ << >> \in Seq(Chunks) /\ Len(<< >>) = 0
  BY EmptySeq
<1>3. NetType
  BY DEF Init, NetType, EmptyBag, SetToBag, BagToSet, IsABag
<1>4. BmapType
  BY DEF Init, BmapType
<1>5. QED
  BY <1>1, <1>2, <1>3, <1>4 DEF Init, TypeInv, Others

LEMMA TypeHandle ==
  ASSUME TypeInv, NEW m \in BagToSet(net), Handle(m)
  PROVE  TypeInv'
<1> DEFINE n == m.to
           p == m.from
<1>1. m \in Messages /\ WellFormed(m) /\ NetType /\ BmapType
  BY DEF TypeInv, NetType
<1>2. /\ n \in Nodes /\ p \in Others(n) /\ n \in Others(p) /\ p \in Nodes
      /\ m.cset \in SUBSET Chunks /\ m.trans_id \in TransIds
  BY <1>1 DEF Messages, WellFormed, Others
<1>3. cb[n] \in SUBSET Chunks /\ bmap[n][p] \in SUBSET Chunks /\ locked[n] \in SUBSET Chunks
  BY <1>1, <1>2 DEF TypeInv, BmapType
<1> HIDE DEF n, p
<1>4. CASE IgnoreUnknown(m)
  BY <1>1, <1>4, ReceiveTypes DEF IgnoreUnknown, TypeInv, BmapType
<1>5. CASE HandleBmap(m)
  <2>1. NetType' /\ BmapType'
    BY <1>1, <1>2, <1>5, ReceiveTypes, LearnTypes DEF HandleBmap, n, p
  <2>2. QED
    BY <1>5, <2>1 DEF HandleBmap, TypeInv
<1>6. CASE HandleOffer(m)
  <2> DEFINE acc_set == LatestUseful(n, m.cset)
             answer == Msg("accept", n, p, acc_set, m.trans_id)
             known == Trim(bmap[n][p] \union m.cset, peer_cb_size(p))
  <2>1. acc_set \in SUBSET Chunks /\ known \in SUBSET Chunks
    BY <1>2, <1>3, TrimSubset DEF LatestUseful
  <2>2. answer \in Messages /\ WellFormed(answer)
    BY <1>2, <2>1, MsgTypes DEF WellFormed, Msg, Others
  <2>3. /\ Learn(n, p, known) /\ Reply(m, {answer})
        /\ locked' = [locked EXCEPT ![n] = @ \union acc_set]
        /\ UNCHANGED <<cb, neighs, trans, injected, lost, dups, seen, delivered>>
    BY <1>6 DEF HandleOffer, n, p
  <2> HIDE DEF acc_set, answer, known
  <2>4. NetType' /\ BmapType'
    BY <1>1, <1>2, <2>1, <2>2, <2>3, ReplyTypes, LearnTypes
  <2>5. locked' \in [Nodes -> SUBSET Chunks]
    BY <1>2, <1>3, <2>1, <2>3 DEF TypeInv
  <2>6. QED
    BY <2>3, <2>4, <2>5 DEF TypeInv
<1>7. CASE HandleAccept(m)
  <2> DEFINE answers == {Msg("chunk", n, p, {x}, m.trans_id) : x \in Servable(n, m.cset)}
             known == bmap[n][p] \union NoteSent(n, m.cset)
  <2>1. Servable(n, m.cset) \in SUBSET Chunks /\ known \in SUBSET Chunks
    BY <1>2, <1>3 DEF Servable, NoteSent
  <2>2. \A d \in answers : d \in Messages /\ WellFormed(d)
    <3> SUFFICES ASSUME NEW x \in Servable(n, m.cset)
                 PROVE  LET d == Msg("chunk", n, p, {x}, m.trans_id) IN d \in Messages /\ WellFormed(d)
      OBVIOUS
    <3>1. QED
      BY <1>2, <2>1, MsgTypes DEF WellFormed, Msg, Others
  <2>3. /\ Learn(n, p, known) /\ Reply(m, answers)
        /\ trans' = [trans EXCEPT ![n] = TransactionRegAccept(@, m.trans_id, 0)]
        /\ UNCHANGED <<cb, neighs, locked, injected, lost, dups, seen, delivered>>
    BY <1>7 DEF HandleAccept, n, p
  <2> HIDE DEF answers, known
  <2>4. NetType' /\ BmapType'
    BY <1>1, <1>2, <2>1, <2>2, <2>3, ReplyTypes, LearnTypes
  <2>5. trans[n] \in Seq(TransRecs)
    BY <1>2 DEF TypeInv
  <2>6. /\ TransactionRegAccept(trans[n], m.trans_id, 0) \in Seq(TransRecs)
        /\ Len(TransactionRegAccept(trans[n], m.trans_id, 0)) = Len(trans[n])
    BY <2>5, TransactionTypes
  <2>7. trans' \in [Nodes -> Seq(TransRecs)] /\ \A a \in Nodes : Len(trans'[a]) <= MaxTrans
    BY <1>2, <2>3, <2>6 DEF TypeInv
  <2>8. QED
    BY <2>3, <2>4, <2>7 DEF TypeInv
<1>8. CASE DiscardChunk(m)
  BY <1>1, <1>8, ReceiveTypes DEF DiscardChunk, TypeInv, BmapType
<1>9. CASE HandleChunk(m)
  <2> DEFINE cid == ChunkOf(m)
             answer == Ack(n, p, m.trans_id)
  <2>1. cid \in Chunks
    BY <1>1, <1>9, ChunkOfMessage DEF HandleChunk
  <2>2. /\ locked' = [locked EXCEPT ![n] = Unlock(n, cid)]
        /\ Reply(m, {answer})
        /\ Learn(n, p, bmap[n][p] \union {cid}) \/ UNCHANGED bmap
        /\ cb' = [cb EXCEPT ![n] = CbAdd(@, cid)]
        /\ delivered' = [delivered EXCEPT ![n] = IF CbAccepts(cb[n], cid) THEN Append(@, cid) ELSE @]
        /\ seen' = [seen EXCEPT ![n] = @ \union {cid}]
        /\ UNCHANGED <<neighs, trans, injected, lost, dups>>
    BY <1>9 DEF HandleChunk, ParseChunk, ChunkOf, n, p
  <2>3. answer \in Messages /\ WellFormed(answer)
    BY <1>2, <1>3, MsgTypes DEF WellFormed, Msg, Others, Ack
  <2> HIDE DEF cid, answer
  <2>4. NetType'
    BY <1>1, <2>2, <2>3, ReplyTypes
  <2>5. BmapType'
    <3>1. CASE Learn(n, p, bmap[n][p] \union {cid})
      BY <1>1, <1>2, <1>3, <2>1, <3>1, LearnTypes
    <3>2. CASE UNCHANGED bmap
      BY <1>1, <3>2 DEF BmapType
    <3>3. QED
      BY <2>2, <3>1, <3>2
  <2>6. CbAdd(cb[n], cid) \in SUBSET Chunks /\ Cardinality(CbAdd(cb[n], cid)) <= cb_size
    BY <1>2, <1>3, <2>1, CbAddTypes DEF TypeInv
  <2>7. cb' \in [Nodes -> SUBSET Chunks] /\ \A a \in Nodes : Cardinality(cb'[a]) <= cb_size
    BY <1>2, <2>2, <2>6 DEF TypeInv
  <2>8. locked' \in [Nodes -> SUBSET Chunks] /\ seen' \in [Nodes -> SUBSET Chunks]
    BY <1>2, <1>3, <2>1, <2>2 DEF TypeInv, Unlock
  <2>9. delivered' \in [Nodes -> Seq(Chunks)]
    BY <1>2, <2>1, <2>2, AppendProperties DEF TypeInv
  <2>10. QED
    BY <2>2, <2>4, <2>5, <2>7, <2>8, <2>9 DEF TypeInv
<1>10. CASE HandleAck(m)
  <2> DEFINE known == Trim(bmap[n][p] \union m.cset, peer_cb_size(p))
  <2>1. known \in SUBSET Chunks
    BY <1>2, <1>3, TrimSubset
  <2>2. /\ Learn(n, p, known) /\ Receive(m)
        /\ trans' = [trans EXCEPT ![n] = TransactionRemove(@, m.trans_id)]
        /\ UNCHANGED <<cb, neighs, locked, injected, lost, dups, seen, delivered>>
    BY <1>10 DEF HandleAck, n, p
  <2> HIDE DEF known
  <2>3. NetType' /\ BmapType'
    BY <1>1, <1>2, <2>1, <2>2, ReceiveTypes, LearnTypes
  <2>4. trans[n] \in Seq(TransRecs) /\ Len(trans[n]) <= MaxTrans
    BY <1>2 DEF TypeInv
  <2>5. /\ TransactionRemove(trans[n], m.trans_id) \in Seq(TransRecs)
        /\ Len(TransactionRemove(trans[n], m.trans_id)) <= MaxTrans
    <3>1. Len(trans[n]) \in Nat /\ MaxTrans \in Nat
      BY <2>4, LenProperties, TraderAssumption
    <3>2. /\ TransactionRemove(trans[n], m.trans_id) \in Seq(TransRecs)
          /\ Len(TransactionRemove(trans[n], m.trans_id)) <= Len(trans[n])
      BY <2>4, TransactionTypes
    <3>3. QED
      BY <2>4, <3>1, <3>2, LenProperties
  <2>6. trans' \in [Nodes -> Seq(TransRecs)] /\ \A a \in Nodes : Len(trans'[a]) <= MaxTrans
    BY <1>2, <2>2, <2>5 DEF TypeInv
  <2>7. QED
    BY <2>2, <2>3, <2>6 DEF TypeInv
<1>11. QED
  BY <1>4, <1>5, <1>6, <1>7, <1>8, <1>9, <1>10 DEF Handle

LEMMA TypeNext == TypeInv /\ [Next]_vars => TypeInv'
<1> SUFFICES ASSUME TypeInv, [Next]_vars PROVE TypeInv'
  OBVIOUS
<1>1. NetType /\ BmapType /\ Source \in Nodes /\ MaxChunk \in Nat /\ MaxTrans \in Nat
  BY TraderAssumption DEF TypeInv
<1>2. CASE Inject
  <2>1. PICK T \in PushTargets :
          /\ Send({Msg("chunk", Source, p, {injected}, INVALID_TRANSID) : p \in T})
          /\ bmap' = [bmap EXCEPT ![Source] =
                        [p \in Others(Source) |-> IF p \in T THEN @[p] \union {injected} ELSE @[p]]]
    BY <1>2 DEF Inject
  <2> DEFINE pushed == {Msg("chunk", Source, p, {injected}, INVALID_TRANSID) : p \in T}
  <2>2. T \subseteq Others(Source)
    BY <1>1 DEF PushTargets, TypeInv
  <2>3. injected \in Chunks /\ injected' \in 0 .. MaxChunk + 1
    BY <1>1, <1>2 DEF Inject, TypeInv, Chunks
  <2>4. \A d \in pushed : d \in Messages /\ WellFormed(d)
    <3> SUFFICES ASSUME NEW p \in T
                 PROVE  LET d == Msg("chunk", Source, p, {injected}, INVALID_TRANSID)
                        IN d \in Messages /\ WellFormed(d)
      OBVIOUS
    <3>1. QED
      BY <1>1, <2>2, <2>3, MsgTypes, InvalidId DEF WellFormed, Msg, Others
  <2> HIDE DEF pushed
  <2>5. NetType'
    BY <1>1, <2>1, <2>4, SendTypes DEF pushed
  <2>6. BmapType'
    BY <1>1, <2>1, <2>3 DEF BmapType
  <2>7. /\ CbAdd(cb[Source], injected) \in SUBSET Chunks
        /\ Cardinality(CbAdd(cb[Source], injected)) <= cb_size
    BY <1>1, <2>3, CbAddTypes DEF TypeInv
  <2>8. cb' \in [Nodes -> SUBSET Chunks] /\ \A a \in Nodes : Cardinality(cb'[a]) <= cb_size
    BY <1>1, <1>2, <2>7 DEF Inject, TypeInv
  <2>9. seen' \in [Nodes -> SUBSET Chunks]
    BY <1>1, <1>2, <2>3 DEF Inject, TypeInv
  <2>10. QED
    BY <1>2, <2>3, <2>5, <2>6, <2>8, <2>9 DEF Inject, TypeInv
<1>3. ASSUME NEW n \in Nodes, NEW p \in Others(n), AddNeighbour(n, p) PROVE TypeInv'
  <2> DEFINE d == Msg("bmap", n, p, cb[n], INVALID_TRANSID)
  <2>1. d \in Messages /\ WellFormed(d)
    BY MsgTypes, InvalidId DEF WellFormed, Msg, Others, TypeInv
  <2>2. NetType'
    <3> HIDE DEF d
    <3>1. CASE Send({d})
      BY <1>1, <2>1, <3>1, SendTypes
    <3>2. CASE UNCHANGED net
      BY <1>1, <3>2 DEF NetType
    <3>3. QED
      BY <1>3, <3>1, <3>2 DEF AddNeighbour, d
  <2>3. neighs' \in [Nodes -> SUBSET Nodes] /\ \A a \in Nodes : neighs'[a] \subseteq Others(a)
    BY <1>3 DEF AddNeighbour, TypeInv, Others
  <2>4. QED
    BY <1>3, <2>2, <2>3 DEF AddNeighbour, TypeInv, BmapType
<1>4. ASSUME NEW n \in Nodes, NEW p \in Others(n), SendOffer(n, p) PROVE TypeInv'
  <2>1. PICK kept \in TimeoutCuts(trans[n]) :
          /\ Len(kept) < MaxTrans
          /\ trans' = [trans EXCEPT ![n] =
                         <<[trans_id |-> NewTransId(kept), id |-> p, accept |-> NoTime]>> \o kept]
          /\ Send({Msg("offer", n, p, Offerable(n, p), NewTransId(kept))})
    BY <1>4 DEF SendOffer
  <2> DEFINE r == [trans_id |-> NewTransId(kept), id |-> p, accept |-> NoTime]
             d == Msg("offer", n, p, Offerable(n, p), NewTransId(kept))
  <2>2. kept \in Seq(TransRecs)
    <3>1. trans[n] \in Seq(TransRecs)
      BY DEF TypeInv
    <3>2. PICK k \in 0 .. Len(trans[n]) : kept = SubSeq(trans[n], 1, k)
      BY DEF TimeoutCuts
    <3>3. \A i \in 1 .. k : trans[n][i] \in TransRecs
      BY <3>1, <3>2, ElementOfSeq, LenProperties
    <3>4. k \in Int
      BY <3>1, <3>2, LenProperties
    <3>5. QED
      BY <3>2, <3>3, <3>4, SubSeqProperties
  <2>3. r \in TransRecs
    BY <2>2, TransactionTypes DEF TransRecs, Others
  <2>4. d \in Messages /\ WellFormed(d)
    <3>1. Offerable(n, p) \in SUBSET Chunks
      BY DEF Offerable, TypeInv
    <3>2. QED
      BY <2>2, <3>1, TransactionTypes, MsgTypes DEF WellFormed, Msg, Others
  <2> HIDE DEF r, d
  <2>5. NetType'
    BY <1>1, <2>1, <2>4, SendTypes DEF d
  <2>6. <<r>> \in Seq(TransRecs) /\ Len(<<r>>) = 1
    BY <2>3
  <2>7. <<r>> \o kept \in Seq(TransRecs) /\ Len(<<r>> \o kept) <= MaxTrans
    BY <1>1, <2>1, <2>2, <2>6, ConcatProperties, LenProperties
  <2>8. trans' \in [Nodes -> Seq(TransRecs)] /\ \A a \in Nodes : Len(trans'[a]) <= MaxTrans
    BY <2>1, <2>7 DEF TypeInv, r
  <2>9. QED
    BY <1>4, <2>5, <2>8 DEF SendOffer, TypeInv, BmapType
<1>5. ASSUME NEW m \in BagToSet(net), Handle(m) PROVE TypeInv'
  BY <1>5, TypeHandle
<1>6. ASSUME NEW m \in BagToSet(net), Lose(m) PROVE TypeInv'
  BY <1>1, <1>6, ReceiveTypes DEF Lose, TypeInv, BmapType
<1>7. ASSUME NEW m \in BagToSet(net), Duplicate(m) PROVE TypeInv'
  <2>1. NetType'
    BY <1>1, <1>7, SendTypes DEF Duplicate, NetType
  <2>2. QED
    BY <1>7, <2>1 DEF Duplicate, TypeInv, BmapType
<1>8. ASSUME NEW n \in Nodes, NEW cid \in Chunks, LockTimeout(n, cid) PROVE TypeInv'
  BY <1>8 DEF LockTimeout, TypeInv, BmapType, NetType
<1>9. CASE UNCHANGED vars
  BY <1>9 DEF vars, TypeInv, BmapType, NetType
<1>10. QED
  BY <1>2, <1>3, <1>4, <1>5, <1>6, <1>7, <1>8, <1>9 DEF Next

(* chunk_trader.c and the chunk paths of psinstance.c keep chunk buffers,  *)
(* locks and transactions within their sizes, and every message in flight  *)
(* has the form its handler in chunk_trader_msg_parse expects.             *)
THEOREM TypeInvariant == Spec => []TypeInv
  BY InitType, TypeNext, PTL DEF Spec

(* chunk_trader.c keeps the buffer within its size and the transactions    *)
(* within their bound, and every message it sends is well formed, however  *)
(* messages are lost, repeated and overtaken.                              *)
THEOREM TypeCorrect == Spec => []TypeOK
<1>1. TypeInv => TypeOK
  BY DEF TypeInv, TypeOK, BmapType, NetType
<1>2. QED
  BY <1>1, TypeInvariant, PTL

-----------------------------------------------------------------------------
(***************************************************************************)
(* What the nodes and the messages can know                                *)
(***************************************************************************)

Injected == 0 .. injected - 1

(* The source has seen what it injected; the others hold, ask for and wait *)
(* for nothing else.  All messages but accepts speak of chunks their sender*)
(* has seen.                                                               *)
KnowledgeInv ==
  /\ seen[Source] = Injected
  /\ \A n \in Nodes : cb[n] \subseteq seen[n] /\ seen[n] \subseteq Injected /\ locked[n] \subseteq Injected
  /\ \A m \in BagToSet(net) :
       /\ m.cset \subseteq Injected
       /\ m.type # "accept" => m.cset \subseteq seen[m.from]

LEMMA KnowledgeInit == Init => KnowledgeInv
<1> SUFFICES ASSUME Init PROVE KnowledgeInv
  OBVIOUS
<1>1. Injected = {} /\ Source \in Nodes
  BY TraderAssumption DEF Init, Injected
<1>2. BagToSet(net) = {}
  BY DEF Init, EmptyBag, SetToBag, BagToSet
<1>3. QED
  BY <1>1, <1>2 DEF Init, KnowledgeInv

(* A step that injects nothing and makes nobody forget keeps the invariant *)
(* if it holds of what is new.                                             *)
LEMMA KnowledgeStep ==
  ASSUME KnowledgeInv, TypeInv, UNCHANGED injected, seen'[Source] = seen[Source],
         \A n \in Nodes : /\ seen[n] \subseteq seen'[n]
                          /\ cb'[n] \subseteq seen'[n] /\ seen'[n] \subseteq Injected
                          /\ locked'[n] \subseteq Injected,
         NEW msgs, BagToSet(net)' \subseteq BagToSet(net) \union msgs,
         \A d \in msgs : /\ d.cset \subseteq Injected
                         /\ d.type # "accept" => d.cset \subseteq seen'[d.from]
  PROVE  KnowledgeInv'
<1>1. Injected' = Injected
  BY DEF Injected
<1>2. ASSUME NEW m \in BagToSet(net)'
      PROVE  m.cset \subseteq Injected /\ (m.type # "accept" => m.cset \subseteq seen'[m.from])
  <2>1. CASE m \in BagToSet(net)
    <3>1. m.from \in Nodes
      BY <2>1 DEF TypeInv, NetType, Messages
    <3>2. QED
      BY <2>1, <3>1 DEF KnowledgeInv
  <2>2. CASE m \in msgs
    BY <2>2
  <2>3. QED
    BY <1>2, <2>1, <2>2
<1>3. QED
  BY <1>1, <1>2 DEF KnowledgeInv

LEMMA KnowledgeHandle ==
  ASSUME TypeInv, KnowledgeInv, NEW m \in BagToSet(net), Handle(m)
  PROVE  KnowledgeInv'
<1> DEFINE n == m.to
           p == m.from
<1>1. m \in Messages /\ WellFormed(m) /\ NetType
  BY DEF TypeInv, NetType
<1>2. n \in Nodes /\ p \in Nodes /\ Source \in Nodes
  BY <1>1, TraderAssumption DEF Messages
<1>3. m.cset \subseteq Injected /\ (m.type # "accept" => m.cset \subseteq seen[p])
  BY DEF KnowledgeInv
<1> HIDE DEF n, p
<1>4. CASE IgnoreUnknown(m) \/ HandleBmap(m) \/ DiscardChunk(m) \/ HandleAck(m)
  <2>1. Receive(m) /\ UNCHANGED <<cb, locked, injected, seen>>
    BY <1>4 DEF IgnoreUnknown, HandleBmap, DiscardChunk, HandleAck
  <2>2. BagToSet(net)' \subseteq BagToSet(net) \union {}
    BY <1>1, <2>1, ReceiveTypes
  <2>3. QED
    BY <2>1, <2>2, KnowledgeStep DEF KnowledgeInv
<1>5. CASE HandleOffer(m)
  <2> DEFINE acc_set == LatestUseful(n, m.cset)
             answer == Msg("accept", n, p, acc_set, m.trans_id)
  <2>1. acc_set \subseteq m.cset
    BY TrimSubset DEF LatestUseful
  <2>2. answer.cset = acc_set /\ answer.type = "accept"
    BY DEF Msg
  <2>3. /\ Reply(m, {answer})
        /\ locked' = [locked EXCEPT ![n] = @ \union acc_set]
        /\ UNCHANGED <<cb, injected, seen>>
    BY <1>5 DEF HandleOffer, n, p
  <2> HIDE DEF acc_set, answer
  <2>4. BagToSet(net)' \subseteq BagToSet(net) \union {answer}
    BY <1>1, <2>3, ReplyNet
  <2>5. \A a \in Nodes : locked'[a] \subseteq Injected
    BY <1>2, <1>3, <2>1, <2>3 DEF TypeInv, KnowledgeInv
  <2>6. QED
    BY <1>3, <2>1, <2>2, <2>3, <2>4, <2>5, KnowledgeStep DEF KnowledgeInv
<1>6. CASE HandleAccept(m)
  <2> DEFINE answers == {Msg("chunk", n, p, {x}, m.trans_id) : x \in Servable(n, m.cset)}
  <2>1. Servable(n, m.cset) \subseteq cb[n]
    BY DEF Servable
  <2>2. \A d \in answers : d.cset \subseteq cb[n] /\ d.from = n
    BY <2>1 DEF Msg
  <2>3. Reply(m, answers) /\ UNCHANGED <<cb, locked, injected, seen>>
    BY <1>6 DEF HandleAccept, n, p
  <2> HIDE DEF answers
  <2>4. BagToSet(net)' \subseteq BagToSet(net) \union answers
    BY <1>1, <2>3, ReplyNet
  <2>5. \A d \in answers : d.cset \subseteq Injected /\ d.cset \subseteq seen[d.from]
    BY <1>2, <2>2 DEF KnowledgeInv
  <2>6. QED
    BY <2>3, <2>4, <2>5, KnowledgeStep DEF KnowledgeInv
<1>7. CASE HandleChunk(m)
  <2> DEFINE cid == ChunkOf(m)
             answer == Ack(n, p, m.trans_id)
  <2>1. m.cset = {cid} /\ cid \in Chunks /\ m.type = "chunk" /\ n # Source
    BY <1>1, <1>7, ChunkOfMessage DEF HandleChunk, n
  <2>2. /\ locked' = [locked EXCEPT ![n] = Unlock(n, cid)]
        /\ Reply(m, {answer})
        /\ cb' = [cb EXCEPT ![n] = CbAdd(@, cid)]
        /\ seen' = [seen EXCEPT ![n] = @ \union {cid}]
        /\ UNCHANGED injected
    BY <1>7 DEF HandleChunk, ParseChunk, ChunkOf, n, p
  <2>3. answer.cset = cb[n] /\ answer.from = n
    BY DEF Ack, Msg
  <2> HIDE DEF cid, answer
  <2>4. BagToSet(net)' \subseteq BagToSet(net) \union {answer}
    BY <1>1, <2>2, ReplyNet
  <2>5. CbAdd(cb[n], cid) \subseteq cb[n] \union {cid}
    BY TrimSubset DEF CbAdd
  <2>6. cid \in Injected
    BY <1>3, <2>1
  <2>7. \A a \in Nodes : seen'[a] = IF a = n THEN seen[a] \union {cid} ELSE seen[a]
    BY <1>2, <2>2 DEF TypeInv
  <2>8. \A a \in Nodes : cb'[a] = IF a = n THEN CbAdd(cb[n], cid) ELSE cb[a]
    BY <1>2, <2>2 DEF TypeInv
  <2>9. \A a \in Nodes : locked'[a] \subseteq locked[a]
    BY <1>2, <2>2 DEF TypeInv, Unlock
  <2>10. seen'[Source] = seen[Source]
    BY <1>2, <2>1, <2>7
  <2>11. \A a \in Nodes : /\ seen[a] \subseteq seen'[a]
                          /\ cb'[a] \subseteq seen'[a] /\ seen'[a] \subseteq Injected
                          /\ locked'[a] \subseteq Injected
    <3> SUFFICES ASSUME NEW a \in Nodes
                 PROVE  /\ seen[a] \subseteq seen'[a]
                        /\ cb'[a] \subseteq seen'[a] /\ seen'[a] \subseteq Injected
                        /\ locked'[a] \subseteq Injected
      OBVIOUS
    <3>1. cb[a] \subseteq seen[a] /\ seen[a] \subseteq Injected /\ locked[a] \subseteq Injected
      BY DEF KnowledgeInv
    <3>2. locked'[a] \subseteq Injected
      BY <2>9, <3>1
    <3>3. CASE a = n
      BY <2>5, <2>6, <2>7, <2>8, <3>1, <3>2, <3>3
    <3>4. CASE a # n
      BY <2>7, <2>8, <3>1, <3>2, <3>4
    <3>5. QED
      BY <3>3, <3>4
  <2>12. answer.cset \subseteq Injected /\ answer.cset \subseteq seen'[answer.from]
    BY <1>2, <2>3, <2>11 DEF KnowledgeInv
  <2>13. QED
    BY <2>2, <2>4, <2>10, <2>11, <2>12, KnowledgeStep
<1>8. QED
  BY <1>4, <1>5, <1>6, <1>7 DEF Handle

LEMMA KnowledgeNext == TypeInv /\ KnowledgeInv /\ [Next]_vars => KnowledgeInv'
<1> SUFFICES ASSUME TypeInv, KnowledgeInv, [Next]_vars PROVE KnowledgeInv'
  OBVIOUS
<1>1. NetType /\ Source \in Nodes /\ MaxChunk \in Nat /\ injected \in Nat
  BY TraderAssumption DEF TypeInv
<1>2. CASE Inject
  <2>1. PICK T \in PushTargets : Send({Msg("chunk", Source, p, {injected}, INVALID_TRANSID) : p \in T})
    BY <1>2 DEF Inject
  <2> DEFINE pushed == {Msg("chunk", Source, p, {injected}, INVALID_TRANSID) : p \in T}
  <2>2. \A d \in pushed : d.cset = {injected} /\ d.from = Source
    BY DEF Msg
  <2>3. Injected' = Injected \union {injected}
    BY <1>1, <1>2 DEF Inject, Injected
  <2>4. /\ cb' = [cb EXCEPT ![Source] = CbAdd(@, injected)]
        /\ seen' = [seen EXCEPT ![Source] = @ \union {injected}]
        /\ UNCHANGED locked
    BY <1>2 DEF Inject
  <2> HIDE DEF pushed
  <2>5. BagToSet(net)' \subseteq BagToSet(net) \union pushed
    BY <1>1, <2>1, SendNet DEF pushed
  <2>6. \A a \in Nodes : seen'[a] = IF a = Source THEN seen[a] \union {injected} ELSE seen[a]
    BY <1>1, <2>4 DEF TypeInv
  <2>7. \A a \in Nodes : cb'[a] \subseteq IF a = Source THEN cb[a] \union {injected} ELSE cb[a]
    BY <1>1, <2>4, TrimSubset DEF TypeInv, CbAdd
  <2>8. \A a \in Nodes : cb[a] \subseteq seen[a] /\ seen[a] \subseteq Injected /\ locked[a] \subseteq Injected
    BY DEF KnowledgeInv
  <2>9. \A a \in Nodes : cb'[a] \subseteq seen'[a] /\ seen'[a] \subseteq Injected' /\ locked'[a] \subseteq Injected'
    BY <2>3, <2>4, <2>6, <2>7, <2>8
  <2>10. ASSUME NEW m \in BagToSet(net)'
         PROVE  m.cset \subseteq Injected' /\ (m.type # "accept" => m.cset \subseteq seen'[m.from])
    <3>1. CASE m \in BagToSet(net)
      <4>1. m.from \in Nodes
        BY <3>1 DEF TypeInv, NetType, Messages
      <4>2. m.cset \subseteq Injected /\ (m.type # "accept" => m.cset \subseteq seen[m.from])
        BY <3>1 DEF KnowledgeInv
      <4>3. QED
        BY <2>3, <2>6, <4>1, <4>2
    <3>2. CASE m \in pushed
      BY <1>1, <2>2, <2>3, <2>6, <3>2
    <3>3. QED
      BY <2>5, <2>10, <3>1, <3>2
  <2>11. seen'[Source] = Injected'
    BY <1>1, <2>3, <2>6 DEF KnowledgeInv
  <2>12. QED
    BY <2>9, <2>10, <2>11 DEF KnowledgeInv
<1>3. ASSUME NEW n \in Nodes, NEW p \in Others(n), AddNeighbour(n, p) PROVE KnowledgeInv'
  <2> DEFINE d == Msg("bmap", n, p, cb[n], INVALID_TRANSID)
  <2>1. d.cset = cb[n] /\ d.from = n
    BY DEF Msg
  <2>2. (Send({d}) \/ UNCHANGED net) /\ UNCHANGED <<cb, locked, injected, seen>>
    BY <1>3 DEF AddNeighbour
  <2> HIDE DEF d
  <2>3. BagToSet(net)' \subseteq BagToSet(net) \union {d}
    BY <1>1, <2>2, SendNet
  <2>4. d.cset \subseteq Injected /\ d.cset \subseteq seen[d.from]
    BY <2>1 DEF KnowledgeInv
  <2>5. QED
    BY <2>2, <2>3, <2>4, KnowledgeStep DEF KnowledgeInv
<1>4. ASSUME NEW n \in Nodes, NEW p \in Others(n), SendOffer(n, p) PROVE KnowledgeInv'
  <2>1. PICK t : Send({Msg("offer", n, p, Offerable(n, p), t)})
    BY <1>4 DEF SendOffer
  <2> DEFINE d == Msg("offer", n, p, Offerable(n, p), t)
  <2>2. d.cset \subseteq cb[n] /\ d.from = n
    BY DEF Msg, Offerable
  <2>3. UNCHANGED <<cb, locked, injected, seen>>
    BY <1>4 DEF SendOffer
  <2> HIDE DEF d
  <2>4. BagToSet(net)' \subseteq BagToSet(net) \union {d}
    BY <1>1, <2>1, SendNet DEF d
  <2>5. d.cset \subseteq Injected /\ d.cset \subseteq seen[d.from]
    BY <2>2 DEF KnowledgeInv
  <2>6. QED
    BY <2>3, <2>4, <2>5, KnowledgeStep DEF KnowledgeInv
<1>5. ASSUME NEW m \in BagToSet(net), Handle(m) PROVE KnowledgeInv'
  BY <1>5, KnowledgeHandle
<1>6. ASSUME NEW m \in BagToSet(net), Lose(m) \/ Duplicate(m) PROVE KnowledgeInv'
  <2>1. (Receive(m) \/ Send({m})) /\ UNCHANGED <<cb, locked, injected, seen>>
    BY <1>6 DEF Lose, Duplicate
  <2>2. BagToSet(net)' \subseteq BagToSet(net) \union {}
    BY <1>1, <1>6, <2>1, ReceiveTypes, SendNet
  <2>3. QED
    BY <2>1, <2>2, KnowledgeStep DEF KnowledgeInv
<1>7. ASSUME NEW n \in Nodes, NEW cid \in Chunks, LockTimeout(n, cid) PROVE KnowledgeInv'
  <2>1. (\A a \in Nodes : locked'[a] \subseteq locked[a]) /\ UNCHANGED <<cb, net, injected, seen>>
    BY <1>7 DEF LockTimeout, TypeInv
  <2>2. QED
    BY <2>1 DEF KnowledgeInv, Injected
<1>8. CASE UNCHANGED vars
  BY <1>8 DEF vars, KnowledgeInv, Injected
<1>9. QED
  BY <1>2, <1>3, <1>4, <1>5, <1>6, <1>7, <1>8 DEF Next

(* chunk_trader_handle_offer, chunk_trader_handle_accept, peer_chunk_send: *)
(* nodes hold, lock, offer and send chunks that the source injected only,  *)
(* and offer, acknowledge and send none that they have not seen.           *)
THEOREM KnowledgeInvariant == Spec => [](TypeInv /\ KnowledgeInv)
<1>1. Init => TypeInv /\ KnowledgeInv
  BY InitType, KnowledgeInit
<1>2. TypeInv /\ KnowledgeInv /\ [Next]_vars => (TypeInv /\ KnowledgeInv)'
  BY TypeNext, KnowledgeNext
<1>3. QED
  BY <1>1, <1>2, PTL DEF Spec

-----------------------------------------------------------------------------
(***************************************************************************)
(* Locks and deliveries                                                    *)
(***************************************************************************)

(* The steps that change the buffers, the locks or the deliveries.         *)
LEMMA BufferSteps ==
  ASSUME [Next]_vars
  PROVE  \/ UNCHANGED <<cb, locked, delivered>>
         \/ Inject
         \/ \E m \in BagToSet(net) : HandleOffer(m) \/ HandleChunk(m)
         \/ \E n \in Nodes, cid \in Chunks : LockTimeout(n, cid)
  BY DEF Next, vars, AddNeighbour, SendOffer, Handle, IgnoreUnknown, HandleBmap, HandleAccept,
         DiscardChunk, HandleAck, Lose, Duplicate

(* What handling a chunk does at its receiver.                             *)
LEMMA HandleChunkEffect ==
  ASSUME TypeInv, NEW m \in BagToSet(net), HandleChunk(m)
  PROVE  LET n == m.to
             cid == ChunkOf(m)
         IN /\ n \in Nodes \ {Source} /\ cid \in Chunks /\ m.cset = {cid} /\ m.type = "chunk"
            /\ \A a \in Nodes : cb'[a] = IF a = n THEN CbAdd(cb[n], cid) ELSE cb[a]
            /\ \A a \in Nodes : locked'[a] = IF a = n THEN locked[n] \ {cid} ELSE locked[a]
            /\ \A a \in Nodes : seen'[a] = IF a = n THEN seen[n] \union {cid} ELSE seen[a]
            /\ \A a \in Nodes : delivered'[a] =
                 IF a = n /\ CbAccepts(cb[n], cid) THEN Append(delivered[n], cid) ELSE delivered[a]
<1>1. m \in Messages /\ WellFormed(m)
  BY DEF TypeInv, NetType
<1>2. m.to \in Nodes \ {Source} /\ m.type = "chunk"
  BY <1>1 DEF Messages, HandleChunk
<1>3. ChunkOf(m) \in Chunks /\ m.cset = {ChunkOf(m)}
  BY <1>1, <1>2, ChunkOfMessage
<1> DEFINE n == m.to
           cid == ChunkOf(m)
<1>4. /\ locked' = [locked EXCEPT ![n] = locked[n] \ {cid}]
      /\ cb' = [cb EXCEPT ![n] = CbAdd(@, cid)]
      /\ delivered' = [delivered EXCEPT ![n] = IF CbAccepts(cb[n], cid) THEN Append(@, cid) ELSE @]
      /\ seen' = [seen EXCEPT ![n] = @ \union {cid}]
  BY DEF HandleChunk, ParseChunk, ChunkOf, Unlock
<1> HIDE DEF n, cid
<1>5. n \in Nodes
  BY <1>2 DEF n
<1>6. /\ \A a \in Nodes : cb'[a] = IF a = n THEN CbAdd(cb[n], cid) ELSE cb[a]
      /\ \A a \in Nodes : locked'[a] = IF a = n THEN locked[n] \ {cid} ELSE locked[a]
  BY <1>4, <1>5 DEF TypeInv
<1>7. /\ \A a \in Nodes : seen'[a] = IF a = n THEN seen[n] \union {cid} ELSE seen[a]
      /\ \A a \in Nodes : delivered'[a] =
           IF a = n /\ CbAccepts(cb[n], cid) THEN Append(delivered[n], cid) ELSE delivered[a]
  BY <1>4, <1>5 DEF TypeInv
<1>8. QED
  BY <1>2, <1>3, <1>6, <1>7 DEF n, cid

LEMMA LockNext == TypeInv /\ KnowledgeInv /\ LockedNotHeld /\ [Next]_vars => LockedNotHeld'
<1> SUFFICES ASSUME TypeInv, KnowledgeInv, LockedNotHeld, [Next]_vars PROVE LockedNotHeld'
  OBVIOUS
<1>1. CASE UNCHANGED <<cb, locked, delivered>>
  BY <1>1 DEF LockedNotHeld
<1>2. CASE Inject
  <2>1. Source \in Nodes /\ injected \in Nat
    BY TraderAssumption DEF TypeInv
  <2>2. injected \notin locked[Source]
    BY <2>1 DEF KnowledgeInv, Injected
  <2>3. \A a \in Nodes : cb'[a] \subseteq IF a = Source THEN cb[a] \union {injected} ELSE cb[a]
    BY <1>2, <2>1, TrimSubset DEF Inject, TypeInv, CbAdd
  <2>4. UNCHANGED locked
    BY <1>2 DEF Inject
  <2>5. QED
    BY <2>2, <2>3, <2>4 DEF LockedNotHeld
<1>3. ASSUME NEW m \in BagToSet(net), HandleOffer(m) PROVE LockedNotHeld'
  <2> DEFINE n == m.to
             acc_set == LatestUseful(n, m.cset)
  <2>1. acc_set \intersect cb[n] = {}
    BY TrimSubset DEF LatestUseful
  <2>2. locked' = [locked EXCEPT ![n] = @ \union acc_set] /\ UNCHANGED cb
    BY <1>3 DEF HandleOffer
  <2> HIDE DEF n, acc_set
  <2>3. QED
    BY <2>1, <2>2 DEF LockedNotHeld, TypeInv
<1>4. ASSUME NEW m \in BagToSet(net), HandleChunk(m) PROVE LockedNotHeld'
  <2> DEFINE n == m.to
             cid == ChunkOf(m)
  <2>1. /\ \A a \in Nodes : cb'[a] = IF a = n THEN CbAdd(cb[n], cid) ELSE cb[a]
        /\ \A a \in Nodes : locked'[a] = IF a = n THEN locked[n] \ {cid} ELSE locked[a]
    BY <1>4, HandleChunkEffect
  <2>2. CbAdd(cb[n], cid) \subseteq cb[n] \union {cid}
    BY TrimSubset DEF CbAdd
  <2> HIDE DEF n, cid
  <2>3. QED
    BY <2>1, <2>2 DEF LockedNotHeld
<1>5. ASSUME NEW n \in Nodes, NEW cid \in Chunks, LockTimeout(n, cid) PROVE LockedNotHeld'
  BY <1>5 DEF LockTimeout, LockedNotHeld, TypeInv
<1>6. QED
  BY <1>1, <1>2, <1>3, <1>4, <1>5, BufferSteps

(* A node never waits for a chunk it has: chunk_trader_parse_chunk, the    *)
(* timeout and chunk_trader_handle_offer leave no such lock, and the source*)
(* does not lock a chunk it is about to inject.                            *)
THEOREM NoLockHeld == Spec => []LockedNotHeld
<1>1. Init => LockedNotHeld
  BY DEF Init, LockedNotHeld
<1>2. QED
  BY <1>1, LockNext, KnowledgeInvariant, PTL DEF Spec

(* A chunk passed to output_deliver is in the buffer, or it was dropped    *)
(* from a full buffer and all chunks there are later: cb_add_chunk refuses *)
(* it either way.  The source delivers nothing.                            *)
DeliveredInv ==
  /\ delivered[Source] = << >>
  /\ \A n \in Nodes : \A i \in DOMAIN delivered[n] :
       \/ delivered[n][i] \in cb[n]
       \/ Cardinality(cb[n]) = cb_size /\ \A y \in cb[n] : delivered[n][i] < y

LEMMA DeliveredNext ==
  TypeInv /\ DeliveredInv /\ DeliveredOnce /\ [Next]_vars => DeliveredInv' /\ DeliveredOnce'
<1> SUFFICES ASSUME TypeInv, DeliveredInv, DeliveredOnce, [Next]_vars
             PROVE  DeliveredInv' /\ DeliveredOnce'
  OBVIOUS
<1>1. CASE UNCHANGED <<cb, locked, delivered>>
  BY <1>1 DEF DeliveredInv, DeliveredOnce
<1>2. CASE Inject
  <2>1. UNCHANGED delivered /\ \A a \in Nodes \ {Source} : cb'[a] = cb[a]
    BY <1>2 DEF Inject, TypeInv
  <2>2. DOMAIN delivered[Source] = {}
    BY DEF DeliveredInv
  <2>3. QED
    BY <2>1, <2>2 DEF DeliveredInv, DeliveredOnce
<1>3. ASSUME NEW m \in BagToSet(net), HandleOffer(m) PROVE DeliveredInv' /\ DeliveredOnce'
  BY <1>3 DEF HandleOffer, DeliveredInv, DeliveredOnce
<1>4. ASSUME NEW m \in BagToSet(net), HandleChunk(m) PROVE DeliveredInv' /\ DeliveredOnce'
  <2> DEFINE n == m.to
             cid == ChunkOf(m)
             new == CbAdd(cb[n], cid)
  <2>1. /\ n \in Nodes \ {Source} /\ cid \in Chunks
        /\ \A a \in Nodes : cb'[a] = IF a = n THEN new ELSE cb[a]
        /\ \A a \in Nodes : delivered'[a] =
             IF a = n /\ CbAccepts(cb[n], cid) THEN Append(delivered[n], cid) ELSE delivered[a]
    BY <1>4, HandleChunkEffect
  <2> HIDE DEF n, cid
  <2>2. CASE ~CbAccepts(cb[n], cid)
    <3>1. new = cb[n]
      BY <2>2 DEF CbAdd
    <3> HIDE DEF new
    <3>2. \A a \in Nodes : cb'[a] = cb[a] /\ delivered'[a] = delivered[a]
      BY <2>1, <2>2, <3>1
    <3>3. QED
      BY <2>1, <3>2, TraderAssumption DEF DeliveredInv, DeliveredOnce
  <2>3. CASE CbAccepts(cb[n], cid)
    <3> DEFINE old == delivered[n]
    <3>1. /\ cb[n] \in SUBSET Nat /\ IsFiniteSet(cb[n]) /\ Cardinality(cb[n]) \in Nat
          /\ Cardinality(cb[n]) <= cb_size /\ cid \in Nat /\ cb_size \in Nat /\ old \in Seq(Chunks)
          /\ cid \notin cb[n]
      BY <2>1, <2>3, ChunkSets, TraderAssumption DEF TypeInv, CbAccepts, Chunks
    <3>2. /\ CbAdd(cb[n], cid) \subseteq cb[n] \union {cid}
          /\ Cardinality(cb[n]) < cb_size => CbAdd(cb[n], cid) = cb[n] \union {cid}
          /\ Cardinality(cb[n]) = cb_size =>
               /\ cb[n] # {} /\ Earliest(cb[n]) < cid
               /\ CbAdd(cb[n], cid) = (cb[n] \union {cid}) \ {Earliest(cb[n])}
               /\ Cardinality(CbAdd(cb[n], cid)) = cb_size
      BY <2>3, <3>1, CbAddProperties
    <3>3. \A i \in DOMAIN old : /\ old[i] \in Nat
                                /\ \/ old[i] \in cb[n]
                                   \/ Cardinality(cb[n]) = cb_size /\ \A y \in cb[n] : old[i] < y
      <4>1. \A i \in DOMAIN old : old[i] \in Chunks
        BY <3>1, ElementOfSeq, LenProperties
      <4>2. QED
        BY <2>1, <4>1, TraderAssumption DEF DeliveredInv, Chunks
    <3> DEFINE all == Append(old, cid)
               Kept(x) == x \in new \/ (Cardinality(new) = cb_size /\ \A y \in new : x < y)
    <3>4. /\ DOMAIN all = DOMAIN old \union {Len(old) + 1}
          /\ \A i \in DOMAIN old : all[i] = old[i]
          /\ all[Len(old) + 1] = cid
      BY <2>1, <3>1, AppendProperties, LenProperties
    <3>5. cid \in new /\ \A i \in DOMAIN old : old[i] # cid /\ Kept(old[i])
      <4>1. CASE Cardinality(cb[n]) < cb_size
        <5>1. new = cb[n] \union {cid}
          BY <3>2, <4>1
        <5>2. \A i \in DOMAIN old : old[i] \in cb[n]
          BY <3>1, <3>3, <4>1
        <5> HIDE DEF new, old
        <5>3. QED
          BY <3>1, <5>1, <5>2
      <4>2. CASE Cardinality(cb[n]) = cb_size
        <5> DEFINE e == Earliest(cb[n])
        <5>1. e \in cb[n] /\ e \in Nat /\ \A y \in cb[n] : e <= y
          BY <3>1, <3>2, <4>2, EarliestIsLeast
        <5>2. /\ new = (cb[n] \union {cid}) \ {e} /\ e < cid
              /\ Cardinality(new) = cb_size
          BY <3>2, <4>2
        <5> HIDE DEF new, old, e
        <5>3. ASSUME NEW i \in DOMAIN old
              PROVE  old[i] # cid /\ (old[i] \in new \/ \A y \in new : old[i] < y)
          <6>1. CASE old[i] \in cb[n] /\ old[i] # e
            BY <3>1, <5>2, <6>1
          <6>2. CASE old[i] = e
            <7>1. ASSUME NEW y \in new PROVE e < y
              <8>1. y \in Nat /\ (y = cid \/ (y \in cb[n] /\ y # e))
                BY <3>1, <5>2
              <8>2. QED
                BY <5>1, <5>2, <8>1
            <7>2. e # cid
              BY <3>1, <5>1
            <7>3. QED
              BY <6>2, <7>1, <7>2
          <6>3. CASE \A y \in cb[n] : old[i] < y
            <7>1. old[i] \in Nat /\ old[i] < e
              BY <3>3, <5>1, <6>3
            <7>2. ASSUME NEW y \in new PROVE old[i] < y
              BY <3>1, <5>1, <5>2, <6>3, <7>1
            <7>3. QED
              BY <3>1, <5>1, <5>2, <7>1, <7>2
          <6>4. QED
            BY <3>3, <6>1, <6>2, <6>3
        <5>4. cid \in new
          BY <3>1, <5>1, <5>2
        <5>5. QED
          BY <5>2, <5>3, <5>4
      <4>3. QED
        BY <3>1, <4>1, <4>2
    <3>6. /\ \A a \in Nodes \ {n} : cb'[a] = cb[a] /\ delivered'[a] = delivered[a]
          /\ cb'[n] = new /\ delivered'[n] = all
      BY <2>1, <2>3
    <3> HIDE DEF all, new
    <3>7. \A i \in DOMAIN all : Kept(all[i])
      BY <3>4, <3>5
    <3>8. \A i, j \in DOMAIN all : i # j => all[i] # all[j]
      <4>1. \A i, j \in DOMAIN old : i # j => old[i] # old[j]
        BY <2>1 DEF DeliveredOnce
      <4> HIDE DEF old
      <4>2. QED
        BY <3>4, <3>5, <4>1
    <3>9. DeliveredInv'
      <4>1. delivered'[Source] = << >>
        BY <2>1, <3>6, TraderAssumption DEF DeliveredInv
      <4>2. \A i \in DOMAIN delivered'[n] :
              \/ delivered'[n][i] \in cb'[n]
              \/ Cardinality(cb'[n]) = cb_size /\ \A y \in cb'[n] : delivered'[n][i] < y
        BY <3>6, <3>7
      <4>3. QED
        BY <3>6, <4>1, <4>2 DEF DeliveredInv
    <3>10. DeliveredOnce'
      BY <2>1, <3>6, <3>8 DEF DeliveredOnce
    <3>11. QED
      BY <3>9, <3>10
  <2>4. QED
    BY <2>2, <2>3
<1>5. ASSUME NEW n \in Nodes, NEW cid \in Chunks, LockTimeout(n, cid)
      PROVE  DeliveredInv' /\ DeliveredOnce'
  BY <1>5 DEF LockTimeout, DeliveredInv, DeliveredOnce
<1>6. QED
  BY <1>1, <1>2, <1>3, <1>4, <1>5, BufferSteps

(* However often a chunk arrives, output_deliver gets it at most once.     *)
THEOREM ChunksDeliveredOnce == Spec => []DeliveredOnce
<1>1. Init => DeliveredInv /\ DeliveredOnce
  BY TraderAssumption DEF Init, DeliveredInv, DeliveredOnce
<1>2. QED
  BY <1>1, DeliveredNext, TypeInvariant, PTL DEF Spec

-----------------------------------------------------------------------------
(***************************************************************************)
(* What a node believes of its neighbours                                  *)
(***************************************************************************)
OnItsWay(n, p, x) ==
  \E m \in BagToSet(net) : m.type = "chunk" /\ m.from = n /\ m.to = p /\ x \in m.cset

(* BmapSound, of all nodes: a peer is not forgotten when it leaves.        *)
BmapInv ==
  lost = 0 => \A n \in Nodes : \A p \in Others(n) : \A x \in bmap[n][p] :
                x \in seen[p] \/ OnItsWay(n, p, x)

(* A step keeps it if no chunk leaves the network unseen and nothing is    *)
(* noted that the peer has not seen or is not sent.                        *)
LEMMA BmapStep ==
  ASSUME BmapInv, lost' = 0 => lost = 0,
         \A n \in Nodes : seen[n] \subseteq seen'[n],
         \A m \in BagToSet(net) :
           m.type = "chunk" => m \in BagToSet(net)' \/ m.cset \subseteq seen'[m.to],
         \A n \in Nodes : \A p \in Others(n) : \A x \in bmap'[n][p] :
           x \in bmap[n][p] \/ x \in seen'[p] \/ OnItsWay(n, p, x)'
  PROVE  BmapInv'
<1> SUFFICES ASSUME lost' = 0, NEW n \in Nodes, NEW p \in Others(n), NEW x \in bmap'[n][p]
             PROVE  x \in seen'[p] \/ OnItsWay(n, p, x)'
  BY DEF BmapInv
<1>1. CASE x \in bmap[n][p]
  <2>1. x \in seen[p] \/ OnItsWay(n, p, x)
    BY <1>1 DEF BmapInv
  <2>2. CASE x \in seen[p]
    BY <2>2 DEF Others
  <2>3. CASE OnItsWay(n, p, x)
    BY <2>3 DEF OnItsWay
  <2>4. QED
    BY <2>1, <2>2, <2>3
<1>2. QED
  BY <1>1

LEMMA BmapHandle ==
  ASSUME TypeInv, KnowledgeInv, BmapInv, NEW m \in BagToSet(net), Handle(m)
  PROVE  BmapInv'
<1> DEFINE n == m.to
           p == m.from
<1>1. m \in Messages /\ WellFormed(m) /\ NetType /\ BmapType
  BY DEF TypeInv, NetType
<1>2. /\ n \in Nodes /\ p \in Others(n) /\ p \in Nodes
      /\ m.cset \in SUBSET Chunks /\ m.trans_id \in TransIds
  BY <1>1 DEF Messages, WellFormed, Others
<1>3. m.type # "accept" => m.cset \subseteq seen[p]
  BY DEF KnowledgeInv
<1>4. m.cset \subseteq seen[Source] /\ bmap[n][p] \in SUBSET Chunks /\ cb[n] \in SUBSET Chunks
  BY <1>1, <1>2 DEF KnowledgeInv, BmapType, TypeInv
<1> HIDE DEF n, p
<1>5. CASE IgnoreUnknown(m)
  <2>1. m.type # "chunk" /\ Receive(m) /\ UNCHANGED <<bmap, lost, seen>>
    BY <1>5 DEF IgnoreUnknown
  <2>2. BagToSet(net) \ {m} \subseteq BagToSet(net)'
    BY <1>1, <2>1, ReceiveTypes
  <2>3. QED
    BY <2>1, <2>2, BmapStep
<1>6. CASE HandleBmap(m) \/ HandleAck(m)
  <2>1. PICK S : /\ S \in SUBSET Chunks /\ S \subseteq bmap[n][p] \union m.cset /\ Learn(n, p, S)
                 /\ m.type \in {"bmap", "ack"} /\ Receive(m) /\ UNCHANGED <<lost, seen>>
    BY <1>2, <1>4, <1>6, TrimSubset DEF HandleBmap, HandleAck, n, p
  <2>2. BagToSet(net) \ {m} \subseteq BagToSet(net)'
    BY <1>1, <2>1, ReceiveTypes
  <2>3. \A a \in Nodes : \A b \in Others(a) : bmap'[a][b] = IF a = n /\ b = p THEN S ELSE bmap[a][b]
    BY <1>1, <1>2, <2>1, LearnTypes
  <2>4. S \subseteq bmap[n][p] \union seen[p]
    BY <1>3, <2>1
  <2>5. \A a \in Nodes : \A b \in Others(a) : \A x \in bmap'[a][b] : x \in bmap[a][b] \/ x \in seen'[b]
    BY <2>1, <2>3, <2>4
  <2>6. QED
    BY <2>1, <2>2, <2>5, BmapStep
<1>7. CASE HandleOffer(m)
  <2>1. PICK S : /\ S \in SUBSET Chunks /\ S \subseteq bmap[n][p] \union m.cset /\ Learn(n, p, S)
                 /\ m.type = "offer" /\ UNCHANGED <<lost, seen>>
    BY <1>2, <1>4, <1>7, TrimSubset DEF HandleOffer, n, p
  <2>2. BagToSet(net) \ {m} \subseteq BagToSet(net)'
    BY <1>1, <1>7, ReplyNet DEF HandleOffer
  <2>3. \A a \in Nodes : \A b \in Others(a) : bmap'[a][b] = IF a = n /\ b = p THEN S ELSE bmap[a][b]
    BY <1>1, <1>2, <2>1, LearnTypes
  <2>4. S \subseteq bmap[n][p] \union seen[p]
    BY <1>3, <2>1
  <2>5. \A a \in Nodes : \A b \in Others(a) : \A x \in bmap'[a][b] : x \in bmap[a][b] \/ x \in seen'[b]
    BY <2>1, <2>3, <2>4
  <2>6. QED
    BY <2>1, <2>2, <2>5, BmapStep
<1>8. CASE HandleAccept(m)
  <2> DEFINE answers == {Msg("chunk", n, p, {x}, m.trans_id) : x \in Servable(n, m.cset)}
             S == bmap[n][p] \union Servable(n, m.cset)
  <2>1. S \in SUBSET Chunks
    BY <1>2, <1>4 DEF Servable
  <2>2. Learn(n, p, S) /\ Reply(m, answers) /\ m.type = "accept" /\ UNCHANGED <<lost, seen>>
    BY <1>8 DEF HandleAccept, NoteSent, n, p
  <2>3. \A x \in Servable(n, m.cset) :
          \E d \in answers : d.type = "chunk" /\ d.from = n /\ d.to = p /\ x \in d.cset
    <3> SUFFICES ASSUME NEW x \in Servable(n, m.cset)
                 PROVE  LET d == Msg("chunk", n, p, {x}, m.trans_id)
                        IN d \in answers /\ d.type = "chunk" /\ d.from = n /\ d.to = p /\ x \in d.cset
      OBVIOUS
    <3>1. QED
      BY DEF Msg
  <2> HIDE DEF answers
  <2>4. BagToSet(net) \ {m} \subseteq BagToSet(net)' /\ answers \subseteq BagToSet(net)'
    BY <1>1, <2>2, ReplyNet
  <2>5. \A x \in Servable(n, m.cset) : OnItsWay(n, p, x)'
    BY <2>3, <2>4 DEF OnItsWay
  <2>6. \A a \in Nodes : \A b \in Others(a) : bmap'[a][b] = IF a = n /\ b = p THEN S ELSE bmap[a][b]
    BY <1>1, <1>2, <2>1, <2>2, LearnTypes
  <2>7. \A a \in Nodes : \A b \in Others(a) : \A x \in bmap'[a][b] : x \in bmap[a][b] \/ OnItsWay(a, b, x)'
    BY <2>5, <2>6
  <2>8. QED
    BY <2>2, <2>4, <2>7, BmapStep
<1>9. CASE DiscardChunk(m)
  <2>1. m.to = Source /\ Receive(m) /\ UNCHANGED <<bmap, lost, seen>>
    BY <1>9 DEF DiscardChunk
  <2>2. BagToSet(net) \ {m} \subseteq BagToSet(net)'
    BY <1>1, <2>1, ReceiveTypes
  <2>3. QED
    BY <1>4, <2>1, <2>2, BmapStep
<1>10. CASE HandleChunk(m)
  <2> DEFINE cid == ChunkOf(m)
  <2>1. /\ cid \in Chunks /\ m.cset = {cid} /\ m.type = "chunk"
        /\ \A a \in Nodes : seen'[a] = IF a = n THEN seen[n] \union {cid} ELSE seen[a]
    BY <1>10, HandleChunkEffect DEF n
  <2>2. /\ \E answer : Reply(m, {answer})
        /\ Learn(n, p, bmap[n][p] \union {cid}) \/ UNCHANGED bmap
        /\ UNCHANGED lost
    BY <1>10 DEF HandleChunk, ParseChunk, ChunkOf, n, p
  <2> HIDE DEF cid
  <2>3. BagToSet(net) \ {m} \subseteq BagToSet(net)'
    BY <1>1, <2>2, ReplyNet
  <2>4. \A a \in Nodes : \A b \in Others(a) : \A x \in bmap'[a][b] : x \in bmap[a][b] \/ x \in seen[b]
    <3>1. CASE Learn(n, p, bmap[n][p] \union {cid})
      <4>1. \A a \in Nodes : \A b \in Others(a) :
              bmap'[a][b] = IF a = n /\ b = p THEN bmap[n][p] \union {cid} ELSE bmap[a][b]
        BY <1>1, <1>2, <1>4, <2>1, <3>1, LearnTypes
      <4>2. QED
        BY <1>3, <2>1, <4>1
    <3>2. CASE UNCHANGED bmap
      BY <3>2
    <3>3. QED
      BY <2>2, <3>1, <3>2
  <2>5. \A a \in Nodes : seen[a] \subseteq seen'[a]
    BY <2>1
  <2>6. m.cset \subseteq seen'[m.to]
    BY <1>2, <2>1 DEF n
  <2>7. \A a \in Nodes : \A b \in Others(a) : \A x \in bmap'[a][b] : x \in bmap[a][b] \/ x \in seen'[b]
    BY <2>4, <2>5 DEF Others
  <2>8. QED
    BY <2>2, <2>3, <2>5, <2>6, <2>7, BmapStep
<1>11. QED
  BY <1>5, <1>6, <1>7, <1>8, <1>9, <1>10 DEF Handle

LEMMA BmapNext == TypeInv /\ KnowledgeInv /\ BmapInv /\ [Next]_vars => BmapInv'
<1> SUFFICES ASSUME TypeInv, KnowledgeInv, BmapInv, [Next]_vars PROVE BmapInv'
  OBVIOUS
<1>1. NetType /\ BmapType /\ Source \in Nodes /\ lost \in Nat
  BY TraderAssumption DEF TypeInv
<1>2. CASE Inject
  <2>1. PICK T \in PushTargets, c \in {injected} :
          /\ Send({Msg("chunk", Source, p, {c}, INVALID_TRANSID) : p \in T})
          /\ bmap' = [bmap EXCEPT ![Source] =
                        [p \in Others(Source) |-> IF p \in T THEN @[p] \union {c} ELSE @[p]]]
    BY <1>2 DEF Inject
  <2> DEFINE pushed == {Msg("chunk", Source, p, {c}, INVALID_TRANSID) : p \in T}
  <2>2. \A p \in T : \E d \in pushed :
          d.type = "chunk" /\ d.from = Source /\ d.to = p /\ c \in d.cset
    <3> SUFFICES ASSUME NEW p \in T
                 PROVE  LET d == Msg("chunk", Source, p, {c}, INVALID_TRANSID)
                        IN /\ d \in pushed
                           /\ d.type = "chunk" /\ d.from = Source /\ d.to = p /\ c \in d.cset
      OBVIOUS
    <3>1. QED
      BY DEF Msg
  <2> HIDE DEF pushed
  <2>3. BagToSet(net)' = BagToSet(net) \union pushed
    BY <1>1, <2>1, SendNet DEF pushed
  <2>4. \A p \in T : OnItsWay(Source, p, c)'
    BY <2>2, <2>3 DEF OnItsWay
  <2>5. \A a \in Nodes : \A b \in Others(a) :
          bmap'[a][b] = IF a = Source /\ b \in T THEN bmap[a][b] \union {c} ELSE bmap[a][b]
    BY <1>1, <2>1 DEF BmapType
  <2>6. \A a \in Nodes : \A b \in Others(a) : \A x \in bmap'[a][b] : x \in bmap[a][b] \/ OnItsWay(a, b, x)'
    BY <2>4, <2>5
  <2>7. UNCHANGED lost /\ \A a \in Nodes : seen[a] \subseteq seen'[a]
    BY <1>2 DEF Inject, TypeInv
  <2>8. QED
    BY <2>3, <2>6, <2>7, BmapStep
<1>3. ASSUME NEW n \in Nodes, NEW p \in Others(n), AddNeighbour(n, p) \/ SendOffer(n, p) PROVE BmapInv'
  <2>1. ((\E d : Send({d})) \/ UNCHANGED net) /\ UNCHANGED <<bmap, lost, seen>>
    BY <1>3 DEF AddNeighbour, SendOffer
  <2>2. BagToSet(net) \subseteq BagToSet(net)'
    BY <1>1, <2>1, SendNet
  <2>3. QED
    BY <2>1, <2>2, BmapStep
<1>4. ASSUME NEW m \in BagToSet(net), Handle(m) PROVE BmapInv'
  BY <1>4, BmapHandle
<1>5. ASSUME NEW m \in BagToSet(net), Lose(m) PROVE BmapInv'
  BY <1>1, <1>5 DEF Lose, BmapInv
<1>6. ASSUME NEW m \in BagToSet(net), Duplicate(m) PROVE BmapInv'
  <2>1. Send({m}) /\ UNCHANGED <<bmap, lost, seen>>
    BY <1>6 DEF Duplicate
  <2>2. BagToSet(net) \subseteq BagToSet(net)'
    BY <1>1, <2>1, SendNet
  <2>3. QED
    BY <2>1, <2>2, BmapStep
<1>7. ASSUME NEW n \in Nodes, NEW cid \in Chunks, LockTimeout(n, cid) PROVE BmapInv'
  BY <1>7 DEF LockTimeout, BmapInv, OnItsWay
<1>8. CASE UNCHANGED vars
  BY <1>8 DEF vars, BmapInv, OnItsWay
<1>9. QED
  BY <1>2, <1>3, <1>4, <1>5, <1>6, <1>7, <1>8 DEF Next

(* As long as no message is lost, a node believes a neighbour to have only *)
(* what that neighbour got or is being sent by this node.                  *)
THEOREM BeliefsSound == Spec => []BmapSound
<1>1. Init => BmapInv
  BY DEF Init, BmapInv
<1>2. TypeInv /\ BmapInv => BmapSound
  <2> SUFFICES ASSUME TypeInv, BmapInv, lost = 0,
                      NEW n \in Nodes, NEW p \in neighs[n], NEW x \in bmap[n][p]
               PROVE  x \in seen[p] \/ \E m \in InFlight(n, "chunk", x) : m.from = n /\ m.to = p
    BY DEF BmapSound
  <2>1. p \in Others(n)
    BY DEF TypeInv
  <2>2. x \in seen[p] \/ OnItsWay(n, p, x)
    BY <2>1 DEF BmapInv
  <2>3. QED
    BY <2>2 DEF OnItsWay, InFlight
<1>3. QED
  BY <1>1, <1>2, BmapNext, KnowledgeInvariant, PTL DEF Spec

-----------------------------------------------------------------------------
(***************************************************************************)
(* No two requests for a chunk under way                                   *)
(***************************************************************************)

(* How often a message is in flight after a Send, and after a Reply.       *)
LEMMA SendCount ==
  ASSUME NEW B, IsABag(B), NEW msgs
  PROVE  LET C == B (+) SetToBag(msgs)
         IN \A d \in BagToSet(C) : d \notin msgs => d \in BagToSet(B) /\ C[d] = B[d]
  BY DEF BagToSet, SetToBag, IsABag, (+)

LEMMA ReplyCount ==
  ASSUME NEW B, IsABag(B), NEW m, NEW msgs
  PROVE  LET C == (B (-) SetToBag({m})) (+) SetToBag(msgs)
         IN /\ \A d \in BagToSet(C) : d \notin msgs => d \in BagToSet(B) /\ C[d] <= B[d]
            /\ \A d \in msgs : d \notin BagToSet(B) => C[d] = 1
            /\ B[m] = 1 /\ m \notin msgs => m \notin BagToSet(C)
  BY DEF BagToSet, SetToBag, IsABag, (+), (-)

(* The messages that make up n's request for x: the accept that asks for   *)
(* it, then the chunk sent in answer.  n holds the lock on x until the     *)
(* answer is there.                                                        *)
Request(d, n, x) ==
  /\ x \in d.cset
  /\ \/ d.type = "accept" /\ d.from = n
     \/ d.type = "chunk" /\ d.to = n /\ d.trans_id # INVALID_TRANSID

OneRequest(n, x) ==
  /\ \A d \in BagToSet(net) : Request(d, n, x) => x \in locked[n] /\ net[d] = 1
  /\ \A d, e \in BagToSet(net) : Request(d, n, x) /\ Request(e, n, x) => d = e

ParallelInv ==
  ~LockTimeouts /\ dups = 0 => \A n \in Nodes : \A x \in Chunks \ seen[n] : OneRequest(n, x)

(* A step that makes no request and keeps the lock keeps the request.      *)
LEMMA QuietStep ==
  ASSUME NEW n, NEW x, OneRequest(n, x), IsABag(net), IsABag(net)',
         x \in locked[n] => x \in locked'[n],
         \A d \in BagToSet(net)' : Request(d, n, x) => d \in BagToSet(net) /\ net'[d] <= net[d]
  PROVE  OneRequest(n, x)'
<1>1. \A d \in BagToSet(net)' : net'[d] \in Nat \ {0}
  BY DEF IsABag, BagToSet
<1>2. \A d \in BagToSet(net)' : Request(d, n, x) => x \in locked'[n] /\ net'[d] = 1
  BY <1>1 DEF OneRequest
<1>3. \A d, e \in BagToSet(net)' : Request(d, n, x) /\ Request(e, n, x) => d = e
  BY DEF OneRequest
<1>4. QED
  BY <1>2, <1>3 DEF OneRequest, Request

LEMMA QuietSend ==
  ASSUME NetType, NEW n, NEW x, OneRequest(n, x), NEW msgs, Send(msgs), UNCHANGED locked,
         \A d \in msgs : ~Request(d, n, x)
  PROVE  OneRequest(n, x)'
<1> DEFINE C == net (+) SetToBag(msgs)
<1>1. IsABag(net) /\ IsABag(net)' /\ net' = C
  BY SendNet DEF NetType, Send
<1>2. \A d \in BagToSet(C) : d \notin msgs => d \in BagToSet(net) /\ C[d] = net[d]
  BY <1>1, SendCount
<1> HIDE DEF C
<1>3. \A d \in BagToSet(net) : net[d] \in Nat
  BY <1>1 DEF IsABag, BagToSet
<1>4. \A d \in BagToSet(net)' : Request(d, n, x) => d \in BagToSet(net) /\ net'[d] <= net[d]
  BY <1>1, <1>2, <1>3
<1>5. QED
  BY <1>1, <1>4, QuietStep

LEMMA QuietReply ==
  ASSUME NetType, NEW n, NEW x, OneRequest(n, x), NEW m, NEW msgs, Reply(m, msgs),
         x \in locked[n] => x \in locked'[n],
         \A d \in msgs : ~Request(d, n, x)
  PROVE  OneRequest(n, x)'
<1> DEFINE C == (net (-) SetToBag({m})) (+) SetToBag(msgs)
<1>1. IsABag(net) /\ IsABag(net)' /\ net' = C
  BY ReplyNet DEF NetType, Reply
<1>2. \A d \in BagToSet(C) : d \notin msgs => d \in BagToSet(net) /\ C[d] <= net[d]
  BY <1>1, ReplyCount
<1> HIDE DEF C
<1>3. \A d \in BagToSet(net)' : Request(d, n, x) => d \in BagToSet(net) /\ net'[d] <= net[d]
  BY <1>1, <1>2
<1>4. QED
  BY <1>1, <1>3, QuietStep

(* chunk_trader_handle_offer asks for x only if it is not locked, that is, *)
(* when no request for it is under way.                                    *)
LEMMA OfferRequest ==
  ASSUME TypeInv, NEW n \in Nodes, NEW x, OneRequest(n, x), NEW m, HandleOffer(m),
         m \in BagToSet(net)
  PROVE  OneRequest(n, x)'
<1> DEFINE acc_set == LatestUseful(m.to, m.cset)
           d == Msg("accept", m.to, m.from, acc_set, m.trans_id)
           C == (net (-) SetToBag({m})) (+) SetToBag({d})
<1>1. /\ Reply(m, {d}) /\ NetType /\ m \in Messages
      /\ locked' = [locked EXCEPT ![m.to] = @ \union acc_set]
      /\ locked \in [Nodes -> SUBSET Chunks]
  BY DEF HandleOffer, TypeInv, NetType
<1>2. /\ d.type = "accept" /\ d.from = m.to /\ d.cset = acc_set /\ m.to \in Nodes
      /\ acc_set \intersect locked[m.to] = {}
  BY <1>1 DEF Msg, Messages, LatestUseful, Trim
<1>3. /\ IsABag(net)' /\ IsABag(net) /\ net' = C
      /\ BagToSet(net)' \subseteq BagToSet(net) \union {d}
  BY <1>1, ReplyNet DEF Reply, NetType
<1> HIDE DEF d, acc_set
<1>4. d \notin BagToSet(net) => C[d] = 1
  BY <1>3, ReplyCount
<1> HIDE DEF C
<1>5. CASE ~Request(d, n, x)
  <2>1. x \in locked[n] => x \in locked'[n]
    BY <1>1
  <2>2. QED
    BY <1>1, <1>5, <2>1, QuietReply
<1>6. CASE Request(d, n, x)
  <2>1. n = m.to /\ x \in acc_set
    BY <1>2, <1>6 DEF Request
  <2>2. x \notin locked[n] /\ x \in locked'[n]
    BY <1>1, <1>2, <2>1
  <2>3. \A e \in BagToSet(net) : ~Request(e, n, x)
    BY <2>2 DEF OneRequest
  <2>4. \A e \in BagToSet(net)' : Request(e, n, x) => e = d
    BY <1>3, <2>3
  <2>5. net'[d] = 1
    BY <1>3, <1>4, <1>6, <2>3
  <2>6. QED
    BY <2>2, <2>4, <2>5 DEF OneRequest, Request
<1>7. QED
  BY <1>5, <1>6

(* chunk_trader_handle_accept turns the accept that asks for x into the    *)
(* chunk message that carries it.                                          *)
LEMMA AcceptRequest ==
  ASSUME TypeInv, NEW n \in Nodes, NEW x, OneRequest(n, x), NEW m, HandleAccept(m),
         m \in BagToSet(net)
  PROVE  OneRequest(n, x)'
<1> DEFINE Sent(y) == Msg("chunk", m.to, m.from, {y}, m.trans_id)
           answers == {Sent(y) : y \in Servable(m.to, m.cset)}
           C == (net (-) SetToBag({m})) (+) SetToBag(answers)
<1>1. Reply(m, answers) /\ NetType /\ m.type = "accept" /\ UNCHANGED locked
  BY DEF HandleAccept, TypeInv
<1>2. /\ IsABag(net)' /\ IsABag(net) /\ net' = C
      /\ BagToSet(net)' \subseteq BagToSet(net) \union answers
  BY <1>1, ReplyNet DEF Reply, NetType
<1>3. /\ \A d \in answers : d \notin BagToSet(net) => C[d] = 1
      /\ net[m] = 1 /\ m \notin answers => m \notin BagToSet(C)
  BY <1>2, ReplyCount
<1>4. \A d \in answers : \E y \in m.cset : d = Sent(y)
  BY DEF Servable
<1>5. \A y : LET d == Sent(y)
             IN d.type = "chunk" /\ d.to = m.from /\ d.cset = {y}
  BY DEF Msg
<1> HIDE DEF C, answers, Sent
<1>6. CASE \A d \in answers : ~Request(d, n, x)
  BY <1>1, <1>6, QuietReply
<1>7. CASE \E d \in answers : Request(d, n, x)
  <2>1. \A d \in answers : Request(d, n, x) => n = m.from /\ x \in m.cset /\ d = Sent(x)
    BY <1>4, <1>5 DEF Request
  <2>2. Request(m, n, x)
    BY <1>1, <1>7, <2>1 DEF Request
  <2>3. net[m] = 1 /\ x \in locked[n] /\ \A e \in BagToSet(net) : Request(e, n, x) => e = m
    BY <2>2 DEF OneRequest
  <2>4. \A d \in answers : d.type = "chunk"
    BY <1>4, <1>5
  <2>5. m \notin BagToSet(net)'
    BY <1>1, <1>2, <1>3, <2>3, <2>4
  <2>6. \A e \in BagToSet(net)' : Request(e, n, x) => e \in answers /\ e = Sent(x)
    BY <1>2, <2>1, <2>3, <2>5
  <2>7. \A d \in answers : Request(d, n, x) => d \notin BagToSet(net)
    BY <1>1, <2>3, <2>4
  <2>8. \A e \in BagToSet(net)' : Request(e, n, x) => net'[e] = 1
    BY <1>2, <1>3, <2>6, <2>7
  <2>9. \A d, e \in BagToSet(net)' : Request(d, n, x) /\ Request(e, n, x) => d = e
    BY <2>6
  <2>10. QED
    BY <1>1, <2>3, <2>8, <2>9 DEF OneRequest, Request
<1>8. QED
  BY <1>6, <1>7

LEMMA ParallelHandle ==
  ASSUME TypeInv, ParallelInv, NEW m \in BagToSet(net), Handle(m)
  PROVE  ParallelInv'
<1> SUFFICES ASSUME ~LockTimeouts, dups' = 0, NEW n \in Nodes, NEW x \in Chunks \ seen'[n]
             PROVE  OneRequest(n, x)'
  BY DEF ParallelInv
<1>1. NetType /\ m \in Messages /\ WellFormed(m) /\ UNCHANGED dups
  BY DEF TypeInv, NetType, Handle, IgnoreUnknown, HandleBmap, HandleOffer, HandleAccept, DiscardChunk,
         HandleChunk, HandleAck
<1>2. /\ m.to \in Nodes
      /\ locked \in [Nodes -> SUBSET Chunks] /\ seen \in [Nodes -> SUBSET Chunks]
  BY <1>1 DEF Messages, TypeInv
<1>3. CASE \/ IgnoreUnknown(m) \/ HandleBmap(m) \/ DiscardChunk(m) \/ HandleAck(m)
  <2>1. Reply(m, {}) /\ UNCHANGED <<locked, seen>>
    BY <1>3 DEF IgnoreUnknown, HandleBmap, DiscardChunk, HandleAck, Receive
  <2>2. OneRequest(n, x)
    BY <1>1, <2>1 DEF ParallelInv
  <2>3. QED
    BY <1>1, <2>1, <2>2, QuietReply
<1>4. CASE HandleOffer(m)
  <2>1. OneRequest(n, x)
    BY <1>1, <1>4 DEF ParallelInv, HandleOffer
  <2>2. QED
    BY <1>4, <2>1, OfferRequest
<1>5. CASE HandleAccept(m)
  <2>1. OneRequest(n, x)
    BY <1>1, <1>5 DEF ParallelInv, HandleAccept
  <2>2. QED
    BY <1>5, <2>1, AcceptRequest
<1>6. CASE HandleChunk(m)
  <2> DEFINE cid == ChunkOf(m)
             answer == Ack(m.to, m.from, m.trans_id)
  <2>1. /\ locked' = [locked EXCEPT ![m.to] = locked[m.to] \ {cid}]
        /\ seen' = [seen EXCEPT ![m.to] = @ \union {cid}]
        /\ Reply(m, {answer})
    BY <1>6 DEF HandleChunk, ParseChunk, Unlock, ChunkOf
  <2>2. ~Request(answer, n, x)
    BY DEF Request, Ack, Msg
  <2> HIDE DEF cid, answer
  <2>3. x \notin seen[n] /\ (n = m.to => x # cid)
    BY <1>2, <2>1
  <2>4. OneRequest(n, x)
    BY <1>1, <2>3 DEF ParallelInv
  <2>5. x \in locked[n] => x \in locked'[n]
    BY <1>2, <2>1, <2>3
  <2>6. QED
    BY <1>1, <2>1, <2>2, <2>4, <2>5, QuietReply
<1>7. QED
  BY <1>3, <1>4, <1>5, <1>6 DEF Handle

LEMMA ParallelNext == TypeInv /\ ParallelInv /\ [Next]_vars => ParallelInv'
<1> SUFFICES ASSUME TypeInv, ParallelInv, [Next]_vars, ~LockTimeouts, dups' = 0,
                    NEW n \in Nodes, NEW x \in Chunks \ seen'[n]
             PROVE  OneRequest(n, x)'
  BY DEF ParallelInv
<1>1. NetType /\ seen \in [Nodes -> SUBSET Chunks] /\ dups \in Nat
  BY DEF TypeInv
<1>2. dups = 0 /\ x \notin seen[n] => OneRequest(n, x)
  BY DEF ParallelInv
<1>3. CASE Inject
  <2>1. PICK T \in PushTargets :
          Send({Msg("chunk", Source, p, {injected}, INVALID_TRANSID) : p \in T})
    BY <1>3 DEF Inject
  <2> DEFINE pushed == {Msg("chunk", Source, p, {injected}, INVALID_TRANSID) : p \in T}
  <2>2. \A d \in pushed : ~Request(d, n, x)
    BY DEF Request, Msg
  <2> HIDE DEF pushed
  <2>3. Send(pushed) /\ UNCHANGED <<locked, dups>> /\ x \notin seen[n]
    BY <1>1, <1>3, <2>1 DEF Inject, pushed
  <2>4. QED
    BY <1>1, <1>2, <2>2, <2>3, QuietSend
<1>4. ASSUME NEW a \in Nodes, NEW p \in Others(a), AddNeighbour(a, p) \/ SendOffer(a, p)
      PROVE  OneRequest(n, x)'
  <2>1. /\ (\E d : Send({d}) /\ d.type \in {"bmap", "offer"}) \/ Send({})
        /\ UNCHANGED <<locked, dups, seen>>
    <3>1. \A type, S, t : Msg(type, a, p, S, t).type = type
      BY DEF Msg
    <3>2. UNCHANGED net => Send({})
      <4>1. \A B : IsABag(B) => B (+) SetToBag({}) = B
        BY DEF IsABag, SetToBag, (+)
      <4>2. QED
        BY <1>1, <4>1 DEF NetType, Send
    <3>3. QED
      BY <1>4, <3>1, <3>2 DEF AddNeighbour, SendOffer
  <2>2. PICK msgs : Send(msgs) /\ \A d \in msgs : d.type \in {"bmap", "offer"}
    <3>1. CASE Send({})
      BY <3>1
    <3>2. CASE \E d : Send({d}) /\ d.type \in {"bmap", "offer"}
      <4>1. PICK d : Send({d}) /\ d.type \in {"bmap", "offer"}
        BY <3>2
      <4>2. \A e \in {d} : e.type \in {"bmap", "offer"}
        BY <4>1
      <4>3. QED
        BY <4>1, <4>2
    <3>3. QED
      BY <2>1, <3>1, <3>2
  <2>3. \A d \in msgs : ~Request(d, n, x)
    BY <2>2 DEF Request
  <2>4. QED
    BY <1>1, <1>2, <2>1, <2>2, <2>3, QuietSend
<1>5. ASSUME NEW m \in BagToSet(net), Handle(m) PROVE OneRequest(n, x)'
  BY <1>5, ParallelHandle DEF ParallelInv
<1>6. ASSUME NEW m \in BagToSet(net), Lose(m) PROVE OneRequest(n, x)'
  <2>1. Reply(m, {}) /\ UNCHANGED <<locked, dups, seen>>
    BY <1>6 DEF Lose, Receive
  <2>2. QED
    BY <1>1, <1>2, <2>1, QuietReply
<1>7. ASSUME NEW m \in BagToSet(net), Duplicate(m) PROVE OneRequest(n, x)'
  BY <1>1, <1>7 DEF Duplicate
<1>8. ASSUME NEW a \in Nodes, NEW cid \in Chunks, LockTimeout(a, cid) PROVE OneRequest(n, x)'
  BY <1>8 DEF LockTimeout
<1>9. CASE UNCHANGED vars
  BY <1>2, <1>9 DEF vars, OneRequest
<1>10. QED
  BY <1>3, <1>4, <1>5, <1>6, <1>7, <1>8, <1>9 DEF Next

(* While locks hold and no datagram is duplicated, the accepts that ask    *)
(* for a chunk and the chunks sent in answer are never two at a time, of   *)
(* however many neighbours that offer it: chunk_trader_handle_offer locks  *)
(* what it asks for and only what came is unlocked.                        *)
THEOREM RequestsNotParallel ==
  Spec => [](~LockTimeouts /\ dups = 0 => NoParallelRequest)
<1>1. Init => ParallelInv
  BY DEF Init, ParallelInv, OneRequest, EmptyBag, SetToBag, BagToSet
<1>2. ParallelInv => (~LockTimeouts /\ dups = 0 => NoParallelRequest)
  <2> SUFFICES ASSUME NEW n \in Nodes, NEW x \in Chunks \ seen[n], OneRequest(n, x)
               PROVE  LET asked == {m \in InFlight(n, "accept", x) : m.from = n}
                          coming == {m \in InFlight(n, "chunk", x) :
                                       m.to = n /\ m.trans_id # INVALID_TRANSID}
                      IN Cardinality(asked) + Cardinality(coming) <= 1
    BY DEF ParallelInv, NoParallelRequest
  <2> DEFINE asked == {m \in InFlight(n, "accept", x) : m.from = n}
             coming == {m \in InFlight(n, "chunk", x) : m.to = n /\ m.trans_id # INVALID_TRANSID}
  <2>1. \A d \in asked \union coming : d \in BagToSet(net) /\ Request(d, n, x)
    BY DEF InFlight, Request
  <2>2. asked \intersect coming = {}
    BY DEF InFlight
  <2> HIDE DEF asked, coming
  <2>3. \A d, e \in asked \union coming : d = e
    BY <2>1 DEF OneRequest
  <2>4. CASE asked \union coming = {}
    <3>1. asked = {} /\ coming = {} /\ Cardinality({}) = 0
      BY <2>4, FS_EmptySet
    <3>2. Cardinality(asked) + Cardinality(coming) = 0
      BY <3>1
    <3>3. QED
      BY <3>2 DEF asked, coming
  <2>5. CASE asked \union coming # {}
    <3>1. PICK d : d \in asked \union coming
      BY <2>5
    <3>2. (asked = {d} /\ coming = {}) \/ (asked = {} /\ coming = {d})
      BY <2>2, <2>3, <3>1
    <3>3. Cardinality({d}) = 1 /\ Cardinality({}) = 0
      BY FS_EmptySet, FS_Singleton
    <3>4. Cardinality(asked) + Cardinality(coming) = 1
      BY <3>2, <3>3
    <3>5. QED
      BY <3>4 DEF asked, coming
  <2>6. QED
    BY <2>4, <2>5
<1>3. QED
  BY <1>1, <1>2, ParallelNext, TypeInvariant, PTL DEF Spec
=============================================================================
