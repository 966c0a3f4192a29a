-------------------------- MODULE Topology_proofs ---------------------------
(***************************************************************************)
(* Proofs about Topology, for every set of peers, every target size and    *)
(* every fraction of neighbours discarded.                                 *)
(***************************************************************************)
EXTENDS Topology, FiniteSetTheorems, TLAPS

(* The record of peersets; what is proved needs nothing of the order of the*)
(* array.                                                                  *)
PeerRecords == [neigh : SUBSET Peers, swarm : SUBSET Peers, locked : SUBSET Peers, idle : SUBSET Peers]

(* The inductive invariant: the two peersets share no peer, or else a      *)
(* REMOVE or an update could free the one struct peer that locked_neighs   *)
(* points to, and an ADD would leave the other.                            *)
PeersInv(r) ==
  /\ r \in PeerRecords
  /\ r.neigh \intersect r.swarm = {}
  /\ r.locked \subseteq r.neigh
  /\ r.idle \subseteq r.neigh \union r.swarm

IndInv == PeersInv(t) /\ SignalledExactly

-----------------------------------------------------------------------------
(* What the messages do to the peersets.                                   *)
LEMMA NodeInsertPeers ==
  ASSUME NEW r, NEW p \in Peers, PeersInv(r)
  PROVE  PeersInv(NodeInsert(r, p)) /\ NodeInsert(r, p).neigh = r.neigh
  BY DEF PeersInv, PeerRecords, NodeInsert, Known

LEMMA AddPeerPeers ==
  ASSUME NEW r, NEW p \in Peers, PeersInv(r)
  PROVE  PeersInv(AddPeer(r, p)) /\ AddPeer(r, p).neigh = r.neigh \union {p}
  BY DEF PeersInv, PeerRecords, AddPeer

LEMMA RemovePeerPeers ==
  ASSUME NEW r, NEW p \in Peers, PeersInv(r)
  PROVE  PeersInv(RemovePeer(r, p)) /\ RemovePeer(r, p).neigh = r.neigh \ {p}
  BY DEF PeersInv, PeerRecords, RemovePeer

LEMMA RemovePeersPeers ==
  ASSUME NEW r, NEW S, PeersInv(r)
  PROVE  PeersInv(RemovePeers(r, S)) /\ RemovePeers(r, S).neigh = r.neigh \ S
  BY DEF PeersInv, PeerRecords, RemovePeers

(* What topology_update does up to the random choice, and after it.        *)
LEMMA SampleAndDropPeers ==
  ASSUME NEW r, NEW sample \in SUBSET Peers, NEW order, PeersInv(r)
  PROVE  /\ PeersInv(SampleAndDrop(r, sample, order))
         /\ SampleAndDrop(r, sample, order).neigh \subseteq r.neigh
<1> DEFINE sampled == SamplePeers(r, sample)
<1>1. PeersInv(sampled) /\ sampled.neigh = r.neigh
  BY DEF PeersInv, PeerRecords, SamplePeers
<1>2. SampleAndDrop(r, sample, order) = RemovePeers(sampled, Unactives(sampled, order))
  BY DEF SampleAndDrop
<1> HIDE DEF sampled
<1>3. QED
  BY <1>1, <1>2, RemovePeersPeers

(* After topology_update_random a peer may be locked and in the swarm;     *)
(* ForgetSwarm unlocks it before it is freed.                              *)
LEMMA UpdateRandomPeers ==
  ASSUME NEW r, PeersInv(r), NEW new \in UpdateRandom(r)
  PROVE  /\ PeersInv(ForgetSwarm(new))
         /\ ForgetSwarm(new).neigh = new.neigh
<1>1. PICK out \in SUBSET r.neigh : \E in \in SUBSET (r.swarm \union out) : new = Move(r, out, in)
  BY DEF UpdateRandom, Upto
<1>2. PICK in \in SUBSET (r.swarm \union out) : new = Move(r, out, in)
  BY <1>1
<1>3. /\ new \in PeerRecords
      /\ new.neigh = (r.neigh \ out) \union in
      /\ new.swarm = (r.swarm \union out) \ in
      /\ new.locked = r.locked
      /\ new.idle = r.idle
  BY <1>2 DEF Move, PeersInv, PeerRecords
<1>4. /\ ForgetSwarm(new) \in PeerRecords
      /\ ForgetSwarm(new).neigh = new.neigh
      /\ ForgetSwarm(new).swarm = {}
      /\ ForgetSwarm(new).locked = new.locked \ new.swarm
      /\ ForgetSwarm(new).idle = new.idle \ new.swarm
  BY <1>3 DEF ForgetSwarm, PeerRecords
<1>5. QED
  BY <1>3, <1>4 DEF PeersInv

-----------------------------------------------------------------------------
LEMMA InitInd == Init => IndInv
  BY DEF Init, IndInv, PeersInv, PeerRecords, NoPeers, SignalledExactly

LEMMA NextInd == IndInv /\ [Next]_vars => IndInv'
<1> SUFFICES ASSUME IndInv, [Next]_vars PROVE IndInv'
  OBVIOUS
<1> USE DEF IndInv, SignalledExactly
<1>1. ASSUME NEW p \in Peers, Bootstrap(p) PROVE IndInv'
  BY <1>1, NodeInsertPeers DEF Bootstrap
<1>2. ASSUME NEW p \in Peers, ReceiveAdd(p) PROVE IndInv'
  BY <1>2, AddPeerPeers DEF ReceiveAdd, Receive
<1>3. ASSUME NEW p \in Peers, ReceiveRemove(p) PROVE IndInv'
  BY <1>3, RemovePeerPeers DEF ReceiveRemove, Receive
<1>4. ASSUME NEW p \in Peers, ReceiveQuit(p) PROVE IndInv'
  BY <1>4, RemovePeersPeers DEF ReceiveQuit, Receive
<1>5. ASSUME NEW p \in Peers, FallsSilent(p) \/ Hears(p) PROVE IndInv'
  <2>1. PICK S \in SUBSET (t.neigh \union t.swarm) : t' = [t EXCEPT !.idle = S]
    BY <1>5 DEF FallsSilent, Hears, PeersInv, PeerRecords, Known
  <2>2. t'.neigh = t.neigh /\ PeersInv(t')
    BY <2>1 DEF PeersInv, PeerRecords
  <2>3. QED
    BY <1>5, <2>2 DEF FallsSilent, Hears
<1>6. ASSUME NEW p \in Peers, Leave(p) PROVE IndInv'
  BY <1>6 DEF Leave
<1>7. ASSUME NEW sample \in SUBSET Peers, NEW order, Update(sample, order) PROVE IndInv'
  <2> DEFINE old_neighs == SampleAndDrop(t, sample, order)
  <2>1. PeersInv(old_neighs) /\ old_neighs.neigh \subseteq t.neigh
    BY SampleAndDropPeers
  <2>2. PICK new \in UpdateRandom(old_neighs) :
          /\ t' = ForgetSwarm(new)
          /\ linked' = ((linked \ (t.neigh \ old_neighs.neigh)) \ Leaving(old_neighs, new))
                         \union Joining(old_neighs, new)
    BY <1>7 DEF Update
  <2> HIDE DEF old_neighs
  <2>3. PeersInv(t') /\ t'.neigh = new.neigh
    BY <2>1, <2>2, UpdateRandomPeers
  <2>4. linked' = new.neigh
    BY <2>1, <2>2 DEF Leaving, Joining
  <2>5. QED
    BY <2>3, <2>4
<1>8. CASE UNCHANGED vars
  BY <1>8 DEF vars
<1>9. QED
  BY <1>1, <1>2, <1>3, <1>4, <1>5, <1>6, <1>7, <1>8 DEF Next, UpdateAny

(* The inductive invariant.                                                *)
THEOREM IndInvariant == Spec => []IndInv
  BY InitInd, NextInd, PTL DEF Spec

(* The peersets hold peers, and only a known peer has a timestamp: a       *)
(* struct peer that is freed leaves nothing behind.                        *)
THEOREM TypeCorrect == Spec => []TypeOK
<1> DEFINE History == gone \subseteq Leavers /\ echoes \in 0 .. MaxEchoes /\ linked \subseteq Peers /\ updated \subseteq Peers
<1>1. Init => History
  BY TopologyAssumption DEF Init
<1>2. IndInv /\ IndInv' /\ History /\ [Next]_vars => History'
  <2> SUFFICES ASSUME IndInv, IndInv', History, [Next]_vars PROVE History'
    OBVIOUS
  <2>1. (linked \subseteq Peers)'
    BY DEF IndInv, SignalledExactly, PeersInv, PeerRecords
  <2>2. \A S : Echo(S) => (echoes \in 0 .. MaxEchoes)'
    BY TopologyAssumption DEF Echo
  <2>3. ASSUME NEW p \in Peers,
               \/ Bootstrap(p) \/ ReceiveAdd(p) \/ ReceiveRemove(p) \/ ReceiveQuit(p)
               \/ FallsSilent(p) \/ Hears(p) \/ Leave(p)
        PROVE  History'
    BY <2>1, <2>2, <2>3
       DEF Bootstrap, ReceiveAdd, ReceiveRemove, ReceiveQuit, Receive, FallsSilent, Hears, Leave
  <2>4. ASSUME NEW sample \in SUBSET Peers, NEW order, Update(sample, order) PROVE History'
    <3>1. PeersInv(SampleAndDrop(t, sample, order))
      BY SampleAndDropPeers DEF IndInv
    <3>2. (updated \subseteq Peers)'
      BY <2>4, <3>1 DEF Update, PeersInv, PeerRecords, Known
    <3>3. Echo(sample) /\ UNCHANGED gone
      BY <2>4 DEF Update
    <3>4. QED
      BY <2>1, <2>2, <3>2, <3>3
  <2>5. CASE UNCHANGED vars
    BY <2>5 DEF vars
  <2>6. QED
    BY <2>3, <2>4, <2>5 DEF Next, UpdateAny
<1>3. IndInv /\ History => TypeOK
  BY DEF IndInv, PeersInv, PeerRecords, TypeOK, Known
<1>4. QED
  BY <1>1, <1>2, <1>3, IndInvariant, PTL DEF Spec

(* topology.c never has a node in the neighbourhood and in the swarm       *)
(* bucket at once, whatever messages and updates follow each other.        *)
THEOREM OneStruct == Spec => []OneStructPerPeer
<1>1. IndInv => OneStructPerPeer
  BY DEF IndInv, PeersInv, OneStructPerPeer
<1>2. QED
  BY <1>1, IndInvariant, PTL

(* locked_neighs never points to a peer that is no neighbour any more.     *)
THEOREM LocksAreNeighbours == Spec => []NoDanglingLock
<1>1. IndInv => NoDanglingLock
  BY DEF IndInv, PeersInv, NoDanglingLock
<1>2. QED
  BY <1>1, IndInvariant, PTL

(* The neighbours are the peers an ADD was exchanged with last, and that   *)
(* were not dropped since.                                                 *)
THEOREM NeighboursSignalled == Spec => []SignalledExactly
<1>1. IndInv => SignalledExactly
  BY DEF IndInv
<1>2. QED
  BY <1>1, IndInvariant, PTL

-----------------------------------------------------------------------------
(***************************************************************************)
(* The size of the neighbourhood after topology_update                     *)
(***************************************************************************)
LEMMA PeersFinite ==
  ASSUME NEW S \in SUBSET Peers
  PROVE  IsFiniteSet(S) /\ Cardinality(S) \in Nat
  BY TopologyAssumption, FS_Subset, FS_CardinalityType

(* No more neighbours are discarded than there are.                        *)
LEMMA DiscardBound ==
  ASSUME NEW n \in Nat
  PROVE  (DiscardTenths * n) \div 10 \in 0 .. n
<1>1. DiscardTenths \in {0, 1, 2, 3, 4, 5, 6, 7, 8, 9, 10}
  BY PeerSetsAssumption
<1>2. QED
  BY <1>1

(* What one update of a node with peers r makes of the size: it is the     *)
(* target, less if all known peers are neighbours, and more only if the    *)
(* discard leaves more.                                                    *)
LEMMA UpdateRandomSize ==
  ASSUME NEW r, PeersInv(r), NEW new \in UpdateRandom(r)
  PROVE  /\ new.neigh \in SUBSET Peers
         /\ Cardinality(new.neigh) >= neighbourhood_target_size \/ new.neigh = Known(r)
         /\ Cardinality(new.neigh) <= neighbourhood_target_size
              \/ Cardinality(new.neigh) <= Cardinality(r.neigh)
<1> DEFINE n == Cardinality(r.neigh)
           d == DiscardNum(r)
           k == OthersNum(n - d)
<1>1. r.neigh \in SUBSET Peers /\ r.swarm \in SUBSET Peers /\ r.neigh \intersect r.swarm = {}
  BY DEF PeersInv, PeerRecords
<1>2. PICK out \in Upto(d, r.neigh) : \E in \in Upto(k, r.swarm \union out) : new = Move(r, out, in)
  BY DEF UpdateRandom
<1>3. PICK in \in Upto(k, r.swarm \union out) : new = Move(r, out, in)
  BY <1>2
<1>4. new.neigh = (r.neigh \ out) \union in
  BY <1>3 DEF Move, PeersInv, PeerRecords
<1> DEFINE S == r.swarm \union out
           rest == r.neigh \ out
<1>5. n \in Nat /\ d \in 0 .. n /\ neighbourhood_target_size \in Nat
  BY <1>1, PeersFinite, DiscardBound, PeerSetsAssumption DEF DiscardNum
<1>6. out \subseteq r.neigh /\ in \subseteq S
  BY <1>2, <1>3 DEF Upto
<1>7. Cardinality(out) = IF d < n THEN d ELSE n
  BY <1>2 DEF Upto
<1>8. Cardinality(in) = IF k < Cardinality(S) THEN k ELSE Cardinality(S)
  BY <1>3 DEF Upto
<1>9. k = IF n - d < neighbourhood_target_size THEN neighbourhood_target_size - (n - d) ELSE 0
  BY DEF OthersNum
<1> HIDE DEF n, d, k
<1>10. /\ IsFiniteSet(r.neigh) /\ IsFiniteSet(out) /\ IsFiniteSet(S) /\ IsFiniteSet(in) /\ IsFiniteSet(rest)
       /\ Cardinality(S) \in Nat /\ Cardinality(in) \in Nat /\ Cardinality(rest) \in Nat
       /\ in \in SUBSET Peers /\ rest \in SUBSET Peers
  BY <1>1, <1>6, PeersFinite
<1>11. Cardinality(rest) = n - d
  <2>1. r.neigh \intersect out = out
    BY <1>6
  <2>2. Cardinality(rest) = Cardinality(r.neigh) - Cardinality(out)
    BY <1>10, <2>1, FS_Difference
  <2>3. QED
    BY <1>5, <1>7, <2>2 DEF n
<1>12. rest \intersect in = {} /\ rest \union S = Known(r)
  BY <1>1, <1>6 DEF Known
<1> HIDE DEF S, rest
<1>13. Cardinality(rest \union in) = (n - d) + Cardinality(in)
  <2>1. Cardinality(rest \union in) = Cardinality(rest) + Cardinality(in) - Cardinality({})
    BY <1>10, <1>12, FS_Union
  <2>2. Cardinality({}) = 0
    BY FS_EmptySet
  <2>3. QED
    BY <1>5, <1>10, <1>11, <2>1, <2>2
<1>14. new.neigh = rest \union in
  BY <1>4 DEF rest
<1>15. Cardinality(new.neigh) >= neighbourhood_target_size \/ new.neigh = Known(r)
  <2>1. CASE k < Cardinality(S)
    BY <1>5, <1>8, <1>9, <1>13, <1>14, <2>1
  <2>2. CASE ~(k < Cardinality(S))
    <3>1. in = S
      BY <1>6, <1>8, <1>10, <2>2, FS_Subset DEF S
    <3>2. QED
      BY <1>12, <1>14, <3>1
  <2>3. QED
    BY <2>1, <2>2
<1>16. Cardinality(new.neigh) <= neighbourhood_target_size \/ Cardinality(new.neigh) <= n
  <2>1. Cardinality(in) <= k
    BY <1>5, <1>8, <1>9, <1>10
  <2>2. QED
    BY <1>5, <1>9, <1>10, <1>13, <1>14, <2>1
<1>17. QED
  BY <1>10, <1>14, <1>15, <1>16 DEF n

LEMMA UpdateSize ==
  ASSUME IndInv, NEW sample \in SUBSET Peers, NEW order, Update(sample, order)
  PROVE  /\ Cardinality(t'.neigh) >= neighbourhood_target_size \/ t'.neigh = updated'
         /\ Cardinality(t'.neigh) <= neighbourhood_target_size
              \/ Cardinality(t'.neigh) <= Cardinality(t.neigh)
<1> DEFINE old_neighs == SampleAndDrop(t, sample, order)
<1>1. PeersInv(old_neighs) /\ old_neighs.neigh \subseteq t.neigh
  BY SampleAndDropPeers DEF IndInv
<1>2. PICK new \in UpdateRandom(old_neighs) : t' = ForgetSwarm(new) /\ updated' = Known(old_neighs)
  BY DEF Update
<1> HIDE DEF old_neighs
<1>3. t'.neigh = new.neigh
  BY <1>1, <1>2, UpdateRandomPeers
<1>4. /\ new.neigh \in SUBSET Peers
      /\ Cardinality(new.neigh) >= neighbourhood_target_size \/ new.neigh = Known(old_neighs)
      /\ Cardinality(new.neigh) <= neighbourhood_target_size
           \/ Cardinality(new.neigh) <= Cardinality(old_neighs.neigh)
  BY <1>1, UpdateRandomSize
<1>5. /\ Cardinality(old_neighs.neigh) <= Cardinality(t.neigh)
      /\ Cardinality(t.neigh) \in Nat /\ Cardinality(old_neighs.neigh) \in Nat
      /\ Cardinality(new.neigh) \in Nat
  <2>1. t.neigh \in SUBSET Peers
    BY DEF IndInv, PeersInv, PeerRecords
  <2>2. QED
    BY <1>1, <1>4, <2>1, PeersFinite, FS_Subset
<1>6. QED
  BY <1>2, <1>3, <1>4, <1>5

(* Every other step leaves nothing to be said of an update.                *)
LEMMA NoUpdate ==
  ASSUME Next, ~UpdateAny PROVE updated' = {}
  BY DEF Next, Bootstrap, ReceiveAdd, ReceiveRemove, ReceiveQuit, Receive, FallsSilent, Hears, Leave

(* topology_update leaves the neighbourhood at the target size or makes    *)
(* every known peer a neighbour, whatever it dropped and discarded before. *)
THEOREM UpdateRefills == Spec => []Refilled
<1>1. Init => Refilled
  BY DEF Init, Refilled
<1>2. IndInv /\ Refilled /\ [Next]_vars => Refilled'
  <2> SUFFICES ASSUME IndInv, Refilled, [Next]_vars PROVE Refilled'
    OBVIOUS
  <2>1. CASE UNCHANGED vars
    BY <2>1 DEF vars, Refilled
  <2>2. CASE UpdateAny
    BY <2>2, UpdateSize DEF UpdateAny, Refilled
  <2>3. CASE Next /\ ~UpdateAny
    BY <2>3, NoUpdate DEF Refilled
  <2>4. QED
    BY <2>1, <2>2, <2>3
<1>3. QED
  BY <1>1, <1>2, IndInvariant, PTL DEF Spec

(* topology_update never makes a neighbourhood grow beyond the target.     *)
THEOREM UpdateInTarget == Spec => UpdateStaysInTarget
<1>1. IndInv /\ IndInv' /\ [Next]_vars =>
        [updated' # {} /\ Cardinality(t'.neigh) > Cardinality(t.neigh)
           => Cardinality(t'.neigh) <= neighbourhood_target_size]_vars
  <2> SUFFICES ASSUME IndInv, IndInv', Next, updated' # {}, Cardinality(t'.neigh) > Cardinality(t.neigh)
               PROVE  Cardinality(t'.neigh) <= neighbourhood_target_size
    OBVIOUS
  <2>1. UpdateAny
    BY NoUpdate
  <2>2. Cardinality(t'.neigh) <= neighbourhood_target_size \/ Cardinality(t'.neigh) <= Cardinality(t.neigh)
    BY <2>1, UpdateSize DEF UpdateAny
  <2>3. Cardinality(t'.neigh) \in Nat /\ Cardinality(t.neigh) \in Nat
    BY PeersFinite DEF IndInv, PeersInv, PeerRecords
  <2>4. QED
    BY <2>2, <2>3
<1>2. QED
  BY <1>1, IndInvariant, PTL DEF Spec, UpdateStaysInTarget
=============================================================================
