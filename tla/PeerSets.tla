------------------------------ MODULE PeerSets ------------------------------
(***************************************************************************)
(* What the operations of src/src/topology.c do to the peers of one node,  *)
(* as operators on a record                                                *)
(*                                                                         *)
(*     neigh    neighbourhood: the peers chunks are traded with            *)
(*     swarm    swarm_bucket: the other peers known at the moment          *)
(*     locked   locked_neighs: the neighbours that came uninvited          *)
(*     idle     the known peers whose buffer map timestamp (or creation    *)
(*              timestamp, before the first one) is older than tout_bmap   *)
(*                                                                         *)
(* A peerset (GRAPES) holds a node at most once; locked_neighs shares the  *)
(* struct peer of the neighbourhood, the other two own theirs.             *)
(***************************************************************************)
EXTENDS Integers, Sequences, FiniteSets
LOCAL INSTANCE SequencesExt

CONSTANTS neighbourhood_target_size,
          DiscardTenths,    \* 10 * (1 - topo_mem): 3 in the code
          peer_timeout      \* tout_bmap in seconds; 0 switches the timeout off

ASSUME PeerSetsAssumption ==
  /\ neighbourhood_target_size \in Nat
  /\ DiscardTenths \in 0 .. 10
  /\ peer_timeout \in Nat

(* topology_get_peer finds a peer of either set.                           *)
Known(t) == t.neigh \union t.swarm

(* topology_init *)
NoPeers == [neigh |-> {}, swarm |-> {}, locked |-> {}, idle |-> {}]

(* topology_node_insert *)
NodeInsert(t, id) == IF id \in Known(t) THEN t ELSE [t EXCEPT !.swarm = @ \union {id}]

(* neighbourhood_add_peer: from the swarm, or else created and locked; so  *)
(* is a peer that is a neighbour already.                                  *)
AddKeepsInSwarm(t, id) ==                 \* fault: looked up, not popped, in the swarm
  [t EXCEPT !.neigh = @ \union {id},
            !.locked = IF id \in t.swarm THEN @ ELSE @ \union {id}]
AddPeer(t, id) ==
  [t EXCEPT !.neigh = @ \union {id},
            !.swarm = @ \ {id},
            !.locked = IF id \in t.swarm THEN @ ELSE @ \union {id}]

(* neighbourhood_remove_peer *)
RemovePeer(t, id) ==
  IF id \in t.neigh
    THEN [t EXCEPT !.neigh = @ \ {id}, !.swarm = @ \union {id}, !.locked = @ \ {id}]
    ELSE [t EXCEPT !.locked = @ \ {id}]

(* topology_remove_peer, for the peers in S: they are freed.               *)
RemovePeers(t, S) ==
  [neigh |-> t.neigh \ S, swarm |-> t.swarm \ S, locked |-> t.locked \ S, idle |-> t.idle \ S]

(* topology_sample_peers: psample's nodes that are not known yet.          *)
SamplePeers(t, sample) == [t EXCEPT !.swarm = @ \union (sample \ t.neigh)]

(* neighbourhood_drop_unactives walks the array of the neighbourhood while *)
(* it removes from it: the peer that moves into the place of a removed one *)
(* is not looked at.  order is the array; whatever it is, the result is    *)
(* what one walk removes.  topology_update calls it if tout_bmap is set.   *)
Walk(t, order) ==
  LET removed[i \in 0 .. Len(order)] ==
        i > 0 /\ order[i] \in t.idle /\ ~removed[i - 1]
  IN {order[i] : i \in {k \in DOMAIN order : removed[k]}}
KeepLastLink(t, order) ==                 \* fault: the guard that is commented out there
  IF peer_timeout # 0 /\ Len(order) > 1 THEN Walk(t, order) ELSE {}
Unactives(t, order) == IF peer_timeout # 0 THEN Walk(t, order) ELSE {}

Arrays(t) == SetToSeqs(t.neigh)

(* topology_update_random: DiscardTenths of the neighbours go back to the  *)
(* swarm, then peers are taken from the swarm up to the target size; which *)
(* ones is random.                                                         *)
DiscardNum(t) == (DiscardTenths * Cardinality(t.neigh)) \div 10
OthersIgnoreSize(n) == neighbourhood_target_size        \* fault: the size is not subtracted
OthersNum(n) == IF n < neighbourhood_target_size THEN neighbourhood_target_size - n ELSE 0
Upto(n, S) == {X \in SUBSET S : Cardinality(X) = IF n < Cardinality(S) THEN n ELSE Cardinality(S)}

Move(t, out, in) ==
  [t EXCEPT !.neigh = (@ \ out) \union in, !.swarm = (@ \union out) \ in]

RefillBeforeDiscard(t) ==                 \* fault: room counted before the discard
  UNION {{Move(t, out, in) : in \in Upto(OthersNum(Cardinality(t.neigh)), t.swarm)} :
           out \in Upto(DiscardNum(t), t.neigh)}
UpdateRandom(t) ==
  UNION {{Move(t, out, in) :
            in \in Upto(OthersNum(Cardinality(t.neigh) - DiscardNum(t)), t.swarm \union out)} :
           out \in Upto(DiscardNum(t), t.neigh)}

(* The end of topology_update: the swarm is forgotten.                     *)
ForgetKeepsLocked(t) ==                   \* fault: locked_neighs is not purged
  [t EXCEPT !.swarm = {}, !.idle = @ \ t.swarm]
ForgetSwarm(t) ==
  [t EXCEPT !.swarm = {}, !.idle = @ \ t.swarm, !.locked = @ \ t.swarm]

(* topology_update up to topology_update_random, for the peers psample     *)
(* returns and the order of the array.                                     *)
SampleAndDrop(t, sample, order) ==
  LET sampled == SamplePeers(t, sample)
  IN RemovePeers(sampled, Unactives(sampled, order))

(* topology_signal_change: who is sent an ADD, and who a REMOVE, when the  *)
(* neighbourhood changed from that of old to that of t.                    *)
Joining(old, t) == t.neigh \ old.neigh
NobodyLeaves(old, t) == {}                \* fault: old_neighs is no copy
Leaving(old, t) == old.neigh \ t.neigh
=============================================================================
