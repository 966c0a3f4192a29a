------------------------------ MODULE Topology ------------------------------
(***************************************************************************)
(* The topology of one node (src/src/topology.c) among peers that send it  *)
(* ADD, REMOVE and QUIT messages at any time and in any order: the         *)
(* messages of neighbourhood_message_parse and the periodic                *)
(* topology_update.  What psample (GRAPES) returns, which peers fall       *)
(* silent, and the random choices are left open.  A peer may be gone: what *)
(* still comes of it, late messages and old entries of psample, is bounded.*)
(***************************************************************************)
EXTENDS PeerSets

CONSTANTS Peers,      \* the other nodes
          Leavers,    \* those that may leave or crash
          MaxEchoes   \* bound on what still comes of the ones that are gone

ASSUME TopologyAssumption ==
  /\ IsFiniteSet(Peers) /\ Leavers \subseteq Peers
  /\ MaxEchoes \in Nat

VARIABLES
  t,        \* the peers of the node (PeerSets)
  gone,     \* the peers that left
  echoes,   \* how often something still came of them (bound)
  linked,   \* history: the peers the last message exchanged with is an ADD, not dropped since
  updated   \* history: the peers the last topology_update could choose from, {} otherwise

vars == <<t, gone, echoes, linked, updated>>

Init ==
  /\ t = NoPeers
  /\ gone = {}
  /\ echoes = 0
  /\ linked = {}
  /\ updated = {}

(* Something comes of the peers in S.                                      *)
Echo(S) ==
  IF S \intersect gone = {} THEN UNCHANGED echoes
  ELSE echoes < MaxEchoes /\ echoes' = echoes + 1

(* topology_node_insert, at the bootstrap *)
Bootstrap(p) ==
  /\ Echo({p})
  /\ t' = NodeInsert(t, p)
  /\ updated' = {}
  /\ UNCHANGED <<gone, linked>>

(* neighbourhood_message_parse *)
Receive(p, type, new) ==
  /\ Echo({p})
  /\ t' = new
  /\ linked' = IF type = "add" THEN linked \union {p} ELSE linked \ {p}
  /\ updated' = {}
  /\ UNCHANGED gone

ReceiveAdd(p) == Receive(p, "add", AddPeer(t, p))
ReceiveRemove(p) == Receive(p, "remove", RemovePeer(t, p))
ReceiveQuit(p) == Receive(p, "quit", RemovePeers(t, {p}))

(* The buffer map timestamp of a peer, set by the trader's handlers, gets  *)
(* older than tout_bmap; and is renewed by a message.                      *)
FallsSilent(p) ==
  /\ p \in Known(t) \ t.idle
  /\ t' = [t EXCEPT !.idle = @ \union {p}]
  /\ updated' = {}
  /\ UNCHANGED <<gone, echoes, linked>>

Hears(p) ==
  /\ p \in t.idle \ gone
  /\ t' = [t EXCEPT !.idle = @ \ {p}]
  /\ updated' = {}
  /\ UNCHANGED <<gone, echoes, linked>>

Leave(p) ==
  /\ p \in Leavers \ gone
  /\ gone' = gone \union {p}
  /\ updated' = {}
  /\ UNCHANGED <<t, echoes, linked>>

(* topology_update *)
Update(sample, order) ==
  LET old_neighs == SampleAndDrop(t, sample, order)
  IN \E new \in UpdateRandom(old_neighs) :
       /\ Echo(sample)
       /\ t' = ForgetSwarm(new)
       /\ linked' = ((linked \ (t.neigh \ old_neighs.neigh)) \ Leaving(old_neighs, new))
                      \union Joining(old_neighs, new)
       /\ updated' = Known(old_neighs)
       /\ UNCHANGED gone

UpdateAny ==
  \E sample \in SUBSET Peers : \E order \in Arrays(t) : Update(sample, order)

Next ==
  \/ UpdateAny
  \/ \E p \in Peers :
       \/ Bootstrap(p)
       \/ ReceiveAdd(p)
       \/ ReceiveRemove(p)
       \/ ReceiveQuit(p)
       \/ FallsSilent(p)
       \/ Hears(p)
       \/ Leave(p)

Spec == Init /\ [][Next]_vars

-----------------------------------------------------------------------------
(* Types; a timestamp belongs to a peer that is known.                     *)
TypeOK ==
  /\ t \in [neigh : SUBSET Peers, swarm : SUBSET Peers, locked : SUBSET Peers, idle : SUBSET Known(t)]
  /\ gone \subseteq Leavers
  /\ echoes \in 0 .. MaxEchoes
  /\ linked \subseteq Peers
  /\ updated \subseteq Peers

(* topology_get_peer returns the peer of the swarm first, and every        *)
(* operation moves the one struct peer of a node: no node is in the        *)
(* neighbourhood and in the swarm bucket, with two buffer maps.            *)
OneStructPerPeer == t.neigh \intersect t.swarm = {}

(* locked_neighs holds pointers to peers of the neighbourhood: when one is *)
(* freed or leaves the neighbourhood, by whichever message or update, it   *)
(* is no longer there.                                                     *)
NoDanglingLock == t.locked \subseteq t.neigh

(* topology_signal_change and neighbourhood_message_parse: a peer is a     *)
(* neighbour if and only if the last message exchanged with it is an ADD,  *)
(* in either direction, and it was not dropped as inactive since.          *)
SignalledExactly == t.neigh = linked

(* topology_update_random refills the neighbourhood from the swarm: an     *)
(* update leaves it at the target size if it knows enough peers.           *)
Refilled ==
  updated # {} =>
    \/ Cardinality(t.neigh) >= neighbourhood_target_size
    \/ t.neigh = updated

(* No update makes a neighbourhood grow beyond the target size: only ADD   *)
(* messages do.                                                            *)
UpdateStaysInTarget ==
  [][updated' # {} /\ Cardinality(t'.neigh) > Cardinality(t.neigh)
       => Cardinality(t'.neigh) <= neighbourhood_target_size]_vars

-----------------------------------------------------------------------------
(***************************************************************************)
(* Liveness: psinstance_poll runs topology_update every UPDATE_EPOCH turns,*)
(* and nothing is heard of a node that left, so its timestamp grows old.   *)
(* tout_bmap (10 s) is many times the period of the updates: again and     *)
(* again none of the neighbours that live is silent, at an update too.     *)
(***************************************************************************)
OnlyGoneSilent == t.idle \intersect t.neigh \subseteq gone

Fairness ==
  /\ []<>OnlyGoneSilent
  /\ SF_vars(OnlyGoneSilent /\ UpdateAny)
  /\ \A p \in Leavers : WF_vars(p \in gone /\ FallsSilent(p))

FairSpec == Spec /\ Fairness

(* neighbourhood_drop_unactives: a peer that is gone, with or without a    *)
(* QUIT, is in the end no neighbour, whatever still comes of it and        *)
(* although one walk over the array passes the peer behind a dropped one   *)
(* over.                                                                   *)
GoneForGood == \A p \in Leavers : p \in gone ~> [](p \notin t.neigh)
=============================================================================
