------------------------------ MODULE Overlay -------------------------------
(***************************************************************************)
(* The overlay: the topologies of several nodes (src/src/topology.c),      *)
(* composed by the ADD, REMOVE and QUIT messages they send each other.     *)
(* Messages are datagrams, delivered in any order.                         *)
(***************************************************************************)
EXTENDS PeerSets, Bags

CONSTANTS Nodes,
          MaxInFlight    \* bound on the messages in flight

VARIABLES
  topo,     \* topo[n]: the peers of n (PeerSets)
  alive,    \* the nodes that did not leave
  net       \* the messages in flight

vars == <<topo, alive, net>>

Others(n) == Nodes \ {n}

Message(type, from, to) == [type |-> type, from |-> from, to |-> to]

(* neighbourhood_send_msg *)
Signal(from, type, S) == SetToBag({Message(type, from, p) : p \in S})

Init ==
  /\ topo = [n \in Nodes |-> NoPeers]
  /\ alive = Nodes
  /\ net = EmptyBag

(* topology_update; psample may return any nodes.                          *)
Update(n, sample, order) ==
  LET old_neighs == SampleAndDrop(topo[n], sample, order)
  IN \E new \in UpdateRandom(old_neighs) :
       /\ n \in alive
       /\ topo' = [topo EXCEPT ![n] = ForgetSwarm(new)]
       /\ net' = net (+) Signal(n, "add", Joining(old_neighs, new))
                     (+) Signal(n, "remove", Leaving(old_neighs, new))
       /\ BagCardinality(net') <= MaxInFlight
       /\ UNCHANGED alive

(* neighbourhood_message_parse; nobody reads a message to a node that left.*)
Receive(m) ==
  /\ net' = net (-) SetToBag({m})
  /\ topo' = IF m.to \notin alive THEN topo
             ELSE [topo EXCEPT ![m.to] =
                     CASE m.type = "add" -> AddPeer(@, m.from)
                       [] m.type = "remove" -> RemovePeer(@, m.from)
                       [] m.type = "quit" -> RemovePeers(@, {m.from})]
  /\ UNCHANGED alive

(* The buffer map timestamp of a peer gets older than tout_bmap, or is     *)
(* renewed.                                                                *)
FallsSilent(n, p) ==
  /\ p \in Known(topo[n]) \ topo[n].idle
  /\ topo' = [topo EXCEPT ![n].idle = @ \union {p}]
  /\ UNCHANGED <<alive, net>>

Hears(n, p) ==
  /\ p \in topo[n].idle \intersect alive
  /\ topo' = [topo EXCEPT ![n].idle = @ \ {p}]
  /\ UNCHANGED <<alive, net>>

(* topology_destroy, with topology_quit_overlay *)
Leave(n) ==
  /\ n \in alive
  /\ net' = net (+) Signal(n, "quit", Known(topo[n]))
  /\ BagCardinality(net') <= MaxInFlight
  /\ alive' = alive \ {n}
  /\ topo' = [topo EXCEPT ![n] = NoPeers]

Next ==
  \/ \E n \in Nodes : \E sample \in SUBSET Others(n) : \E order \in Arrays(topo[n]) :
       Update(n, sample, order)
  \/ \E n \in Nodes : Leave(n)
  \/ \E n \in Nodes : \E p \in Others(n) : FallsSilent(n, p) \/ Hears(n, p)
  \/ \E m \in BagToSet(net) : Receive(m)

Spec == Init /\ [][Next]_vars

-----------------------------------------------------------------------------
(* topology_init, its comment on topo_out and topo_in: "combined means     *)
(* bidirectional".  Once no message is in flight, neighbourhoods are       *)
(* mutual.  They are not: neighbourhood_drop_unactives tells nobody.       *)
Bidirectional ==
  net = EmptyBag =>
    \A n, p \in alive : n # p => (p \in topo[n].neigh <=> n \in topo[p].neigh)
=============================================================================
