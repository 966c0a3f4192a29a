---------------------------- MODULE ChunkTrader ----------------------------
(***************************************************************************)
(* The trading of chunks between the nodes of a swarm                      *)
(* (src/src/chunk_trader.c, with the chunk branch of psinstance_handle_msg *)
(* and psinstance_inject_chunk):                                           *)
(*                                                                         *)
(*     offer --> accept --> chunk --> ack                                  *)
(*                                                                         *)
(* The source injects chunks and pushes each one to some neighbours; every *)
(* node offers what it has to a neighbour that seems to need it; the       *)
(* neighbour locks and accepts the latest useful chunks; they are sent and *)
(* acknowledged.  A node knows of the others only what their messages said *)
(* (bmap) and what it sent them.                                           *)
(*                                                                         *)
(* Messages are datagrams: net is a bag from which they leave in any order,*)
(* and may be lost or duplicated.  A chunk is its id.  Who is a neighbour  *)
(* of whom only grows here; the neighbourhood itself is the subject of     *)
(* Topology.  The chunk locks are the set LockSet promises, whose timeout  *)
(* may fall at any moment; the transactions are the lists of               *)
(* TransactionList, where a timeout removes the oldest ones.               *)
(***************************************************************************)
EXTENDS Integers, Sequences, FiniteSets, Bags, TransactionList

CONSTANTS
  Nodes, Source,           \* the swarm, and the node that injects
  MaxChunk,                \* chunks 0 .. MaxChunk are injected (bound)
  cb_size,                 \* chunkbuffer_size
  chunks_per_peer_offer,   \* most chunks asked for in answer to one offer
  source_multiplicity,     \* neighbours a new chunk is pushed to
  MaxTrans,                \* bound on the open transactions of one node
  MaxInFlight,             \* bound on the messages in the network
  MaxFaults,               \* bound on lost and duplicated messages
  LockTimeouts,            \* TRUE if the answer may take longer than a lock
  SourceKnown,             \* TRUE if the others know that the source takes no chunks
  Joined                   \* TRUE to start with all nodes neighbours, and no ADD comes

ASSUME TraderAssumption ==
  /\ Source \in Nodes
  /\ {MaxChunk, MaxTrans, MaxInFlight, MaxFaults, source_multiplicity} \subseteq Nat
  /\ {cb_size, chunks_per_peer_offer} \subseteq Nat \ {0}
  /\ LockTimeouts \in BOOLEAN /\ SourceKnown \in BOOLEAN /\ Joined \in BOOLEAN

VARIABLES
  cb,          \* cb[n]: the ids in n's chunk buffer
  neighs,      \* neighs[n]: the neighbours of n
  bmap,        \* bmap[n][p]: the chunks n believes its neighbour p has
  locked,      \* locked[n]: the chunks n asked for and waits for
  trans,       \* trans[n]: n's open transactions
  net,         \* the messages in flight
  injected,    \* the number of chunks injected
  lost, dups,  \* how many messages were lost, and duplicated (bound)
  seen,        \* history: seen[n], the chunks n injected or received
  delivered    \* history: delivered[n], what n passed to output_deliver

vars == <<cb, neighs, bmap, locked, trans, net, injected, lost, dups, seen, delivered>>

Chunks == 0 .. MaxChunk
Others(n) == Nodes \ {n}

-----------------------------------------------------------------------------
(***************************************************************************)
(* The GRAPES structures, from how the trader uses them.                   *)
(***************************************************************************)

(* chunkID_set_get_earliest, and chunkID_set_trim: the latest k ids stay.  *)
Earliest(S) == IF S = {} THEN -1 ELSE CHOOSE x \in S : \A y \in S : x <= y
Trim(S, k) == {x \in S : Cardinality({y \in S : y > x}) < k}

(* cb_add_chunk refuses a duplicate and, when full, a chunk older than all *)
(* it has; otherwise the oldest chunk makes room.                          *)
CbAcceptsAll(S, x) == TRUE                              \* fault: no refusal
CbAccepts(S, x) == x \notin S /\ (Cardinality(S) < cb_size \/ x > Earliest(S))
CbAddNoEviction(S, x) == S \union {x}                  \* fault: no room is made
CbAdd(S, x) == IF CbAccepts(S, x) THEN Trim(S \union {x}, cb_size) ELSE S

-----------------------------------------------------------------------------
(***************************************************************************)
(* Messages                                                                *)
(***************************************************************************)
Msg(type, from, to, cset, trans_id) ==
  [type |-> type, from |-> from, to |-> to, cset |-> cset, trans_id |-> trans_id]

Messages ==
  [type : {"bmap", "offer", "accept", "chunk", "ack"}, from : Nodes, to : Nodes,
   cset : SUBSET Chunks, trans_id : TransIds]

Send(msgs) == net' = net (+) SetToBag(msgs)
Reply(m, msgs) == net' = (net (-) SetToBag({m})) (+) SetToBag(msgs)
Receive(m) == Reply(m, {})

(* The buffer size in the metadata kept of a neighbour: the source says 0; *)
(* until that is known, the default applies.                               *)
peer_cb_size(p) == IF p = Source /\ SourceKnown THEN 0 ELSE cb_size

Learn(n, p, S) == bmap' = [bmap EXCEPT ![n][p] = S]

Init ==
  /\ cb = [n \in Nodes |-> {}]
  /\ neighs = [n \in Nodes |-> IF Joined THEN Others(n) ELSE {}]
  /\ bmap = [n \in Nodes |-> [p \in Others(n) |-> {}]]
  /\ locked = [n \in Nodes |-> {}]
  /\ trans = [n \in Nodes |-> << >>]
  /\ net = EmptyBag
  /\ injected = 0
  /\ lost = 0
  /\ dups = 0
  /\ seen = [n \in Nodes |-> {}]
  /\ delivered = [n \in Nodes |-> << >>]

(* A neighbour is gained by an ADD message, which neighbourhood_add_peer   *)
(* answers with what n has (chunk_trader_send_bmap), also when it comes    *)
(* from a neighbour, or by topology_update, which sends no buffer map.  The*)
(* bound on repeated ADDs leaves room for a message in flight.             *)
AddNeighbour(n, p) ==
  /\ neighs' = [neighs EXCEPT ![n] = @ \union {p}]
  /\ \/ /\ p \in neighs[n] => ~Joined /\ BagCardinality(net) + 1 < MaxInFlight
        /\ Send({Msg("bmap", n, p, cb[n], INVALID_TRANSID)})
     \/ p \notin neighs[n] /\ UNCHANGED net
  /\ UNCHANGED <<cb, bmap, locked, trans, injected, lost, dups, seen, delivered>>

(* psinstance_inject_chunk: the new chunk enters the buffer and            *)
(* chunk_trader_push_chunk sends it to min(multiplicity, size) neighbours, *)
(* whatever they have; peer_chunk_send notes that they have it now.        *)
PushTargets ==
  LET k == Cardinality(neighs[Source])
  IN {T \in SUBSET neighs[Source] :
        Cardinality(T) = IF source_multiplicity < k THEN source_multiplicity ELSE k}

Inject ==
  /\ injected <= MaxChunk
  /\ cb' = [cb EXCEPT ![Source] = CbAdd(@, injected)]
  /\ seen' = [seen EXCEPT ![Source] = @ \union {injected}]
  /\ \E T \in PushTargets :
       /\ Send({Msg("chunk", Source, p, {injected}, INVALID_TRANSID) : p \in T})
       /\ bmap' = [bmap EXCEPT ![Source] =
                     [p \in Others(Source) |-> IF p \in T THEN @[p] \union {injected} ELSE @[p]]]
  /\ injected' = injected + 1
  /\ UNCHANGED <<neighs, locked, trans, lost, dups, delivered>>

(* peer_needs_chunk_filter *)
NeedsNewerOnly(n, p, cid) ==                            \* fault: its free room is ignored
  peer_cb_size(p) # 0 /\ cid \notin bmap[n][p] /\ Earliest(bmap[n][p]) < cid
NeedsChunk(n, p, cid) ==
  LET known == bmap[n][p]
      room == peer_cb_size(p) - Cardinality(known)
  IN /\ peer_cb_size(p) # 0
     /\ cid \notin known
     /\ \/ room > 0 /\ cid >= Earliest(known) - room
        \/ Earliest(known) < cid

Offerable(n, p) == {cid \in cb[n] : NeedsChunk(n, p, cid)}

(* transaction_create: the transactions over the timeout are the oldest    *)
(* ones, the end of the list.                                              *)
TimeoutCuts(list) == {SubSeq(list, 1, k) : k \in 0 .. Len(list)}

(* chunk_trader_send_offer for one neighbour that needs something: all it  *)
(* needs is offered.  The scheduler may choose any such neighbour.         *)
SendOffer(n, p) ==
  /\ p \in neighs[n]
  /\ Offerable(n, p) # {}
  /\ BagCardinality(net) < MaxInFlight
  /\ \E kept \in TimeoutCuts(trans[n]) :
       LET t == NewTransId(kept)
       IN /\ Len(kept) < MaxTrans
          /\ trans' = [trans EXCEPT ![n] =
                         <<[trans_id |-> t, id |-> p, accept |-> NoTime]>> \o kept]
          /\ Send({Msg("offer", n, p, Offerable(n, p), t)})
  /\ UNCHANGED <<cb, neighs, bmap, locked, injected, lost, dups, seen, delivered>>

(* chunk_trader_msg_parse ignores the signalling of an unknown node.       *)
IgnoreUnknown(m) ==
  /\ m.type # "chunk"
  /\ m.from \notin neighs[m.to]
  /\ Receive(m)
  /\ UNCHANGED <<cb, neighs, bmap, locked, trans, injected, lost, dups, seen, delivered>>

(* sig_send_buffermap: what was believed before is cleared.                *)
HandleBmap(m) ==
  /\ m.type = "bmap"
  /\ m.from \in neighs[m.to]
  /\ Learn(m.to, m.from, m.cset)
  /\ Receive(m)
  /\ UNCHANGED <<cb, neighs, locked, trans, injected, lost, dups, seen, delivered>>

(* chunk_trader_handle_offer: the latest chunks of the offer that are      *)
(* neither in the buffer nor locked, at most max_deliver of them, are      *)
(* locked and accepted; an empty accept is sent too.                       *)
LatestUnheld(n, cset) == Trim(cset \ cb[n], chunks_per_peer_offer)   \* fault: locks ignored
LatestUseful(n, cset) == Trim(cset \ (cb[n] \union locked[n]), chunks_per_peer_offer)

HandleOffer(m) ==
  LET n == m.to
      acc_set == LatestUseful(n, m.cset)
  IN /\ m.type = "offer"
     /\ m.from \in neighs[n]
     /\ Learn(n, m.from, Trim(bmap[n][m.from] \union m.cset, peer_cb_size(m.from)))
     /\ locked' = [locked EXCEPT ![n] = @ \union acc_set]
     /\ Reply(m, {Msg("accept", n, m.from, acc_set, m.trans_id)})
     /\ UNCHANGED <<cb, neighs, trans, injected, lost, dups, seen, delivered>>

(* chunk_trader_handle_accept: the accepted chunks still in the buffer are *)
(* sent, and peer_chunk_send notes that the peer has them now.             *)
Servable(n, cset) ==
  {x \in cset \intersect cb[n] :
     Cardinality({y \in cset \intersect cb[n] : y < x}) < chunks_per_peer_offer}
NoteAllAccepted(n, cset) == cset                        \* fault: cache misses noted too
NoteSent(n, cset) == Servable(n, cset)

HandleAccept(m) ==
  LET n == m.to
  IN /\ m.type = "accept"
     /\ m.from \in neighs[n]
     /\ trans' = [trans EXCEPT ![n] = TransactionRegAccept(@, m.trans_id, 0)]
     /\ Reply(m, {Msg("chunk", n, m.from, {x}, m.trans_id) : x \in Servable(n, m.cset)})
     /\ Learn(n, m.from, bmap[n][m.from] \union NoteSent(n, m.cset))
     /\ UNCHANGED <<cb, neighs, locked, injected, lost, dups, seen, delivered>>

(* psinstance_handle_msg, chunk: the source discards it.                   *)
DiscardChunk(m) ==
  /\ m.type = "chunk"
  /\ m.to = Source
  /\ Receive(m)
  /\ UNCHANGED <<cb, neighs, bmap, locked, trans, injected, lost, dups, seen, delivered>>

(* psinstance_handle_msg, chunk: chunk_trader_parse_chunk unlocks it, notes*)
(* that the sender has it, if it is known, and acknowledges it with the    *)
(* buffer as it was; then the chunk enters the buffer and, if it did, goes *)
(* to output_deliver.                                                      *)
KeepLock(n, cid) == locked[n]                           \* fault: no chunk_unlock
Unlock(n, cid) == locked[n] \ {cid}

(* chunk_trader_send_ack *)
Ack(n, p, trans_id) == Msg("ack", n, p, cb[n], trans_id)

ParseChunk(n, m, cid) ==
  /\ locked' = [locked EXCEPT ![n] = Unlock(n, cid)]
  /\ IF m.from \in neighs[n]
       THEN Learn(n, m.from, bmap[n][m.from] \union {cid})
       ELSE UNCHANGED bmap
  /\ Reply(m, {Ack(n, m.from, m.trans_id)})

HandleChunk(m) ==
  LET n == m.to
      cid == CHOOSE x \in m.cset : TRUE
  IN /\ m.type = "chunk"
     /\ n # Source
     /\ ParseChunk(n, m, cid)
     /\ cb' = [cb EXCEPT ![n] = CbAdd(@, cid)]
     /\ delivered' = [delivered EXCEPT ![n] = IF CbAccepts(cb[n], cid) THEN Append(@, cid) ELSE @]
     /\ seen' = [seen EXCEPT ![n] = @ \union {cid}]
     /\ UNCHANGED <<neighs, trans, injected, lost, dups>>

(* chunk_trader_handle_ack *)
HandleAck(m) ==
  LET n == m.to
  IN /\ m.type = "ack"
     /\ m.from \in neighs[n]
     /\ Learn(n, m.from, Trim(bmap[n][m.from] \union m.cset, peer_cb_size(m.from)))
     /\ trans' = [trans EXCEPT ![n] = TransactionRemove(@, m.trans_id)]
     /\ Receive(m)
     /\ UNCHANGED <<cb, neighs, locked, injected, lost, dups, seen, delivered>>

Handle(m) ==
  \/ IgnoreUnknown(m)
  \/ HandleBmap(m)
  \/ HandleOffer(m)
  \/ HandleAccept(m)
  \/ DiscardChunk(m)
  \/ HandleChunk(m)
  \/ HandleAck(m)

(* A lock times out (LockSet).                                             *)
LockTimeout(n, cid) ==
  /\ LockTimeouts
  /\ cid \in locked[n]
  /\ locked' = [locked EXCEPT ![n] = @ \ {cid}]
  /\ UNCHANGED <<cb, neighs, bmap, trans, net, injected, lost, dups, seen, delivered>>

Lose(m) ==
  /\ lost + dups < MaxFaults
  /\ lost' = lost + 1
  /\ Receive(m)
  /\ UNCHANGED <<cb, neighs, bmap, locked, trans, injected, dups, seen, delivered>>

Duplicate(m) ==
  /\ lost + dups < MaxFaults
  /\ dups' = dups + 1
  /\ Send({m})
  /\ UNCHANGED <<cb, neighs, bmap, locked, trans, injected, lost, seen, delivered>>

Next ==
  \/ Inject
  \/ \E n \in Nodes : \E p \in Others(n) : AddNeighbour(n, p) \/ SendOffer(n, p)
  \/ \E m \in BagToSet(net) : Handle(m) \/ Lose(m) \/ Duplicate(m)
  \/ \E n \in Nodes : \E cid \in Chunks : LockTimeout(n, cid)

Spec == Init /\ [][Next]_vars

-----------------------------------------------------------------------------
(***************************************************************************)
(* Safety                                                                  *)
(***************************************************************************)

InFlight(n, type, x) ==
  {m \in BagToSet(net) : m.type = type /\ x \in m.cset /\ n \in {m.from, m.to}}

(* Types; a buffer and a list never exceed their bounds.                   *)
TypeOK ==
  /\ \A n \in Nodes :
       /\ cb[n] \subseteq Chunks /\ Cardinality(cb[n]) <= cb_size
       /\ neighs[n] \subseteq Others(n)
       /\ \A p \in Others(n) : bmap[n][p] \subseteq Chunks
       /\ locked[n] \subseteq Chunks
       /\ Len(trans[n]) <= MaxTrans
  /\ BagToSet(net) \subseteq Messages

(* psinstance_handle_msg: however often a chunk arrives (a push crossing a *)
(* traded copy, a lock that timed out, a duplicated datagram, after it was *)
(* dropped from a full buffer), output_deliver gets it at most once.       *)
DeliveredOnce ==
  \A n \in Nodes : \A i, j \in DOMAIN delivered[n] : i # j => delivered[n][i] # delivered[n][j]

(* chunk_trader_parse_chunk unlocks before the chunk enters the buffer, and*)
(* chunk_trader_handle_offer locks only what is not there: no chunk that a *)
(* node has is locked.                                                     *)
LockedNotHeld == \A n \in Nodes : locked[n] \intersect cb[n] = {}

(* peer_chunk_send and the handlers of chunk_trader_msg_parse: as long as  *)
(* no message is lost, a node believes a neighbour to have a chunk only if *)
(* it got it or it is on its way from this node.                           *)
BmapSound ==
  lost = 0 => \A n \in Nodes : \A p \in neighs[n] : \A x \in bmap[n][p] :
    x \in seen[p] \/ \E m \in InFlight(n, "chunk", x) : m.from = n /\ m.to = p

(* chunk_trader_handle_offer: while locks hold, a node never has two       *)
(* requests for a chunk it did not get yet under way, to whichever         *)
(* neighbours: the accepts that ask for it and the chunks sent in answer,  *)
(* pushes apart.                                                           *)
NoParallelRequest ==
  \A n \in Nodes : \A x \in Chunks \ seen[n] :
    LET asked == {m \in InFlight(n, "accept", x) : m.from = n}
        coming == {m \in InFlight(n, "chunk", x) : m.to = n /\ m.trans_id # INVALID_TRANSID}
    IN Cardinality(asked) + Cardinality(coming) <= 1

-----------------------------------------------------------------------------
(***************************************************************************)
(* Liveness: the loop of psinstance_poll handles every datagram that       *)
(* arrives, so none is overtaken for ever by others; it goes on offering   *)
(* while there is something to offer, and its weighted random choice       *)
(* neglects no neighbour for ever.  The bound on the messages in flight    *)
(* may switch an offer off for a while, hence the strong fairness.         *)
(***************************************************************************)
HandleOne(n, p, type, cset) ==
  \E m \in BagToSet(net) :
    /\ m.to = n /\ m.from = p /\ m.type = type /\ m.cset = cset
    /\ Handle(m)

Fairness ==
  /\ WF_vars(Inject)
  /\ \A n \in Nodes : \A p \in Others(n) :
       /\ SF_vars(SendOffer(n, p))
       /\ \A type \in {"offer", "accept", "chunk", "ack"} : \A cset \in SUBSET Chunks :
            WF_vars(HandleOne(n, p, type, cset))

FairSpec == Spec /\ Fairness

(* The trading spreads every chunk to every node when buffers can hold all *)
(* of them and no message is lost.                                         *)
EveryChunkEverywhere == \A n \in Nodes : \A x \in Chunks : <>(x \in cb[n])
=============================================================================
