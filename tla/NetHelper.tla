----------------------------- MODULE NetHelper -----------------------------
(***************************************************************************)
(* The fragmenting network helper (src/Lib/net_helper/net_helper-x.c over  *)
(* nhx/network_manager.c, endpoint.c, packet_bucket.c): nodes that send    *)
(* messages to each other as fragments in datagrams.                       *)
(*                                                                         *)
(* send_to_peer cuts a message into fragments and links them into the      *)
(* outgoing queue; net_helper_send_attempt sends the first element of the  *)
(* queue; recv_from_peer takes one datagram and, when it completes a       *)
(* packet, returns the message.  Sent packets stay in a bucket for a while *)
(* so that fragments can be asked for again; a fragment is an element of   *)
(* its packet, and linked into the queue in place.                         *)
(*                                                                         *)
(* Datagrams arrive in any order, or are lost or duplicated; none is older *)
(* than NetDelay.  The clock counts seconds, as time(NULL) does.  All are  *)
(* fragments or requests written by a net helper: of a datagram with any   *)
(* other type net_msg_decode makes NULL, which recv_from_peer does not     *)
(* check for; such datagrams are left out.                                 *)
(***************************************************************************)
EXTENDS Packets

CONSTANTS
  Nodes, Senders,  \* the nodes, and those that send messages
  Sizes,           \* the sizes of the messages, in the order they are sent
  buffer_size,     \* the buffer given to recv_from_peer
  PidMod,          \* packet ids are taken modulo this (2^16)
  NetDelay,        \* how old a datagram can get
  QueueDelay,      \* how old a packet can get with fragments in the queue
  RequestIds,      \* the fragment ids a peer may ask for, of any packet
  Rate,            \* most messages a node sends to another in one second
  MaxTime,         \* bound on the clock
  MaxTroubles      \* bound on losses, duplicates, requests and restarts

ASSUME NetHelperAssumption ==
  /\ Senders \subseteq Nodes
  /\ RequestIds \subseteq Nat
  /\ {frag_size, max_pkt_age, PidMod} \subseteq Nat \ {0}
  /\ Sizes \in Seq(Nat \ {0})
  /\ {buffer_size, NetDelay, QueueDelay, Rate, MaxTime, MaxTroubles} \subseteq Nat
  /\ PidMod >= Rate * (max_pkt_age + QueueDelay + NetDelay)
  /\ QueueDelay + 1 >= max_pkt_age  \* a fragment may be asked for as long as it is kept
  /\ frag_size < buffer_size        \* 1200 and MSG_BUFFSIZE in the code

VARIABLES
  now,        \* the clock
  ep,         \* ep[n][p]: n's endpoint of p
  outqueue,   \* outqueue[n]: what n has to send
  net,        \* the datagrams in flight
  corrupt,    \* TRUE once the heap is corrupted
  sent,       \* history: the messages sent, with sender, receiver and time
  result,     \* what recv_from_peer returned in this step
  pending,    \* history: the messages that have not arrived, nothing of them lost
  restarted,  \* restarted[n]: when n was restarted last
  troubles    \* losses, duplicates, requests and restarts so far (bound)

vars == <<now, ep, outqueue, net, corrupt, sent, result, pending, restarted, troubles>>

Others(n) == Nodes \ {n}
Never == -(max_pkt_age + NetDelay)
NoMessage == [kind |-> "none"]

(* endpoint_create; that it happens at the first use makes no difference.  *)
NewEndpoint == [out_id |-> 0, outgoing |-> << >>, incoming |-> << >>]

(* network_manager_create *)
NewEndpoints(n) == [p \in Others(n) |-> NewEndpoint]

(* net_helper_init *)
Init ==
  /\ now = 0
  /\ ep = [n \in Nodes |-> NewEndpoints(n)]
  /\ outqueue = [n \in Nodes |-> << >>]
  /\ net = {}
  /\ corrupt = FALSE
  /\ sent = << >>
  /\ result = NoMessage
  /\ pending = {}
  /\ restarted = [n \in Nodes |-> Never]
  /\ troubles = 0

(* Elements of the queue: a fragment of an outgoing packet, or a request.  *)
FragElem(p, pid, id) == [type |-> "fragment", to |-> p, pid |-> pid, id |-> id]
ReqElem(p, pid, id) == [type |-> "request", to |-> p, pid |-> pid, id |-> id]

(* fragment_deinit takes the fragments of a destroyed packet out of the    *)
(* queue: those of the packets to p in bucket that are not in kept.        *)
LeaveLinked(queue, p, kept) == queue           \* fault: destroyed, yet queued
Unlink(queue, p, kept) ==
  Selected(queue, {k \in DOMAIN queue : queue[k].type = "fragment" /\ queue[k].to = p
                                          => Packet(kept, queue[k].pid) # {}})

-----------------------------------------------------------------------------
(***************************************************************************)
(* Sending                                                                 *)
(***************************************************************************)
SentNow(n, p) == Cardinality({k \in DOMAIN sent : sent[k].from = n /\ sent[k].to = p
                                                  /\ sent[k].at = now})
NextId(id) == (id + 1) % PidMod

(* list_splice puts the new fragments before what waits already.           *)
SpliceDropping(new, queue) == new              \* fault: the old list is lost
Splice(new, queue) == new \o queue

(* network_manager_enqueue_outgoing_packet: the fragments of a new packet, *)
(* linked in front of the queue.                                           *)
EnqueuePacket(queue, p, packet) ==
  Splice([k \in 1 .. Cardinality(FragIds(packet)) |-> FragElem(p, packet.pid, k - 1)], queue)

(* send_to_peer.  If a packet of the same id is still in the bucket the    *)
(* list of fragments is freed, spliced and freed again.                    *)
SendToPeer(n, p) ==
  LET e == ep[n][p]
      bucket == Refresh(e.outgoing, now)
      msg == <<Len(sent) + 1, Sizes[Len(sent) + 1]>>
      packet == NewPacket(e.out_id, msg, now)
      queue == Unlink(outqueue[n], p, bucket)
  IN /\ Len(sent) < Len(Sizes)
     /\ SentNow(n, p) < Rate
     /\ corrupt' = (Packet(bucket, e.out_id) # {})
     /\ ep' = [ep EXCEPT ![n][p].out_id = NextId(@), ![n][p].outgoing = AddPacket(bucket, packet)]
     /\ outqueue' = [outqueue EXCEPT ![n] =
                       IF corrupt' THEN queue ELSE EnqueuePacket(queue, p, packet)]
     /\ sent' = Append(sent, [from |-> n, to |-> p, msg |-> msg, at |-> now])
     /\ pending' = pending \union {msg[1]}
     /\ result' = NoMessage
     /\ UNCHANGED <<now, net, restarted, troubles>>

(* fragment_send: the datagram of a queued fragment.                       *)
FragmentSend(n, e) ==
  LET packet == The(Packet(ep[n][e.to].outgoing, e.pid))
  IN {[from |-> n, to |-> e.to, pid |-> e.pid, num |-> Cardinality(FragIds(packet)),
       id |-> e.id, data |-> packet.frags[e.id], left |-> now]}

(* frag_request_send: a request names the remote node as its sender, which *)
(* has no socket; sendto fails and nothing leaves.                         *)
RequestSend(n, e) == {}

(* net_msg_send *)
Datagrams(n, e) == IF e.type = "request" THEN RequestSend(n, e) ELSE FragmentSend(n, e)

(* net_helper_send_attempt: network_manager_pop_outgoing_net_msg; the      *)
(* shaper never delays, being told of 0 bytes each time.                   *)
SendAttempt(n) ==
  /\ outqueue[n] # << >>
  /\ net' = net \union Datagrams(n, Head(outqueue[n]))
  /\ outqueue' = [outqueue EXCEPT ![n] = Tail(@)]
  /\ result' = NoMessage
  /\ UNCHANGED <<now, ep, corrupt, sent, pending, restarted, troubles>>

-----------------------------------------------------------------------------
(***************************************************************************)
(* Receiving                                                               *)
(***************************************************************************)
Trouble == troubles < MaxTroubles /\ troubles' = troubles + 1

(* A datagram is taken from the network; a duplicate of it may remain.     *)
Take(d, t) ==
  \/ net' = {x \in net \ {d} : t - x.left <= NetDelay} /\ UNCHANGED troubles
  \/ net' = {x \in net : t - x.left <= NetDelay} /\ Trouble

(* The clock may go on: datagrams do not live, and packets do not wait in  *)
(* the queue, for ever.                                                    *)
MayTick ==
  /\ now < MaxTime
  /\ \A n \in Nodes : \A e \in Range(outqueue[n]) : e.type = "fragment" =>
       \A p \in Packet(ep[n][e.to].outgoing, e.pid) : now + 1 - p.born <= QueueDelay

(* What the application gets.  fragmented_packet_dump_data stops at the    *)
(* fragment that would fill the buffer, so that a message comes whole only *)
(* if it is shorter than the buffer; one just as long is cut.              *)
Message(d, pieces) == [kind |-> "message", from |-> d.from, to |-> d.to, pieces |-> pieces]
Garbage == [kind |-> "garbage"]

Pieces(msg) == [k \in 1 .. FragNum(SizeOf(msg)) |-> Piece(msg, k - 1)]
Whole(m, record) ==
  /\ m.kind = "message"
  /\ m.from = record.from /\ m.to = record.to
  /\ IF SizeOf(record.msg) < buffer_size THEN m.pieces = Pieces(record.msg)
     ELSE IsPrefix(m.pieces, Pieces(record.msg))

(* network_manager_add_incoming_fragment: the requests for what is missing *)
(* are linked in front of the queue.                                       *)
EnqueueRequests(queue, p, packet) ==
  Splice([k \in DOMAIN Wanted(packet) |-> ReqElem(p, packet.pid, Wanted(packet)[k])], queue)

(* recv_from_peer, fragment: network_manager_add_incoming_fragment, and if *)
(* the packet is complete network_manager_pop_incoming_packet, which looks *)
(* at the clock again: t is what it reads.  A packet that is gone by then  *)
(* leaves the size as it was, that of the buffer, and the datagram in it.  *)
ReceiveFragment(d, t) ==
  LET n == d.to
      bucket == AddFragment(Refresh(ep[n][d.from].incoming, now), d, now)
      packet == The(Packet(bucket, d.pid))
      written == d.id \in FragIds(packet)
      ready == written /\ Missing(packet) = {}
      in_time == Packet(Refresh(bucket, t), d.pid) # {}
      pieces == DumpData(packet, buffer_size)
  IN /\ t = now \/ (ready /\ t = now + 1 /\ MayTick)
     /\ now' = t
     /\ Take(d, t)
     /\ ep' = [ep EXCEPT ![n][d.from].incoming =
                 IF ready THEN PopPacket(bucket, d.pid, t) ELSE bucket]
     /\ outqueue' = [outqueue EXCEPT ![n] =
                       IF written THEN EnqueueRequests(@, d.from, packet) ELSE @]
     /\ result' = IF ~ready \/ (in_time /\ pieces = << >>) THEN NoMessage
                  ELSE IF in_time THEN Message(d, pieces) ELSE Garbage
     /\ pending' = {k \in pending : ~Whole(result', sent[k])}
     /\ UNCHANGED <<corrupt, sent, restarted>>

(* network_manager_enqueue_outgoing_fragment links the fragment behind the *)
(* others unless it is in the queue already.                               *)
EnqueueFragment(queue, e) == IF e \in Range(queue) THEN queue ELSE Append(queue, e)

(* recv_from_peer, request, from a peer whose requests do leave.           *)
ReceiveRequest(n, p, pid, id) ==
  LET bucket == Refresh(ep[n][p].outgoing, now)
      queue == Unlink(outqueue[n], p, bucket)
  IN /\ Trouble
     /\ ep' = [ep EXCEPT ![n][p].outgoing = bucket]
     /\ outqueue' = [outqueue EXCEPT ![n] =
                       IF HasFragment(bucket, pid, id)
                         THEN EnqueueFragment(queue, FragElem(p, pid, id)) ELSE queue]
     /\ result' = NoMessage
     /\ UNCHANGED <<now, net, corrupt, sent, pending, restarted>>

-----------------------------------------------------------------------------
(* net_helper_deinit sends all that waits; a crash does not.  The node     *)
(* starts again with net_helper_init, from packet id 0.                    *)
Restart(n) ==
  /\ Trouble
  /\ \/ net' = net \union UNION {Datagrams(n, e) : e \in Range(outqueue[n])}
     \/ UNCHANGED net
  /\ ep' = [ep EXCEPT ![n] = NewEndpoints(n)]
  /\ outqueue' = [outqueue EXCEPT ![n] = << >>]
  /\ restarted' = [restarted EXCEPT ![n] = now]
  /\ pending' = {k \in pending : n \notin {sent[k].from, sent[k].to}}
  /\ result' = NoMessage
  /\ UNCHANGED <<now, corrupt, sent>>

Tick ==
  /\ MayTick
  /\ now' = now + 1
  /\ net' = {d \in net : now' - d.left <= NetDelay}
  /\ result' = NoMessage
  /\ UNCHANGED <<ep, outqueue, corrupt, sent, pending, restarted, troubles>>

Lose(d) ==
  /\ Trouble
  /\ net' = net \ {d}
  /\ pending' = pending \ {d.data[1][1]}
  /\ result' = NoMessage
  /\ UNCHANGED <<now, ep, outqueue, corrupt, sent, restarted>>

Receive(n) == \E d \in net : d.to = n /\ \E t \in {now, now + 1} : ReceiveFragment(d, t)

Next ==
  /\ ~corrupt
  /\ \/ \E n \in Senders : \E p \in Others(n) : SendToPeer(n, p)
     \/ \E n \in Nodes : SendAttempt(n) \/ Receive(n) \/ Restart(n)
     \/ \E n \in Senders : \E p \in Others(n), pid \in 0 .. PidMod - 1 :
          \E id \in RequestIds : ReceiveRequest(n, p, pid, id)
     \/ \E d \in net : Lose(d)
     \/ Tick

Spec == Init /\ [][Next]_vars

-----------------------------------------------------------------------------
(***************************************************************************)
(* Properties                                                              *)
(***************************************************************************)

(* Types; packet ids have 16 bits.                                         *)
TypeOK ==
  /\ now \in 0 .. MaxTime
  /\ \A n \in Nodes : \A p \in Others(n) :
       /\ ep[n][p].out_id \in 0 .. PidMod - 1
       /\ \A q \in Range(ep[n][p].outgoing) : Missing(q) = {}
       /\ \A q \in Range(ep[n][p].incoming) : Missing(q) # {}
  /\ \A n \in Nodes : \A e \in Range(outqueue[n]) : e.to \in Others(n)

(* The queue links elements in place (packet_bucket_destroy_packet,        *)
(* network_manager_enqueue_outgoing_fragment): whatever expires while it   *)
(* waits and is asked for again, a queued fragment is part of a packet that*)
(* still exists, and is linked once.                                       *)
QueueSound ==
  \A n \in Nodes :
    LET frags == {k \in DOMAIN outqueue[n] : outqueue[n][k].type = "fragment"}
    IN \A k \in frags :
         /\ \E packet \in Packet(ep[n][outqueue[n][k].to].outgoing, outqueue[n][k].pid) :
              outqueue[n][k].id \in FragIds(packet)
         /\ \A l \in frags : l # k => outqueue[n][l] # outqueue[n][k]

(* packet_bucket_add_packet: at the rate assumed, the id of a new packet is*)
(* not in the bucket any more when it comes round again.                   *)
HeapSound == ~corrupt

(* recv_from_peer: a message is returned as it was sent (one that is not   *)
(* shorter than the buffer cut at a fragment), whatever was lost, repeated *)
(* or overtaken, and although ids come round again.  Only fragments sent   *)
(* before and after a restart of the sender may be mixed up, until the last*)
(* packet begun before it has expired.                                     *)
Confused(n, t) == t - restarted[n] < max_pkt_age + NetDelay
ReceivedWhole ==
  result.kind = "message" =>
    Confused(result.from, now) \/ \E k \in DOMAIN sent : Whole(result, sent[k])

(* recv_from_peer, net_helper.h: what is returned is received data.        *)
ReceivedData == result.kind # "garbage"

(* Nothing is stranded between send_to_peer and recv_from_peer: as long as *)
(* no part of it is lost or too old, nor mixed up after a restart, each    *)
(* fragment of a message that has not been returned waits in the queue, is *)
(* on its way, or waits in the receiver's bucket for another one to come.  *)
Grace == IF NetDelay < max_pkt_age THEN NetDelay ELSE max_pkt_age - 1
NothingStranded ==
  \A k \in pending : now - sent[k].at <= Grace /\ ~Confused(sent[k].from, sent[k].at) =>
    LET n == sent[k].from
        p == sent[k].to
    IN \A piece \in Range(Pieces(sent[k].msg)) :
         \/ \E e \in Range(outqueue[n]) :
              e.type = "fragment" /\ \E d \in Datagrams(n, e) : d.data = piece
         \/ \E d \in net : d.data = piece
         \/ \E packet \in Range(ep[p][n].incoming) :
              piece \in Range(packet.frags) /\ Missing(packet) # {}
=============================================================================
