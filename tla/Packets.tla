------------------------------ MODULE Packets ------------------------------
(***************************************************************************)
(* Packets, their fragments and the buckets they are kept in, as operators *)
(* (src/Lib/net_helper/nhx: fragmented_packet.c, packet_bucket.c,          *)
(* fragment.c).                                                            *)
(*                                                                         *)
(* A message is <<number, size>>; its fragment id carries the piece        *)
(* <<message, id>>.  A bucket is the list of its packets, oldest first; the*)
(* ordered set beside it only finds a packet by its pid (OrdSet).          *)
(***************************************************************************)
EXTENDS Integers, Sequences, FiniteSets, SequencesExt

CONSTANTS
  frag_size,      \* bytes of data in a fragment
  max_pkt_age     \* seconds a packet may stay in a bucket

NoData == << >>   \* a fragment that did not arrive: data == NULL
SizeOf(msg) == msg[2]
Piece(msg, id) == <<msg, id>>
PieceLen(piece) == LET rest == SizeOf(piece[1]) - piece[2] * frag_size
                   IN IF rest < frag_size THEN rest ELSE frag_size

(* fragmented_packet_create: size / frag_size, rounded up.                 *)
FragNum(size) == size \div frag_size + (IF size % frag_size # 0 THEN 1 ELSE 0)

NewPacket(pid, msg, t) ==
  [pid |-> pid, born |-> t,
   frags |-> [id \in 0 .. FragNum(SizeOf(msg)) - 1 |-> Piece(msg, id)]]

(* fragmented_packet_empty *)
EmptyPacket(pid, num, t) ==
  [pid |-> pid, born |-> t, frags |-> [id \in 0 .. num - 1 |-> NoData]]

FragIds(packet) == DOMAIN packet.frags
Missing(packet) == {id \in FragIds(packet) : packet.frags[id] = NoData}

(* What is left of a list when only the elements at the places in K stay.  *)
Selected(s, K) ==
  LET left[i \in 0 .. Len(s)] ==
        IF i = 0 THEN << >> ELSE IF i \in K THEN Append(left[i - 1], s[i]) ELSE left[i - 1]
  IN left[Len(s)]

(* fragmented_packet_state: what is missing below a fragment that arrived  *)
(* is asked for, from the highest down.                                    *)
Wanted(packet) ==
  LET num == Cardinality(FragIds(packet))
      wanted == {id \in Missing(packet) : \E k \in id + 1 .. num - 1 : packet.frags[k] # NoData}
  IN Selected([k \in 1 .. num |-> num - k], {k \in 1 .. num : num - k \in wanted})

(* fragmented_packet_dump_data: the fragments go into the buffer as long as*)
(* they leave it unfilled.                                                 *)
LenUpTo(packet, id) ==
  LET len[k \in 0 .. id] == PieceLen(packet.frags[k]) + (IF k = 0 THEN 0 ELSE len[k - 1])
  IN len[id]
DumpShort(packet, room) ==                     \* fault: one byte less
  LET fitting == {id \in FragIds(packet) : LenUpTo(packet, id) + 1 < room}
  IN [k \in 1 .. Cardinality(fitting) |-> packet.frags[k - 1]]
DumpData(packet, room) ==
  LET fitting == {id \in FragIds(packet) : LenUpTo(packet, id) < room}
  IN [k \in 1 .. Cardinality(fitting) |-> packet.frags[k - 1]]

-----------------------------------------------------------------------------
Packet(bucket, pid) == {p \in Range(bucket) : p.pid = pid}
The(S) == CHOOSE p \in S : TRUE

(* packet_bucket_periodic_refresh: from the oldest on, up to the first that*)
(* is young enough.                                                        *)
Old(packet, t) == t - packet.born >= max_pkt_age
RefreshNone(bucket, t) == bucket               \* fault: nothing expires
Refresh(bucket, t) ==
  LET young == {k \in DOMAIN bucket : ~Old(bucket[k], t)}
  IN IF young = {} THEN << >>
     ELSE SubSeq(bucket, CHOOSE k \in young : \A l \in young : k <= l, Len(bucket))

(* packet_bucket_add_packet, on a refreshed bucket: nothing is added if the*)
(* id is still there.                                                      *)
AddPacket(bucket, packet) ==
  IF Packet(bucket, packet.pid) = {} THEN Append(bucket, packet) ELSE bucket

(* packet_bucket_get_fragment, fragmented_packet_fragment *)
HasFragment(bucket, pid, id) == \E packet \in Packet(bucket, pid) : id \in FragIds(packet)

(* packet_bucket_destroy_packet *)
Without(bucket, pid) == Selected(bucket, {k \in DOMAIN bucket : bucket[k].pid # pid})

(* packet_bucket_add_fragment on a bucket just refreshed: the packet of the*)
(* fragment, a new one if need be, with the fragment written into it.  An  *)
(* id the packet has no place for changes nothing (PKT_ERROR).             *)
Touch(bucket, f, t) ==
  IF Packet(bucket, f.pid) = {} THEN Append(bucket, EmptyPacket(f.pid, f.num, t)) ELSE bucket
WriteFragment(bucket, f) ==
  [k \in DOMAIN bucket |->
     IF bucket[k].pid = f.pid /\ f.id \in FragIds(bucket[k])
       THEN [bucket[k] EXCEPT !.frags[f.id] = f.data] ELSE bucket[k]]
AddFragment(bucket, f, t) == WriteFragment(Touch(bucket, f, t), f)

(* packet_bucket_pop_packet at time t.                                     *)
PopPacket(bucket, pid, t) == Without(Refresh(bucket, t), pid)
=============================================================================
