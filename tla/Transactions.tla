---------------------------- MODULE Transactions ----------------------------
(***************************************************************************)
(* The transactions of one chunk trader against the swarm: the trader      *)
(* opens one with every offer, and the accepts and acks that carry its id  *)
(* come back late, repeatedly, out of order or never.                      *)
(***************************************************************************)
EXTENDS TransactionList, FiniteSets

CONSTANTS Peers,      \* the peers offers go to
          Rate,       \* offers sent in one unit of time
          MaxTime,    \* bound on the clock
          MaxOffers   \* bound on the number of offers

(* The offer timer keeps the trader from using up the ids in a lifetime.   *)
ASSUME RateAssumption ==
  /\ Rate \in Nat \ {0}
  /\ Rate * (MaxLifetime + 1) <= TransIdMod
  /\ MaxTime \in Nat
  /\ MaxOffers \in Nat

VARIABLES
  stl,       \* the list; serial numbers its elements, as history
  now,       \* the clock of gettimeofday
  inTick,    \* offers sent at the present time
  sent,      \* history: [serial, trans_id, id] of the offers sent so far
  ret        \* the value the last operation returned

vars == <<stl, now, inTick, sent, ret>>

Init ==
  /\ stl = << >>
  /\ now = 0
  /\ inTick = 0
  /\ sent = {}
  /\ ret = 0

Tick ==
  /\ now < MaxTime
  /\ now' = now + 1
  /\ inTick' = 0
  /\ UNCHANGED <<stl, sent, ret>>

(* chunk_trader_send_offer: transaction_create, then the offer leaves.     *)
SendOffer(p) ==
  LET kept == CheckNeighborStatusList(stl, now)
      t == NewTransId(kept)
      n == Cardinality(sent) + 1
  IN /\ inTick < Rate
     /\ n <= MaxOffers
     /\ stl' = <<[trans_id |-> t, offer |-> now, accept |-> NoTime, id |-> p, serial |-> n]>> \o kept
     /\ sent' = sent \union {[serial |-> n, trans_id |-> t, id |-> p]}
     /\ inTick' = inTick + 1
     /\ ret' = t
     /\ UNCHANGED now

(* An accept of an offer arrives: transaction_reg_accept.                  *)
AcceptArrives(o) ==
  /\ stl' = TransactionRegAccept(stl, o.trans_id, now)
  /\ ret' = IF o.trans_id # INVALID_TRANSID /\ HasTrans(stl, o.trans_id) THEN 1 ELSE 0
  /\ UNCHANGED <<now, inTick, sent>>

(* An ack of a chunk sent in answer to an accept of offer o arrives:       *)
(* transaction_remove.  Several chunks of one offer are acknowledged with  *)
(* the same id.                                                            *)
AckArrives(o) ==
  /\ ret' = RemoveResult(stl, o.trans_id)
  /\ stl' = TransactionRemove(stl, o.trans_id)
  /\ UNCHANGED <<now, inTick, sent>>

(* A chunk pushed without an offer is acknowledged with INVALID_TRANSID.   *)
Push == [serial |-> 0, trans_id |-> INVALID_TRANSID]

Next ==
  \/ Tick
  \/ \E p \in Peers : SendOffer(p)
  \/ \E o \in sent : AcceptArrives(o)
  \/ \E o \in sent \union {Push} : AckArrives(o)

Spec == Init /\ [][Next]_vars

-----------------------------------------------------------------------------
(* Types of the list and of the history.                                   *)
TypeOK ==
  /\ stl \in Seq([trans_id : TransIds, offer : 0 .. MaxTime, accept : NoTime .. MaxTime,
                  id : Peers, serial : 1 .. MaxOffers])
  /\ now \in 0 .. MaxTime
  /\ inTick \in 0 .. Rate

(* transaction_create: two open transactions never have the same id, also  *)
(* across the wrap-around of uint16_t and after ids are used again, so the *)
(* first match of transaction_reg_accept and transaction_remove is the     *)
(* only one.                                                               *)
OpenIdsDistinct ==
  \A i, j \in DOMAIN stl : i # j => stl[i].trans_id # stl[j].trans_id

(* check_neighbor_status_list runs only when an offer is sent; still the   *)
(* list is bounded by the offers of one lifetime, however many accepts and *)
(* acks are lost.                                                          *)
BoundedList == Len(stl) <= Rate * (MaxLifetime + 1)

(* transaction_create returns "a new transaction id or 0 in case of        *)
(* failure": the id of a transaction it opened is not 0, with which its    *)
(* accept would be ignored and the ack of a push would close it.           *)
ValidIds == \A i \in DOMAIN stl : stl[i].trans_id # INVALID_TRANSID
=============================================================================
