-------------------------- MODULE TransactionList --------------------------
(***************************************************************************)
(* The list of open transactions of a chunk trader (src/src/transaction.c) *)
(* as operators on a sequence, newest first.  An element has the fields    *)
(* trans_id, offer (offer_sent_time), accept (accept_received_time, NoTime *)
(* before the accept) and id (the peer the offer went to).  Whoever keeps  *)
(* a list adds fields of its own as history.                               *)
(***************************************************************************)
EXTENDS Integers, SequencesExt

CONSTANTS TransIdMod,   \* number of values of a uint16_t: 2^16 in the code
          MaxLifetime   \* TRANS_ID_MAX_LIFETIME

ASSUME TransactionAssumption ==
  /\ TransIdMod \in Nat \ {0, 1}
  /\ MaxLifetime \in Nat

INVALID_TRANSID == 0
NoTime == -1
NotFound == -2          \* what transaction_remove returns without a match

TransIds == 0 .. TransIdMod - 1

(* check_neighbor_status_list: the elements over the timeout go.           *)
NeverExpires(e, now) == FALSE                             \* fault: no timeout
Expired(e, now) == now - e.offer > MaxLifetime

CheckNeighborStatusList(stl, now) ==
  LET kept[i \in 0 .. Len(stl)] ==      \* what is left of the first i elements
        IF i = 0 THEN << >>
        ELSE IF Expired(stl[i], now) THEN kept[i - 1] ELSE Append(kept[i - 1], stl[i])
  IN kept[Len(stl)]

(* transaction_create: the id after the head's.  "x + 1 ? x + 1 : 1" is    *)
(* computed on int, where x + 1 is never 0, and then stored in a uint16_t. *)
IdFromLength(stl) == (Len(stl) + 1) % TransIdMod          \* fault: a count, not a successor
NewTransId(stl) == IF stl = << >> THEN 1 ELSE (Head(stl).trans_id + 1) % TransIdMod

(* The first element with a given id; transaction_reg_accept and           *)
(* transaction_remove both search from the head and look at nothing else.  *)
HasTrans(stl, trans_id) == \E i \in DOMAIN stl : stl[i].trans_id = trans_id
PositionOf(stl, trans_id) == SelectInSeq(stl, LAMBDA e : e.trans_id = trans_id)

TransactionRegAccept(stl, trans_id, now) ==
  IF trans_id # INVALID_TRANSID /\ HasTrans(stl, trans_id)
    THEN [stl EXCEPT ![PositionOf(stl, trans_id)].accept = now]
    ELSE stl

TransactionRemove(stl, trans_id) ==
  IF HasTrans(stl, trans_id) THEN RemoveAt(stl, PositionOf(stl, trans_id)) ELSE stl

RemoveResult(stl, trans_id) ==
  IF HasTrans(stl, trans_id) THEN stl[PositionOf(stl, trans_id)].accept ELSE NotFound
=============================================================================
