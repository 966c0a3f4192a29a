-------------------------- MODULE TransactionWalk --------------------------
(***************************************************************************)
(* The list of open transactions as it lies in memory (transaction.c): a   *)
(* doubly linked list of cells from malloc, walked with an iterator, from  *)
(* which _transaction_remove unlinks and frees a cell in the middle of a   *)
(* walk.  Each call does its walk step by step on the cells and, as it     *)
(* returns, the operation of Transactions on the sequence stl; ListKept    *)
(* says that the cells hold that sequence.                                 *)
(***************************************************************************)
EXTENDS Transactions

CONSTANTS Cells,   \* the cells malloc may return
          NULL

ASSUME CellAssumption == NULL \notin Cells

VARIABLES
  head,      \* *stl, the newest element
  cell,      \* st, backward and forward of each cell
  used,      \* the cells that are allocated
  pc,        \* the walk of the call in progress, "idle" between two calls
  arg,       \* the offer the call is about
  iterator,  \* stl_iterator
  aux,       \* stl_aux
  res        \* the value the last call returned

links == <<head, cell, used>>
walkVars == <<links, pc, arg, iterator, aux, res, vars>>

(* What memory that is not allocated holds; nobody may depend on it.       *)
Blank == [st |-> [trans_id |-> 0, offer |-> 0, accept |-> NoTime,
                  id |-> CHOOSE p \in Peers : TRUE, serial |-> 0],
          backward |-> NULL, forward |-> NULL]

WalkInit ==
  /\ Init
  /\ head = NULL
  /\ cell = [x \in Cells |-> Blank]
  /\ used = {}
  /\ pc = "idle"
  /\ arg = Push
  /\ iterator = NULL
  /\ aux = NULL
  /\ res = 0

(* The cell after x.                                                       *)
Forward(x) == IF x = NULL THEN NULL ELSE cell[x].forward

(* _transaction_remove: the neighbours of x are linked to each other, and  *)
(* the head is moved if there is none before x; then x is freed.           *)
UnlinkLeavesBackward(x) ==                  \* fault: a new head keeps its backward
  LET b == cell[x].backward
      f == cell[x].forward
  IN /\ head' = IF b = NULL THEN f ELSE head
     /\ cell' = [y \in Cells |->
                   IF y = x THEN Blank
                   ELSE IF y = b THEN [cell[y] EXCEPT !.forward = f]
                   ELSE IF y = f /\ b # NULL THEN [cell[y] EXCEPT !.backward = b] ELSE cell[y]]
     /\ used' = used \ {x}
Unlink(x) ==
  LET b == cell[x].backward
      f == cell[x].forward
  IN /\ head' = IF b = NULL THEN f ELSE head
     /\ cell' = [y \in Cells |->
                   IF y = x THEN Blank
                   ELSE IF y = b THEN [cell[y] EXCEPT !.forward = f]
                   ELSE IF y = f THEN [cell[y] EXCEPT !.backward = b] ELSE cell[y]]
     /\ used' = used \ {x}

(* A cell that is free; which one makes no difference, since no address is *)
(* compared with another.  A freed cell is soon used again.                *)
Malloc == CHOOSE x \in Cells : x \notin used

(* A call returns; its local variables are gone.                           *)
Returned ==
  /\ pc' = "idle"
  /\ arg' = Push
  /\ iterator' = NULL
  /\ aux' = NULL

-----------------------------------------------------------------------------
(* transaction_create: check_neighbor_status_list starts at the head.      *)
CreateCalled(p) ==
  /\ pc = "idle"
  /\ inTick < Rate
  /\ Cardinality(sent) < MaxOffers
  /\ arg' = [serial |-> 0, trans_id |-> 0, id |-> p]
  /\ iterator' = head
  /\ aux' = Forward(head)
  /\ pc' = "check"
  /\ UNCHANGED <<links, res, vars>>

(* One round of check_neighbor_status_list; stl_aux was read before the    *)
(* element at stl_iterator was freed.                                      *)
CheckStepAhead ==                           \* fault: stl_aux moves on first
  /\ pc = "check"
  /\ iterator # NULL
  /\ IF Expired(cell[iterator].st, now) THEN Unlink(iterator) ELSE UNCHANGED links
  /\ aux' = IF aux = NULL THEN NULL ELSE cell'[aux].forward
  /\ iterator' = aux'
  /\ UNCHANGED <<pc, arg, res, vars>>
CheckStep ==
  /\ pc = "check"
  /\ iterator # NULL
  /\ IF Expired(cell[iterator].st, now) THEN Unlink(iterator) ELSE UNCHANGED links
  /\ iterator' = aux
  /\ aux' = IF aux = NULL THEN NULL ELSE cell'[aux].forward
  /\ UNCHANGED <<pc, arg, res, vars>>

(* The rest of transaction_create: the new element goes before the head.   *)
Insert ==
  LET first == IF head = NULL THEN << >> ELSE <<cell[head].st>>
      st == [trans_id |-> NewTransId(first), offer |-> now, accept |-> NoTime,
             id |-> arg.id, serial |-> Cardinality(sent) + 1]
  IN /\ pc = "check"
     /\ iterator = NULL
     /\ Cells # used
     /\ cell' = [y \in Cells |->
                   IF y = Malloc THEN [st |-> st, backward |-> NULL, forward |-> head]
                   ELSE IF y = head THEN [cell[y] EXCEPT !.backward = Malloc] ELSE cell[y]]
     /\ head' = Malloc
     /\ used' = used \union {Malloc}
     /\ res' = st.trans_id
     /\ SendOffer(arg.id)
     /\ Returned

-----------------------------------------------------------------------------
(* transaction_reg_accept and transaction_remove search from the head on;  *)
(* the first does not look for INVALID_TRANSID.                            *)
AcceptCalled(o) ==
  /\ pc = "idle"
  /\ arg' = o
  /\ iterator' = IF o.trans_id = INVALID_TRANSID THEN NULL ELSE head
  /\ pc' = "accept"
  /\ UNCHANGED <<links, aux, res, vars>>

RemoveCalled(o) ==
  /\ pc = "idle"
  /\ arg' = o
  /\ iterator' = head
  /\ pc' = "remove"
  /\ UNCHANGED <<links, aux, res, vars>>

Found == iterator # NULL /\ cell[iterator].st.trans_id = arg.trans_id

SearchStep ==
  /\ pc \in {"accept", "remove"}
  /\ iterator # NULL
  /\ ~Found
  /\ iterator' = Forward(iterator)
  /\ UNCHANGED <<links, pc, arg, aux, res, vars>>

AcceptDone ==
  /\ pc = "accept"
  /\ iterator = NULL \/ Found
  /\ cell' = IF Found THEN [cell EXCEPT ![iterator].st.accept = now] ELSE cell
  /\ res' = IF Found THEN 1 ELSE 0
  /\ AcceptArrives(arg)
  /\ Returned
  /\ UNCHANGED <<head, used>>

RemoveDone ==
  /\ pc = "remove"
  /\ iterator = NULL \/ Found
  /\ IF Found THEN Unlink(iterator) ELSE UNCHANGED links
  /\ res' = IF Found THEN cell[iterator].st.accept ELSE NotFound
  /\ AckArrives(arg)
  /\ Returned

(* transaction_destroy, as its owner goes: the head is removed until there *)
(* is none.                                                                *)
DestroyCalled ==
  /\ pc = "idle"
  /\ pc' = "destroy"
  /\ UNCHANGED <<links, arg, iterator, aux, res, vars>>

DestroyStep ==
  /\ pc = "destroy"
  /\ head # NULL
  /\ Unlink(head)
  /\ UNCHANGED <<pc, arg, iterator, aux, res, vars>>

DestroyDone ==
  /\ pc = "destroy"
  /\ head = NULL
  /\ pc' = "gone"
  /\ UNCHANGED <<links, arg, iterator, aux, res, vars>>

(* Time passes between the calls.                                          *)
TimePasses ==
  /\ pc = "idle"
  /\ Tick
  /\ UNCHANGED <<links, pc, arg, iterator, aux, res>>

WalkNext ==
  \/ \E p \in Peers : CreateCalled(p)
  \/ \E o \in sent : AcceptCalled(o)
  \/ \E o \in sent \union {Push} : RemoveCalled(o)
  \/ CheckStep
  \/ Insert
  \/ SearchStep
  \/ AcceptDone
  \/ RemoveDone
  \/ DestroyCalled
  \/ DestroyStep
  \/ DestroyDone
  \/ TimePasses

WalkSpec == WalkInit /\ [][WalkNext]_walkVars

-----------------------------------------------------------------------------
(* The cells met from the head on.                                         *)
Path[i \in 1 .. Cardinality(Cells) + 1] == IF i = 1 THEN head ELSE Forward(Path[i - 1])

(* check_neighbor_status_list, _transaction_remove: whatever elements a    *)
(* walk took out of the list under its own feet, at its head, its end or   *)
(* several in a row, between two calls the cells, forward and backward,    *)
(* hold the sequence of open transactions, none is leaked, and each call   *)
(* returned what it should; transaction_destroy frees them all.            *)
ListKept ==
  /\ pc = "idle" =>
       /\ \A i \in DOMAIN stl :
            /\ Path[i] # NULL
            /\ cell[Path[i]].st = stl[i]
            /\ cell[Path[i]].backward = IF i = 1 THEN NULL ELSE Path[i - 1]
       /\ Path[Len(stl) + 1] = NULL
       /\ Cardinality(used) = Len(stl)
       /\ res = ret
  /\ pc = "gone" => used = {}

(* _transaction_remove frees its element: the head, the links of the list  *)
(* and, during a walk, stl_iterator and stl_aux never point to freed       *)
(* memory.                                                                 *)
NoDangling ==
  LET walking == CASE pc = "check" -> {iterator, aux}
                   [] pc \in {"accept", "remove"} -> {iterator}
                   [] OTHER -> {}
  IN {head} \union walking \union {cell[x].backward : x \in used}
       \union {cell[x].forward : x \in used} \subseteq used \union {NULL}
=============================================================================
