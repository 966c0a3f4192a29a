---------------------------- MODULE ChunkOutput ----------------------------
(***************************************************************************)
(* The output stage of a peer (src/src/output-grapes.c): a circular buffer *)
(* that puts the chunks received from the swarm back into the order of     *)
(* their ids before they are written to the output stream.                 *)
(*                                                                         *)
(* A chunk is its id.  output_deliver is followed line by line with the    *)
(* control point pc, because its two loops (output_buff_flush and the      *)
(* final drain) move head and next_out while new_pos, computed before      *)
(* them, is still to be used; the engine is single threaded, so a call     *)
(* ends (pc = "idle") before the next one starts.                          *)
(***************************************************************************)
EXTENDS Integers, Sequences, Functions

CONSTANTS
  Ids,          \* ids of the chunks handed to output_deliver
  outbuff_size, \* the size in the configuration
  MaxOut        \* bound on the history of direct writes (reorder = FALSE)

(* output_create: 75 for a size that is not positive, stored in 16 bits.   *)
buff_length == (IF outbuff_size > 0 THEN outbuff_size ELSE 75) % 65536

(* A multiple of 65536 would leave no slot, and divide by 0.               *)
ASSUME OutputAssumption ==
  /\ Ids \subseteq Int
  /\ outbuff_size \in Int
  /\ buff_length \in Nat \ {0}
  /\ MaxOut \in Nat

Slots == 0 .. buff_length - 1
Empty == -1                      \* the id of a slot that holds no chunk

VARIABLES
  reorder,   \* outbuff_reorder: TRUE to reorder, FALSE to write at once
  handle,    \* "none" before output_create, "open", "null" once destroyed
  buff,      \* the chunk id in each slot
  head,      \* the slot of the chunk to write next
  next_out,  \* the id of the chunk to write next, negative before the first
  pc,        \* where output_deliver is
  c,         \* the chunk handed to output_deliver (last call)
  new_pos,   \* its slot
  todo,      \* steps left of output_buff_flush
  res,       \* the value output_deliver returns (last call)
  out,       \* history: the ids passed to chunk_write
  accepted   \* history: the ids output_deliver took in

buffer == <<buff, head, next_out>>
locals == <<c, new_pos, todo>>
vars == <<reorder, handle, buff, head, next_out, pc, c, new_pos, todo, res, out, accepted>>

Init ==
  /\ reorder \in BOOLEAN     \* the configuration
  /\ handle = "none"
  /\ buff = [i \in Slots |-> Empty]
  /\ head = 0
  /\ next_out = -1
  /\ pc = "idle"
  /\ c = -1
  /\ new_pos = 0
  /\ todo = 0
  /\ res = 0
  /\ out = << >>
  /\ accepted = {}

(* output_create; it destroys what it built when the stream cannot open.   *)
Create ==
  /\ handle = "none"
  /\ handle' \in {"open", "null"}
  /\ UNCHANGED <<reorder, buff, head, next_out, pc, c, new_pos, todo, res, out, accepted>>

(* output_destroy: the chunks that wait are freed, never written.          *)
Destroy ==
  /\ handle = "open"
  /\ pc = "idle"
  /\ handle' = "null"
  /\ buff' = [i \in Slots |-> Empty]
  /\ UNCHANGED <<reorder, head, next_out, pc, c, new_pos, todo, res, out, accepted>>

NextSlot(slot) == (slot + 1) % buff_length

(* output_send_next; res counts what it writes.                            *)
SendNextDrops ==                                      \* fault: freed, not written
  /\ buff' = [buff EXCEPT ![head] = Empty]
  /\ next_out' = next_out + 1
  /\ head' = NextSlot(head)
  /\ UNCHANGED <<out, res>>
SendNext ==
  /\ IF buff[head] >= 0
       THEN /\ out' = Append(out, buff[head])
            /\ buff' = [buff EXCEPT ![head] = Empty]
            /\ res' = res + 1
       ELSE UNCHANGED <<out, buff, res>>
  /\ next_out' = next_out + 1
  /\ head' = NextSlot(head)

(* output_deliver without an output stage: -1.                             *)
DeliverNull(id) ==
  /\ handle = "null"
  /\ pc = "idle"
  /\ c' = id
  /\ res' = -1
  /\ UNCHANGED <<reorder, handle, buffer, pc, new_pos, todo, out, accepted>>

(* output_deliver, reorder off: written as it comes.                       *)
DeliverDirect(id) ==
  /\ handle = "open"
  /\ pc = "idle"
  /\ ~reorder
  /\ Len(out) < MaxOut
  /\ c' = id
  /\ out' = Append(out, id)
  /\ res' = 1
  /\ accepted' = accepted \union {id}
  /\ UNCHANGED <<reorder, handle, buffer, pc, new_pos, todo>>

(* output_deliver, reorder on, id < next_out: the chunk is too late.       *)
TooLateOffByOne(id) == id < next_out - 1              \* fault
TooLate(id) == id < next_out

DeliverLate(id) ==
  /\ handle = "open"
  /\ pc = "idle"
  /\ reorder
  /\ TooLate(id)
  /\ c' = id
  /\ res' = 0
  /\ UNCHANGED <<reorder, handle, buffer, pc, new_pos, todo, out, accepted>>

(* output_deliver, reorder on, up to the call of output_buff_flush.  An id *)
(* of -1 passes the test while next_out is -1, and leaves no trace.        *)
FirstOutUnset(id) == next_out                         \* fault: never initialised
FirstOut(id) == IF next_out < 0 THEN id ELSE next_out

SlotOf(id) == (head + id - FirstOut(id)) % buff_length

FlushOneLess(id) == id - FirstOut(id) - buff_length   \* fault: off by one
FlushLength(id) == id - FirstOut(id) - buff_length + 1

DeliverTaken(id) ==
  /\ handle = "open"
  /\ pc = "idle"
  /\ reorder
  /\ ~TooLate(id)
  /\ c' = id
  /\ res' = 0
  /\ next_out' = FirstOut(id)
  /\ new_pos' = SlotOf(id)
  /\ IF id >= FirstOut(id) + buff_length
       THEN /\ todo' = FlushLength(id)
            /\ pc' = "flush"
       ELSE /\ todo' = 0
            /\ pc' = "place"
  /\ accepted' = IF id < 0 THEN accepted ELSE accepted \union {id}
  /\ UNCHANGED <<reorder, handle, buff, head, out>>

(* One iteration of output_buff_flush.                                     *)
FlushStep ==
  /\ pc = "flush"
  /\ todo > 0
  /\ SendNext
  /\ todo' = todo - 1
  /\ UNCHANGED <<reorder, handle, pc, c, new_pos, accepted>>

(* After output_buff_flush: head is recomputed from new_pos.               *)
FlushDone ==
  /\ pc = "flush"
  /\ todo = 0
  /\ head' = NextSlot(new_pos)
  /\ pc' = "place"
  /\ UNCHANGED <<reorder, handle, buff, next_out, locals, res, out, accepted>>

(* The chunk is cloned into its slot unless it is already there.           *)
Place ==
  /\ pc = "place"
  /\ buff' = IF c # buff[new_pos] THEN [buff EXCEPT ![new_pos] = c] ELSE buff
  /\ pc' = "drain"
  /\ UNCHANGED <<reorder, handle, head, next_out, locals, res, out, accepted>>

(* "we flush everything possible": one iteration of the final loop.        *)
DrainStep ==
  /\ pc = "drain"
  /\ buff[head] >= 0
  /\ SendNext
  /\ UNCHANGED <<reorder, handle, pc, locals, accepted>>

ReturnEarly ==                                        \* fault: "if" for "while"
  /\ pc = "drain"
  /\ pc' = "idle"
  /\ UNCHANGED <<reorder, handle, buffer, locals, res, out, accepted>>
Return ==
  /\ pc = "drain"
  /\ buff[head] < 0
  /\ pc' = "idle"
  /\ UNCHANGED <<reorder, handle, buffer, locals, res, out, accepted>>

Deliver(id) ==
  \/ DeliverNull(id)
  \/ DeliverDirect(id)
  \/ DeliverLate(id)
  \/ DeliverTaken(id)

Loop == FlushStep \/ FlushDone \/ Place \/ DrainStep \/ Return

Next ==
  \/ Create
  \/ Destroy
  \/ \E id \in Ids : Deliver(id)
  \/ Loop

Spec == Init /\ [][Next]_vars

-----------------------------------------------------------------------------
(***************************************************************************)
(* Properties                                                              *)
(***************************************************************************)

(* Types: every slot holds an id or is empty, head is a slot.              *)
TypeOK ==
  /\ reorder \in BOOLEAN
  /\ handle \in {"none", "open", "null"}
  /\ buff \in [Slots -> Int]
  /\ head \in Slots
  /\ next_out \in Int
  /\ pc \in {"idle", "flush", "place", "drain"}
  /\ c \in Int
  /\ new_pos \in Slots
  /\ todo \in Nat
  /\ res \in Int
  /\ out \in Seq(Int)
  /\ accepted \in SUBSET Int

(* output_deliver: the slot i places after head holds chunk next_out + i   *)
(* or nothing, whatever flushes, drains and wrap-arounds went before, in   *)
(* the middle of a call too.                                               *)
SlotInv ==
  \A i \in Slots : buff[(head + i) % buff_length] \in {Empty, next_out + i}

(* output_deliver: new_pos, computed before output_buff_flush moves head,  *)
(* is the slot that belongs to chunk c once the flush is over; head, set   *)
(* from new_pos, is where output_send_next left it.                        *)
PlaceInv ==
  /\ pc = "place" => /\ c >= next_out /\ c < next_out + buff_length
                     /\ new_pos = (head + (c - next_out)) % buff_length
  /\ (pc = "flush" /\ todo = 0) => head = (new_pos + 1) % buff_length

(* chunk_clone in output_deliver: a chunk that waits is never overwritten  *)
(* by another one (its data would be lost, and leaked).                    *)
NoOverwrite ==
  [][\A i \in Slots : buff[i] >= 0 => buff'[i] \in {Empty, buff[i]}]_vars

(* output_deliver with reorder on: the ids go out strictly increasing, so  *)
(* no chunk is written twice and none after a later one.                   *)
OutputIncreasing ==
  reorder => \A i, j \in 1 .. Len(out) : i < j => out[i] < out[j]

(* output_deliver, output_buff_flush: while the stage is open, a chunk     *)
(* that was taken in is written, waits in the buffer, or is the one being  *)
(* placed; nothing taken in is silently dropped by a flush.                *)
Incoming == IF pc \in {"flush", "place"} THEN {c} ELSE {}

NothingLost ==
  handle = "open" => accepted \subseteq Range(out) \union Range(buff) \union Incoming

(* The drain at the end of output_deliver: between two calls the chunk to  *)
(* write next is never one the buffer already holds.                       *)
NothingWithheld == pc = "idle" => \A i \in Slots : buff[i] # next_out \/ next_out < 0

(***************************************************************************)
(* The inductive invariant behind the theorems of ChunkOutput_proofs: the  *)
(* slots, the relation of new_pos to the distance still to flush, what     *)
(* holds before the first chunk, and that all ids written lie before       *)
(* next_out.                                                               *)
(***************************************************************************)
FlushInv ==
  pc = "flush" => /\ todo = c - next_out - buff_length + 1
                  /\ new_pos = (head + (c - next_out)) % buff_length

StartInv ==
  /\ next_out >= -1
  /\ next_out = -1 => /\ \A i \in Slots : buff[i] = Empty
                      /\ pc # "flush"
                      /\ pc = "place" => c = -1
  /\ pc = "idle" => buff[head] = Empty
  /\ ~reorder => pc = "idle" /\ next_out = -1
  /\ handle # "open" => pc = "idle" /\ \A i \in Slots : buff[i] = Empty
  /\ handle = "none" => accepted = {}

WrittenInv ==
  reorder => /\ \A i \in 1 .. Len(out) : out[i] < next_out
             /\ accepted \subseteq Nat

IndInv ==
  /\ TypeOK
  /\ SlotInv
  /\ PlaceInv
  /\ FlushInv
  /\ StartInv
  /\ WrittenInv
  /\ OutputIncreasing
  /\ NothingLost

-----------------------------------------------------------------------------
(* The circular buffer implements the window of OrderedOutput, and without *)
(* reorder its direct writes.                                              *)
Pending == {id \in Range(buff) : id >= 0}
Abstract == INSTANCE OrderedOutput WITH
  WindowSize <- buff_length, ordered <- reorder, next <- next_out, pending <- Pending, incoming <- Incoming

(* output_deliver implements OrderedOutput, in whichever mode it is in.    *)
Refinement == Abstract!Spec
=============================================================================
