--------------------------- MODULE OrderedOutput ---------------------------
(***************************************************************************)
(* What the output stage of a peer promises, without saying how the        *)
(* chunks are stored: a window of WindowSize consecutive chunk ids that    *)
(* starts at next; chunks of the window wait in the set pending; the       *)
(* window only moves forward, over a chunk that is written or over a hole, *)
(* and over a hole only to make room for a chunk that is already here.     *)
(* Where order is not asked for, chunks are written as they come.          *)
(***************************************************************************)
EXTENDS Integers, Sequences

CONSTANTS Ids,          \* the chunk ids that may be received
          WindowSize    \* how many consecutive ids may wait

VARIABLES ordered,      \* whether the chunks are to be put in order
          next,         \* the id to write next, negative before the first
          pending,      \* ids received and not yet written
          incoming,     \* the chunk being received: {} or the set of its id
          out           \* the ids written so far, in order

vars == <<ordered, next, pending, incoming, out>>

Init ==
  /\ ordered \in BOOLEAN
  /\ next = -1
  /\ pending = {}
  /\ incoming = {}
  /\ out = << >>

(* A chunk that is not too late is taken; the first one opens the window.  *)
Receive(id) ==
  /\ ordered
  /\ incoming = {}
  /\ next \notin pending
  /\ id >= next
  /\ next' = IF next < 0 THEN id ELSE next
  /\ incoming' = {id}
  /\ UNCHANGED <<ordered, pending, out>>

(* Without order nothing ever waits.                                       *)
Pass(id) ==
  /\ ~ordered
  /\ out' = Append(out, id)
  /\ UNCHANGED <<ordered, next, pending, incoming>>

(* The window moves by one: the chunk at its start is written if present.  *)
Advance ==
  /\ next' = next + 1
  /\ IF next \in pending
       THEN /\ out' = Append(out, next)
            /\ pending' = pending \ {next}
       ELSE UNCHANGED <<out, pending>>
  /\ UNCHANGED <<ordered, incoming>>

MakeRoom ==
  /\ \E id \in incoming : id >= next + WindowSize
  /\ Advance

Store ==
  /\ \E id \in incoming :
       /\ id < next + WindowSize
       /\ pending' = IF id < 0 THEN pending ELSE pending \union {id}
  /\ incoming' = {}
  /\ UNCHANGED <<ordered, next, out>>

Write ==
  /\ incoming = {}
  /\ next \in pending
  /\ Advance

(* The stage is closed: what still waits is discarded, not written.        *)
Close ==
  /\ incoming = {}
  /\ pending' = {}
  /\ UNCHANGED <<ordered, next, incoming, out>>

Next ==
  \/ \E id \in Ids : Receive(id) \/ Pass(id)
  \/ MakeRoom
  \/ Store
  \/ Write
  \/ Close

Spec == Init /\ [][Next]_vars
=============================================================================
