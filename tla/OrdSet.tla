------------------------------ MODULE OrdSet ------------------------------
(***************************************************************************)
(* The ordered set of the network helper (src/Lib/net_helper/nhx/ord_set.c)*)
(* in which a bucket finds its packets and the network manager its         *)
(* endpoints: a sorted array, a binary search (ord_set_check_pos), and the *)
(* loop ord_set_for_each_safe, which empties a set while it walks over it. *)
(*                                                                         *)
(* An element is a pair <<key, tag>>: the comparison functions look at the *)
(* key only, and two elements of one key are different pointers.  A call   *)
(* first searches, one iteration of the loop a step, then acts on the      *)
(* position i it found.                                                    *)
(***************************************************************************)
EXTENDS Integers

CONSTANTS
  Keys,             \* what the elements are ordered by (packet ids, nodes)
  Tags,             \* tells elements of one key apart
  InitSize,         \* the size given to ord_set_new
  ORD_SET_INC_SIZE, \* how much the array grows at a time
  MaxElements       \* bound on the elements of the set

ASSUME OrdSetAssumption ==
  /\ Keys \subseteq Int
  /\ Keys # {} /\ Tags # {}
  /\ InitSize \in Nat \ {0}
  /\ ORD_SET_INC_SIZE \in Nat \ {0}
  /\ MaxElements \in Nat

Elements == Keys \X Tags
NoElem == << >>                    \* the null pointer
Key(e) == e[1]
UserOps == {"find", "insert", "override", "remove", "iter"}
Ops == UserOps \union {"prev"}     \* "prev": the search of ord_set_iter_safe

VARIABLES
  elements, n_elements, size,  \* the array, how much of it is used, allocated
  pc,           \* "idle", "loop" in ord_set_check_pos, "found" behind it
  op, el,       \* the call and its argument
  a, b, i,      \* the variables of ord_set_check_pos
  ret,          \* the element the last call returned, inserted or removed
  walk,         \* where ord_set_for_each_safe is, "no" outside of it
  iter, tmp     \* its variables

array == <<elements, n_elements, size>>
search == <<a, b, i>>
walking == <<walk, iter, tmp>>
vars == <<elements, n_elements, size, pc, op, el, a, b, i, ret, walk, iter, tmp>>

(* packet_cmp, endpoint_cmp, ord_set_dummy_cmp *)
Cmp(x, y) == IF Key(x) = Key(y) THEN 0 ELSE IF Key(x) > Key(y) THEN 1 ELSE -1

NoElements == [k \in {} |-> NoElem]

(* ord_set_new *)
Init ==
  /\ elements = NoElements
  /\ n_elements = 0
  /\ size = InitSize
  /\ pc = "idle"
  /\ op = "find" /\ el \in Elements
  /\ a = 0 /\ b = 0 /\ i = 0
  /\ ret = NoElem
  /\ walk = "no" /\ iter = NoElem /\ tmp = NoElem

-----------------------------------------------------------------------------
(***************************************************************************)
(* ord_set_check_pos                                                       *)
(***************************************************************************)
Begin(o, e) ==
  /\ pc = "idle"
  /\ op' = o
  /\ el' = e
  /\ a' = 0
  /\ b' = IF n_elements > 0 THEN n_elements - 1 ELSE 0
  /\ i' = b' \div 2
  /\ pc' = IF n_elements > 0 THEN "loop" ELSE "found"
  /\ UNCHANGED <<elements, n_elements, size, ret>>

(* The halves: above i, below i, or i itself.                              *)
NarrowKeepsMiddle ==                          \* fault: i stays in the upper half
  CASE Cmp(el, elements[i]) > 0 -> a' = i /\ b' = b
    [] Cmp(el, elements[i]) < 0 -> a' = a /\ b' = IF i > 0 THEN i - 1 ELSE 0
    [] OTHER -> a' = i /\ b' = i
NarrowSwapped ==                              \* fault: the halves are swapped
  CASE Cmp(el, elements[i]) > 0 -> a' = a /\ b' = i
    [] Cmp(el, elements[i]) < 0 -> a' = i + 1 /\ b' = b
    [] OTHER -> a' = i /\ b' = i
Narrow ==
  CASE Cmp(el, elements[i]) > 0 -> a' = i + 1 /\ b' = b
    [] Cmp(el, elements[i]) < 0 -> a' = a /\ b' = IF i > 0 THEN i - 1 ELSE 0
    [] OTHER -> a' = i /\ b' = i

Loop ==
  /\ pc = "loop"
  /\ b > a
  /\ Narrow
  /\ i' = (b' + a') \div 2
  /\ UNCHANGED <<array, pc, op, el, ret, walking>>

PlaceUnadjusted == i                          \* fault: not moved behind a smaller one
Place == IF Cmp(el, elements[i]) > 0 THEN i + 1 ELSE i

LoopEnd ==
  /\ pc = "loop"
  /\ ~(b > a)
  /\ i' = Place
  /\ pc' = "found"
  /\ UNCHANGED <<array, op, el, a, b, ret, walking>>

-----------------------------------------------------------------------------
(***************************************************************************)
(* The operations, from the position on                                    *)
(***************************************************************************)
Found == i < n_elements /\ Cmp(elements[i], el) = 0

InsertAt(e) ==
  [k \in 0 .. n_elements |-> IF k < i THEN elements[k] ELSE IF k = i THEN e ELSE elements[k - 1]]
RemoveAt ==
  [k \in 0 .. n_elements - 2 |-> IF k < i THEN elements[k] ELSE elements[k + 1]]

GrowWhenFull == IF n_elements > size          \* fault: grows too late
                  THEN size + ORD_SET_INC_SIZE ELSE size
Grow == IF n_elements + 1 >= size THEN size + ORD_SET_INC_SIZE ELSE size

(* ord_set_find *)
Find ==
  /\ op = "find"
  /\ ret' = IF Found THEN elements[i] ELSE NoElem
  /\ UNCHANGED <<array, tmp, walk>>

(* ord_set_insert without and with override *)
Insert ==
  /\ op \in {"insert", "override"}
  /\ IF Found
       THEN /\ elements' = [elements EXCEPT ![i] = IF op = "override" THEN el ELSE @]
            /\ UNCHANGED <<n_elements, size>>
       ELSE /\ elements' = InsertAt(el)
            /\ n_elements' = n_elements + 1
            /\ size' = Grow
  /\ ret' = elements'[i]
  /\ UNCHANGED <<tmp, walk>>

(* ord_set_remove *)
Remove ==
  /\ op = "remove"
  /\ IF Found
       THEN elements' = RemoveAt /\ n_elements' = n_elements - 1 /\ ret' = elements[i]
       ELSE UNCHANGED <<elements, n_elements>> /\ ret' = NoElem
  /\ walk' = IF walk = "removing" THEN "step" ELSE walk
  /\ UNCHANGED <<size, tmp>>

(* ord_set_iter, from an element of the set *)
Iter ==
  /\ op = "iter"
  /\ ret' = IF i < n_elements - 1 THEN elements[i + 1] ELSE NoElem
  /\ UNCHANGED <<array, tmp, walk>>

(* ord_set_iter_safe, behind the search for the next element *)
PrevNotFirst ==                               \* fault: off by one
  IF i > 1 THEN elements[i - 1] ELSE NoElem
Prev == IF i > 0 THEN elements[i - 1] ELSE NoElem

IterSafe ==
  /\ op = "prev"
  /\ ret' = Prev
  /\ tmp' = Prev
  /\ walk' = "body"
  /\ UNCHANGED array

Finish ==
  /\ pc = "found"
  /\ pc' = "idle"
  /\ Find \/ Insert \/ Remove \/ Iter \/ IterSafe
  /\ UNCHANGED <<op, el, search, iter>>

-----------------------------------------------------------------------------
(* A call of the set's users; an iteration goes on from an element of it.  *)
Call(o, e) ==
  /\ walk = "no"
  /\ o \in {"insert", "override"} => n_elements < MaxElements
  /\ o = "iter" => \E k \in 0 .. n_elements - 1 : elements[k] = e
  /\ Begin(o, e)
  /\ UNCHANGED walking

(* ord_set_iter with a null iterator, the start of ord_set_for_each: the   *)
(* first element, without a search.                                        *)
First == IF n_elements > 0 THEN elements[0] ELSE NoElem

IterFirst ==
  /\ pc = "idle"
  /\ walk = "no"
  /\ ret' = First
  /\ UNCHANGED <<array, pc, op, el, search, walking>>

(***************************************************************************)
(* packet_bucket_destroy and network_manager_destroy: each element that    *)
(* ord_set_for_each_safe comes to is removed; then the set is destroyed    *)
(* (and here a new one made).                                              *)
(***************************************************************************)
WalkStart ==
  /\ pc = "idle"
  /\ walk = "no"
  /\ iter' = IF n_elements > 0 THEN elements[n_elements - 1] ELSE NoElem
  /\ tmp' = IF n_elements > 1 THEN elements[n_elements - 2] ELSE NoElem
  /\ walk' = IF n_elements > 0 THEN "body" ELSE "end"
  /\ UNCHANGED <<array, pc, op, el, search, ret>>

WalkBody ==
  /\ walk = "body"
  /\ Begin("remove", iter)
  /\ walk' = "removing"
  /\ UNCHANGED <<iter, tmp>>

WalkStep ==
  /\ walk = "step"
  /\ tmp # NoElem
  /\ iter' = tmp
  /\ Begin("prev", tmp)
  /\ walk' = "stepping"
  /\ UNCHANGED tmp

WalkEnd ==
  /\ walk = "step"
  /\ tmp = NoElem
  /\ iter' = NoElem
  /\ walk' = "end"
  /\ UNCHANGED <<array, pc, op, el, search, ret, tmp>>

Destroy ==
  /\ walk = "end"
  /\ elements' = NoElements
  /\ n_elements' = 0
  /\ size' = InitSize
  /\ walk' = "no"
  /\ UNCHANGED <<pc, op, el, search, ret, iter, tmp>>

Next ==
  \/ \E o \in UserOps, e \in Elements : Call(o, e)
  \/ Loop \/ LoopEnd \/ Finish \/ IterFirst
  \/ WalkStart \/ WalkBody \/ WalkStep \/ WalkEnd \/ Destroy

(* A call runs to its end.                                                 *)
Spec == Init /\ [][Next]_vars
FairSpec == Spec /\ WF_vars(Loop \/ LoopEnd)

-----------------------------------------------------------------------------
(***************************************************************************)
(* Properties                                                              *)
(***************************************************************************)

(* Types.                                                                  *)
TypeOK ==
  /\ n_elements \in Nat
  /\ elements \in [0 .. n_elements - 1 -> Elements]
  /\ size \in Nat
  /\ pc \in {"idle", "loop", "found"}
  /\ op \in Ops /\ el \in Elements
  /\ a \in Nat /\ b \in Nat /\ i \in Nat
  /\ ret \in Elements \union {NoElem}
  /\ walk \in {"no", "body", "removing", "step", "stepping", "end"}
  /\ iter \in Elements \union {NoElem}
  /\ tmp \in Elements \union {NoElem}

(* ord_set_insert puts an element where ord_set_check_pos says: whatever   *)
(* sequence of calls, the keys in the array strictly increase, so no key   *)
(* is there twice and the next search is meaningful.                       *)
Sorted == \A j, k \in 0 .. n_elements - 1 : j < k => Key(elements[j]) < Key(elements[k])

(* ord_set_check_pos returns the first place whose key is not smaller,     *)
(* also for keys below the first and above the last element.               *)
SearchRight ==
  pc = "found" => /\ i <= n_elements
                  /\ \A k \in 0 .. n_elements - 1 : k < i <=> Key(elements[k]) < Key(el)

(* ord_set_check_pos and ord_set_insert stay inside the array: what the    *)
(* search compares with is an element, and the memmove has room.           *)
InBounds ==
  /\ n_elements < size
  /\ pc = "loop" => i < n_elements

(* packet_bucket_destroy and network_manager_destroy: the loop that removes*)
(* what it stands on comes to every element, so nothing is left behind when*)
(* the array is freed.                                                     *)
WalkFreesAll == walk = "end" => n_elements = 0

(* ord_set_check_pos ends: the interval shrinks in every turn, although b  *)
(* is kept from falling below 0.                                           *)
SearchEnds == pc = "loop" ~> pc = "found"

Abstract == INSTANCE KeyedSet WITH
  content <- {elements[k] : k \in 0 .. n_elements - 1},
  busy <- (pc # "idle")

(* The array with its search is the set its users take it for.             *)
ImplementsKeyedSet == Abstract!Spec
=============================================================================
