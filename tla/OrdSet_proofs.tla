--------------------------- MODULE OrdSet_proofs ---------------------------
(***************************************************************************)
(* The safety properties of OrdSet, for every set of keys, every size and  *)
(* every growth of the array.  The inductive invariant adds to Sorted what *)
(* the search knows in its loop (below a everything is smaller, above b    *)
(* everything is larger) and where the walk stands (on the last element,   *)
(* with the one before it as the next).                                    *)
(***************************************************************************)
EXTENDS OrdSet, TLAPS

SearchInv ==
  pc = "loop" =>
    /\ b < n_elements
    /\ a < n_elements
    /\ a <= b + 1
    /\ i = (b + a) \div 2
    /\ \A k \in 0 .. n_elements - 1 : k < a => Key(elements[k]) < Key(el)
    /\ \A k \in 0 .. n_elements - 1 : k > b => Key(el) < Key(elements[k])

Last == IF n_elements > 0 THEN elements[n_elements - 1] ELSE NoElem
BeforeLast == IF n_elements > 1 THEN elements[n_elements - 2] ELSE NoElem

WalkInv ==
  /\ walk = "no" /\ pc # "idle" => op \in UserOps
  /\ walk \in {"body", "step", "end"} => pc = "idle"
  /\ walk \in {"removing", "stepping"} => pc # "idle" /\ el = Last /\ n_elements > 0
  /\ walk = "body" => n_elements > 0 /\ iter = Last /\ tmp = BeforeLast
  /\ walk = "removing" => op = "remove" /\ tmp = BeforeLast
  /\ walk = "step" => tmp = Last
  /\ walk = "stepping" => op = "prev" /\ iter = Last
  /\ walk = "end" => n_elements = 0

IndInv ==
  /\ TypeOK
  /\ Sorted
  /\ SearchInv
  /\ SearchRight
  /\ n_elements < size
  /\ WalkInv

-----------------------------------------------------------------------------
(* The middle of an interval.                                              *)
LEMMA Middle ==
  ASSUME NEW x \in Nat, NEW y \in Nat
  PROVE  /\ (y + x) \div 2 \in Nat
         /\ x < y => x <= (y + x) \div 2 /\ (y + x) \div 2 < y
         /\ x = y => (y + x) \div 2 = x
         /\ x = y + 1 => (y + x) \div 2 = y
  OBVIOUS

(* Keys are integers, and the null pointer is no element.                  *)
LEMMA ElementFacts ==
  /\ \A e \in Elements : Key(e) \in Int
  /\ NoElem \notin Elements
<1>1. ASSUME NEW e \in Elements PROVE Key(e) \in Int
  BY OrdSetAssumption DEF Elements, Key
<1>2. NoElem \notin Elements
  <2>1. ASSUME NEW x \in Keys, NEW y \in Tags PROVE << >> # <<x, y>>
    OBVIOUS
  <2> QED BY <2>1 DEF Elements, NoElem
<1> QED BY <1>1, <1>2

(* Cmp compares keys.                                                      *)
LEMMA CmpFacts ==
  ASSUME NEW x \in Elements, NEW y \in Elements
  PROVE  /\ Cmp(x, y) > 0 <=> Key(x) > Key(y)
         /\ Cmp(x, y) < 0 <=> Key(x) < Key(y)
         /\ Cmp(x, y) = 0 <=> Key(x) = Key(y)
  BY ElementFacts DEF Cmp

(* An empty set satisfies the invariant.                                   *)
LEMMA InitInv == Init => IndInv
  BY OrdSetAssumption, ElementFacts
  DEF Init, IndInv, TypeOK, Sorted, SearchInv, SearchRight, WalkInv, NoElements, Last, BeforeLast,
      Ops, UserOps
-----------------------------------------------------------------------------
(* The start of a search knows nothing of the elements.                    *)
LEMMA BeginSearch ==
  ASSUME IndInv, NEW o \in Ops, NEW e \in Elements, Begin(o, e)
  PROVE  /\ pc = "idle" /\ pc' \in {"loop", "found"} /\ op' = o /\ el' = e
         /\ a' \in Nat /\ b' \in Nat /\ i' \in Nat
         /\ UNCHANGED <<elements, n_elements, size, ret>>
         /\ SearchInv' /\ SearchRight'
<1>1. /\ pc = "idle" /\ op' = o /\ el' = e /\ UNCHANGED <<elements, n_elements, size, ret>>
      /\ n_elements \in Nat
  BY DEF Begin, IndInv, TypeOK
<1>2. CASE n_elements > 0
  <2>1. pc' = "loop" /\ a' = 0 /\ b' = n_elements - 1 /\ i' = (b' + a') \div 2
    BY <1>1, <1>2 DEF Begin
  <2>2. i' \in Nat
    BY <1>1, <1>2, <2>1, Middle
  <2> QED BY <1>1, <1>2, <2>1, <2>2 DEF SearchInv, SearchRight
<1>3. CASE ~(n_elements > 0)
  <2>1. pc' = "found" /\ a' = 0 /\ b' = 0 /\ i' = 0 /\ n_elements = 0
    BY <1>1, <1>3 DEF Begin
  <2> QED BY <1>1, <2>1 DEF SearchInv, SearchRight
<1> QED BY <1>2, <1>3

(* One turn of the loop keeps what is known of the two ends.               *)
LEMMA LoopStep == ASSUME IndInv, Loop PROVE IndInv'
<1> USE DEF IndInv
<1>1. /\ pc = "loop" /\ pc' = "loop" /\ a < b /\ i' = (b' + a') \div 2
      /\ UNCHANGED <<elements, n_elements, size, op, el, ret, walk, iter, tmp>>
  BY DEF Loop, array, walking, TypeOK
<1>2. /\ a \in Nat /\ b \in Nat /\ i \in Nat /\ n_elements \in Nat
      /\ elements \in [0 .. n_elements - 1 -> Elements] /\ el \in Elements
  BY DEF TypeOK
<1>3. b < n_elements /\ a <= i /\ i < b
  BY <1>1, <1>2, Middle DEF SearchInv
<1>4. elements[i] \in Elements
  BY <1>2, <1>3
<1>5. /\ a' \in Nat /\ b' \in Nat /\ b' < n_elements /\ a' < n_elements /\ a' <= b' + 1
      /\ \A k \in 0 .. n_elements - 1 : k < a' => Key(elements[k]) < Key(el)
      /\ \A k \in 0 .. n_elements - 1 : k > b' => Key(el) < Key(elements[k])
  <2>1. \A k \in 0 .. n_elements - 1 : elements[k] \in Elements /\ Key(elements[k]) \in Int
    BY <1>2, ElementFacts
  <2>2. Key(el) \in Int /\ Key(elements[i]) \in Int
    BY <1>2, <1>4, ElementFacts
  <2>3. /\ \A k \in 0 .. n_elements - 1 : k < a => Key(elements[k]) < Key(el)
        /\ \A k \in 0 .. n_elements - 1 : k > b => Key(el) < Key(elements[k])
    BY <1>1 DEF SearchInv
  <2>4. CASE Key(el) > Key(elements[i])
    <3>1. a' = i + 1 /\ b' = b
      BY <1>1, <1>2, <1>4, <2>2, <2>4, CmpFacts DEF Loop, Narrow
    <3> QED BY <1>2, <1>3, <2>1, <2>2, <2>3, <2>4, <3>1 DEF Sorted
  <2>5. CASE Key(el) < Key(elements[i])
    <3>1. a' = a /\ b' = IF i > 0 THEN i - 1 ELSE 0
      BY <1>1, <1>2, <1>4, <2>2, <2>5, CmpFacts DEF Loop, Narrow
    <3> QED BY <1>2, <1>3, <2>1, <2>2, <2>3, <2>5, <3>1 DEF Sorted
  <2>6. CASE Key(el) = Key(elements[i])
    <3>1. a' = i /\ b' = i
      BY <1>1, <1>2, <1>4, <2>2, <2>6, CmpFacts DEF Loop, Narrow
    <3> QED BY <1>2, <1>3, <2>1, <2>2, <2>6, <3>1 DEF Sorted
  <2> QED BY <2>2, <2>4, <2>5, <2>6
<1>6. TypeOK'
  BY <1>1, <1>2, <1>5, Middle DEF TypeOK
<1>7. SearchInv' /\ SearchRight'
  BY <1>1, <1>5 DEF SearchInv, SearchRight
<1>8. Sorted' /\ (n_elements < size)' /\ WalkInv'
  BY <1>1 DEF Sorted, WalkInv, Last, BeforeLast
<1> QED BY <1>6, <1>7, <1>8

(* The search ends at the first place whose key is not smaller.            *)
LEMMA LoopEndStep == ASSUME IndInv, LoopEnd PROVE IndInv'
<1> USE DEF IndInv
<1>1. /\ pc = "loop" /\ pc' = "found" /\ ~(b > a) /\ i' = Place
      /\ UNCHANGED <<elements, n_elements, size, op, el, a, b, ret, walk, iter, tmp>>
  BY DEF LoopEnd, array, walking
<1>2. /\ a \in Nat /\ b \in Nat /\ i \in Nat /\ n_elements \in Nat
      /\ elements \in [0 .. n_elements - 1 -> Elements] /\ el \in Elements
  BY DEF TypeOK
<1>3. /\ b < n_elements /\ i = b /\ a \in {b, b + 1}
      /\ \A k \in 0 .. n_elements - 1 : k < a => Key(elements[k]) < Key(el)
      /\ \A k \in 0 .. n_elements - 1 : k > b => Key(el) < Key(elements[k])
  BY <1>1, <1>2, Middle DEF SearchInv
<1>4. \A k \in 0 .. n_elements - 1 : elements[k] \in Elements /\ Key(elements[k]) \in Int
  BY <1>2, ElementFacts
<1>5. Key(el) \in Int /\ elements[i] \in Elements
  BY <1>2, <1>3, <1>4, ElementFacts
<1>6. i' = IF Key(el) > Key(elements[i]) THEN i + 1 ELSE i
  BY <1>1, <1>2, <1>5, CmpFacts DEF Place
<1>7. i' \in Nat /\ i' <= n_elements
      /\ \A k \in 0 .. n_elements - 1 : k < i' <=> Key(elements[k]) < Key(el)
  BY <1>2, <1>3, <1>4, <1>5, <1>6
<1>8. TypeOK'
  BY <1>1, <1>2, <1>7 DEF TypeOK
<1>9. SearchInv' /\ SearchRight'
  BY <1>1, <1>7 DEF SearchInv, SearchRight
<1>10. Sorted' /\ (n_elements < size)' /\ WalkInv'
  BY <1>1 DEF Sorted, WalkInv, Last, BeforeLast
<1> QED BY <1>8, <1>9, <1>10
-----------------------------------------------------------------------------
(* Where a search that ended has come to.                                  *)
LEMMA FoundFacts ==
  ASSUME IndInv, pc = "found"
  PROVE  /\ n_elements \in Nat /\ i \in 0 .. n_elements /\ el \in Elements /\ size \in Nat
         /\ elements \in [0 .. n_elements - 1 -> Elements]
         /\ \A k \in 0 .. n_elements - 1 : elements[k] \in Elements /\ Key(elements[k]) \in Int
         /\ Key(el) \in Int
         /\ \A k \in 0 .. n_elements - 1 : k < i <=> Key(elements[k]) < Key(el)
         /\ Found <=> i < n_elements /\ Key(elements[i]) = Key(el)
<1>1. /\ n_elements \in Nat /\ i \in 0 .. n_elements /\ el \in Elements /\ size \in Nat
      /\ elements \in [0 .. n_elements - 1 -> Elements]
      /\ \A k \in 0 .. n_elements - 1 : k < i <=> Key(elements[k]) < Key(el)
  BY DEF IndInv, TypeOK, SearchRight
<1>2. /\ \A k \in 0 .. n_elements - 1 : elements[k] \in Elements /\ Key(elements[k]) \in Int
      /\ Key(el) \in Int
  BY <1>1, ElementFacts
<1>3. Found <=> i < n_elements /\ Key(elements[i]) = Key(el)
  BY <1>1, <1>2, CmpFacts DEF Found
<1> QED BY <1>1, <1>2, <1>3

(* The search for the last element finds it.                               *)
LEMMA AtLast ==
  ASSUME IndInv, pc = "found", n_elements > 0, el = elements[n_elements - 1]
  PROVE  i = n_elements - 1
<1> USE FoundFacts
<1>1. ~(n_elements - 1 < i)
  <2>1. n_elements - 1 \in 0 .. n_elements - 1 /\ ~(Key(el) < Key(el))
    OBVIOUS
  <2> QED BY <2>1
<1>2. ASSUME i < n_elements - 1 PROVE FALSE
  <2>1. i \in 0 .. n_elements - 1 /\ n_elements - 1 \in 0 .. n_elements - 1
    BY <1>2
  <2>2. Key(elements[i]) < Key(elements[n_elements - 1])
    BY <1>2, <2>1 DEF IndInv, Sorted
  <2> QED BY <2>1, <2>2
<1> QED BY <1>1, <1>2

(* A call that finds and changes nothing.                                  *)
LEMMA LookStep ==
  ASSUME IndInv, pc = "found", pc' = "idle", Find \/ Iter, UNCHANGED <<op, el, search, iter>>
  PROVE  IndInv'
<1>1. ret' \in Elements \union {NoElem}
  BY FoundFacts DEF Find, Iter
<1>2. UNCHANGED <<elements, n_elements, size, op, el, a, b, i, walk, iter, tmp>>
  BY DEF Find, Iter, array, search
<1>3. walk = "no"
  BY DEF IndInv, TypeOK, WalkInv, Find, Iter
<1>4. TypeOK'
  BY <1>1, <1>2 DEF IndInv, TypeOK
<1>5. Sorted' /\ (n_elements < size)' /\ SearchInv' /\ SearchRight' /\ WalkInv'
  BY <1>2, <1>3 DEF IndInv, Sorted, SearchInv, SearchRight, WalkInv
<1> QED BY <1>4, <1>5 DEF IndInv

(* ord_set_insert: the new element fits between its neighbours.            *)
LEMMA InsertStep ==
  ASSUME IndInv, pc = "found", pc' = "idle", Insert, UNCHANGED <<op, el, search, iter>>
  PROVE  IndInv'
<1> USE FoundFacts
<1>1. walk = "no" /\ walk' = "no" /\ tmp' = tmp
  BY DEF IndInv, TypeOK, WalkInv, Insert
<1>2. UNCHANGED <<op, el, a, b, i, iter>>
  BY DEF search
<1>3. CASE Found
  <2>1. /\ n_elements' = n_elements /\ size' = size /\ i < n_elements
        /\ elements' = [elements EXCEPT ![i] = IF op = "override" THEN el ELSE @]
        /\ ret' = elements'[i]
    BY <1>3 DEF Insert
  <2>2. /\ elements' \in [0 .. n_elements - 1 -> Elements]
        /\ \A k \in 0 .. n_elements - 1 : Key(elements'[k]) = Key(elements[k])
    BY <1>3, <2>1
  <2>3. ret' \in Elements
    BY <2>1, <2>2
  <2>4. TypeOK'
    BY <1>1, <1>2, <2>1, <2>2, <2>3, SMTT(30) DEF IndInv, TypeOK
  <2>5. Sorted'
    BY <2>1, <2>2 DEF IndInv, Sorted
  <2> QED BY <1>1, <1>2, <2>1, <2>4, <2>5 DEF IndInv, SearchInv, SearchRight, WalkInv
<1>4. CASE ~Found
  <2>1. /\ n_elements' = n_elements + 1 /\ size' = Grow /\ elements' = InsertAt(el)
        /\ ret' = elements'[i]
    BY <1>4 DEF Insert
  <2>2. /\ elements' \in [0 .. n_elements' - 1 -> Elements]
        /\ \A k \in 0 .. n_elements : k < i => elements'[k] = elements[k]
        /\ elements'[i] = el
        /\ \A k \in 0 .. n_elements : k > i => elements'[k] = elements[k - 1]
    BY <2>1, SMTT(30) DEF InsertAt
  <2>3. size' \in Nat /\ n_elements' < size'
    BY <2>1, OrdSetAssumption, SMTT(30) DEF Grow, IndInv
  <2>4. TypeOK'
    BY <1>1, <1>2, <2>1, <2>2, <2>3, SMTT(30) DEF IndInv, TypeOK
  <2>5. Sorted'
    <3>1. \A k \in 0 .. n_elements - 1 : k >= i => Key(el) < Key(elements[k])
      BY <1>4 DEF IndInv, Sorted
    <3>2. SUFFICES ASSUME NEW j \in 0 .. n_elements, NEW k \in 0 .. n_elements, j < k
                   PROVE  Key(elements'[j]) < Key(elements'[k])
      BY <2>1 DEF Sorted
    <3>3. CASE k < i
      BY <2>2, <3>2, <3>3 DEF IndInv, Sorted
    <3>4. CASE k = i
      BY <2>2, <3>2, <3>4
    <3>5. CASE k > i /\ j = i
      BY <2>2, <3>1, <3>5
    <3>6. CASE k > i /\ j > i
      <4>1. j - 1 \in 0 .. n_elements - 1 /\ k - 1 \in 0 .. n_elements - 1 /\ j - 1 < k - 1
        BY <3>2, <3>6
      <4>2. Key(elements[j - 1]) < Key(elements[k - 1])
        BY <4>1 DEF IndInv, Sorted
      <4> QED BY <2>2, <3>6, <4>2
    <3>7. CASE k > i /\ j < i
      <4>1. Key(elements[j]) < Key(el) /\ Key(el) < Key(elements[k - 1])
        BY <3>1, <3>7
      <4> QED BY <2>2, <3>7, <4>1
    <3> QED BY <3>3, <3>4, <3>5, <3>6, <3>7
  <2> QED BY <1>1, <1>2, <2>3, <2>4, <2>5 DEF IndInv, SearchInv, SearchRight, WalkInv
<1> QED BY <1>3, <1>4

(* ord_set_remove: the rest closes up, and a walk stands before the new    *)
(* last element.                                                           *)
LEMMA RemoveStep ==
  ASSUME IndInv, pc = "found", pc' = "idle", Remove, UNCHANGED <<op, el, search, iter>>
  PROVE  IndInv'
<1> USE FoundFacts
<1>1. walk \in {"no", "removing"} /\ tmp' = tmp /\ size' = size
  BY DEF IndInv, TypeOK, WalkInv, Remove
<1>2. UNCHANGED <<op, el, a, b, i, iter>>
  BY DEF search
<1>3. CASE Found
  <2>1. /\ n_elements' = n_elements - 1 /\ elements' = RemoveAt /\ ret' = elements[i]
        /\ i < n_elements
    BY <1>3 DEF Remove
  <2>2. /\ n_elements' \in Nat /\ ret' \in Elements
        /\ elements' \in [0 .. n_elements' - 1 -> Elements]
        /\ \A k \in 0 .. n_elements - 2 : k < i => elements'[k] = elements[k]
        /\ \A k \in 0 .. n_elements - 2 : k >= i => elements'[k] = elements[k + 1]
    <3>1. n_elements' \in Nat /\ ret' \in Elements
      BY <2>1
    <3>2. elements' = [k \in 0 .. n_elements - 2 |-> IF k < i THEN elements[k] ELSE elements[k + 1]]
      BY <2>1 DEF RemoveAt
    <3>3. \A k \in 0 .. n_elements - 2 : k \in 0 .. n_elements - 1 /\ k + 1 \in 0 .. n_elements - 1
      BY <2>1
    <3>4. elements' \in [0 .. n_elements - 2 -> Elements]
      BY <3>2, <3>3
    <3> QED BY <2>1, <3>1, <3>2, <3>4
  <2>3. TypeOK'
    BY <1>1, <1>2, <2>1, <2>2 DEF IndInv, TypeOK, Remove
  <2>4. Sorted'
    <3>1. SUFFICES ASSUME NEW j \in 0 .. n_elements - 2, NEW k \in 0 .. n_elements - 2, j < k
                   PROVE  Key(elements'[j]) < Key(elements'[k])
      BY <2>1 DEF Sorted
    <3>2. CASE k < i
      <4>1. j \in 0 .. n_elements - 1 /\ k \in 0 .. n_elements - 1 /\ j < i
        BY <3>1, <3>2
      <4> QED BY <2>2, <3>1, <3>2, <4>1 DEF IndInv, Sorted
    <3>3. CASE k >= i /\ j >= i
      <4>1. j + 1 \in 0 .. n_elements - 1 /\ k + 1 \in 0 .. n_elements - 1 /\ j + 1 < k + 1
        BY <3>1
      <4> QED BY <2>2, <3>1, <3>3, <4>1 DEF IndInv, Sorted
    <3>4. CASE k >= i /\ j < i
      <4>1. j \in 0 .. n_elements - 1 /\ k + 1 \in 0 .. n_elements - 1 /\ j < k + 1
        BY <3>1
      <4> QED BY <2>2, <3>1, <3>4, <4>1 DEF IndInv, Sorted
    <3> QED BY <3>2, <3>3, <3>4
  <2>5. WalkInv'
    <3>1. CASE walk = "no"
      BY <3>1 DEF Remove, WalkInv
    <3>2. CASE walk = "removing"
      <4>1. walk' = "step" /\ n_elements > 0 /\ el = elements[n_elements - 1] /\ tmp = BeforeLast
        BY <3>2 DEF Remove, IndInv, WalkInv, Last
      <4>2. i = n_elements - 1
        BY <4>1, AtLast
      <4>3. tmp = Last'
        BY <2>1, <2>2, <4>1, <4>2 DEF Last, BeforeLast
      <4> QED BY <1>1, <4>1, <4>3 DEF WalkInv
    <3> QED BY <1>1, <3>1, <3>2
  <2> QED BY <1>1, <2>1, <2>3, <2>4, <2>5 DEF IndInv, SearchInv, SearchRight
<1>4. CASE ~Found
  <2>1. n_elements' = n_elements /\ elements' = elements /\ ret' = NoElem
    BY <1>4 DEF Remove
  <2>2. walk = "no"
    <3>1. CASE walk = "removing"
      <4>1. n_elements > 0 /\ el = elements[n_elements - 1]
        BY <3>1 DEF IndInv, WalkInv, Last
      <4>2. i = n_elements - 1
        BY <4>1, AtLast
      <4> QED BY <1>4, <4>1, <4>2
    <3> QED BY <1>1, <3>1
  <2>3. walk' = "no"
    BY <2>2 DEF Remove
  <2>4. TypeOK'
    BY <1>1, <1>2, <2>1, <2>3 DEF IndInv, TypeOK
  <2> QED BY <1>1, <2>1, <2>3, <2>4 DEF IndInv, Sorted, SearchInv, SearchRight, WalkInv
<1> QED BY <1>3, <1>4

(* ord_set_iter_safe: behind the last element comes the one before it.     *)
LEMMA IterSafeStep ==
  ASSUME IndInv, pc = "found", pc' = "idle", IterSafe, UNCHANGED <<op, el, search, iter>>
  PROVE  IndInv'
<1> USE FoundFacts
<1>1. /\ walk = "stepping" /\ walk' = "body" /\ tmp' = Prev /\ ret' = Prev
      /\ UNCHANGED <<elements, n_elements, size, op, el, a, b, i, iter>>
  BY DEF IndInv, TypeOK, WalkInv, IterSafe, array, search, UserOps
<1>2. n_elements > 0 /\ el = elements[n_elements - 1] /\ iter = Last
  BY <1>1 DEF IndInv, WalkInv, Last
<1>3. i = n_elements - 1
  BY <1>2, AtLast
<1>4. Prev = BeforeLast /\ Prev \in Elements \union {NoElem}
  BY <1>2, <1>3 DEF Prev, BeforeLast
<1>5. TypeOK'
  BY <1>1, <1>4 DEF IndInv, TypeOK
<1>6. WalkInv'
  BY <1>1, <1>2, <1>4 DEF WalkInv, Last, BeforeLast
<1> QED BY <1>1, <1>5, <1>6 DEF IndInv, Sorted, SearchInv, SearchRight
-----------------------------------------------------------------------------
(* What begins a search keeps the array, so only the walk is to be looked at. *)
LEMMA CallStep ==
  ASSUME IndInv, NEW o \in UserOps, NEW e \in Elements, Call(o, e)
  PROVE  IndInv'
<1>1. o \in Ops /\ Begin(o, e) /\ walk = "no" /\ UNCHANGED <<walk, iter, tmp>>
  BY DEF Call, walking, Ops
<1> USE <1>1, BeginSearch
<1>2. TypeOK'
  BY DEF IndInv, TypeOK
<1>3. Sorted' /\ (n_elements < size)'
  BY DEF IndInv, Sorted
<1>4. WalkInv'
  BY DEF WalkInv
<1> QED BY <1>2, <1>3, <1>4 DEF IndInv

LEMMA WalkBodyStep == ASSUME IndInv, WalkBody PROVE IndInv'
<1>1. /\ walk = "body" /\ walk' = "removing" /\ UNCHANGED <<iter, tmp>> /\ Begin("remove", iter)
      /\ n_elements > 0 /\ iter = Last /\ tmp = BeforeLast
  BY DEF WalkBody, IndInv, WalkInv
<1>2. "remove" \in Ops /\ iter \in Elements
  BY <1>1 DEF Ops, UserOps, IndInv, TypeOK, Last
<1> USE <1>1, <1>2, BeginSearch
<1>3. TypeOK'
  BY DEF IndInv, TypeOK
<1>4. Sorted' /\ (n_elements < size)'
  BY DEF IndInv, Sorted
<1>5. WalkInv'
  BY DEF WalkInv, Last, BeforeLast
<1> QED BY <1>3, <1>4, <1>5 DEF IndInv

LEMMA WalkStepStep == ASSUME IndInv, WalkStep PROVE IndInv'
<1>1. /\ walk = "step" /\ walk' = "stepping" /\ iter' = tmp /\ tmp' = tmp /\ Begin("prev", tmp)
      /\ tmp = Last /\ n_elements > 0
  BY DEF WalkStep, IndInv, WalkInv, Last
<1>2. "prev" \in Ops /\ tmp \in Elements
  BY <1>1 DEF Ops, IndInv, TypeOK, Last
<1> USE <1>1, <1>2, BeginSearch
<1>3. TypeOK'
  BY DEF IndInv, TypeOK
<1>4. Sorted' /\ (n_elements < size)'
  BY DEF IndInv, Sorted
<1>5. WalkInv'
  BY DEF WalkInv, Last
<1> QED BY <1>3, <1>4, <1>5 DEF IndInv

(* The steps of the walk that search nothing.                              *)
LEMMA WalkStartStep == ASSUME IndInv, WalkStart PROVE IndInv'
<1>1. /\ pc = "idle" /\ walk = "no" /\ iter' = Last /\ tmp' = BeforeLast
      /\ walk' = (IF n_elements > 0 THEN "body" ELSE "end")
      /\ UNCHANGED <<elements, n_elements, size, pc, op, el, a, b, i, ret>>
  BY DEF WalkStart, array, search, Last, BeforeLast
<1>2. Last \in Elements \union {NoElem} /\ BeforeLast \in Elements \union {NoElem}
  BY DEF IndInv, TypeOK, Last, BeforeLast
<1>3. TypeOK'
  BY <1>1, <1>2 DEF IndInv, TypeOK
<1>4. WalkInv'
  BY <1>1 DEF IndInv, TypeOK, WalkInv, Last, BeforeLast
<1> QED BY <1>1, <1>3, <1>4 DEF IndInv, Sorted, SearchInv, SearchRight

LEMMA IterFirstStep == ASSUME IndInv, IterFirst PROVE IndInv'
<1>1. ret' = First
      /\ UNCHANGED <<elements, n_elements, size, pc, op, el, a, b, i, walk, iter, tmp>>
  BY DEF IterFirst, array, search, walking
<1>2. First \in Elements \union {NoElem}
  BY DEF IndInv, TypeOK, First
<1>3. TypeOK'
  BY <1>1, <1>2 DEF IndInv, TypeOK
<1>4. WalkInv'
  BY <1>1 DEF IndInv, WalkInv, Last, BeforeLast
<1> QED BY <1>1, <1>3, <1>4 DEF IndInv, Sorted, SearchInv, SearchRight

LEMMA WalkEndStep == ASSUME IndInv, WalkEnd PROVE IndInv'
<1>1. /\ walk = "step" /\ tmp = NoElem /\ iter' = NoElem /\ walk' = "end"
      /\ UNCHANGED <<elements, n_elements, size, pc, op, el, a, b, i, ret, tmp>>
  BY DEF WalkEnd, array, search
<1>2. n_elements = 0 /\ pc = "idle"
  <2>1. tmp = Last /\ pc = "idle"
    BY <1>1 DEF IndInv, WalkInv
  <2> QED BY <1>1, <2>1, ElementFacts DEF IndInv, TypeOK, Last
<1>3. TypeOK'
  BY <1>1 DEF IndInv, TypeOK
<1> QED BY <1>1, <1>2, <1>3 DEF IndInv, Sorted, SearchInv, SearchRight, WalkInv

LEMMA DestroyStep == ASSUME IndInv, Destroy PROVE IndInv'
<1>1. /\ pc = "idle" /\ walk' = "no" /\ elements' = NoElements /\ n_elements' = 0
      /\ size' = InitSize
      /\ UNCHANGED <<pc, op, el, a, b, i, ret, iter, tmp>>
  BY DEF Destroy, search, IndInv, WalkInv
<1>2. TypeOK'
  BY <1>1, OrdSetAssumption DEF IndInv, TypeOK, NoElements
<1> QED BY <1>1, <1>2, OrdSetAssumption DEF IndInv, Sorted, SearchInv, SearchRight, WalkInv

(* Stuttering.                                                             *)
LEMMA StutterStep == ASSUME IndInv, UNCHANGED vars PROVE IndInv'
<1>1. UNCHANGED <<elements, n_elements, size, pc, op, el, a, b, i, ret, walk, iter, tmp>>
  BY DEF vars
<1>2. TypeOK'
  BY <1>1 DEF IndInv, TypeOK
<1>3. Sorted' /\ (n_elements < size)' /\ SearchInv' /\ SearchRight'
  BY <1>1 DEF IndInv, Sorted, SearchInv, SearchRight
<1>4. WalkInv'
  BY <1>1 DEF IndInv, WalkInv, Last, BeforeLast
<1> QED BY <1>2, <1>3, <1>4 DEF IndInv

-----------------------------------------------------------------------------
(* Whatever calls are made of it, an ordered set of ord_set.c keeps IndInv.*)
THEOREM Invariance == Spec => []IndInv
<1>1. Init => IndInv
  BY InitInv
<1>2. IndInv /\ [Next]_vars => IndInv'
  <2> SUFFICES ASSUME IndInv, [Next]_vars PROVE IndInv'
    OBVIOUS
  <2>1. ASSUME NEW o \in UserOps, NEW e \in Elements, Call(o, e) PROVE IndInv'
    BY <2>1, CallStep
  <2>2. CASE Loop
    BY <2>2, LoopStep
  <2>3. CASE LoopEnd
    BY <2>3, LoopEndStep
  <2>4. CASE Finish
    <3>1. pc = "found" /\ pc' = "idle" /\ UNCHANGED <<op, el, search, iter>>
      BY <2>4 DEF Finish
    <3>2. CASE Find \/ Iter
      BY <3>1, <3>2, LookStep
    <3>3. CASE Insert
      BY <3>1, <3>3, InsertStep
    <3>4. CASE Remove
      BY <3>1, <3>4, RemoveStep
    <3>5. CASE IterSafe
      BY <3>1, <3>5, IterSafeStep
    <3> QED BY <2>4, <3>2, <3>3, <3>4, <3>5 DEF Finish
  <2>5. CASE WalkStart
    BY <2>5, WalkStartStep
  <2>6. CASE WalkBody
    BY <2>6, WalkBodyStep
  <2>7. CASE WalkStep
    BY <2>7, WalkStepStep
  <2>8. CASE WalkEnd
    BY <2>8, WalkEndStep
  <2>9. CASE Destroy
    BY <2>9, DestroyStep
  <2>10. CASE IterFirst
    BY <2>10, IterFirstStep
  <2>11. CASE UNCHANGED vars
    BY <2>11, StutterStep
  <2> QED BY <2>1, <2>2, <2>3, <2>4, <2>5, <2>6, <2>7, <2>8, <2>9, <2>10, <2>11 DEF Next
<1> QED BY <1>1, <1>2, PTL DEF Spec

(* The variables of ord_set.c keep their types.                            *)
THEOREM TypeCorrect == Spec => []TypeOK
<1>1. IndInv => TypeOK
  BY DEF IndInv
<1> QED BY <1>1, Invariance, PTL

(* ord_set_insert and ord_set_remove keep the keys strictly increasing.    *)
THEOREM KeysIncrease == Spec => []Sorted
<1>1. IndInv => Sorted
  BY DEF IndInv
<1> QED BY <1>1, Invariance, PTL

(* ord_set_check_pos returns the first place whose key is not smaller.     *)
THEOREM SearchCorrect == Spec => []SearchRight
<1>1. IndInv => SearchRight
  BY DEF IndInv
<1> QED BY <1>1, Invariance, PTL

(* ord_set_check_pos and ord_set_insert stay inside the array.             *)
THEOREM ArrayRespected == Spec => []InBounds
<1>1. IndInv => InBounds
  <2> SUFFICES ASSUME IndInv, pc = "loop" PROVE i < n_elements
    BY DEF IndInv, InBounds
  <2>1. /\ a \in Nat /\ b \in Nat /\ n_elements \in Nat /\ b < n_elements /\ a <= b + 1
        /\ i = (b + a) \div 2
    BY DEF IndInv, TypeOK, SearchInv
  <2> QED BY <2>1, Middle
<1> QED BY <1>1, Invariance, PTL

(* The walk of packet_bucket_destroy and network_manager_destroy frees all.*)
THEOREM WalkComplete == Spec => []WalkFreesAll
<1>1. IndInv => WalkFreesAll
  BY DEF IndInv, WalkInv, WalkFreesAll
<1> QED BY <1>1, Invariance, PTL
-----------------------------------------------------------------------------
(***************************************************************************)
(* The refinement of KeyedSet.  A call of ord_set_iter goes on from an     *)
(* element of the set, and nothing removes that element meanwhile.         *)
(***************************************************************************)
IterInv == op = "iter" /\ pc # "idle" => \E k \in 0 .. n_elements - 1 : elements[k] = el

Content == {elements[k] : k \in 0 .. n_elements - 1}

(* ord_set_iter is called with an element, and has it until it returns.    *)
THEOREM IterInvariance == Spec => []IterInv
<1>1. Init => IterInv
  BY DEF Init, IterInv
<1>2. IndInv /\ IterInv /\ [Next]_vars => IterInv'
  <2> SUFFICES ASSUME IndInv, IterInv, [Next]_vars PROVE IterInv'
    OBVIOUS
  <2>1. ASSUME NEW o \in UserOps, NEW e \in Elements, Call(o, e) PROVE IterInv'
    BY <2>1 DEF Call, Begin, IterInv
  <2>2. CASE Loop \/ LoopEnd
    BY <2>2 DEF Loop, LoopEnd, IterInv, array
  <2>3. CASE Finish
    BY <2>3 DEF Finish, IterInv
  <2>4. CASE WalkStart \/ WalkEnd
    BY <2>4 DEF WalkStart, WalkEnd, IterInv, array
  <2>5. CASE WalkBody \/ WalkStep
    BY <2>5 DEF WalkBody, WalkStep, Begin, IterInv
  <2>6. CASE Destroy
    BY <2>6 DEF Destroy, IterInv, IndInv, WalkInv
  <2>7. CASE IterFirst
    BY <2>7 DEF IterFirst, IterInv
  <2>8. CASE UNCHANGED vars
    BY <2>8 DEF vars, IterInv
  <2> QED BY <2>1, <2>2, <2>3, <2>4, <2>5, <2>6, <2>7, <2>8 DEF Next
<1> QED BY <1>1, <1>2, Invariance, PTL DEF Spec

(* The element of a set that has one, and of a set that has none.          *)
LEMMA SoleFacts ==
  /\ \A x : Abstract!Sole({x}) = x
  /\ Abstract!Sole({}) = NoElem
  BY DEF Abstract!Sole, Abstract!NoElem, NoElem

(* The elements of the call's key: the one found, or none.                 *)
LEMMA SameKey ==
  ASSUME IndInv, pc = "found"
  PROVE  Abstract!Same(el) = IF Found THEN {elements[i]} ELSE {}
<1> USE FoundFacts
<1>1. Abstract!Same(el) = {x \in Content : Key(x) = Key(el)}
  BY DEF Abstract!Same, Abstract!Key, Key, Content
<1>2. ASSUME NEW k \in 0 .. n_elements - 1, Key(elements[k]) = Key(el)
      PROVE  Found /\ k = i
  <2>1. ~(k < i)
    BY <1>2
  <2>2. i \in 0 .. n_elements - 1
    BY <2>1
  <2>3. ~(i < k)
    BY <1>2, <2>2 DEF IndInv, Sorted
  <2> QED BY <1>2, <2>1, <2>2, <2>3
<1>3. Found => i \in 0 .. n_elements - 1 /\ elements[i] \in Content /\ Key(elements[i]) = Key(el)
  BY DEF Content
<1> QED BY <1>1, <1>2, <1>3 DEF Content

(* ord_set_iter: the next element is the lowest above.                     *)
LEMMA NextAbove ==
  ASSUME IndInv, IterInv, pc = "found", op = "iter"
  PROVE  Abstract!Lowest(Abstract!Above(el))
           = IF i < n_elements - 1 THEN elements[i + 1] ELSE NoElem
<1> USE FoundFacts
<1> DEFINE Up == {elements[k] : k \in i + 1 .. n_elements - 1}
           Low == {x \in Up : \A y \in Up : Key(x) <= Key(y)}
<1>1. PICK k0 \in 0 .. n_elements - 1 : elements[k0] = el
  BY DEF IterInv
<1>2. Found /\ k0 = i
  <2>1. ~(k0 < i)
    BY <1>1
  <2>2. i \in 0 .. n_elements - 1
    BY <2>1
  <2>3. ~(i < k0)
    BY <1>1, <2>2 DEF IndInv, Sorted
  <2> QED BY <1>1, <2>1, <2>2, <2>3
<1>3. i \in 0 .. n_elements - 1 /\ Key(elements[i]) = Key(el)
  BY <1>2
<1>4. \A k \in 0 .. n_elements - 1 : Key(elements[k]) > Key(el) <=> k > i
  <2>1. ASSUME NEW k \in 0 .. n_elements - 1, k > i PROVE Key(elements[k]) > Key(el)
    BY <1>3, <2>1 DEF IndInv, Sorted
  <2>2. ASSUME NEW k \in 0 .. n_elements - 1, ~(k > i) PROVE ~(Key(elements[k]) > Key(el))
    <3>1. k = i \/ Key(elements[k]) < Key(el)
      BY <2>2
    <3> QED BY <1>3, <3>1
  <2> QED BY <2>1, <2>2
<1>5. Abstract!Above(el) = Up
  <2>1. Abstract!Above(el) = {x \in Content : Key(x) > Key(el)}
    BY DEF Abstract!Above, Abstract!Key, Key, Content
  <2> QED BY <2>1, <1>4 DEF Content
<1>6. Abstract!Lowest(Up) = Abstract!Sole(Low)
  BY DEF Abstract!Lowest, Abstract!Key, Key
<1>7. CASE i < n_elements - 1
  <2>1. i + 1 \in i + 1 .. n_elements - 1 /\ i + 1 \in 0 .. n_elements - 1
    BY <1>7
  <2>2. \A k \in i + 1 .. n_elements - 1 :
          k \in 0 .. n_elements - 1 /\ (k = i + 1 \/ Key(elements[i + 1]) < Key(elements[k]))
    BY <2>1, SMTT(30) DEF IndInv, Sorted
  <2>3. Low = {elements[i + 1]}
    <3>1. elements[i + 1] \in Low
      BY <2>1, <2>2
    <3>2. ASSUME NEW x \in Low PROVE x = elements[i + 1]
      <4>1. PICK k \in i + 1 .. n_elements - 1 : x = elements[k]
        OBVIOUS
      <4>2. Key(elements[k]) <= Key(elements[i + 1])
        BY <2>1, <4>1
      <4> QED BY <2>1, <2>2, <4>1, <4>2
    <3> QED BY <3>1, <3>2
  <2> QED BY <1>5, <1>6, <1>7, <2>3, SoleFacts
<1>8. CASE ~(i < n_elements - 1)
  <2>1. Low = {}
    BY <1>8
  <2> QED BY <1>5, <1>6, <1>8, <2>1, SoleFacts
<1> QED BY <1>7, <1>8

(* ord_set_iter from the start: the first element is the lowest.           *)
LEMMA FirstLowest ==
  ASSUME IndInv
  PROVE  Abstract!Lowest(Content) = First
<1> DEFINE Low == {x \in Content : \A y \in Content : Key(x) <= Key(y)}
<1>1. Abstract!Lowest(Content) = Abstract!Sole(Low)
  BY DEF Abstract!Lowest, Abstract!Key, Key
<1>2. /\ n_elements \in Nat
      /\ \A k \in 0 .. n_elements - 1 : elements[k] \in Elements /\ Key(elements[k]) \in Int
  BY OrdSetAssumption DEF IndInv, TypeOK, Elements, Key
<1>3. CASE n_elements > 0
  <2>1. 0 \in 0 .. n_elements - 1
    BY <1>2, <1>3
  <2>2. \A k \in 0 .. n_elements - 1 : k = 0 \/ Key(elements[0]) < Key(elements[k])
    BY <1>2, <2>1, SMTT(30) DEF IndInv, Sorted
  <2>3. Low = {elements[0]}
    <3>1. elements[0] \in Low
      BY <1>2, <2>1, <2>2 DEF Content
    <3>2. ASSUME NEW x \in Low PROVE x = elements[0]
      <4>1. PICK k \in 0 .. n_elements - 1 : x = elements[k]
        BY DEF Content
      <4>2. Key(elements[k]) <= Key(elements[0])
        BY <2>1, <4>1 DEF Content
      <4> QED BY <1>2, <2>1, <2>2, <4>1, <4>2
    <3> QED BY <3>1, <3>2
  <2> QED BY <1>1, <1>3, <2>3, SoleFacts DEF First
<1>4. CASE ~(n_elements > 0)
  <2>1. Low = {}
    BY <1>2, <1>4 DEF Content
  <2> QED BY <1>1, <1>4, <2>1, SoleFacts DEF First
<1> QED BY <1>3, <1>4

(* ord_set_iter_safe: the element before is the highest below.             *)
LEMMA PrevBelow ==
  ASSUME IndInv, pc = "found"
  PROVE  Abstract!Highest(Abstract!Below(el)) = Prev
<1> USE FoundFacts
<1> DEFINE Down == {elements[k] : k \in 0 .. i - 1}
           High == {x \in Down : \A y \in Down : Key(x) >= Key(y)}
<1>1. Abstract!Below(el) = Down
  <2>1. Abstract!Below(el) = {x \in Content : Key(x) < Key(el)}
    BY DEF Abstract!Below, Abstract!Key, Key, Content
  <2> QED BY <2>1 DEF Content
<1>2. Abstract!Highest(Down) = Abstract!Sole(High)
  BY DEF Abstract!Highest, Abstract!Key, Key
<1>3. CASE i > 0
  <2>1. i - 1 \in 0 .. i - 1 /\ i - 1 \in 0 .. n_elements - 1
    BY <1>3
  <2>2. \A k \in 0 .. i - 1 :
          k \in 0 .. n_elements - 1 /\ (k = i - 1 \/ Key(elements[k]) < Key(elements[i - 1]))
    BY <2>1, SMTT(30) DEF IndInv, Sorted
  <2>3. High = {elements[i - 1]}
    <3>1. elements[i - 1] \in High
      <4>1. \A k \in 0 .. i - 1 : Key(elements[i - 1]) >= Key(elements[k])
        BY <2>1, <2>2
      <4> QED BY <2>1, <4>1
    <3>2. ASSUME NEW x \in High PROVE x = elements[i - 1]
      <4>1. PICK k \in 0 .. i - 1 : x = elements[k]
        OBVIOUS
      <4>2. Key(elements[k]) >= Key(elements[i - 1])
        BY <2>1, <4>1
      <4> QED BY <2>1, <2>2, <4>1, <4>2
    <3> QED BY <3>1, <3>2
  <2> QED BY <1>1, <1>2, <1>3, <2>3, SoleFacts DEF Prev
<1>4. CASE ~(i > 0)
  <2>1. High = {}
    BY <1>4
  <2> QED BY <1>1, <1>2, <1>4, <2>1, SoleFacts DEF Prev
<1> QED BY <1>3, <1>4
-----------------------------------------------------------------------------
(* What a call makes of the content when it returns.                       *)
LEMMA InsertContent ==
  ASSUME IndInv, pc = "found", Insert
  PROVE  /\ ret' = IF Found /\ op = "insert" THEN elements[i] ELSE el
         /\ Content' = (IF Found /\ op = "override" THEN Content \ {elements[i]} ELSE Content)
                         \union {ret'}
<1> USE FoundFacts
<1>1. op \in {"insert", "override"} /\ ret' = elements'[i]
  BY DEF Insert
<1>2. CASE Found /\ op = "insert"
  <2>1. n_elements' = n_elements /\ i \in 0 .. n_elements - 1
        /\ elements' = [elements EXCEPT ![i] = elements[i]]
    BY <1>2 DEF Insert
  <2>2. elements' = elements
    BY <2>1
  <2> QED BY <1>1, <1>2, <2>1, <2>2 DEF Content
<1>3. CASE Found /\ op = "override"
  <2>1. n_elements' = n_elements /\ elements' = [elements EXCEPT ![i] = el] /\ i \in 0 .. n_elements - 1
    BY <1>3 DEF Insert
  <2>2. \A k \in 0 .. n_elements - 1 : elements'[k] = IF k = i THEN el ELSE elements[k]
    BY <2>1
  <2>3. \A k \in 0 .. n_elements - 1 : k # i => elements[k] # elements[i]
    BY <2>1, SMTT(30) DEF IndInv, Sorted
  <2>4. Content' = {elements'[k] : k \in 0 .. n_elements - 1}
    BY <2>1 DEF Content
  <2>5. Content' = (Content \ {elements[i]}) \union {el}
    <3>1. ASSUME NEW x \in Content' PROVE x \in (Content \ {elements[i]}) \union {el}
      BY <2>2, <2>3, <2>4 DEF Content
    <3>2. ASSUME NEW x \in Content, x # elements[i] PROVE x \in Content'
      BY <2>2, <2>4, <3>2 DEF Content
    <3>3. el \in Content'
      BY <2>1, <2>2, <2>4
    <3> QED BY <3>1, <3>2, <3>3
  <2> QED BY <1>1, <1>3, <2>1, <2>2, <2>5
<1>4. CASE ~Found
  <2>1. n_elements' = n_elements + 1 /\ elements' = InsertAt(el)
    BY <1>4 DEF Insert
  <2>2. \A k \in 0 .. n_elements :
          elements'[k] = IF k < i THEN elements[k] ELSE IF k = i THEN el ELSE elements[k - 1]
    BY <2>1, SMTT(30) DEF InsertAt
  <2>3. Content' = {elements'[k] : k \in 0 .. n_elements}
    BY <2>1 DEF Content
  <2>4. ASSUME NEW x \in Content' PROVE x \in Content \union {el}
    <3>1. PICK k \in 0 .. n_elements : x = elements'[k]
      BY <2>3
    <3>2. CASE k < i
      <4>1. k \in 0 .. n_elements - 1 /\ x = elements[k]
        BY <2>2, <3>1, <3>2
      <4> QED BY <4>1 DEF Content
    <3>3. CASE k = i
      BY <2>2, <3>1, <3>3
    <3>4. CASE k > i
      <4>1. k - 1 \in 0 .. n_elements - 1 /\ x = elements[k - 1]
        BY <2>2, <3>1, <3>4, SMTT(30)
      <4> QED BY <4>1 DEF Content
    <3> QED BY <3>2, <3>3, <3>4
  <2>5. ASSUME NEW x \in Content PROVE x \in Content'
    <3>1. PICK k \in 0 .. n_elements - 1 : x = elements[k]
      BY DEF Content
    <3>2. CASE k < i
      BY <2>2, <2>3, <3>1, <3>2
    <3>3. CASE ~(k < i)
      <4>1. k + 1 \in 0 .. n_elements /\ ~(k + 1 < i) /\ k + 1 # i /\ (k + 1) - 1 = k
        BY <3>3
      <4>2. elements'[k + 1] = elements[k]
        BY <2>2, <4>1
      <4> QED BY <2>3, <3>1, <4>1, <4>2
    <3> QED BY <3>2, <3>3
  <2>6. elements'[i] = el /\ el \in Content'
    BY <2>2, <2>3
  <2>7. Content' = Content \union {el}
    BY <2>4, <2>5, <2>6
  <2> QED BY <1>1, <1>4, <2>6, <2>7
<1> QED BY <1>1, <1>2, <1>3, <1>4

LEMMA RemoveContent ==
  ASSUME IndInv, pc = "found", Remove
  PROVE  /\ ret' = IF Found THEN elements[i] ELSE NoElem
         /\ Content' = IF Found THEN Content \ {elements[i]} ELSE Content
<1> USE FoundFacts
<1>1. CASE Found
  <2>1. /\ n_elements' = n_elements - 1 /\ elements' = RemoveAt /\ ret' = elements[i]
        /\ i \in 0 .. n_elements - 1
    BY <1>1 DEF Remove
  <2>2. \A k \in 0 .. n_elements - 2 : elements'[k] = IF k < i THEN elements[k] ELSE elements[k + 1]
    BY <2>1 DEF RemoveAt
  <2>3. \A k \in 0 .. n_elements - 1 : k # i => elements[k] # elements[i]
    BY <2>1, SMTT(30) DEF IndInv, Sorted
  <2>4. Content' = {elements'[k] : k \in 0 .. n_elements - 2}
    BY <2>1 DEF Content
  <2>5. ASSUME NEW x \in Content' PROVE x \in Content /\ x # elements[i]
    <3>1. PICK k \in 0 .. n_elements - 2 : x = elements'[k]
      BY <2>4
    <3>2. k \in 0 .. n_elements - 1 /\ k + 1 \in 0 .. n_elements - 1
      BY <2>1
    <3>3. CASE k < i
      <4>1. x = elements[k] /\ k # i
        BY <2>1, <2>2, <3>1, <3>3
      <4> QED BY <2>3, <3>2, <4>1 DEF Content
    <3>4. CASE ~(k < i)
      <4>1. x = elements[k + 1] /\ k + 1 # i
        BY <2>1, <2>2, <3>1, <3>4
      <4> QED BY <2>3, <3>2, <4>1 DEF Content
    <3> QED BY <3>3, <3>4
  <2>6. ASSUME NEW x \in Content, x # elements[i] PROVE x \in Content'
    <3>1. PICK k \in 0 .. n_elements - 1 : x = elements[k]
      BY DEF Content
    <3>2. CASE k < i
      <4>1. k \in 0 .. n_elements - 2
        BY <2>1, <3>2
      <4> QED BY <2>2, <2>4, <3>1, <3>2, <4>1
    <3>3. CASE ~(k < i)
      <4>1. k - 1 \in 0 .. n_elements - 2 /\ ~(k - 1 < i) /\ (k - 1) + 1 = k
        BY <2>1, <2>6, <3>1, <3>3
      <4>2. elements'[k - 1] = elements[k]
        BY <2>2, <4>1
      <4> QED BY <2>4, <3>1, <4>1, <4>2
    <3> QED BY <3>2, <3>3
  <2>7. Content' = Content \ {elements[i]}
    BY <2>5, <2>6
  <2> QED BY <1>1, <2>1, <2>7
<1>2. CASE ~Found
  BY <1>2 DEF Remove, Content
<1> QED BY <1>1, <1>2
-----------------------------------------------------------------------------
(* A call that returns is the abstract call that returns.                  *)
LEMMA FinishReturns ==
  ASSUME IndInv, IterInv, Finish
  PROVE  Abstract!Return
<1> DEFINE Result ==
      \/ op = "find" /\ ret' = Abstract!Sole(Abstract!Same(el)) /\ Content' = Content
      \/ op = "insert"
           /\ ret' = (IF Abstract!Same(el) = {} THEN el ELSE Abstract!Sole(Abstract!Same(el)))
           /\ Content' = Content \union {ret'}
      \/ op = "override" /\ ret' = el /\ Content' = (Content \ Abstract!Same(el)) \union {el}
      \/ op = "remove" /\ ret' = Abstract!Sole(Abstract!Same(el))
                       /\ Content' = Content \ Abstract!Same(el)
      \/ op = "iter" /\ ret' = Abstract!Lowest(Abstract!Above(el)) /\ Content' = Content
      \/ op = "prev" /\ ret' = Abstract!Highest(Abstract!Below(el)) /\ Content' = Content
<1>1. pc = "found" /\ pc' = "idle" /\ UNCHANGED <<op, el>>
  BY DEF Finish
<1>2. Abstract!Same(el) = IF Found THEN {elements[i]} ELSE {}
  BY <1>1, SameKey
<1>3. Abstract!Sole(Abstract!Same(el)) = IF Found THEN elements[i] ELSE NoElem
  BY <1>2, SoleFacts
<1>4. ASSUME Find PROVE Result
  BY <1>3, <1>4 DEF Find, array, Content
<1>5. ASSUME Insert PROVE Result
  <2>1. /\ ret' = IF Found /\ op = "insert" THEN elements[i] ELSE el
        /\ Content' = (IF Found /\ op = "override" THEN Content \ {elements[i]} ELSE Content)
                        \union {ret'}
        /\ op \in {"insert", "override"}
    BY <1>1, <1>5, InsertContent DEF Insert
  <2>2. ASSUME op = "insert" PROVE Result
    BY <1>2, <1>3, <2>1, <2>2
  <2>3. ASSUME op = "override" PROVE Result
    BY <1>2, <2>1, <2>3
  <2> QED BY <2>1, <2>2, <2>3
<1>6. ASSUME Remove PROVE Result
  <2>1. /\ ret' = IF Found THEN elements[i] ELSE NoElem
        /\ Content' = IF Found THEN Content \ {elements[i]} ELSE Content
        /\ op = "remove"
    BY <1>1, <1>6, RemoveContent DEF Remove
  <2> QED BY <1>2, <1>3, <2>1
<1>7. ASSUME Iter PROVE Result
  <2>1. op = "iter" /\ ret' = (IF i < n_elements - 1 THEN elements[i + 1] ELSE NoElem)
        /\ Content' = Content
    BY <1>7 DEF Iter, array, Content
  <2> QED BY <1>1, <2>1, NextAbove
<1>8. ASSUME IterSafe PROVE Result
  <2>1. op = "prev" /\ ret' = Prev /\ Content' = Content
    BY <1>8 DEF IterSafe, array, Content
  <2> QED BY <1>1, <2>1, PrevBelow
<1>9. Result
  BY <1>4, <1>5, <1>6, <1>7, <1>8 DEF Finish
<1> QED BY <1>1, <1>9 DEF Abstract!Return, Content

(* A step that leaves what the users see alone.                            *)
LEMMA Hidden ==
  ASSUME Content' = Content, pc' # "idle" <=> pc # "idle", UNCHANGED <<op, el, ret>>
  PROVE  UNCHANGED Abstract!vars
  BY DEF Abstract!vars, Content

(* The start of a search is the abstract call.                             *)
LEMMA BeginCalls ==
  ASSUME IndInv, NEW o \in Ops, NEW e \in Elements, Begin(o, e)
  PROVE  Abstract!Call
<1>1. pc = "idle" /\ pc' # "idle" /\ op' = o /\ el' = e
      /\ UNCHANGED <<elements, n_elements, size, ret>>
  BY BeginSearch
<1> QED BY <1>1 DEF Abstract!Call, Abstract!Elements, Elements

(* ord_set.c with its array, its binary search and its walk does what      *)
(* packet_bucket.c and network_manager.c take it for: a set with one       *)
(* element per key, which answers each call by what it holds.              *)
THEOREM Refinement == Spec => ImplementsKeyedSet
<1>1. Init => Abstract!Init
  <2> SUFFICES ASSUME Init PROVE Abstract!Init
    OBVIOUS
  <2>1. Content = {}
    BY DEF Init, Content
  <2>2. pc = "idle" /\ op \in Ops /\ el \in Elements /\ ret = NoElem
    BY DEF Init, Ops, UserOps
  <2> QED BY <2>1, <2>2
    DEF Abstract!Init, Content, Abstract!Elements, Elements, Abstract!NoElem, NoElem
<1>2. IndInv /\ IterInv /\ [Next]_vars
        => [Abstract!Call \/ Abstract!Return \/ Abstract!First]_(Abstract!vars)
  <2> SUFFICES ASSUME IndInv, IterInv, [Next]_vars
               PROVE  \/ Abstract!Call \/ Abstract!Return \/ Abstract!First
                      \/ UNCHANGED Abstract!vars
    OBVIOUS
  <2>1. ASSUME NEW o \in UserOps, NEW e \in Elements, Call(o, e) PROVE Abstract!Call
    BY <2>1, BeginCalls DEF Call, Ops
  <2>2. CASE Loop
    BY <2>2, Hidden DEF Loop, array, Content
  <2>3. CASE LoopEnd
    BY <2>3, Hidden DEF LoopEnd, array, Content
  <2>4. CASE Finish
    BY <2>4, FinishReturns
  <2>5. CASE WalkStart
    BY <2>5, Hidden DEF WalkStart, array, Content
  <2>6. CASE WalkBody
    <3>1. Begin("remove", iter) /\ "remove" \in Ops /\ n_elements > 0 /\ iter = Last
      BY <2>6 DEF WalkBody, IndInv, WalkInv, Ops, UserOps
    <3>2. iter \in Elements
      BY <3>1 DEF IndInv, TypeOK, Last
    <3> QED BY <3>1, <3>2, BeginCalls
  <2>7. CASE WalkStep
    <3>1. Begin("prev", tmp) /\ "prev" \in Ops /\ tmp \in Elements
      BY <2>7 DEF WalkStep, IndInv, TypeOK, Ops
    <3> QED BY <3>1, BeginCalls
  <2>8. CASE WalkEnd
    BY <2>8, Hidden DEF WalkEnd, array, Content
  <2>9. CASE Destroy
    <3>1. n_elements = 0 /\ n_elements' = 0 /\ UNCHANGED <<pc, op, el, ret>>
      BY <2>9 DEF Destroy, IndInv, WalkInv
    <3>2. Content = {} /\ Content' = {}
      BY <3>1 DEF Content
    <3> QED BY <3>1, <3>2, Hidden
  <2>10. CASE IterFirst
    <3>1. pc = "idle" /\ ret' = First /\ Content' = Content /\ UNCHANGED <<pc, op, el>>
      BY <2>10 DEF IterFirst, array, Content
    <3>2. ret' = Abstract!Lowest(Content)
      BY <3>1, FirstLowest
    <3> QED BY <3>1, <3>2 DEF Abstract!First, Content
  <2>11. CASE UNCHANGED vars
    BY <2>11, Hidden DEF vars, Content
  <2> QED BY <2>1, <2>2, <2>3, <2>4, <2>5, <2>6, <2>7, <2>8, <2>9, <2>10, <2>11 DEF Next
<1> QED BY <1>1, <1>2, Invariance, IterInvariance, PTL DEF Spec, ImplementsKeyedSet, Abstract!Spec
=============================================================================
