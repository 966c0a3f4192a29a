------------------------ MODULE ChunkOutput_proofs ------------------------
(***************************************************************************)
(* Proofs about ChunkOutput, for every buffer length and every set of      *)
(* chunk ids: the slots of the circular buffer, the order of the output,   *)
(* that no chunk taken in is lost or overwritten, and that output_deliver  *)
(* implements OrderedOutput.                                               *)
(***************************************************************************)
EXTENDS ChunkOutput, TLAPS

(***************************************************************************)
(* Arithmetic modulo the buffer length.                                    *)
(***************************************************************************)

(* Division with remainder, as the provers need it stated.                 *)
LEMMA DivMod == \A n \in Nat \ {0}, k \in Int : k % n = k - n * (k \div n)
OBVIOUS

(* The remainder is a slot number.                                         *)
LEMMA ModRange == \A n \in Nat \ {0}, k \in Int : k % n \in 0 .. n - 1 /\ k \div n \in Int
OBVIOUS

(* The remainder is unique.                                                *)
LEMMA ModUnique ==
  ASSUME NEW n \in Nat \ {0}, NEW p \in Int, NEW q \in Int,
         NEW r \in 0 .. n - 1, NEW s \in 0 .. n - 1, n * p + r = n * q + s
  PROVE  r = s
<1>1. n * (p - q) = s - r
  OBVIOUS
<1>2. p - q = 0
  BY <1>1
<1> QED
  BY <1>1, <1>2

(* Going once around the buffer changes nothing.                           *)
LEMMA ModShift ==
  ASSUME NEW n \in Nat \ {0}, NEW k \in Int
  PROVE  (k + n) % n = k % n
<1> DEFINE q == (k \div n) + 1
           p == (k + n) \div n
           r == k % n
           s == (k + n) % n
<1>1. r = k + n - n * q /\ s = k + n - n * p
  BY DivMod, ModRange
<1>2. r \in 0 .. n - 1 /\ s \in 0 .. n - 1 /\ q \in Int /\ p \in Int
  BY ModRange
<1> HIDE DEF p, q, r, s
<1>3. n * q + r = n * p + s
  BY <1>1, <1>2
<1>4. r = s
  BY <1>2, <1>3, ModUnique
<1> QED
  BY <1>4 DEF r, s

(* The slot i places after h, without the modulo.                          *)
LEMMA SlotAt ==
  ASSUME NEW h \in Slots, NEW i \in Slots
  PROVE  (h + i) % buff_length = IF h + i < buff_length THEN h + i ELSE h + i - buff_length
BY OutputAssumption DEF Slots

(* NextSlot, without the modulo.                                           *)
LEMMA NextSlotIs ==
  ASSUME NEW h \in Slots
  PROVE  NextSlot(h) = IF h + 1 < buff_length THEN h + 1 ELSE 0
BY OutputAssumption DEF Slots, NextSlot

(* The slot buff_length - 1 places after h is the one before h.            *)
LEMMA SlotBefore ==
  ASSUME NEW h \in Slots
  PROVE  NextSlot((h + (buff_length - 1)) % buff_length) = h
<1> DEFINE i == buff_length - 1
           p == (h + i) % buff_length
<1>1. i \in Slots /\ h \in 0 .. buff_length - 1 /\ buff_length \in Nat
  BY OutputAssumption DEF Slots
<1>2. p = IF h + i < buff_length THEN h + i ELSE h + i - buff_length
  BY <1>1, SlotAt
<1>3. p = IF h = 0 THEN buff_length - 1 ELSE h - 1
  BY <1>1, <1>2
<1>4. p \in Slots
  BY <1>1, <1>3 DEF Slots
<1> HIDE DEF p
<1>5. NextSlot(p) = IF p + 1 < buff_length THEN p + 1 ELSE 0
  BY <1>4, NextSlotIs
<1>6. NextSlot(p) = h
  BY <1>1, <1>3, <1>5
<1> QED
  BY <1>6 DEF p

(* How many places slot s is after h.                                      *)
Dist(h, s) == IF s >= h THEN s - h ELSE s - h + buff_length

(* SlotInv, slot by slot instead of place by place.                        *)
BySlot(b, h, n) == \A s \in Slots : b[s] \in {Empty, n + Dist(h, s)}

LEMMA SlotInvIsBySlot ==
  ASSUME NEW b \in [Slots -> Int], NEW h \in Slots, NEW n \in Int
  PROVE  (\A i \in Slots : b[(h + i) % buff_length] \in {Empty, n + i}) <=> BySlot(b, h, n)
<1>1. ASSUME \A i \in Slots : b[(h + i) % buff_length] \in {Empty, n + i}, NEW s \in Slots
      PROVE  b[s] \in {Empty, n + Dist(h, s)}
  <2> DEFINE i == Dist(h, s)
  <2>1. i \in Slots /\ s = IF h + i < buff_length THEN h + i ELSE h + i - buff_length
    BY OutputAssumption DEF Dist, Slots
  <2> HIDE DEF i
  <2>2. (h + i) % buff_length = s
    BY <2>1, SlotAt
  <2>3. b[s] \in {Empty, n + i}
    BY <1>1, <2>1, <2>2
  <2> QED
    BY <2>3 DEF i
<1>2. ASSUME BySlot(b, h, n), NEW i \in Slots
      PROVE  b[(h + i) % buff_length] \in {Empty, n + i}
  <2> DEFINE s == (h + i) % buff_length
  <2>0. s = IF h + i < buff_length THEN h + i ELSE h + i - buff_length
    BY SlotAt
  <2> HIDE DEF s
  <2>1. s \in Slots /\ Dist(h, s) = i
    BY <2>0, OutputAssumption DEF Dist, Slots
  <2>2. b[s] \in {Empty, n + i}
    BY <1>2, <2>1 DEF BySlot
  <2> QED
    BY <2>2 DEF s
<1> QED
  BY <1>1, <1>2 DEF BySlot

(* What chunk_write appends.                                               *)
LEMMA RangeAppend ==
  ASSUME NEW s \in Seq(Int), NEW x \in Int
  PROVE  /\ Append(s, x) \in Seq(Int)
         /\ Range(Append(s, x)) = Range(s) \union {x}
<1> DEFINE t == Append(s, x)
<1>1. /\ t \in Seq(Int)
      /\ Len(t) = Len(s) + 1
      /\ \A i \in 1 .. Len(s) : t[i] = s[i]
      /\ t[Len(s) + 1] = x
  OBVIOUS
<1>2. DOMAIN s = 1 .. Len(s) /\ DOMAIN t = 1 .. Len(s) + 1 /\ Len(s) \in Nat
  BY <1>1
<1> HIDE DEF t
<1>3. ASSUME NEW y \in Range(t)
      PROVE  y \in Range(s) \union {x}
  <2>1. PICK i \in 1 .. Len(s) + 1 : y = t[i]
    BY <1>2 DEF Range
  <2>2. CASE i \in 1 .. Len(s)
    BY <1>1, <1>2, <2>1, <2>2 DEF Range
  <2>3. CASE i = Len(s) + 1
    BY <1>1, <2>1, <2>3
  <2> QED
    BY <1>2, <2>1, <2>2, <2>3
<1>4. \A y \in Range(s) \union {x} : y \in Range(t)
  BY <1>1, <1>2 DEF Range
<1> QED
  BY <1>1, <1>3, <1>4 DEF t

(***************************************************************************)
(* output_send_next                                                        *)
(***************************************************************************)

(* One step of output_send_next keeps every chunk in its slot, and writes  *)
(* chunk next_out or nothing.                                              *)
LEMMA SendNextKeepsSlots ==
  ASSUME TypeOK, SlotInv, next_out >= 0, SendNext
  PROVE  /\ buff' \in [Slots -> Int]
         /\ head' \in Slots
         /\ next_out' = next_out + 1
         /\ buff[head] \in {Empty, next_out}
         /\ buff' = [buff EXCEPT ![head] = Empty]
         /\ SlotInv'
<1>1. /\ buff \in [Slots -> Int] /\ head \in Slots /\ next_out \in Int
      /\ BySlot(buff, head, next_out)
  BY SlotInvIsBySlot DEF TypeOK, SlotInv
<1>2. buff[head] \in {Empty, next_out}
  BY <1>1 DEF BySlot, Dist, Slots
<1>3. buff' = [buff EXCEPT ![head] = Empty]
  BY <1>1, <1>2 DEF SendNext, Empty
<1>4. head' \in Slots /\ head' = IF head + 1 < buff_length THEN head + 1 ELSE 0
  BY <1>1, NextSlotIs, OutputAssumption DEF SendNext, Slots
<1>5. next_out' = next_out + 1
  BY DEF SendNext
<1>6. buff' \in [Slots -> Int]
  BY <1>1, <1>3 DEF Empty
<1>7. BySlot(buff', head', next_out')
  <2> SUFFICES ASSUME NEW s \in Slots
               PROVE  buff'[s] \in {Empty, next_out' + Dist(head', s)}
    BY DEF BySlot
  <2>1. CASE s = head
    BY <1>1, <1>3, <2>1
  <2>2. CASE s # head
    <3>1. Dist(head', s) = Dist(head, s) - 1
      BY <1>1, <1>4, <2>2, OutputAssumption DEF Dist, Slots
    <3>2. buff'[s] = buff[s] /\ buff[s] \in {Empty, next_out + Dist(head, s)}
      BY <1>1, <1>3, <2>2 DEF BySlot
    <3>3. Dist(head, s) \in Int
      BY <1>1, OutputAssumption DEF Dist, Slots
    <3> QED
      BY <1>1, <1>5, <3>1, <3>2, <3>3
  <2> QED
    BY <2>1, <2>2
<1>8. SlotInv'
  <2>1. next_out' \in Int
    BY <1>1, <1>5
  <2>2. \A i \in Slots : buff'[(head' + i) % buff_length] \in {Empty, next_out' + i}
    BY <1>4, <1>6, <1>7, <2>1, SlotInvIsBySlot
  <2> QED
    BY <2>2 DEF SlotInv
<1> QED
  BY <1>2, <1>3, <1>4, <1>5, <1>6, <1>8

(* One step of output_send_next keeps the output increasing and before     *)
(* next_out, and loses nothing.                                            *)
LEMMA SendNextKeepsOutput ==
  ASSUME TypeOK, SlotInv, next_out >= 0, SendNext, reorder,
         OutputIncreasing, WrittenInv
  PROVE  /\ out' \in Seq(Int)
         /\ res' \in Int
         /\ OutputIncreasing'
         /\ \A i \in 1 .. Len(out') : out'[i] < next_out'
         /\ Range(out) \union Range(buff) \subseteq Range(out') \union Range(buff')
<1>1. /\ buff \in [Slots -> Int] /\ head \in Slots /\ next_out \in Int
      /\ out \in Seq(Int) /\ res \in Int
  BY DEF TypeOK
<1>2. /\ next_out' = next_out + 1
      /\ buff[head] \in {Empty, next_out}
      /\ buff' = [buff EXCEPT ![head] = Empty]
  BY SendNextKeepsSlots
<1>3. /\ \A i \in 1 .. Len(out) : out[i] < next_out /\ out[i] \in Int
      /\ \A i, j \in 1 .. Len(out) : i < j => out[i] < out[j]
  BY <1>1 DEF WrittenInv, OutputIncreasing
<1>4. CASE buff[head] >= 0
  <2>1. buff[head] = next_out /\ out' = Append(out, next_out) /\ res' = res + 1
    BY <1>2, <1>4 DEF SendNext, Empty
  <2>2. /\ out' \in Seq(Int) /\ Len(out') = Len(out) + 1 /\ Len(out) \in Nat
        /\ \A i \in 1 .. Len(out) : out'[i] = out[i]
        /\ out'[Len(out) + 1] = next_out
    BY <1>1, <2>1
  <2>0. \A i \in 1 .. Len(out') : i \in 1 .. Len(out) \/ i = Len(out) + 1
    BY <2>2
  <2>3. \A i \in 1 .. Len(out') : out'[i] < next_out'
    <3> TAKE i \in 1 .. Len(out')
    <3>1. CASE i \in 1 .. Len(out)
      <4>1. out'[i] = out[i] /\ out[i] < next_out /\ out[i] \in Int
        BY <1>3, <2>2, <3>1
      <4> QED
        BY <4>1, <1>1, <1>2
    <3>2. CASE i = Len(out) + 1
      BY <1>1, <1>2, <2>2, <3>2
    <3> QED
      BY <2>0, <3>1, <3>2
  <2>4. \A i, j \in 1 .. Len(out') : i < j => out'[i] < out'[j]
    <3> SUFFICES ASSUME NEW i \in 1 .. Len(out'), NEW j \in 1 .. Len(out'), i < j
                 PROVE  out'[i] < out'[j]
      OBVIOUS
    <3>1. i \in 1 .. Len(out) /\ out'[i] = out[i]
      BY <2>2
    <3>2. CASE j \in 1 .. Len(out)
      BY <1>3, <2>2, <3>1, <3>2
    <3>3. CASE j = Len(out) + 1
      BY <1>3, <2>2, <3>1, <3>3
    <3> QED
      BY <2>0, <3>2, <3>3
  <2>5. Range(out') = Range(out) \union {buff[head]}
    BY <1>1, <2>1, RangeAppend
  <2>6. Range(buff) \subseteq Range(buff') \union {buff[head]}
    BY <1>1, <1>2 DEF Range
  <2> QED
    BY <1>1, <2>1, <2>2, <2>3, <2>4, <2>5, <2>6 DEF OutputIncreasing
<1>5. CASE ~(buff[head] >= 0)
  <2>1. out' = out /\ buff' = buff /\ res' = res
    BY <1>5 DEF SendNext
  <2>2. \A i \in 1 .. Len(out) : out[i] < next_out + 1
    BY <1>1, <1>3
  <2> QED
    BY <1>1, <1>2, <2>1, <2>2 DEF OutputIncreasing
<1> QED
  BY <1>4, <1>5

(***************************************************************************)
(* The inductive invariant                                                 *)
(***************************************************************************)

(* Init establishes the invariant.                                         *)
LEMMA InitInd == Init => IndInv
<1> SUFFICES ASSUME Init PROVE IndInv
  OBVIOUS
<1>1. TypeOK
  BY OutputAssumption DEF Init, TypeOK, Slots, Empty
<1>2. BySlot(buff, head, next_out)
  BY DEF Init, BySlot
<1>3. SlotInv
  BY <1>1, <1>2, SlotInvIsBySlot DEF TypeOK, SlotInv
<1>4. PlaceInv /\ FlushInv /\ StartInv
  BY OutputAssumption DEF Init, PlaceInv, FlushInv, StartInv, Slots
<1>5. WrittenInv /\ OutputIncreasing /\ NothingLost
  BY DEF Init, WrittenInv, OutputIncreasing, NothingLost
<1> QED
  BY <1>1, <1>3, <1>4, <1>5 DEF IndInv

(* output_create and output_destroy preserve it.                           *)
LEMMA LifecycleInd ==
  ASSUME IndInv, Create \/ Destroy
  PROVE  IndInv'
<1> USE OutputAssumption
<1>1. CASE Create
  <2>1. pc = "idle" /\ \A i \in Slots : buff[i] = Empty
    BY <1>1 DEF Create, IndInv, StartInv
  <2>2. TypeOK' /\ SlotInv'
    BY <1>1 DEF Create, IndInv, TypeOK, SlotInv
  <2>3. PlaceInv' /\ FlushInv'
    BY <1>1 DEF Create, IndInv, PlaceInv, FlushInv
  <2>4. StartInv'
    BY <1>1, <2>1 DEF Create, IndInv, StartInv
  <2>5. WrittenInv' /\ OutputIncreasing' /\ NothingLost'
    BY <1>1 DEF Create, IndInv, StartInv, WrittenInv, OutputIncreasing, NothingLost
  <2> QED
    BY <2>2, <2>3, <2>4, <2>5 DEF IndInv
<1>2. CASE Destroy
  <2>1. TypeOK'
    BY <1>2 DEF Destroy, IndInv, TypeOK, Empty
  <2>2. BySlot(buff', head', next_out')
    BY <1>2 DEF Destroy, BySlot
  <2>3. SlotInv'
    <3>1. buff' \in [Slots -> Int] /\ head' \in Slots /\ next_out' \in Int
      BY <2>1 DEF TypeOK
    <3>2. \A i \in Slots : buff'[(head' + i) % buff_length] \in {Empty, next_out' + i}
      BY <2>2, <3>1, SlotInvIsBySlot
    <3> QED
      BY <3>2 DEF SlotInv
  <2>4. PlaceInv' /\ FlushInv' /\ StartInv'
    BY <1>2 DEF Destroy, IndInv, TypeOK, PlaceInv, FlushInv, StartInv
  <2>5. WrittenInv' /\ OutputIncreasing' /\ NothingLost'
    BY <1>2 DEF Destroy, IndInv, WrittenInv, OutputIncreasing, NothingLost
  <2> QED
    BY <2>1, <2>3, <2>4, <2>5 DEF IndInv
<1> QED
  BY <1>1, <1>2

(* A call that ends at once preserves it.                                  *)
LEMMA EarlyReturnInd ==
  ASSUME IndInv, NEW id \in Ids, DeliverNull(id) \/ DeliverLate(id)
  PROVE  IndInv'
<1>0. id \in Int
  BY OutputAssumption
<1>1. TypeOK'
  <2>1. CASE DeliverNull(id)
    BY <1>0, <2>1 DEF IndInv, TypeOK, DeliverNull, buffer
  <2>2. CASE DeliverLate(id)
    BY <1>0, <2>2 DEF IndInv, TypeOK, DeliverLate, buffer
  <2> QED
    BY <2>1, <2>2
<1>2. pc = "idle" /\ pc' = "idle"
  BY DEF DeliverNull, DeliverLate
<1>3. UNCHANGED <<reorder, handle, buff, head, next_out, out, accepted>>
  BY DEF DeliverNull, DeliverLate, buffer
<1>4. SlotInv' /\ StartInv' /\ PlaceInv' /\ FlushInv'
  BY <1>2, <1>3 DEF IndInv, SlotInv, StartInv, PlaceInv, FlushInv
<1>5. WrittenInv' /\ OutputIncreasing' /\ NothingLost'
  BY <1>2, <1>3 DEF IndInv, WrittenInv, OutputIncreasing, NothingLost, Incoming
<1> QED
  BY <1>1, <1>4, <1>5 DEF IndInv

(* A direct write preserves it.                                            *)
LEMMA DirectInd ==
  ASSUME IndInv, NEW id \in Ids, DeliverDirect(id)
  PROVE  IndInv'
<1>0. id \in Int /\ ~reorder /\ reorder' = reorder
  BY OutputAssumption DEF DeliverDirect
<1>1. out' \in Seq(Int) /\ Range(out') = Range(out) \union {id}
  BY <1>0, RangeAppend DEF IndInv, TypeOK, DeliverDirect
<1>2. TypeOK'
  BY <1>0, <1>1 DEF IndInv, TypeOK, DeliverDirect, buffer
<1>3. SlotInv' /\ StartInv' /\ PlaceInv' /\ FlushInv'
  BY DEF IndInv, SlotInv, StartInv, PlaceInv, FlushInv, DeliverDirect, buffer
<1>4. WrittenInv' /\ OutputIncreasing'
  BY <1>0 DEF WrittenInv, OutputIncreasing
<1>5. NothingLost'
  BY <1>1 DEF IndInv, NothingLost, Incoming, DeliverDirect, buffer
<1> QED
  BY <1>2, <1>3, <1>4, <1>5 DEF IndInv

(* output_deliver up to the flush preserves it.                            *)
LEMMA TakenInd ==
  ASSUME IndInv, NEW id \in Ids, DeliverTaken(id)
  PROVE  IndInv'
<1> DEFINE first == FirstOut(id)
<1>0. /\ id \in Int /\ reorder /\ handle = "open" /\ handle' = "open"
      /\ pc = "idle" /\ id >= next_out /\ c' = id /\ next_out' = first
      /\ UNCHANGED <<reorder, buff, head, out>>
  BY OutputAssumption DEF IndInv, TypeOK, DeliverTaken, TooLate
<1>1. /\ buff \in [Slots -> Int] /\ head \in Slots /\ next_out \in Int /\ next_out >= -1
      /\ head \in Int /\ buff_length \in Nat \ {0}
      /\ next_out = -1 => \A i \in Slots : buff[i] = Empty
  BY OutputAssumption DEF IndInv, TypeOK, StartInv, Slots
<1>2. /\ first \in Int /\ first >= next_out /\ id >= first
      /\ first = -1 => id = -1 /\ next_out = -1
      /\ next_out # -1 => first = next_out
  BY <1>0, <1>1 DEF FirstOut
<1>3. /\ new_pos' = (head + (id - first)) % buff_length
      /\ new_pos' \in Slots
  <2>1. head + id - first = head + (id - first) /\ head + (id - first) \in Int
    BY <1>0, <1>1, <1>2
  <2>2. new_pos' = (head + id - first) % buff_length
    BY DEF DeliverTaken, SlotOf
  <2> HIDE DEF first
  <2>3. new_pos' = (head + (id - first)) % buff_length
    BY <2>1, <2>2
  <2> QED
    BY <1>1, <2>1, <2>3, ModRange DEF Slots
<1>4. /\ todo' \in Nat
      /\ pc' \in {"flush", "place"}
      /\ pc' = "flush" => id >= first + buff_length /\ todo' = id - first - buff_length + 1
      /\ pc' = "place" => id < first + buff_length
      /\ pc' = "flush" => todo' # 0
  <2>1. CASE id >= first + buff_length
    BY <1>0, <1>1, <1>2, <2>1 DEF DeliverTaken, FlushLength
  <2>2. CASE ~(id >= first + buff_length)
    BY <1>0, <1>1, <1>2, <2>2 DEF DeliverTaken
  <2> QED
    BY <2>1, <2>2
<1>5. /\ accepted' \subseteq accepted \union {id}
      /\ accepted' \subseteq accepted \union Nat
  BY <1>0 DEF DeliverTaken
<1> HIDE DEF first
<1>6. TypeOK'
  BY <1>0, <1>2, <1>3, <1>4, <1>5 DEF IndInv, TypeOK, DeliverTaken
<1>7. SlotInv'
  <2>1. CASE next_out = -1
    <3>1. \A i \in Slots : (head + i) % buff_length \in Slots
      BY <1>1, ModRange DEF Slots
    <3> QED
      BY <1>0, <1>1, <2>1, <3>1 DEF SlotInv
  <2>2. CASE next_out # -1
    BY <1>0, <1>2, <2>2 DEF IndInv, SlotInv
  <2> QED
    BY <2>1, <2>2
<1>8. PlaceInv' /\ FlushInv'
  BY <1>0, <1>1, <1>2, <1>3, <1>4 DEF PlaceInv, FlushInv
<1>9. StartInv'
  BY <1>0, <1>1, <1>2, <1>4 DEF StartInv
<1>10. WrittenInv' /\ OutputIncreasing'
  <2>1. \A i \in 1 .. Len(out) : out[i] < first
    <3>1. \A i \in 1 .. Len(out) : out[i] < next_out /\ out[i] \in Int
      BY <1>0 DEF IndInv, TypeOK, WrittenInv
    <3> QED
      BY <1>1, <1>2, <3>1
  <2> QED
    BY <1>0, <1>5, <2>1 DEF IndInv, WrittenInv, OutputIncreasing
<1>11. NothingLost'
  BY <1>0, <1>4, <1>5 DEF IndInv, NothingLost, Incoming
<1> QED
  BY <1>6, <1>7, <1>8, <1>9, <1>10, <1>11 DEF IndInv

(* An iteration of output_buff_flush preserves it: head and the distance   *)
(* to c move together, so new_pos stays the slot of c.                     *)
LEMMA FlushStepInd ==
  ASSUME IndInv, FlushStep
  PROVE  IndInv'
<1>0. /\ pc = "flush" /\ pc' = "flush" /\ todo > 0 /\ todo' = todo - 1 /\ SendNext
      /\ UNCHANGED <<reorder, handle, c, new_pos, accepted>>
  BY DEF FlushStep
<1>1. /\ TypeOK /\ SlotInv /\ WrittenInv /\ OutputIncreasing /\ reorder
      /\ next_out \in Int /\ next_out >= 0 /\ handle = "open"
      /\ head \in Slots /\ c \in Int /\ todo \in Nat
      /\ buff_length \in Nat \ {0}
  BY <1>0, OutputAssumption DEF IndInv, TypeOK, StartInv
<1>2. /\ buff' \in [Slots -> Int] /\ head' \in Slots /\ next_out' = next_out + 1
      /\ buff[head] \in {Empty, next_out}
      /\ buff' = [buff EXCEPT ![head] = Empty]
      /\ SlotInv'
  BY <1>0, <1>1, SendNextKeepsSlots
<1>3. /\ out' \in Seq(Int) /\ res' \in Int /\ OutputIncreasing'
      /\ \A i \in 1 .. Len(out') : out'[i] < next_out'
      /\ Range(out) \union Range(buff) \subseteq Range(out') \union Range(buff')
  BY <1>0, <1>1, SendNextKeepsOutput
<1>4. TypeOK'
  BY <1>0, <1>1, <1>2, <1>3 DEF TypeOK
<1>5. FlushInv'
  <2>1. /\ todo = c - next_out - buff_length + 1
        /\ new_pos = (head + (c - next_out)) % buff_length
    BY <1>0 DEF IndInv, FlushInv
  <2>2. todo' = c' - next_out' - buff_length + 1
    BY <1>0, <1>1, <1>2, <2>1
  <2>3. head' = IF head + 1 < buff_length THEN head + 1 ELSE 0
    BY <1>0, <1>1, NextSlotIs DEF SendNext
  <2>4. new_pos' = (head' + (c' - next_out')) % buff_length
    <3> DEFINE k == head' + (c - next_out')
    <3>1. CASE head + 1 < buff_length
      <4>1. k = head + (c - next_out)
        BY <1>1, <1>2, <2>3, <3>1 DEF Slots
      <4> QED
        BY <1>0, <2>1, <4>1
    <3>2. CASE ~(head + 1 < buff_length)
      <4>1. k \in Int /\ head + (c - next_out) = k + buff_length
        BY <1>1, <1>2, <2>3, <3>2 DEF Slots
      <4> HIDE DEF k
      <4>2. (k + buff_length) % buff_length = k % buff_length
        BY <1>1, <4>1, ModShift
      <4>3. new_pos' = k % buff_length
        BY <1>0, <2>1, <4>1, <4>2
      <4> QED
        BY <1>0, <4>3 DEF k
    <3> QED
      BY <3>1, <3>2
  <2> QED
    BY <2>2, <2>4 DEF FlushInv
<1>6. PlaceInv'
  <2> SUFFICES ASSUME todo' = 0
               PROVE  head' = (new_pos' + 1) % buff_length
    BY <1>0 DEF PlaceInv
  <2>1. c' - next_out' = buff_length - 1 /\ new_pos' = (head' + (c' - next_out')) % buff_length
    BY <1>0, <1>1, <1>2, <1>5 DEF FlushInv
  <2>5. NextSlot(new_pos') = head'
    BY <1>2, <2>1, SlotBefore
  <2> QED
    BY <2>5 DEF NextSlot
<1>7. StartInv'
  BY <1>0, <1>1, <1>2 DEF StartInv
<1>8. WrittenInv'
  BY <1>0, <1>1, <1>3 DEF WrittenInv
<1>9. NothingLost'
  BY <1>0, <1>3 DEF IndInv, NothingLost, Incoming
<1> QED
  BY <1>2, <1>3, <1>4, <1>5, <1>6, <1>7, <1>8, <1>9 DEF IndInv

(* Setting head from new_pos after the flush changes nothing.              *)
LEMMA FlushDoneInd ==
  ASSUME IndInv, FlushDone
  PROVE  /\ IndInv'
         /\ head' = head
<1>0. /\ pc = "flush" /\ pc' = "place" /\ todo = 0 /\ head' = NextSlot(new_pos)
      /\ UNCHANGED <<reorder, handle, buff, next_out, c, new_pos, todo, res, out, accepted>>
  BY DEF FlushDone, locals
<1>1. head' = head
  BY <1>0 DEF IndInv, PlaceInv, NextSlot
<1>2. TypeOK'
  BY <1>0, <1>1 DEF IndInv, TypeOK
<1>3. SlotInv'
  BY <1>0, <1>1 DEF IndInv, SlotInv
<1>4. PlaceInv'
  BY <1>0, <1>1, OutputAssumption DEF IndInv, TypeOK, FlushInv, PlaceInv
<1>5. FlushInv' /\ StartInv'
  BY <1>0, <1>1 DEF IndInv, FlushInv, StartInv
<1>6. WrittenInv' /\ OutputIncreasing' /\ NothingLost'
  BY <1>0 DEF IndInv, WrittenInv, OutputIncreasing, NothingLost, Incoming
<1> QED
  BY <1>1, <1>2, <1>3, <1>4, <1>5, <1>6 DEF IndInv

(* chunk_clone puts the chunk into an empty slot, or finds it there.       *)
LEMMA PlaceInd ==
  ASSUME IndInv, Place
  PROVE  /\ IndInv'
         /\ buff[new_pos] \in {Empty, c}
<1>0. /\ pc = "place" /\ pc' = "drain"
      /\ buff' = IF c # buff[new_pos] THEN [buff EXCEPT ![new_pos] = c] ELSE buff
      /\ UNCHANGED <<reorder, handle, head, next_out, c, new_pos, todo, res, out, accepted>>
  BY DEF Place, locals
<1>1. /\ buff \in [Slots -> Int] /\ head \in Slots /\ next_out \in Int
      /\ c \in Int /\ new_pos \in Slots /\ buff_length \in Nat \ {0}
      /\ BySlot(buff, head, next_out)
  BY SlotInvIsBySlot, OutputAssumption DEF IndInv, TypeOK, SlotInv
<1>2. /\ c >= next_out /\ c < next_out + buff_length
      /\ new_pos = (head + (c - next_out)) % buff_length
  BY <1>0 DEF IndInv, PlaceInv
<1>3. next_out + Dist(head, new_pos) = c
  <2> DEFINE i == c - next_out
  <2>1. i \in Slots
    BY <1>1, <1>2 DEF Slots
  <2>2. new_pos = (head + i) % buff_length
    BY <1>2
  <2> HIDE DEF i
  <2>3. new_pos = IF head + i < buff_length THEN head + i ELSE head + i - buff_length
    BY <1>1, <2>1, <2>2, SlotAt
  <2>4. Dist(head, new_pos) = i
    BY <1>1, <2>1, <2>3 DEF Dist, Slots
  <2> QED
    BY <1>1, <2>4 DEF i
<1>4. buff[new_pos] \in {Empty, c}
  BY <1>1, <1>3 DEF BySlot
<1>5. /\ buff' \in [Slots -> Int]
      /\ buff'[new_pos] = c
      /\ \A s \in Slots : s # new_pos => buff'[s] = buff[s]
  BY <1>0, <1>1
<1>6. TypeOK'
  BY <1>0, <1>5 DEF IndInv, TypeOK
<1>7. BySlot(buff', head', next_out')
  <2> SUFFICES ASSUME NEW s \in Slots
               PROVE  buff'[s] \in {Empty, next_out + Dist(head, s)}
    BY <1>0 DEF BySlot
  <2>1. CASE s = new_pos
    BY <1>3, <1>5, <2>1
  <2>2. CASE s # new_pos
    BY <1>1, <1>5, <2>2 DEF BySlot
  <2> QED
    BY <2>1, <2>2
<1>8. SlotInv'
  <2>1. \A i \in Slots : buff'[(head' + i) % buff_length] \in {Empty, next_out' + i}
    BY <1>0, <1>1, <1>5, <1>7, SlotInvIsBySlot
  <2> QED
    BY <2>1 DEF SlotInv
<1>9. PlaceInv' /\ FlushInv'
  BY <1>0 DEF PlaceInv, FlushInv
<1>10. StartInv'
  <2>1. next_out = -1 => buff' = buff
    BY <1>0, <1>1 DEF IndInv, StartInv, Empty
  <2> QED
    BY <1>0, <2>1 DEF IndInv, StartInv
<1>11. WrittenInv' /\ OutputIncreasing'
  BY <1>0 DEF IndInv, WrittenInv, OutputIncreasing
<1>12. NothingLost'
  <2>1. reorder /\ accepted \subseteq Nat
    BY <1>0 DEF IndInv, StartInv, WrittenInv
  <2>2. ASSUME NEW s \in Slots, buff[s] \in Nat
        PROVE  buff[s] \in Range(buff')
    BY <1>4, <1>5, <2>2 DEF Range, Empty
  <2>3. c \in Range(buff')
    BY <1>1, <1>5 DEF Range
  <2>4. ASSUME NEW id \in accepted, handle = "open"
        PROVE  id \in Range(out) \union Range(buff')
    <3>1. id \in Range(out) \/ id \in Range(buff) \/ id = c
      BY <1>0, <2>4 DEF IndInv, NothingLost, Incoming
    <3>2. id \in Range(buff) => \E s \in Slots : id = buff[s]
      BY <1>1 DEF Range
    <3> QED
      BY <2>1, <2>2, <2>3, <3>1, <3>2
  <2> QED
    BY <1>0, <2>4 DEF NothingLost
<1> QED
  BY <1>4, <1>6, <1>8, <1>9, <1>10, <1>11, <1>12 DEF IndInv

(* The drain preserves it.                                                 *)
LEMMA DrainInd ==
  ASSUME IndInv, DrainStep
  PROVE  IndInv'
<1>0. /\ pc = "drain" /\ pc' = "drain" /\ SendNext /\ buff[head] >= 0
      /\ UNCHANGED <<reorder, handle, c, new_pos, todo, accepted>>
  BY DEF DrainStep, locals
<1>1. /\ TypeOK /\ SlotInv /\ WrittenInv /\ OutputIncreasing /\ reorder
      /\ next_out \in Int /\ handle = "open" /\ head \in Slots
  BY <1>0 DEF IndInv, TypeOK, StartInv
<1>2. next_out >= 0
  BY <1>0, <1>1 DEF IndInv, StartInv, Empty
<1>3. /\ buff' \in [Slots -> Int] /\ head' \in Slots /\ next_out' = next_out + 1
      /\ SlotInv'
  BY <1>0, <1>1, <1>2, SendNextKeepsSlots
<1>4. /\ out' \in Seq(Int) /\ res' \in Int /\ OutputIncreasing'
      /\ \A i \in 1 .. Len(out') : out'[i] < next_out'
      /\ Range(out) \union Range(buff) \subseteq Range(out') \union Range(buff')
  BY <1>0, <1>1, <1>2, SendNextKeepsOutput
<1>5. TypeOK'
  BY <1>0, <1>1, <1>3, <1>4 DEF TypeOK
<1>6. PlaceInv' /\ FlushInv' /\ StartInv'
  BY <1>0, <1>1, <1>2, <1>3 DEF PlaceInv, FlushInv, StartInv
<1>7. WrittenInv' /\ NothingLost'
  BY <1>0, <1>1, <1>4 DEF IndInv, WrittenInv, NothingLost, Incoming
<1> QED
  BY <1>3, <1>4, <1>5, <1>6, <1>7 DEF IndInv

(* The return of output_deliver preserves it.                              *)
LEMMA ReturnInd ==
  ASSUME IndInv, Return
  PROVE  IndInv'
<1>0. /\ pc = "drain" /\ pc' = "idle" /\ ~(buff[head] >= 0)
      /\ UNCHANGED <<reorder, handle, buff, head, next_out, c, new_pos, todo, res, out, accepted>>
  BY DEF IndInv, TypeOK, Return, buffer, locals
<1>1. TypeOK' /\ SlotInv'
  BY <1>0 DEF IndInv, TypeOK, SlotInv
<1>2. PlaceInv' /\ FlushInv'
  BY <1>0 DEF PlaceInv, FlushInv
<1>3. buff[head] = Empty
  <2>1. head \in Slots /\ next_out \in Int /\ BySlot(buff, head, next_out)
    BY SlotInvIsBySlot DEF IndInv, TypeOK, SlotInv
  <2>2. buff[head] \in {Empty, next_out}
    BY <2>1 DEF BySlot, Dist, Slots
  <2> QED
    BY <1>0, <2>1, <2>2 DEF IndInv, StartInv, Empty
<1>4. StartInv'
  BY <1>0, <1>3 DEF IndInv, StartInv
<1>5. WrittenInv' /\ OutputIncreasing' /\ NothingLost'
  BY <1>0 DEF IndInv, WrittenInv, OutputIncreasing, NothingLost, Incoming
<1> QED
  BY <1>1, <1>2, <1>4, <1>5 DEF IndInv

(* Every step preserves the invariant.                                     *)
LEMMA NextInd == IndInv /\ [Next]_vars => IndInv'
<1> SUFFICES ASSUME IndInv, [Next]_vars PROVE IndInv'
  OBVIOUS
<1>1. CASE Create \/ Destroy
  BY <1>1, LifecycleInd
<1>2. ASSUME NEW id \in Ids, Deliver(id) PROVE IndInv'
  BY <1>2, EarlyReturnInd, DirectInd, TakenInd DEF Deliver
<1>3. CASE Loop
  BY <1>3, FlushStepInd, FlushDoneInd, PlaceInd, DrainInd, ReturnInd DEF Loop
<1>4. CASE UNCHANGED vars
  BY <1>4 DEF vars, IndInv, TypeOK, SlotInv, PlaceInv, FlushInv, StartInv, WrittenInv,
     OutputIncreasing, NothingLost, Incoming
<1> QED
  BY <1>1, <1>2, <1>3, <1>4 DEF Next

(* The invariant holds of every behaviour of the output stage.             *)
THEOREM IndInvariant == Spec => []IndInv
BY InitInd, NextInd, PTL DEF Spec

-----------------------------------------------------------------------------
(***************************************************************************)
(* The theorems                                                            *)
(***************************************************************************)

(* output_deliver keeps its state typed.                                   *)
THEOREM TypeCorrect == Spec => []TypeOK
BY IndInvariant, PTL DEF IndInv

(* output_deliver keeps chunk next_out + i in the slot i places after head.*)
THEOREM SlotsCorrect == Spec => []SlotInv
BY IndInvariant, PTL DEF IndInv

(* new_pos, computed before the flush, is the right slot after it.         *)
THEOREM PlaceCorrect == Spec => []PlaceInv
BY IndInvariant, PTL DEF IndInv

(* With reorder on, chunks are written in strictly increasing id order.    *)
THEOREM OutputOrdered == Spec => []OutputIncreasing
BY IndInvariant, PTL DEF IndInv

(* A chunk taken in by output_deliver is written or still in the buffer.   *)
THEOREM NothingIsLost == Spec => []NothingLost
BY IndInvariant, PTL DEF IndInv

(* Between calls the chunk to write next is not in the buffer.             *)
THEOREM NothingIsWithheld == Spec => []NothingWithheld
<1>1. ASSUME IndInv PROVE NothingWithheld
  <2> SUFFICES ASSUME pc = "idle", NEW s \in Slots, buff[s] = next_out, ~(next_out < 0)
               PROVE  FALSE
    BY DEF NothingWithheld
  <2>1. /\ head \in Slots /\ next_out \in Int /\ BySlot(buff, head, next_out)
        /\ buff[head] = Empty
    BY <1>1, SlotInvIsBySlot DEF IndInv, TypeOK, SlotInv, StartInv
  <2>2. s # head
    BY <2>1 DEF Empty
  <2>3. Dist(head, s) \in Int /\ Dist(head, s) # 0
    BY <2>1, <2>2, OutputAssumption DEF Dist, Slots
  <2> QED
    BY <2>1, <2>3 DEF BySlot, Empty
<1> QED
  BY <1>1, IndInvariant, PTL

(* No step overwrites a chunk that waits.                                  *)
THEOREM NeverOverwritten == Spec => NoOverwrite
<1> DEFINE Kept == \A i \in Slots : buff[i] >= 0 => buff'[i] \in {Empty, buff[i]}
<1>1. ASSUME IndInv, [Next]_vars PROVE [Kept]_vars
  <2>1. buff \in [Slots -> Int] /\ head \in Slots /\ new_pos \in Slots
    BY <1>1 DEF IndInv, TypeOK
  <2>2. CASE Create \/ Destroy
    BY <2>2 DEF Create, Destroy
  <2>3. ASSUME NEW id \in Ids, Deliver(id) PROVE Kept
    BY <2>3 DEF Deliver, DeliverNull, DeliverDirect, DeliverLate, DeliverTaken, buffer
  <2>4. CASE SendNext
    BY <2>1, <2>4 DEF SendNext
  <2>5. CASE FlushDone \/ Return
    BY <2>5 DEF FlushDone, Return, buffer
  <2>6. CASE Place
    <3>1. buff[new_pos] \in {Empty, c}
      BY <1>1, <2>6, PlaceInd
    <3>2. buff' = IF c # buff[new_pos] THEN [buff EXCEPT ![new_pos] = c] ELSE buff
      BY <2>6 DEF Place
    <3> QED
      BY <2>1, <3>1, <3>2 DEF Empty
  <2> QED
    BY <1>1, <2>2, <2>3, <2>4, <2>5, <2>6 DEF Next, Loop, FlushStep, DrainStep
<1> QED
  BY <1>1, IndInvariant, PTL DEF Spec, NoOverwrite

(***************************************************************************)
(* Refinement of OrderedOutput                                             *)
(***************************************************************************)

(* output_send_next is a step of the window.                               *)
LEMMA SendNextAdvances ==
  ASSUME TypeOK, SlotInv, next_out >= 0, SendNext, Incoming' = Incoming, reorder' = reorder
  PROVE  Abstract!Advance
<1>1. /\ buff \in [Slots -> Int] /\ head \in Slots /\ next_out \in Int
      /\ BySlot(buff, head, next_out)
  BY SlotInvIsBySlot DEF TypeOK, SlotInv
<1>2. /\ next_out' = next_out + 1
      /\ buff[head] \in {Empty, next_out}
      /\ buff' = [buff EXCEPT ![head] = Empty]
  BY SendNextKeepsSlots
<1>3. \A s \in Slots : s # head => buff[s] # next_out
  <2> SUFFICES ASSUME NEW s \in Slots, s # head PROVE buff[s] # next_out
    OBVIOUS
  <2>1. Dist(head, s) \in Int /\ Dist(head, s) # 0
    BY <1>1, OutputAssumption DEF Dist, Slots
  <2> QED
    BY <1>1, <2>1 DEF BySlot, Empty
<1>4. next_out \in Pending <=> buff[head] = next_out
  BY <1>1, <1>3 DEF Pending, Range
<1>5. Pending' = Pending \ {next_out}
  <2>1. ASSUME NEW x \in Pending' PROVE x \in Pending \ {next_out}
    <3>1. PICK s \in Slots : x = buff'[s] /\ x >= 0
      BY <1>1, <1>2, <2>1 DEF Pending, Range
    <3>2. s # head
      BY <1>1, <1>2, <3>1 DEF Empty
    <3>3. x = buff[s]
      BY <1>1, <1>2, <3>1, <3>2
    <3> QED
      BY <1>1, <1>3, <3>1, <3>2, <3>3 DEF Pending, Range
  <2>2. ASSUME NEW x \in Pending, x # next_out PROVE x \in Pending'
    <3>1. PICK s \in Slots : x = buff[s] /\ x >= 0
      BY <1>1, <2>2 DEF Pending, Range
    <3>2. s # head
      BY <1>2, <2>2, <3>1 DEF Empty
    <3>3. x = buff'[s] /\ s \in DOMAIN buff'
      BY <1>1, <1>2, <3>1, <3>2
    <3> QED
      BY <3>1, <3>3 DEF Pending, Range
  <2> QED
    BY <2>1, <2>2
<1>6. CASE buff[head] = next_out
  <2>1. next_out \in Pending /\ out' = Append(out, next_out)
    BY <1>4, <1>6 DEF SendNext
  <2> QED
    BY <1>2, <1>5, <2>1 DEF Abstract!Advance
<1>7. CASE buff[head] # next_out
  <2>1. next_out \notin Pending /\ out' = out
    BY <1>2, <1>4, <1>7 DEF SendNext, Empty
  <2>2. Pending' = Pending
    BY <1>5, <2>1
  <2> QED
    BY <1>2, <2>1, <2>2 DEF Abstract!Advance
<1> QED
  BY <1>6, <1>7

(* Every step of output_deliver is a step of OrderedOutput or leaves its   *)
(* state alone.                                                            *)
LEMMA StepRefines ==
  ASSUME IndInv, IndInv', [Next]_vars
  PROVE  [Abstract!Next]_(Abstract!vars)
<1>0. /\ buff \in [Slots -> Int] /\ head \in Slots /\ next_out \in Int
      /\ new_pos \in Slots /\ c \in Int
  BY DEF IndInv, TypeOK
<1>1. CASE Create
  BY <1>1 DEF Create, Abstract!vars, Pending, Incoming
<1>2. CASE Destroy
  <2>1. Incoming = {} /\ Incoming' = {} /\ UNCHANGED <<reorder, next_out, out>>
    BY <1>2 DEF Destroy, Incoming
  <2>2. Pending' = {}
    BY <1>2 DEF Destroy, Pending, Range, Empty
  <2> QED
    BY <2>1, <2>2 DEF Abstract!Close, Abstract!Next
<1>3. ASSUME NEW id \in Ids, Deliver(id)
      PROVE  [Abstract!Next]_(Abstract!vars)
  <2>1. CASE DeliverNull(id)
    BY <2>1 DEF DeliverNull, buffer, Abstract!vars, Pending, Incoming
  <2>2. CASE DeliverDirect(id)
    BY <2>2 DEF DeliverDirect, buffer, Abstract!Pass, Abstract!Next, Pending, Incoming
  <2>3. CASE DeliverLate(id)
    BY <2>3 DEF DeliverLate, buffer, Abstract!vars, Pending, Incoming
  <2>4. CASE DeliverTaken(id)
    <3>1. /\ pc = "idle" /\ pc' \in {"flush", "place"} /\ c' = id
          /\ reorder /\ UNCHANGED <<reorder, buff, out>>
      BY <2>4 DEF DeliverTaken
    <3>2. next_out' = IF next_out < 0 THEN id ELSE next_out
      BY <2>4 DEF DeliverTaken, FirstOut
    <3>3. id >= next_out
      BY <1>0, <2>4, OutputAssumption DEF DeliverTaken, TooLate
    <3>4. Incoming = {} /\ Incoming' = {id} /\ Pending' = Pending
      BY <3>1 DEF Incoming, Pending
    <3>5. next_out \notin Pending
      <4>1. buff[head] = Empty /\ BySlot(buff, head, next_out)
        BY <1>0, <3>1, SlotInvIsBySlot DEF IndInv, StartInv, SlotInv
      <4>2. ASSUME NEW s \in Slots, buff[s] = next_out, next_out >= 0 PROVE FALSE
        <5>1. s # head
          BY <4>1, <4>2 DEF Empty
        <5>2. Dist(head, s) \in Int /\ Dist(head, s) # 0
          BY <1>0, <5>1, OutputAssumption DEF Dist, Slots
        <5> QED
          BY <1>0, <4>1, <4>2, <5>2 DEF BySlot, Empty
      <4> QED
        BY <1>0, <4>2 DEF Pending, Range
    <3> QED
      BY <3>1, <3>2, <3>3, <3>4, <3>5 DEF Abstract!Receive, Abstract!Next
  <2> QED
    BY <1>3, <2>1, <2>2, <2>3, <2>4 DEF Deliver
<1>4. CASE FlushStep
  <2>1. Incoming = {c} /\ Incoming' = Incoming /\ SendNext /\ reorder' = reorder
    BY <1>4 DEF FlushStep, Incoming
  <2>2. next_out >= 0 /\ c >= next_out + buff_length
    BY <1>0, <1>4, OutputAssumption DEF FlushStep, IndInv, TypeOK, StartInv, FlushInv
  <2>3. Abstract!Advance
    BY <2>1, <2>2, SendNextAdvances DEF IndInv
  <2> QED
    BY <2>1, <2>2, <2>3 DEF Abstract!MakeRoom, Abstract!Next
<1>5. CASE FlushDone
  BY <1>5 DEF FlushDone, locals, Abstract!vars, Pending, Incoming
<1>6. CASE Place
  <2>1. /\ Incoming = {c} /\ Incoming' = {} /\ UNCHANGED <<reorder, next_out, out>>
        /\ c < next_out + buff_length
    BY <1>6 DEF Place, Incoming, IndInv, PlaceInv
  <2>2. /\ buff[new_pos] \in {Empty, c}
        /\ buff' = IF c # buff[new_pos] THEN [buff EXCEPT ![new_pos] = c] ELSE buff
    BY <1>6, PlaceInd DEF Place
  <2>3. /\ DOMAIN buff' = Slots /\ buff'[new_pos] = c
        /\ \A s \in Slots : s # new_pos => buff'[s] = buff[s]
    BY <1>0, <2>2
  <2>4. ASSUME NEW x \in Pending' PROVE x \in Pending \/ (x = c /\ c >= 0)
    BY <1>0, <2>3, <2>4 DEF Pending, Range
  <2>5. ASSUME NEW x \in Pending PROVE x \in Pending'
    <3>1. PICK s \in Slots : x = buff[s] /\ x >= 0
      BY <1>0, <2>5 DEF Pending, Range
    <3>2. x = buff'[s]
      BY <2>2, <2>3, <3>1 DEF Empty
    <3> QED
      BY <2>3, <3>1, <3>2 DEF Pending, Range
  <2>6. c >= 0 => c \in Pending'
    BY <1>0, <2>3 DEF Pending, Range
  <2>7. Pending' = IF c < 0 THEN Pending ELSE Pending \union {c}
    BY <1>0, <2>4, <2>5, <2>6
  <2> QED
    BY <2>1, <2>7 DEF Abstract!Store, Abstract!Next
<1>7. CASE DrainStep
  <2>1. /\ Incoming = {} /\ Incoming' = Incoming /\ SendNext /\ buff[head] >= 0
        /\ reorder' = reorder
    BY <1>7 DEF DrainStep, Incoming
  <2>2. next_out >= 0
    BY <1>0, <2>1 DEF IndInv, StartInv, Empty
  <2>3. buff[head] \in {Empty, next_out}
    BY <2>1, <2>2, SendNextKeepsSlots DEF IndInv
  <2>4. next_out \in Pending
    BY <1>0, <2>1, <2>3 DEF Pending, Range, Empty
  <2>5. Abstract!Advance
    BY <2>1, <2>2, SendNextAdvances DEF IndInv
  <2> QED
    BY <2>1, <2>4, <2>5 DEF Abstract!Write, Abstract!Next
<1>8. CASE Return
  BY <1>8 DEF Return, buffer, locals, Abstract!vars, Pending, Incoming
<1>9. CASE UNCHANGED vars
  BY <1>9 DEF vars, Abstract!vars, Pending, Incoming
<1> QED
  BY <1>1, <1>2, <1>3, <1>4, <1>5, <1>6, <1>7, <1>8, <1>9 DEF Next, Loop

(* output_deliver implements OrderedOutput, with and without reorder.      *)
THEOREM ImplementsOrderedOutput == Spec => Refinement
<1>1. Init => Abstract!Init
  BY DEF Init, Abstract!Init, Pending, Incoming, Range, Empty
<1>2. IndInv /\ IndInv' /\ [Next]_vars => [Abstract!Next]_(Abstract!vars)
  BY StepRefines
<1> QED
  BY <1>1, <1>2, IndInvariant, PTL DEF Spec, Refinement, Abstract!Spec
=============================================================================
