------------------------------ MODULE LockSet ------------------------------
(***************************************************************************)
(* What the chunk locks promise to the trader: a set of locks in force.    *)
(* A chunk without a lock in force can be locked at once, a locked one     *)
(* cannot; a lock ends when its chunk is unlocked or its time is over, and *)
(* for no other reason.                                                    *)
(***************************************************************************)
EXTENDS Integers

CONSTANTS ChunkIds, Timeout

VARIABLES locked,   \* the locks in force: [cid, since]
          now

vars == <<locked, now>>

Init == locked = {} /\ now = 0

Lock(cid) ==
  /\ \A l \in locked : l.cid # cid
  /\ locked' = locked \union {[cid |-> cid, since |-> now]}
  /\ UNCHANGED now

Unlock(cid) ==
  /\ locked' = {l \in locked : l.cid # cid}
  /\ UNCHANGED now

TimePasses ==
  /\ now' = now + 1
  /\ locked' = {l \in locked : now' <= l.since + Timeout}

Next == TimePasses \/ \E cid \in ChunkIds : Lock(cid) \/ Unlock(cid)

Spec == Init /\ [][Next]_vars
=============================================================================
