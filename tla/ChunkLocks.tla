----------------------------- MODULE ChunkLocks -----------------------------
(***************************************************************************)
(* The chunk locks of a trader (src/src/chunklock.c): an array that grows  *)
(* by LSIZE_INCREMENT, in which chunk_trader_handle_offer locks the chunks *)
(* it asks a peer for, until they arrive (chunk_trader_parse_chunk unlocks *)
(* them) or the lock times out.  Timed-out locks stay in the array until   *)
(* chunk_islocked cleans it up.                                            *)
(***************************************************************************)
EXTENDS Integers, SequencesExt

CONSTANTS ChunkIds,         \* the chunks
          Peers,            \* the peers that offer them
          toutdiff,         \* lock_timeout_ms
          LSIZE_INCREMENT,  \* 10 in the code
          MaxTime           \* bound on the clock

ASSUME LockAssumption ==
  /\ toutdiff \in Nat
  /\ LSIZE_INCREMENT \in Nat \ {0}
  /\ MaxTime \in Nat

VARIABLES locks,    \* the first lcount elements of the array
          lsize,    \* its allocated size
          now       \* the clock of gettimeofday

vars == <<locks, lsize, now>>

lcount == Len(locks)

(* chunk_locks_create, locks_init                                          *)
Init ==
  /\ locks = << >>
  /\ lsize = LSIZE_INCREMENT
  /\ now = 0

(* chunk_lock_timed_out *)
TimedOut(l) == now > l.timestamp + toutdiff

(* chunk_locks_cleanup: from the last element to the first, because        *)
(* chunk_lock_remove moves the ones behind it.                             *)
CleanupForwards(array) ==                                  \* fault: first to last
  LET n == Len(array)
      after[i \in 0 .. n] ==
        IF i = 0 THEN array
        ELSE LET rest == after[i - 1]
             IN IF i <= Len(rest) /\ TimedOut(rest[i]) THEN RemoveAt(rest, i) ELSE rest
  IN after[n]
Cleanup(array) ==
  LET n == Len(array)
      after[i \in 1 .. n + 1] ==      \* the array once elements n, n - 1 .. i were visited
        IF i = n + 1 THEN array
        ELSE LET rest == after[i + 1]
             IN IF TimedOut(rest[i]) THEN RemoveAt(rest, i) ELSE rest
  IN after[1]

(* chunk_islocked, after its cleanup *)
NeverLocked(array, cid) == FALSE                           \* fault: no check
IsLocked(array, cid) == \E i \in DOMAIN array : array[i].chunkid = cid

(* chunk_lock: stored behind the last element; the array grows when the    *)
(* element filled it.                                                      *)
GrowLate(n) == IF n > lsize THEN lsize + LSIZE_INCREMENT ELSE lsize   \* fault: > for ==
Grow(n) == IF n = lsize THEN lsize + LSIZE_INCREMENT ELSE lsize

Stamp == now

(* The step of chunk_trader_handle_offer for one chunk it does not have:   *)
(* chunk_islocked, and if not, chunk_lock.                                 *)
TryLock(cid, from) ==
  LET clean == Cleanup(locks)
  IN /\ IF IsLocked(clean, cid)
          THEN /\ locks' = clean
               /\ UNCHANGED lsize
          ELSE /\ locks' = Append(clean, [chunkid |-> cid, peer |-> from, timestamp |-> Stamp])
               /\ lsize' = Grow(Len(clean) + 1)
     /\ UNCHANGED now

(* chunk_unlock: the first lock of the chunk goes.                         *)
ChunkUnlock(cid) ==
  /\ locks' = RemoveFirstMatch(locks, LAMBDA l : l.chunkid = cid)
  /\ UNCHANGED <<lsize, now>>

Tick ==
  /\ now < MaxTime
  /\ now' = now + 1
  /\ UNCHANGED <<locks, lsize>>

Next ==
  \/ Tick
  \/ \E cid \in ChunkIds : ChunkUnlock(cid) \/ \E p \in Peers : TryLock(cid, p)

Spec == Init /\ [][Next]_vars

-----------------------------------------------------------------------------
(* Types of the array.                                                     *)
TypeOK ==
  /\ locks \in Seq([chunkid : ChunkIds, peer : Peers, timestamp : 0 .. MaxTime])
  /\ lsize \in Nat
  /\ now \in 0 .. MaxTime

(* chunk_lock writes locks[lcount] before it looks at lsize: there must    *)
(* always be a free element.                                               *)
FreeElement == lcount < lsize

Surviving(array) == {k \in DOMAIN array : ~TimedOut(array[k])}

(* chunk_locks_cleanup removes the timed-out locks and no other, and keeps *)
(* the order of the rest, although it removes while it iterates.           *)
CleanupExact ==
  LET clean == Cleanup(locks)
  IN \E f \in [DOMAIN clean -> Surviving(locks)] :      \* where each element was
       /\ \A i \in DOMAIN clean : clean[i] = locks[f[i]]
       /\ \A i, j \in DOMAIN clean : i < j => f[i] < f[j]
       /\ Surviving(locks) = {f[i] : i \in DOMAIN clean}

InForce == {[cid |-> locks[i].chunkid, since |-> locks[i].timestamp] : i \in Surviving(locks)}

Abstract == INSTANCE LockSet WITH locked <- InForce, Timeout <- toutdiff

(* chunklock.c implements LockSet: seen through the locks that have not    *)
(* timed out, growth, cleanup and removal from the array disturb no other  *)
(* lock, and chunk_trader_handle_offer never locks a locked chunk again.   *)
ImplementsLockSet == Abstract!Spec
=============================================================================
