-------------------------- MODULE PollLoop_proofs --------------------------
(***************************************************************************)
(* The safety properties of PollLoop, for every interval, timeout and      *)
(* bound.  The inductive invariant says what wait4data has still to wait   *)
(* at each point of its loop, how the two timers relate to the timeout that*)
(* was computed from them, and how the chunk timer relates to the time the *)
(* next chunk is due.                                                      *)
(***************************************************************************)
EXTENDS PollLoop, TLAPS

(* What is slept and what is left add up to the timeout.                   *)
CountdownInv ==
  /\ pc \in {"attempt", "select"} => res = 0
  /\ pc = "attempt" => shaping /\ elapsed + tout = timeout
  /\ pc = "select" /\ shaping => elapsed + sleep_time + tout = timeout
  /\ pc = "select" /\ ~shaping => elapsed + sleep_time = timeout
  /\ pc \in {"act", "exit"} => elapsed <= timeout
  /\ pc = "act" /\ res = 0 => elapsed = timeout
  /\ pc = "act" /\ res = 1 => socket > 0

(* A timeout that is not 0 ends when the timers come, or earlier.          *)
TimersInv ==
  pc # "top" /\ timeout > 0 =>
    /\ offer_epoch + elapsed >= timeout
    /\ IsSource => chunk_epoch + elapsed >= timeout

(* The chunk timer is past, or comes before the next chunk is due.         *)
DueInv == role = "file" => chunk_epoch < 0 \/ chunk_epoch <= due

IndInv ==
  /\ TypeOK
  /\ CountdownInv
  /\ TimersInv
  /\ DueInv
  /\ NeverSleepsOnQueue

(* The initial state satisfies the invariant.                              *)
LEMMA InitInv == Init => IndInv
<1> SUFFICES ASSUME Init PROVE IndInv
  OBVIOUS
<1>1. shaping \in BOOLEAN /\ fds \in BOOLEAN /\ updated \in BOOLEAN
  BY DEF Init
<1>2. TypeOK
  BY <1>1, PollLoopAssumption DEF Init, TypeOK
<1>3. CountdownInv /\ TimersInv /\ NeverSleepsOnQueue
  BY DEF Init, CountdownInv, TimersInv, NeverSleepsOnQueue
<1>4. DueInv
  BY DEF Init, DueInv
<1> QED BY <1>2, <1>3, <1>4 DEF IndInv

(* psinstance_poll up to the loop of wait4data.                            *)
LEMMA SetTimeoutStep == ASSUME IndInv, SetTimeout PROVE IndInv'
  BY PollLoopAssumption
  DEF IndInv, TypeOK, CountdownInv, TimersInv, DueInv, NeverSleepsOnQueue, IsSource, timers,
      SetTimeout, SleepTimer, AwakeEpoch, Lesser, FilledFds

(* An attempt to send, which takes what will be slept off the timeout.     *)
LEMMA AttemptStep == ASSUME IndInv, Attempt PROVE IndInv'
<1> USE DEF IndInv, timers
<1>1. /\ pc = "attempt" /\ pc' = "select" /\ shaping
      /\ elapsed + tout = timeout /\ res = 0
  BY DEF Attempt, CountdownInv
<1>2. UNCHANGED <<role, offer_epoch, chunk_epoch, due, loop_counter, fds, res, timeout, elapsed,
                  socket, action, updated>>
  BY DEF Attempt
<1>3. shaping' \in BOOLEAN
  BY DEF Attempt, TypeOK
<1>4. /\ tout' \in Nat /\ sleep_time' \in Nat /\ outqueue' \in 0 .. MaxQueue
      /\ sleep_time' > 0 => outqueue' = 0
  BY PollLoopAssumption DEF Attempt, SendingInterval, LeftOf, TypeOK
<1>5. /\ shaping' => sleep_time' + tout' = tout
      /\ ~shaping' => sleep_time' = tout
  <2>1. CASE SendingInterval < tout
    <3>1. sleep_time' + tout' = tout
      BY <2>1 DEF Attempt, SendingInterval, LeftOf, TypeOK
    <3>2. shaping'
      BY <1>1, <2>1 DEF Attempt
    <3> QED BY <3>1, <3>2
  <2>2. CASE ~(SendingInterval < tout)
    <3>1. sleep_time' = tout
      BY <2>2 DEF Attempt
    <3>2. ~shaping'
      BY <2>2 DEF Attempt
    <3> QED BY <3>1, <3>2
  <2> QED BY <2>1, <2>2
<1>6. TypeOK'
  BY <1>1, <1>2, <1>3, <1>4 DEF TypeOK
<1>7. CountdownInv'
  <2>0. /\ elapsed + tout = timeout /\ elapsed' = elapsed /\ timeout' = timeout
        /\ elapsed \in Nat /\ tout \in Nat
    BY <1>1, <1>2 DEF TypeOK
  <2>1. sleep_time' + tout' = tout => elapsed' + sleep_time' + tout' = timeout'
    <3>1. sleep_time' \in Nat /\ tout' \in Nat
      BY <1>4
    <3>2. elapsed + (sleep_time' + tout') = elapsed + sleep_time' + tout'
      BY <2>0, <3>1
    <3> QED BY <2>0, <3>2
  <2>2. sleep_time' = tout => elapsed' + sleep_time' = timeout'
    BY <1>1, <1>2
  <2> QED BY <1>1, <1>2, <1>5, <2>1, <2>2 DEF CountdownInv
<1>8. TimersInv' /\ DueInv' /\ NeverSleepsOnQueue'
  BY <1>1, <1>2, <1>4 DEF TimersInv, DueInv, NeverSleepsOnQueue, IsSource
<1> QED BY <1>6, <1>7, <1>8

(* A select that times out.                                                *)
LEMMA TimeoutStep == ASSUME IndInv, SelectTimeout PROVE IndInv'
<1> USE DEF IndInv
<1>1. /\ pc = "select" /\ res = 0 /\ elapsed' = elapsed + sleep_time
      /\ UNCHANGED <<role, loop_counter, tout, shaping, sleep_time, res, timeout, socket, outqueue,
                     action, updated>>
  BY DEF SelectTimeout, CountdownInv
<1>2. fds' \in BOOLEAN
  BY DEF SelectTimeout
<1>3. /\ shaping => pc' = "attempt" /\ elapsed' + tout = timeout
      /\ ~shaping => pc' = "act" /\ elapsed' = timeout
  BY <1>1 DEF SelectTimeout, CountdownInv, TypeOK
<1>4. pc' \in {"attempt", "act"}
  BY DEF SelectTimeout
<1>5. TypeOK'
  BY <1>1, <1>2, <1>4 DEF SelectTimeout, Elapse, TypeOK
<1>6. CountdownInv'
  BY <1>1, <1>3, <1>4 DEF CountdownInv, TypeOK
<1>7. TimersInv'
  BY <1>1 DEF SelectTimeout, Elapse, TimersInv, TypeOK, IsSource
<1>8. DueInv' /\ NeverSleepsOnQueue'
  BY <1>1, <1>4 DEF SelectTimeout, Elapse, DueInv, NeverSleepsOnQueue, TypeOK, IsSource
<1> QED BY <1>5, <1>6, <1>7, <1>8

(* The ways out of wait4data that do not end in a timeout.                 *)
LEMMA SelectSteps ==
  ASSUME IndInv, NEW t \in 0 .. 1, SelectReady(t) \/ SelectFails(t)
  PROVE  IndInv'
<1> USE PollLoopAssumption DEF IndInv, TypeOK, CountdownInv, TimersInv, DueInv, NeverSleepsOnQueue,
        IsSource, timers, waiting
<1>1. CASE SelectReady(t)
  BY <1>1 DEF SelectReady, Elapse
<1>2. CASE SelectFails(t)
  BY <1>2 DEF SelectFails, Elapse
<1> QED BY <1>1, <1>2

(* What ends a turn leaves the variables of wait4data alone and counts.    *)
LEMMA TurnEnds ==
  ASSUME IndInv, NEW what \in {"offer", "inject", "parse", "none"}, EndTurn(what)
  PROVE  /\ pc = "act" /\ pc' = "top"
         /\ action' \in {"offer", "inject", "parse", "none"}
         /\ updated' \in BOOLEAN
         /\ loop_counter' \in 0 .. UPDATE_EPOCH - 1
         /\ outqueue' \in 0 .. MaxQueue
         /\ UNCHANGED <<role, tout, shaping, sleep_time, fds, res, timeout, elapsed>>
  BY PollLoopAssumption DEF IndInv, TypeOK, EndTurn, Count, ResetCount, waiting

(* The handlers.                                                           *)
LEMMA HandlerSteps ==
  ASSUME IndInv,
         \/ InputError \/ ParseMsg \/ NoAction
         \/ \E w \in OfferIntervals : Offer(w)
         \/ \E w \in NothingWaits : InjectNothing(w)
         \/ \E d \in 0 .. MaxGap : Inject(d)
  PROVE  IndInv'
<1> USE PollLoopAssumption DEF IndInv, TypeOK, CountdownInv, TimersInv, DueInv, NeverSleepsOnQueue,
        IsSource, timers
<1>1. CASE \E w \in OfferIntervals : Offer(w)
  <2>1. PICK w \in OfferIntervals : Offer(w)
    BY <1>1
  <2> QED BY <2>1, TurnEnds DEF Offer, NextOffer
<1>2. CASE \E w \in NothingWaits : InjectNothing(w)
  <2>1. PICK w \in NothingWaits : InjectNothing(w)
    BY <1>2
  <2>2. w \in Nat /\ (role = "file" => w = 0 \/ w <= due)
    BY DEF NothingWaits, DeltaOf
  <2> QED BY <2>1, <2>2, TurnEnds DEF InjectNothing, Injects
<1>3. CASE InputError
  BY <1>3 DEF InputError, waiting
<1>4. CASE ParseMsg
  BY <1>4, TurnEnds DEF ParseMsg
<1>5. CASE NoAction
  BY <1>5, TurnEnds DEF NoAction
<1>6. CASE \E d \in 0 .. MaxGap : Inject(d)
  <2>1. PICK d \in 0 .. MaxGap : Inject(d)
    BY <1>6
  <2> QED BY <2>1, TurnEnds DEF Inject, Injects, DeltaOf
<1> QED BY <1>1, <1>2, <1>3, <1>4, <1>5, <1>6

(* What happens around the loop.                                           *)
LEMMA OutsideSteps ==
  ASSUME IndInv, Arrive \/ Clock \/ Periodic
  PROVE  IndInv'
<1> USE PollLoopAssumption DEF IndInv, TypeOK, CountdownInv, TimersInv, DueInv, NeverSleepsOnQueue,
        IsSource, timers, waiting
<1>1. CASE Arrive
  BY <1>1 DEF Arrive
<1>2. CASE Clock
  BY <1>2 DEF Clock, Elapse
<1>3. CASE Periodic
  BY <1>3 DEF Periodic
<1> QED BY <1>1, <1>2, <1>3

(* IndInv is an invariant of the loop.                                     *)
THEOREM Invariance == Spec => []IndInv
<1>1. IndInv /\ [Next]_vars => IndInv'
  <2> SUFFICES ASSUME IndInv, [Next]_vars PROVE IndInv'
    OBVIOUS
  <2>1. CASE Turn
    BY <2>1, SetTimeoutStep, AttemptStep, TimeoutStep, SelectSteps, HandlerSteps DEF Turn
  <2>2. CASE Arrive \/ Clock \/ Periodic
    BY <2>2, OutsideSteps
  <2>3. CASE UNCHANGED vars
    BY <2>3 DEF vars, IndInv, TypeOK, CountdownInv, TimersInv, DueInv, NeverSleepsOnQueue, IsSource
  <2> QED BY <2>1, <2>2, <2>3 DEF Next
<1> QED BY InitInv, <1>1, PTL DEF Spec

(* The state of the loop is well typed.                                    *)
THEOREM TypeCorrect == Spec => []TypeOK
<1>1. IndInv => TypeOK
  BY DEF IndInv
<1> QED BY <1>1, Invariance, PTL

(* wait4data waits as long as it was told, neither longer nor, without     *)
(* data, shorter, for every timeout and every pattern of queued messages.  *)
THEOREM WaitCorrect == Spec => []WaitsAsTold
<1>1. IndInv => WaitsAsTold
  BY PollLoopAssumption DEF IndInv, TypeOK, CountdownInv, WaitsAsTold
<1> QED BY <1>1, Invariance, PTL

(* wait4data never sleeps while a message waits to be sent.                *)
THEOREM QueueServed == Spec => []NeverSleepsOnQueue
<1>1. IndInv => NeverSleepsOnQueue
  BY DEF IndInv
<1> QED BY <1>1, Invariance, PTL

(* streaming_timers_set_timeout: no offer and no chunk is slept through,   *)
(* whatever the intervals are.                                             *)
THEOREM TimersKept == Spec => []NotSleptThrough
<1>1. IndInv => NotSleptThrough
  BY PollLoopAssumption DEF IndInv, TypeOK, CountdownInv, TimersInv, NotSleptThrough, IsSource
<1> QED BY <1>1, Invariance, PTL

(* input_get and streaming_timers_update_chunk_time: a chunk of a file that*)
(* is overdue is always due for the timer too.                             *)
THEOREM ChunksDoNotDrift == Spec => []OverdueFires
<1>1. IndInv => OverdueFires
  BY DEF IndInv, TypeOK, DueInv, OverdueFires
<1> QED BY <1>1, Invariance, PTL
=============================================================================
