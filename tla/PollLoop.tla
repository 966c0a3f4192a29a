----------------------------- MODULE PollLoop -----------------------------
(***************************************************************************)
(* The loop of an instance: psinstance_poll (src/src/psinstance.c) over    *)
(* streaming_timers.c, wait4data of src/Lib/net_helper/net_helper-x.c and  *)
(* the input (input-grapes.c).  A turn sets the timeout, waits for data    *)
(* while it sends what is queued, and runs one handler.                    *)
(*                                                                         *)
(* Times are in steps of the 1 ms with which wait4data polls an empty      *)
(* queue, and relative: offer_epoch and chunk_epoch are what is left until *)
(* then, below 0 once it is past.  The socket and the outgoing queue are   *)
(* counts.                                                                 *)
(***************************************************************************)
EXTENDS Integers

CONSTANTS
  delta,                 \* the longest wait, the argument of psinstance_poll
  offer_interval,        \* chunk_offer_interval, until the first offer
  OfferIntervals,        \* what chunk_trader_offer_interval may say afterwards
  DEFAULT_DATA_INTERVAL, \* until the next chunk if the input has descriptors
  UPDATE_EPOCH,          \* turns between two topology updates
  MaxGap,                \* bound on the time between two chunks of a file
  MaxLate,               \* bound on how late the loop gets
  MaxSocket, MaxQueue    \* bounds on waiting datagrams and queued messages

ASSUME PollLoopAssumption ==
  /\ delta \in Nat \ {0} /\ offer_interval \in Nat \ {0} /\ DEFAULT_DATA_INTERVAL \in Nat \ {0}
  /\ OfferIntervals \subseteq Nat
  /\ UPDATE_EPOCH \in Nat \ {0}
  /\ MaxGap \in Nat \ {0} /\ MaxLate \in Nat \ {0}
  /\ MaxSocket \in Nat \ {0} /\ MaxQueue \in Nat \ {0}

VARIABLES
  role,          \* "peer", or the input of a source: "file", "fds"
  offer_epoch, chunk_epoch, loop_counter,
  due,           \* when the next chunk of a file is due
  pc,            \* where the turn is
  tout, shaping, sleep_time, fds, res,  \* the variables of wait4data
  timeout, elapsed,                     \* what it was given, and waited
  socket, outqueue,
  action, updated                       \* what the last turn did

timers == <<offer_epoch, chunk_epoch, due>>
waiting == <<tout, shaping, sleep_time, fds, res, timeout, elapsed>>
vars == <<role, offer_epoch, chunk_epoch, loop_counter, due, pc, tout, shaping, sleep_time, fds,
          res, timeout, elapsed, socket, outqueue, action, updated>>

IsSource == role # "peer"
Lesser(x, y) == IF x < y THEN x ELSE y

(* psinstance_create, streaming_timers_init, input_open *)
Init ==
  /\ role \in {"peer", "file", "fds"}
  /\ offer_epoch = offer_interval
  /\ chunk_epoch = 0
  /\ due = 0
  /\ loop_counter = 0
  /\ pc = "top"
  /\ tout = 0 /\ shaping = FALSE /\ sleep_time = 0 /\ fds = FALSE /\ res = 0
  /\ timeout = 0 /\ elapsed = 0
  /\ socket = 0 /\ outqueue = 0
  /\ action = "none" /\ updated = FALSE

(* The clock goes on by t.                                                 *)
Elapse(t) ==
  /\ offer_epoch' = offer_epoch - t
  /\ chunk_epoch' = IF IsSource THEN chunk_epoch - t ELSE chunk_epoch
  /\ due' = IF role = "file" THEN due - t ELSE due

-----------------------------------------------------------------------------
(* streaming_timers_set_timeout.  A source waits for its chunk too: the    *)
(* descriptors of the input are never kept (psinstance_create ends their   *)
(* list at 0), so fds[0] is always -1.                                     *)
AwakeOffersOnly == offer_epoch                 \* fault: chunks do not wake
AwakeEpoch == IF IsSource THEN Lesser(chunk_epoch, offer_epoch) ELSE offer_epoch
SleepTimer == IF AwakeEpoch < 0 THEN 0 ELSE Lesser(delta, AwakeEpoch)

(* psinstance_poll up to the loop of wait4data, which fills the set of     *)
(* descriptors once.                                                       *)
KeepFds == fds                                 \* fault: the set of the last call
FilledFds == TRUE

SetTimeout ==
  /\ pc = "top"
  /\ pc' = "attempt"
  /\ timeout' = SleepTimer
  /\ tout' = SleepTimer
  /\ elapsed' = 0
  /\ shaping' = TRUE
  /\ fds' = FilledFds
  /\ res' = 0
  /\ UNCHANGED <<role, timers, loop_counter, sleep_time, socket, outqueue, action, updated>>

(* net_helper_send_attempt: the head of the queue goes out at once, the    *)
(* shaper being told of 0 bytes; an empty queue is looked at again after   *)
(* 1 ms.                                                                   *)
SendingInterval == IF outqueue > 0 THEN 0 ELSE 1

(* The rest of the timeout: what is slept now is taken off.                *)
KeepTout(slept) == tout                        \* fault: nothing is taken off
LeftOf(slept) == tout - slept

Attempt ==
  /\ pc = "attempt"
  /\ pc' = "select"
  /\ outqueue' = IF outqueue > 0 THEN outqueue - 1 ELSE 0
  /\ IF SendingInterval < tout
       THEN /\ tout' = LeftOf(SendingInterval)
            /\ sleep_time' = SendingInterval
            /\ UNCHANGED shaping
       ELSE /\ sleep_time' = tout
            /\ shaping' = FALSE
            /\ UNCHANGED tout
  /\ UNCHANGED <<role, timers, loop_counter, fds, res, timeout, elapsed, socket, action, updated>>

(* select finds the socket readable, at once or when a datagram comes in.  *)
SelectReady(t) ==
  /\ pc = "select"
  /\ fds
  /\ IF socket > 0 THEN t = 0 /\ UNCHANGED socket
                   ELSE t <= sleep_time /\ socket' = 1
  /\ pc' = "act"
  /\ res' = 1
  /\ elapsed' = elapsed + t
  /\ Elapse(t)
  /\ UNCHANGED <<role, loop_counter, tout, shaping, sleep_time, fds, timeout, outqueue, action,
                 updated>>

(* select times out and clears the set; the loop goes on with it.          *)
SelectTimeout ==
  /\ pc = "select"
  /\ fds => socket = 0
  /\ pc' = IF shaping THEN "attempt" ELSE "act"
  /\ fds' = FALSE
  /\ elapsed' = elapsed + sleep_time
  /\ Elapse(sleep_time)
  /\ UNCHANGED <<role, loop_counter, tout, shaping, sleep_time, res, timeout, socket, outqueue,
                 action, updated>>

(* select is interrupted by a signal: wait4data returns -1.                *)
SelectFails(t) ==
  /\ pc = "select"
  /\ t <= sleep_time
  /\ pc' = "act"
  /\ res' = -1
  /\ elapsed' = elapsed + t
  /\ Elapse(t)
  /\ UNCHANGED <<role, loop_counter, tout, shaping, sleep_time, fds, timeout, socket, outqueue,
                 action, updated>>

-----------------------------------------------------------------------------
(* The end of a turn: streaming_timers_update_flag, every UPDATE_EPOCH     *)
(* turns topology_update.  Handlers and updates queue messages.            *)
CountNever == 0                                \* fault: the counter stays
ResetCount(count) == IF count >= UPDATE_EPOCH THEN 0 ELSE count
Count == loop_counter + 1

EndTurn(what) ==
  /\ pc = "act"
  /\ pc' = "top"
  /\ action' = what
  /\ updated' = (Count >= UPDATE_EPOCH)
  /\ loop_counter' = ResetCount(Count)
  /\ outqueue' \in outqueue .. MaxQueue
  /\ UNCHANGED <<role, waiting>>

(* streaming_timers_state_handler *)
InjectsOnFds == res = 2                        \* fault: only for ready descriptors
Injects == res = 0 /\ IsSource /\ chunk_epoch < 0
Offers == res = 0 /\ ~Injects /\ offer_epoch < 0

(* OFFER_ACTION: the trader says when to offer next, from the load of its  *)
(* neighbours.                                                             *)
NextOffer(w) == offer_epoch + w

Offer(w) ==
  /\ Offers
  /\ EndTurn("offer")
  /\ offer_epoch' = NextOffer(w)
  /\ UNCHANGED <<chunk_epoch, due, socket>>

(* input_get: how long to wait for the next chunk, from now on.  It is     *)
(* added to the time this chunk was waited for.                            *)
DeltaUnclipped(d) == due + d + MaxLate         \* fault: never late
DeltaOf(d) == IF role = "fds" THEN DEFAULT_DATA_INTERVAL
              ELSE IF due + d < 0 THEN 0 ELSE due + d

(* INJECT_ACTION, psinstance_inject_chunk: the next chunk of a file is due *)
(* d after this one.                                                       *)
Inject(d) ==
  /\ Injects
  /\ EndTurn("inject")
  /\ chunk_epoch' = chunk_epoch + DeltaOf(d)
  /\ due' = IF role = "file" THEN due + d ELSE due
  /\ UNCHANGED <<offer_epoch, socket>>

(* The same when the input has no chunk: the timestamp is 0 then, so that a*)
(* file is looked at again no later than its next chunk is due.  (Before   *)
(* its first chunk the wait is that of the first chunk, as in Inject.)     *)
NothingWaits == IF role = "fds" THEN {DEFAULT_DATA_INTERVAL} ELSE 0 .. DeltaOf(0)

InjectNothing(w) ==
  /\ Injects
  /\ EndTurn("inject")
  /\ chunk_epoch' = chunk_epoch + w
  /\ UNCHANGED <<offer_epoch, due, socket>>

(* input_chunk: an error of the input ends the program.                    *)
InputError ==
  /\ pc = "act"
  /\ Injects
  /\ pc' = "exit"
  /\ UNCHANGED <<role, timers, loop_counter, waiting, socket, outqueue, action, updated>>

(* PARSE_MSG_ACTION, psinstance_handle_msg: one datagram is read.          *)
ParseMsg ==
  /\ res = 1
  /\ EndTurn("parse")
  /\ socket' = socket - 1
  /\ UNCHANGED timers

NoAction ==
  /\ res # 1 /\ ~Injects /\ ~Offers
  /\ EndTurn("none")
  /\ UNCHANGED <<timers, socket>>

Turn ==
  \/ SetTimeout \/ Attempt \/ SelectTimeout
  \/ InputError \/ ParseMsg \/ NoAction
  \/ \E w \in OfferIntervals : Offer(w)
  \/ \E w \in NothingWaits : InjectNothing(w)
  \/ \E t \in 0 .. 1 : SelectReady(t) \/ SelectFails(t)
  \/ \E d \in 0 .. MaxGap : Inject(d)

(* Datagrams come in at any time; between two turns time passes, and the   *)
(* application may call psinstance_network_periodic.                       *)
Arrive ==
  /\ socket < MaxSocket
  /\ socket' = socket + 1
  /\ UNCHANGED <<role, timers, loop_counter, pc, waiting, outqueue, action, updated>>

Clock ==
  /\ pc = "top"
  /\ offer_epoch > -MaxLate
  /\ IsSource => chunk_epoch > -MaxLate
  /\ Elapse(1)
  /\ UNCHANGED <<role, loop_counter, pc, waiting, socket, outqueue, action, updated>>

Periodic ==
  /\ pc = "top"
  /\ outqueue > 0
  /\ outqueue' = outqueue - 1
  /\ UNCHANGED <<role, timers, loop_counter, pc, waiting, socket, action, updated>>

Next == Turn \/ Arrive \/ Clock \/ Periodic

(* A turn goes on to its end, and turns take time.                         *)
Spec == Init /\ [][Next]_vars
FairSpec == Spec /\ WF_vars(Turn) /\ SF_vars(Clock)

-----------------------------------------------------------------------------
(***************************************************************************)
(* Properties                                                              *)
(***************************************************************************)

(* Types.                                                                  *)
TypeOK ==
  /\ role \in {"peer", "file", "fds"}
  /\ offer_epoch \in Int /\ chunk_epoch \in Int /\ due \in Int
  /\ loop_counter \in 0 .. UPDATE_EPOCH - 1
  /\ pc \in {"top", "attempt", "select", "act", "exit"}
  /\ tout \in Nat /\ sleep_time \in Nat /\ timeout \in Nat /\ elapsed \in Nat
  /\ shaping \in BOOLEAN /\ fds \in BOOLEAN /\ updated \in BOOLEAN
  /\ res \in {-1, 0, 1}
  /\ socket \in 0 .. MaxSocket /\ outqueue \in 0 .. MaxQueue
  /\ action \in {"offer", "inject", "parse", "none"}

(* wait4data cuts its timeout into pieces and counts down: it never waits  *)
(* longer than it was told, and not less unless there is data.             *)
WaitsAsTold ==
  /\ pc # "top" => elapsed <= timeout
  /\ pc = "act" /\ res = 0 => elapsed = timeout

(* wait4data does not sleep while a message waits to be sent.              *)
NeverSleepsOnQueue == pc = "select" /\ sleep_time > 0 => outqueue = 0

(* streaming_timers_set_timeout: no offer and no chunk is slept through; at*)
(* the end of a wait its time has come just now, or had before the wait.   *)
NotSleptThrough ==
  pc = "act" /\ elapsed > 0 => offer_epoch >= 0 /\ (IsSource => chunk_epoch >= 0)

(* input_get gives the wait from now on, but psinstance_poll adds it to the*)
(* time that was waited for, which is earlier: chunks do not drift, one    *)
(* that is overdue is always sent in the next idle turn.                   *)
OverdueFires == role = "file" /\ due < 0 => chunk_epoch < 0

(* What may end every liveness: input_chunk exits.                         *)
Ended == pc = "exit"

(* A datagram that comes in while wait4data has lost the socket from its   *)
(* set is read in a later turn, as every call fills the set again, unless  *)
(* select is interrupted.                                                  *)
EveryDatagramRead == socket > 0 ~> Ended \/ (pc = "act" /\ res # 0)

(* Offers of a peer and chunks of a source need turns that find no data; if*)
(* there are such turns again and again, so are they.                      *)
IdleTurn == pc = "act" /\ res = 0
WorkGoesOn ==
  []<>IdleTurn => []<>(Ended \/ (action = IF IsSource THEN "inject" ELSE "offer"))

(* topology_update is called again and again, whatever the turns do.       *)
UpdatesGoOn == []<>(Ended \/ updated)
=============================================================================
