# PeerStreamer engine: a verification project

TLA+ modules, TLC configurations and TLAPS proofs for the PeerStreamer engine,
a peer-to-peer live streaming library. A source cuts a stream into numbered
*chunks*; nodes trade chunks with their *neighbours* by
offer / accept / chunk / ack messages over UDP; each node hands the chunks to
its output in the order of their ids.

Every definition that models code is listed, with the lines it models, in
`PROJECT.json` under `map`; the comment above it names the C function.

## 1. Inventory

One instance of the engine is **single-threaded**: `psinstance_poll` waits for
the socket or a timer, runs one handler to its end, and now and then
`topology_update`. Nothing inside a node interleaves with a handler. What is
hard are sequences: messages of several nodes that cross, get lost, duplicated
or late; timers that fall between an offer and its answer; state that was true
when a message left and is not when it arrives; arrays that are changed while
they are walked over; numbers that wrap.

| component | state | operations | talks to |
|---|---|---|---|
| chunk output (`output-grapes.c`) | ring buffer, `head`, `next_out` | create, deliver, destroy | called for every new chunk; writes to the dechunkiser |
| transactions (`transaction.c`) | doubly linked list of open offers, newest first | create (with timeout), accept, remove, destroy | called by the trader |
| chunk locks (`chunklock.c`) | array of (chunk, time) | lock, unlock, islocked (with cleanup) | called by the trader |
| chunk trader (`chunk_trader.c`) | chunk buffer, locks, transactions; per peer a buffer map | push, offer, the handlers of bmap, offer, accept, chunk, ack | messages to other traders; reads the neighbourhood |
| topology (`topology.c`) | neighbourhood, swarm bucket, locked neighbours | ADD, REMOVE, QUIT messages, periodic update | messages to other topologies; sends buffer maps through the trader; psample |
| streaming instance (`psinstance.c`) | owns all of these | create, poll, inject, handle message | the application; the socket |
| streaming timers (`streaming_timers.c`) | next offer, next chunk, loop counter | set timeout, choose action | the poll loop |
| chunk input (`input-grapes.c`), measures, metadata, attributes | next id, interval estimates | | the source |
| network helper (`net_helper-x.c`, `nhx/`) | per peer a bucket of sent and one of arriving packets, each in fragments; the outgoing queue; the next packet id | send, send attempt, receive, wait, deinit | datagrams; called by everything above |
| ordered set (`nhx/ord_set.c`) | sorted array of pointers | search, insert, remove, two iterations | buckets (by packet id) and the network manager (by node) |
| shaper, plain UDP helper | rates; sockets | | the network helper |

What makes each correct, and what could go wrong, is listed line by line as
`hazards` in `PROJECT.json`.

GRAPES (chunk buffer, chunk id sets, peer sets, peer sampling, scheduling) is
not part of the repository: it is modelled from how this code uses it, and
those definitions are marked external. A peer set is taken to hold a node at
most once; the chunk buffer refuses duplicates and, when full, chunks older
than all it holds; psample may return any nodes; the scheduler may choose any
peer that passes the filter.

## 2. Modules

| module | models | kind |
|---|---|---|
| `OrderedOutput` | what the output promises: an increasing, lossless window, or, if no order is asked for, chunks as they come | abstract |
| `ChunkOutput` | `output-grapes.c`; a call of `output_deliver` is a sequence of steps, one per chunk written | component |
| `ChunkOutput_proofs` | its theorems | proofs |
| `TransactionList` | the list operations of `transaction.c` | operators |
| `Transactions` | one trader's list against late, repeated and lost answers | component |
| `TransactionWalk` | the same list in memory: linked cells, the walks over them, one element a step, malloc and free | component |
| `Transactions_proofs` | the theorems of `Transactions` | proofs |
| `LockSet` | locks in force, each until its timeout | abstract |
| `ChunkLocks` | `chunklock.c`: the array | component |
| `ChunkLocks_proofs` | its theorems | proofs |
| `ChunkTrader` | `chunk_trader.c` and the chunk paths of `psinstance.c`, for several nodes and a network | composition |
| `ChunkTrader_proofs` | its theorems | proofs |
| `PeerSets` | what the operations of `topology.c` do to the peers of a node | operators |
| `Topology` | one node's topology among arbitrary peers | component |
| `Topology_proofs` | its theorems | proofs |
| `Overlay` | several topologies and the messages between them | composition |
| `KeyedSet` | what an ordered set promises: one element per key, answers by key | abstract |
| `OrdSet` | `ord_set.c`: the array, the binary search one comparison a step, the walk that removes | component |
| `OrdSet_proofs` | its theorems | proofs |
| `Packets` | packets, fragments and buckets: `fragmented_packet.c`, `packet_bucket.c` | operators |
| `NetHelper` | `net_helper-x.c`, `network_manager.c`, `endpoint.c` for several nodes and a network of datagrams | composition |
| `NetHelper_proofs` | its theorems | proofs |
| `PollLoop` | `psinstance_poll` over `streaming_timers.c`, `wait4data` and `input_get` | composition |
| `PollLoop_proofs` | its theorems | proofs |
| `MC*` | the instances for TLC  | |

**ChunkOutput.** `buff`, `head`, `next_out` are the C fields (a slot is the id
of its chunk or -1). `pc` tells where in `output_deliver` the call is; `c`,
`new_pos`, `todo` are its locals. The steps are `DeliverNull`, `DeliverDirect`,
`DeliverLate`, `DeliverTaken` (up to the flush), `FlushStep`, `FlushDone`,
`Place`, `DrainStep`, `Return`. `out` and `accepted` are history. The steps are
smaller than the C needs (nothing interleaves) so that the refinement sees
every chunk written. `reorder` is fixed when the output is made; either value
is an initial state. `buff_length` is what a `uint16_t` keeps of `outbuff_size`.

**Transactions.** `stl` is the list. Ids are taken modulo `TransIdMod` (2^16 in
the code), as the `uint16_t` does; the ternary in `transaction_create` is
computed on `int` and has no effect, so the model has none. `Rate` bounds the
offers per unit of time by what the ids of a lifetime allow; the code has no
such check, but at its offer interval it would take a wrap within four
seconds. `Transactions` has the list as a sequence, each call in one step, and is
what the theorems are about. `TransactionWalk` has it as the code does: `cell` are
the elements with `backward` and `forward`, `used` those that are allocated. A call
begins with `CreateCalled`, `AcceptCalled` or `RemoveCalled`, its loop takes a
`CheckStep` or `SearchStep` an element, with `iterator` and `aux` the pointers
`stl_iterator` and `stl_aux`, and `Insert`, `AcceptDone` or `RemoveDone` ends it,
together with the step of `Transactions` it should amount to. `Unlink` is
`_transaction_remove`, which also frees the element. `DestroyStep` is a turn of
`transaction_destroy`. malloc returns any free cell: as the code compares no
addresses, one choice stands for all.

**ChunkLocks.** `locks` is the used part of the array, timed-out elements
included; the cleanup is the backward walk. `TryLock` is the test-and-lock of
`chunk_trader_handle_offer`.

**ChunkTrader.** Per node: `cb` (ids in the buffer), `neighs`, `bmap` (beliefs),
`locked`, `trans`; the network `net` is a bag, with `Lose` and `Duplicate`. One
action per handler: `Inject`, `SendOffer`, `HandleBmap`, `HandleOffer`,
`HandleAccept`, `HandleChunk`, `HandleAck`, `IgnoreUnknown`, `DiscardChunk` (at
the source). Locks are the set of `LockSet`, whose timeout may fall at any time
(`LockTimeout`); a timeout of transactions cuts any number of the oldest ones.
`SendOffer` is one turn of the loop over `peers_per_offer`. Neighbours are only
gained here, and an ADD of a neighbour makes a node send its buffer map again;
losing them is the subject of `Topology`, and peers known only
from the swarm bucket are not distinguished from unknown ones.

**Topology.** A record per node: `neigh`, `swarm`, `locked` (the three peer
sets) and `idle` (peers whose timestamps are older than `tout_bmap`).
`topology_update` is one action: sampling, the walk that drops inactive peers
(`Walk` skips the peer that moves into a freed place, as the C loop does, for
any order of the array; with `peer_timeout` 0 there is none), the random exchange, the signals, and the clearing of
the swarm bucket. `linked` and `updated` are history.

**Overlay** composes the same operators for several nodes with a network of
ADD, REMOVE and QUIT messages.

**OrdSet.** An element is a key and a tag, since the comparison functions see
the key only. `Call` begins `ord_set_check_pos` (variables `a`, `b`, `i` as in
C), `Loop` is one turn of its loop, `LoopEnd` the adjustment behind it, and
`Finish` the rest of `find`, `insert` (with and without override), `remove`,
`iter` or `iter_safe`; `IterFirst` is `iter` with a null pointer. `WalkStart` to `WalkEnd` are the `ord_set_for_each_safe` of
`packet_bucket_destroy` and `network_manager_destroy`, from the last element
down, each removed while the loop stands on it; then `Destroy`.

**NetHelper.** `ep[n][p]` is `n`'s endpoint of `p`: `out_id`, the outgoing and the
incoming bucket (packets, oldest first). `outqueue[n]` is the queue of fragments
and requests, `net` the datagrams in flight. `SendToPeer` cuts, stores and
enqueues (in front, as `list_splice` does); `SendAttempt` sends the head;
`ReceiveFragment` is all of `recv_from_peer` for a fragment: refresh, write, the
requests for what is missing below, and the pop, for which the clock is read
again (`t`); `ReceiveRequest` a request; `Restart` both `net_helper_deinit`, which
drains the queue, and a crash, which does not. Data is abstract: a fragment
carries the piece `<<message, fragment id>>`, its length follows from the size
of the message. Fragments of destroyed packets leave the queue (`Unlink`), as
`fragment_deinit` does. A request never leaves: it names the remote node as its
sender, whose descriptor is -1; `ReceiveRequest` is there for peers that do send
them. `corrupt` stands for the list that is freed, spliced and freed again when
an id is still in the bucket.

**PollLoop.** One turn of `psinstance_poll`: `SetTimeout`, then `Attempt` and a
select (`SelectReady`, `SelectTimeout`, `SelectFails`) until `wait4data` returns,
then one of `Offer`, `Inject`, `InjectNothing`, `InputError`, `ParseMsg`, `NoAction`,
each ending with the count of turns and the topology update. Times are
relative, in milliseconds, the unit in which an empty queue is polled; the
epochs are what is left until then. The descriptor set is a flag: filled at the
start, emptied by a select that times out and *not* filled again in the loop.
The shaper is told of 0 bytes for each message (`net_helper_send_attempt` passes
a constant), so a message never waits for it. The interval
between offers is any of `OfferIntervals`, which stands for
`chunk_trader_offer_interval` and `measures.c`. A `file` source has timestamps; a
`fds` source has descriptors, which `psinstance_create` however forgets by ending
their list at index 0, so it is driven by its timer too.

## 3. Runs

Passing runs:

| run | bounds | shows |
|---|---|---|
| `output` | window 3, ids -2..8, at most 3 chunks written, with and without reordering | order, no loss, nothing withheld, no overwriting, refinement of `OrderedOutput`. Ids reach more than two windows ahead, so flushes of every length and jumps happen; negative ids occur because the code compares them with an unset `next_out` |
| `transactions` | ids modulo 4, lifetime 1, 2 offers per tick, the clock to 3, 6 offers, 5 cells: one more than the list can be long | ids wrap and are used again; distinctness and the bound of the list. Up to four elements expire in one walk, alone, in a row, at the head and at the end: the cells still hold the list, forward and backward, none is leaked, no pointer is left to a freed one |
| `locks` | small increment and timeout | growth, cleanup and relocking; refinement of `LockSet` |
| `trader_reliable` | 3 nodes, 2 chunks, 2 messages in flight | no chunk is asked for twice at a time; every chunk reaches every node |
| `trader_faults` | 2 nodes that meet, 2 chunks, buffer of 1, 3 messages in flight, two losses or duplications, lock timeouts | each chunk goes to the output once; no lock on a chunk that is held; beliefs about neighbours are right although chunks vanish between offer and accept, as long as nothing is lost. Signalling of unknown nodes is ignored, buffer maps come late, chunks are offered to the source |
| `topology` | 3 peers, 2 of them leave, target 2, half discarded | the peer sets stay consistent; the update reaches and respects the target; a peer that left is dropped for good, although the walk skips peers. Of so few neighbours 3/10 would be none, hence the half; the theorems hold for every fraction |
| `ordset` | 5 keys, 2 tags, 4 elements, growth by 1 | the search ends at the right place for keys below, between and above; the array stays sorted and in bounds over several growths; the walk empties it; refinement of `KeyedSet` |
| `nethelper` | one sender, one receiver, six messages of 3, 1, 1, 1, 1 and 4 bytes, fragments of 2, a buffer of 4, ids modulo 5, packets expire after 2 s, the clock runs to 5, one loss, duplicate, request or restart | the last message gets the id of the first and fills the buffer; whatever order datagrams come in, what is received was sent, nothing is stranded, the queue links only fragments that exist, once |
| `poll` | waits up to 3, offers every 1 to 4, chunks 0 to 3 apart, up to 2 late, 2 datagrams and 2 messages waiting, the code's 10 turns per update | waits are as long as told, nothing due is slept through, chunks do not drift; datagrams are read, offers and chunks go on, updates go on |

In `nethelper` the modulus of ids must be at least `Rate * (max_pkt_age +
QueueDelay + NetDelay)`: an id must not come round while a fragment of its last
use is in a bucket or under way. The code has 65536 ids and packets of a few
seconds, which allows thousands of messages a second to one peer. Seconds are
what `time(NULL)` counts. Two further assumptions are in `NetHelperAssumption`:
`QueueDelay + 1 >= max_pkt_age` (a fragment can be asked for as long as its packet
is kept, so what waits in the queue may be as old as that) and `frag_size <
buffer_size` (1200 bytes against the engine's message buffer: a fragment fits).

The trader runs switch deadlock checking off: with finitely many chunks the
swarm comes to rest. So do `nethelper`, whose messages and clock are bounded,
`transactions`, which ends when the list is destroyed, and `poll`, where an error of
the input ends the program. Everywhere else deadlock
is checked.

`TypeOK` is stated in every component's module and proved there. It is also
checked for `ChunkTrader`, whose bounds are part of it; the other runs spend
their time on what takes several steps to go wrong. `SlotInv`, `PlaceInv` and
`NeverSleepsOnQueue` are proved and have no run either.

Violation runs, each a place where the code and its own comments disagree
(`findings` in `PROJECT.json`):

* `nethelper_data`: a packet may be complete when its last fragment arrives and
  expired when it is popped a moment later, in the next second; the pop's
  failure is not looked at and `recv_from_peer` returns the size of the buffer,
  with the raw datagram in it.
* `transaction_ids`: once ids wrap, `transaction_create` returns 0 for a
  transaction it opened, though its comment keeps 0 for failures and the code
  means to skip it: the ternary is computed on `int`. The accept of that offer is
  ignored, and the ack of any pushed chunk closes it.
* `overlay_bidirectional`: an inactive neighbour is dropped without telling
  it, so neighbourhoods are not mutual.

Further disagreements that the models show and that need no run of their own:
ids of removed transactions are used again at
once, so that a repeated ack of an old offer removes a later transaction;
`wait4data` may return 0 with a datagram waiting, as its descriptor set is empty
after the first select that timed out (the next turn reads it, see
`EveryDatagramRead`).

Two more comments are wrong about a return value and need no model:
`output_deliver` answers a late chunk with 0, not -1 (`output-grapes.c:149`), and
`transaction_remove` an unknown id with -2.0, not -1.0 (`transaction.c:174`).

## 4. Fairness

`EveryChunkEverywhere` (in `trader_reliable`): the poll loop reads every datagram, so
each kind of message is handled if it stays in the network (weak fairness per
sender, receiver, type and chunk set); the loop goes on offering and its
weighted random choice neglects no neighbour (strong fairness of `SendOffer`,
because the bound on messages in flight may switch it off for a while). Both
hold for the code as long as the loop finds turns without incoming data, see
the hazard at `streaming_timers.c:81`.

`GoneForGood` (in `topology`): updates go on; the timestamp of a node that
left grows old (weak fairness); and, since `tout_bmap` is 10 s and updates run
every ten turns of the loop, again and again an update finds no *live*
neighbour silent. Without the last assumption neighbours that fall silent and
come back in turn, each just ahead of the dead one in the array, could hide it
from the walk for ever. What still comes of a dead node (late messages,
entries of psample) is bounded by `MaxEchoes`.

`EveryDatagramRead`, `WorkGoesOn`, `UpdatesGoOn` (in `poll`): the application calls
`psinstance_poll` again and again (weak fairness of `Turn`: `select` returns by its
timeout, handlers do not block), and time passes between turns (strong
fairness of `Clock`, which is possible at the top of every turn). `Arrive` has no
fairness: datagrams may stop or flood. Under a flood no offer is ever sent,
since a turn that finds data only parses it; `WorkGoesOn` therefore assumes that
idle turns recur. `EveryDatagramRead` ends in a turn whose wait saw the socket
or was interrupted by a signal.

`SearchEnds` (in `ordset`): a call, once begun, runs (weak fairness of the loop).

## 5. Proofs

Every safety property that a passing run checks, those of `TransactionWalk` apart,
is also a theorem, for every value of the constants that the module's
assumption admits; what a run shows on its instance, the theorem shows for any
number of nodes, chunks, keys and messages. Liveness and the linked cells of
`TransactionWalk` stay with TLC.

`ChunkOutput_proofs`, for every window length, every set of ids and both modes,
from `OutputAssumption` alone. The invariant `IndInv` is the conjunction of
`TypeOK`, `SlotInv` (a waiting id `i` is in slot `(head + i - next_out) %
buff_length` and inside the window), `PlaceInv`, `FlushInv` (while flushing, what
is left to flush is the distance of the chunk from the window),
`StartInv`, `WrittenInv` (everything written is below `next_out`),
`OutputIncreasing` and `NothingLost`. `SlotInv` is the heart: `new_pos` is
computed before the flush moves `head` and `next_out`, and stays right because
each step of the flush moves both by one; this is the lemma `SlotBefore`, over
lemmas on `%` (`ModShift`, `ModUnique`). The theorems: type correctness, the
slots, the place of a new chunk, order, no loss, nothing withheld, no
overwriting, and that in both modes the module implements `OrderedOutput`
(`StepRefines`: every step is a step of it or leaves it alone).

`Transactions_proofs`, for every modulus, lifetime and rate with `Rate *
(MaxLifetime + 1) <= TransIdMod`. That ids are distinct is not inductive: a new id
is the newest one's successor, and whether an old transaction has it depends on
how many offers lie between. The history gives each offer a serial number.
`InTime` bounds the offers made since a transaction was opened by its age;
`Chain` says that of two transactions in the list the serial numbers differ by
less than the offers of a lifetime (`Span`), and that the newer id is reached
from the older in at least one and at most that many successors (fewer when
the newest was removed and its id is used again). As `Span` is at most the
modulus, the ids never come full circle. `BoundedList` follows from the same
chain.

`ChunkLocks_proofs`, for every size, increment and timeout. The invariant: types,
`FreeElement`, and that no chunk is locked twice in the array, timed-out locks
included, because the cleanup in `chunk_islocked` comes before each lock. The
cleanup is a recursion over the array from the back; `Visited` is what it has
done when it has come down to element `i`: those below have not moved, those
above are the ones in force, in their order. From it follow `CleanupExact` and
the refinement of `LockSet`, one lemma per action.

`ChunkTrader_proofs`, for any nodes, chunks, buffer sizes and bounds, with losses,
duplicates and lock timeouts. `TypeInv` gives each kind of message its form (a
chunk message carries one chunk, an offer comes from somebody else, and so on).
On top of it, each property has its own strengthening. `LockedNotHeld` needs
`KnowledgeInv`: chunks in locks, buffers and messages have been injected, so the
source cannot inject a chunk it has locked. `DeliveredOnce` needs `DeliveredInv`:
what was delivered is in the buffer, or the buffer is full of later chunks;
`cb_add_chunk` refuses it either way. `BmapSound` needs `BmapInv`, the same claim
about all nodes, neighbours or not. `NoParallelRequest` needs `ParallelInv`:
while locks hold and nothing was duplicated, of each chunk a node has not got
there is at most one message of a request under way, once, and the lock is held
as long. The theorem has these two conditions in its statement; the run has
them in its constants.

`Topology_proofs`, for every finite set of peers, target and fraction. The
invariant: neighbourhood and swarm bucket share no peer, `locked_neighs` is part
of the neighbourhood, and the neighbours are the linked peers. Disjointness is
what makes the rest inductive: `neighbourhood_add_peer` decides by the swarm
bucket whether to lock. One lemma per operation of `PeerSets`, one step per
action. `UpdateSize` counts what an update leaves: what it discards is less than
what it can put back, which gives `Refilled` and `UpdateStaysInTarget`.

`OrdSet_proofs`, for every set of keys, initial size and growth, from
`OrdSetAssumption`. The invariant adds to `Sorted` and `SearchRight` what the search
knows in its loop (`SearchInv`: below `a` all keys are smaller, above `b` all are
larger, `a <= b + 1`, and `i` is the middle) and where the walk stands (`WalkInv`: on
the last element, the next being the one before). `SearchInv` survives a turn
because of `Sorted`, and `Sorted` survives an insertion because of `SearchRight`:
neither is inductive alone. `a <= b + 1` is what makes the clipping of `b` at 0
harmless. The refinement of `KeyedSet` maps the array to the set of its elements
and needs `IterInv`: an iteration goes on from an element that is still there. It
starts at the lowest one (`FirstLowest`).

`NetHelper_proofs`, for any nodes, messages and sizes, requests for any fragments
(`RequestIds`), every delay of the network
and the queue, every age of packets and every rate that does not use up the
ids meanwhile. `IndInv` describes where pieces of messages can be and under which
id:

* `LogInv`: the messages sent, in the order of time, at most `Rate` a second from
  one node to another;
* `OutInv`: a packet in an outgoing bucket is exactly its message cut up, made
  when it was sent, under the id the counter had then. `Stamped` says so in terms
  of the counter now: the id plus the messages since is `out_id`, modulo `PidMod`;
* `QueueInv`: a queued fragment belongs to a packet in the bucket that is not
  older than `QueueDelay`, and is there once;
* `NetInv`: a datagram carries a piece of a message sent, is not too old, and is
  stamped unless its sender has been restarted since;
* `InInv`: an unfinished packet holds pieces of messages sent to this node. If it
  is `Settled` (begun more than `NetDelay` after the last restart of the sender)
  these are stamped with its id.

Two messages with the same stamp that are less than `max_pkt_age + QueueDelay +
NetDelay` apart are the same one (`SameMessage`): in that time a node sends fewer
than `PidMod` messages to another (`RateWindow`, the only place where the rate is
used). Hence a settled packet holds pieces of one message only (`SameInside`),
and a new id is not in the bucket (`FreshId`), which is `HeapSound`. `QueueSound`
follows from `QueueInv`. `ReceivedWhole`: a packet that is popped after the time
of confusion was settled, so it is one message, complete; `DumpWhole` shows that
`fragmented_packet_dump_data` then returns it, or the part of it that fits.
`NothingStranded` needs `Unlost`, the claim about every piece by its place: it is
in the sender's queue with its packet, on its way, or written in a packet at
the receiver. A piece does not expire in any of them while the message is
young (`OutLives`, `GramsLive`, `HolderLives`), and a step that completes a packet
returns the message, which is then no longer pending (`ReturnedWhole`).

`PollLoop_proofs`, for every interval, timeout and bound. The invariant has what
`wait4data` has still to wait at each point of its loop (`CountdownInv`), the
timers against the timeout computed from them (`TimersInv`), and the chunk timer
against the time the next chunk is due (`DueInv`: it is past, or not later).

Lists are changed by walks over them (expired transactions, timed-out locks,
fragments of destroyed packets, what a packet lacks). These are written as
recursive functions, and what they compute for every list is proved by
induction: the least element of a non-empty set of naturals (`LeastElement`,
from the well-foundedness of `<`) gives induction over an interval
(`InductionUpTo`), once to show that the recursion defines a function
(`KeptExists`, `CleanExists`, `LeftExists`, `LenExists`), once for what it returns.

Only model-checked, since the prover has neither fairness nor ENABLED:
`EveryChunkEverywhere`, `GoneForGood`, `SearchEnds`, `EveryDatagramRead`,
`WorkGoesOn`, `UpdatesGoOn`. Only model-checked too: `ListKept` and `NoDangling` of
`TransactionWalk`; that a chain of pointers holds a list is an induction along it.
The three violation runs are counterexamples of TLC.

## 6. Not modelled

`measures.c`: its estimate never leaves the loading state, so the default
interval is always used; whatever it says is among `OfferIntervals`. The shaper's
estimate of the byte rate: without effect as the code stands. The plain UDP
helper and the socket utilities, logging, option parsing and the executable:
wrappers of system calls. Pacing in floating point
(`chunk_trader_offer_interval`), weights of the scheduler, hop counts, the bytes
of message headers, nodes as text: no state that the properties tell apart.
Lifetimes of memory, with the reference counts of nodeIDs:
`topology_remove_peer` uses an id after the peer that owns it was freed, and a
request that left the queue is never freed. Both are plain to see in the source
and need no sequence of steps, so they are no hazards of the list; the memory
of the transactions, where they do matter, is modelled in `TransactionWalk`. The
creation and destruction of an instance: straight-line calls of the parts' own
creation and destruction.

Cases left out of what is modelled:

* Datagrams that are no fragment and no request: `net_msg_decode` returns NULL
  for a type it does not know, and `recv_from_peer` looks into it
  (`net_helper-x.c:312`). Every datagram of `NetHelper` was made by a node that runs
  this code, and the branch for other types is not reached.
* A message exactly as long as the receiver's buffer loses its last fragment:
  `fragmented_packet_dump_data` asks for `<`. `ReceivedWhole` allows it, and speaks of
  the messages that are shorter.
* `ord_set_iter` from an element of an empty set would compare with `n_elements - 1`,
  which is unsigned. Nobody calls it so: iterations go on from an element of the
  set, which is a guard of `Call`.
* A chunk that `sendChunk` refuses is not noted in the peer's buffer map
  (`chunk_trader.c:107`); in `ChunkTrader` sending succeeds, and the network may lose
  the message. To the peer both are the same; the belief of the sender is weaker
  if it was refused, which `BmapSound` would allow.
* `outbuff_size` a multiple of 65536 would make a window of no chunk, and negative
  values of `peer_timeout` put the limit in the future; both are excluded by the
  assumptions of the modules.

## 7. Plan

1. *(done)* `ChunkOutput`, with its refinement and proofs.
2. *(done)* `TransactionList`, `Transactions`, `TransactionWalk`; `LockSet`, `ChunkLocks`.
3. *(done)* `ChunkTrader`.
4. *(done)* `PeerSets`, `Topology` with proofs, `Overlay`.
5. *(done)* `KeyedSet`, `OrdSet` with proofs.
6. *(done)* `Packets`, `NetHelper`.
7. *(done)* `PollLoop` with proofs.
8. *(done)* Proofs of the safety properties of `Transactions`, `ChunkLocks`,
   `ChunkTrader`, `NetHelper`, of the sizes in `Topology`, and the refinements of
   `LockSet` and `KeyedSet`.
9. Left: safety facts that the liveness properties rest on (what a turn of the
   poll loop decreases, what an update does to the place of a dead neighbour),
   and the mutual view of neighbours in `Overlay`.
