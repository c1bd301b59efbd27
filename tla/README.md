# A TLA+ development of the engine's core protocols

The repository is a branch of the Source engine: a client and a server that
talk over UDP, on top of a layer of threading, file and memory primitives. This
directory holds TLA+ modules for the parts whose correctness depends on the
order of things (messages, packets, threads, acknowledgements), TLC
configurations that check them on small instances, and proofs, checked by
TLAPS, that hold for every size.

Paths below are relative to the repository; `src/src/engine/net_chan.cpp` in
`PROJECT.json` is `src/engine/net_chan.cpp` in the engine's own tree.

## 1. Inventory

| Component | State | Operations | Interacts with | What is hard | Correct when |
|---|---|---|---|---|---|
| **Network channel** (`engine/net_chan.cpp`, one `CNetChan` at each end) | sequence numbers and acknowledgements, a bit per subchannel for each direction, waiting lists of fragmented blocks, receive lists, subchannels, the reliable buffer | `SendNetMsg`, `EnqueueVeryLargeAsyncTransfer`, `SendFile`, `SendDatagram`, `SetChoked`, `ProcessPacket`, `Clear`, `Transmit` | the client and server objects that own it (handlers called from `ProcessPacket` may `Clear` the channel), `net_ws` below | loss, duplication, reordering; a channel cleared with packets under way; two streams in one packet; retries | messages handled in order and once; acknowledged only when handled; both ends agree on the bits; everything is delivered once the network works |
| **Flow statistics** (same file) | two rings of `NET_FRAMES_BACKUP` frames | `FlowNewPacket`, `FlowUpdate` | the channel | gaps longer than the ring, choked packets | a frame of the ring belongs to the number it is asked for |
| **Sockets and split packets** (`engine/net_ws.cpp`) | split-packet buffers, the lag queue, the pending queue of the sender thread | `NET_GetLong`, `NET_SendLong`, `NET_ProcessSocket`, `NET_QueuePacketForSend` | channel, threads | parts of two packets mixed, parts lost | a reassembled packet has parts of one packet only |
| **Connection set-up** (`engine/baseserver.cpp`, `baseclientstate.cpp`) | challenges, retry counters | challenge, connect, authentication, timeouts | sockets, channel | retries against late answers | a client has one slot |
| **Signon** (`engine/baseclientstate.cpp`, `baseclient.cpp`, `client.cpp`) | signon states of both ends, spawn count | signon steps, server info, `Reconnect`, `Inactivate`, `ReconnectClients`, `CL_Retry` | channel, server, string tables, snapshots | level changes while a client loads; a channel cleared by either end | the ends agree on the level (spawn count) a client is active in |
| **Snapshots and delta compression** (`engine/sv_framesnapshot.cpp`, `clientframe.cpp`, `sv_packedentities.cpp`, `sv_ents_write.cpp`, `cl_ents_parse.cpp`) | client frames, reference-counted snapshots, packed entities, baselines | take, pack, send, acknowledge, delete | channel, string tables | delta against a frame the client lost; a snapshot freed while referenced | the client reconstructs the entity the server packed |
| **Network string tables** (`engine/networkstringtable.cpp`) | items stamped with the tick they changed in | add, set, write update, read update, rollback | snapshots' acknowledged tick | update lost; table grows past its bits | the client's table converges |
| **Host state machine** (`engine/host_state.cpp`) | current and next state | new game, load, change level, run, shutdown | server, client | requests made while a transition is under way | every request is served or dropped on purpose |
| **Clock drift** (`engine/clockdriftmgr.cpp`) | ring of clock offsets | add, correct | client | averages | - |
| **Rate limit of connectionless packets** (`engine/sv_ipratelimit.cpp`) | a table of addresses and times | check | net_ws | table at its limit | no address exceeds its budget |
| **Lock-free list and queue** (`public/tier0/tslist.h`) | a head with a sequence number and a depth; head, tail and a count | push, pop, detach | thread pool, allocators, the file system | every interleaving; the ABA problem; a suspended thread | nothing lost or duplicated, each operation at one moment |
| **Mutexes and reader-writer locks** (`public/tier0/threadtools.h`, `tier0/threadtools.cpp`) | an owner and a depth; counts and events; a word | lock, try-lock, unlock | everything that is threaded | lost wake-ups, a word read twice, starvation | one writer or readers only; who waits gets in |
| **Thread pool and jobs** (`vstdlib/jobthread.cpp`, `public/vstdlib/jobthread.h`) | job states and references, queues, idle count, suspension, calls to workers | `AddJob`, `ChangePriority`, `ExecuteToPriority`, `AbortAll`, `SuspendExecution`, `ResumeExecution`, `WaitForFinish`, `Execute`, `Abort`, `Stop` | lock-free queue, events, file system | a job executed, aborted and taken out of a queue at once; a worker that answers before it suspends; raised jobs in two queues | every job is executed or aborted, once; every call returns |
| **Asynchronous files** (`filesystem/filesystem_async.cpp`) | jobs, append lists | read, append, finish, abort, suspend | thread pool | finish racing with service | appends to a file keep their order |
| **Data cache** (`datacache/datacache.cpp`, `mdlcache.cpp`) | LRU list, locks, sizes | lock, unlock, age, purge, limits | models, sounds | an item purged while locked | a locked item stays |
| **Matchmaking, game coordinator**, **game rules**, **rendering**, **user interface**, **map tools**, **sound** | - | - | - | not protocols: numeric, graphical or driven by services outside the repository | - |

Vendored code (`thirdparty`, `external`, the DirectX and Bink SDKs) is left aside.

`PROJECT.json` lists under `hazards` the lines at which this code is exposed to
what a test hardly reaches, with the properties that watch each.

## 2. Plan

Done, in this order:

1. `NetChan`, `ReliableStream`, `NetChanRecovery`: the reliable channel, what it
   promises, and its recovery; `NetChanProofs`: the reliable state, the waiting
   lists, delivery and the promise.
2. `TSList`, `AtomicStack`, `TSListProofs`: the lock-free list and the proof
   that it is an atomic stack; `TSQueue`, `AtomicQueue`, `JobQueue`: the lock-free
   queue and the job queue on top of it; `TSQueueProofs`: the queue with nodes that
   are not used again is atomic, with recycled nodes it loses nothing, and the counts
   of both queues are right.
3. `FastMutex`, `RWLock`, `SpinRWLock`, each on its own, with the proofs that each
   excludes: `LockProofs`.
4. `ThreadPool`: jobs, workers and their callers, on queues that keep the promise
   of `AtomicQueue`; `ThreadPoolProofs`: a job runs once, a suspended pool rests, jobs
   outlive their use.
5. `EntityDelta`: edicts, snapshots, frames, deltas and baselines;
   `EntityDeltaProofs`: full updates stand alone, baselines agree, views are snapshots.
6. `StringTable` and `Signon`, which is stated on reliable streams, the promise of
   `ReliableStream`, rather than on `NetChan`; `StringTableProofs`: the mirror is the
   table, and what is skipped is known.
7. `SplitPacket`: datagrams too long for one packet, with the packet sender's queue;
   `SplitPacketProofs`: they are put together as they were sent.

Left, in this order: `NetFlow` (`FlowNewPacket`'s ring); the out-of-band part of
connecting; `HostState`; `DataCache` (locks and LRU); append lists of the file system; the rate
limit of connectionless packets.

Proofs left: delivery with `Clear`s in between; `Signon`.

## 3. The network channel

### Modules

`NetChan.tla` holds both ends of one connection and the network between them. Its
variables are the members of the two `CNetChan` objects, named in its comments,
and three histories: `sent`, `delivered` and `discarded` number the messages an
end accepted, its peer's handlers saw, and a `Clear` dropped. A packet is a
record of its header and its reliable chunks, and `net` keeps every packet ever
sent: a packet that is never processed is lost, one processed late is reordered,
and one processed again is a duplicate.

| Action | Code |
|---|---|
| `SendNetMsg` | `CNetChan::SendNetMsg` into `m_StreamReliable`; a message that does not fit sets the overflow flag |
| `EnqueueVeryLargeAsyncTransfer`, `SendFile` | a block appended to the file stream |
| `SetChoked` | a frame in which `CanPacket` holds the end back: a number is used, nothing is sent |
| `SendDatagram` | `CreateFragmentsFromBuffer` (merge into the last block, or a new one), `CompressFragments`, `UpdateSubChannels` (`Filled...`), `SendSubChannelData` (`ReliableData`, `SentSubs`) and the packet, in that order |
| `Inactivate` | `CBaseClient::Inactivate`: `Clear`, a signon message and its transmission |
| `ProcessPacket` | `ProcessPacketHeader` (`Header...`, `CheckWaitingList`), `ReadSubChannelData` for each stream, the flip of the bit, `CheckReceivingList` and the handlers, which may clear the channel and answer |

`SendDatagram` and `ProcessPacket` are each one action because the engine runs
both to the end on one thread. A block is known by the messages in it, a
fragment by its block, so that a buffer with fragments of two blocks is
recognised; its bytes are not modelled, and how far compression shrinks a block
is a choice.

`ReliableStream.tla` is the promise: each stream of each end is a lane on which
messages are sent, delivered in order, each at most once, skipping only what was
dropped on purpose. `NetChan!ImplementsReliableStream` states the refinement.

`NetChanRecovery.tla` adds a network that works again after a time, and frame
loops that send in turn.

### Runs

| Run | Shows | Instance |
|---|---|---|
| `stream` | type invariant, in-order exactly-once delivery, acknowledgement only of what was handled, validity of the reliable state, monotone acknowledgement; merging and compressing never touch fragments under way, a receive buffer holds fragments of one block | two subchannels, messages of one and three chunks, one stream, two fragments a packet |
| `streams` | subchannels divide the heads of both streams among them | a message, files, large transfers |
| `restart` | level changes and clients that start over: the refinement of `ReliableStream` | both ends clear |
| `recovery` | once the network works everything is delivered and acknowledged | one stream |
| `twice` | a disagreement with what a comment says, see below | two streams |

Two more configurations, `MCNetChanStaleBuffer.cfg` and `MCNetChanStall.cfg`, show two
further disagreements; they are not among the runs of `PROJECT.json`. TLC finds
`ConfirmedIsDelivered` violated in the first and `Recovers` in the second.

Bounds. Two subchannels (three in `MCNetChanStall.cfg`) are enough for two
chunks of one block to be under way in either order while a third waits; four to
six packets of the sender and three of the receiver cover a loss, a resend, a
duplicate and the acknowledgement of each; sizes are counted in fragments, with
messages shorter than, equal to and longer than one. `MaxSeq` bounds the packets
of an end and `MaxSent` its messages: an end at its bound stops, which is why the
configurations say `CHECK_DEADLOCK FALSE`. `StateView` identifies states that
differ only in packets both ends would discard as stale; such packets change
nothing when they arrive.

Fairness. Safety runs have none. `NetChanRecovery` assumes weak fairness of the
frame loops (`CL_Move` and `SendClientMessages` run in every host frame) and of
processing what has arrived (`NET_ProcessSocket` reads until the socket is
empty). That the network stops losing packets (`Settle`) is an assumption about
the world, without which nothing can be promised. In the counterexample of
`MCNetChanStall.cfg` only sequence numbers would go on growing; the bound on them ends the
trace.

Disagreements found (`findings` in `PROJECT.json` quotes the lines):

- *twice*: a packet whose second stream is refused is dropped "whole", but the
  first stream's fragments stay in the buffer; the message is handled before its
  bit is flipped, and again when it is resent.
- *stale buffer*: a receive buffer survives the peer's `Clear` and takes a later
  chunk of the next block, which then never completes.
- *stall*: a chunk that was kept of a packet dropped for its other stream completes
  its block; the resend is refused for ever.

Not run, but of the same kind: a file of no bytes has no fragments and counts as
acknowledged (`CheckWaitingList`), and `SendSubChannelData`, which always picks the
lowest subchannel, can resend a later chunk for ever while the one with the header
waits its turn, when both streams are in use.

### Proofs

`NetChanProofs.tla` proves, for every number of subchannels, every fragment
size, any number of messages and any behaviour of the network:

- `Invariance`: the inductive invariant `IInv` holds;
- `ReliableStateAlwaysValid`: `ReliableStateValid`, the `Assert`s and the
  "reliable state invalid" branch of `ProcessPacketHeader`;
- `AcknowledgementMonotone`: `AckNeverGoesBack`.

`ReliableStateValid` alone is not inductive: whether an acknowledgement fits
depends on packets that are still under way and on the receiver's bit. `IInv`
says so. `SeqInv` orders sequence numbers: of two packets of an end the newer
acknowledges no less, and no packet that may still be processed acknowledges less
than what was taken already. `Sync` is the alternating-bit invariant of one
subchannel: a free one has the receiver's bit and none of its data under way; one
that is scheduled to be sent differs from the receiver and from every bit that
may still be reported; one that waits, or is dirty after a `Clear`, has only its
newest packet under way, and every packet under way that reports its bit reports
the flipped bit exactly if it acknowledges less than that packet. One lemma for
each operation on a subchannel (`FillSync`, `SendSync`, `ReportSync`,
`HeaderSync`, `DataSync`, `ClearSync`) shows that the operation keeps it, one
lemma for each action puts them together, and `NextInv` is the induction step.
The assumptions are those of `NetChan` about its constants: two ends, natural
sizes, at least one subchannel.

The same module goes on to the waiting lists, again for every value of
the constants, both streams and `Clear`s in between:

- `ChunkInvariance`: `CInv`, which is `IInv`'s companion for data;
- `TypeCorrect`: `TypeOK`;
- `HeadDivided`: `ChunksDivideHead`.

`pendingFragments` is a counter that is raised when `UpdateSubChannels` schedules,
lowered when a header acknowledges, and set to zero by `Clear`; what subchannels carry
is a set of intervals. `CInv` (`Divides`) says that those intervals are disjoint,
lie below `acked + pending`, and that the counter is the size of their union, which is
what makes it inductive: scheduling adds an interval above all others (`AddCarry`),
acknowledging takes some of them away, whichever they are (`AckDivides`), a
resend changes none (`CheckDivides`), and a merge or a compression happens only to
a block that has none (`BufferDivides`, `CompressDivides`). The model sums the
chunk sizes with a fold; `SumIs` shows, by well-founded descent on the size of the set,
that the fold is what its recursion says, and `SumIsCardinality` that the sum over
disjoint intervals is the size of their union. The remaining parts of `CInv` say that a
packet's chunk is a part of its block, and that a buffer that is being filled fits
its chunks.

The second half of `NetChanProofs.tla` is about what the channel is for, under `Plain`:
nothing is put on the file stream and no end clears its channel. For every number of subchannels, every
size, and whatever the network loses, repeats or reorders:

- `DeliveryInvariance`: `DInv`;
- `DeliveredInOrderOnce`: `InOrderExactlyOnce`;
- `RemovedWasDelivered`: `ConfirmedIsDelivered`;
- `BuffersIntact`: `BufferIntact`;
- `ReliableStreamImplemented`: `ImplementsReliableStream`.

`Plain` is there because delivery is not true without it: with both streams in use a
message is handled twice (the run `twice`), and after a `Clear` a receive buffer takes a
chunk of another block (`MCNetChanStaleBuffer.cfg`). What remains of the promise after a
`Clear`, that nothing is repeated, reordered or skipped but what was dropped, is
checked in the run `restart` and not proved.

`DInv` follows the head of the sender's waiting list through both ends. `Laid` says that
the messages accepted lie one after the other: those up to `h[0]` have left the list,
block `k` has those up to `h[k]`, the reliable buffer the rest. `Got` are the fragments
of the head that were scheduled and that no subchannel carries whose bit the receiver
has not flipped yet: exactly those the receiver has taken. `Holds` says that its buffer
has just these and is empty before the first and after the last;
`Handed`, that the handlers were given everything before the head, and the head too once
all its fragments are there. `UnderWay` says that a packet which can still be taken carries
what its subchannel says. An acknowledgement then cannot take away what was not handled,
because a subchannel is freed only after its bit was flipped (`Sync`). Each operation has a lemma of its own: `QueueAgrees` for the merge,
`CompressAgrees`, `FillAgrees` for the scheduling, `SentAgrees`, `AckAgrees` and
`RemoveAgrees` for a header, `TakeAgrees` for the data, in all cases of a first, a further
and a last fragment; `SendLane`, `HeaderLane` and `AcceptLane` put them together,
`LaneKept` is the direction that a step does not touch. TLC found no state of the
instance of the run `stream`, where `Plain` holds, that violates `DInv`.

Liveness stays with TLC, and so do delivery and the refinement with `Clear`s.

### Left out

The unreliable and voice payload, the checksum and encryption of a packet, flow
statistics, the TCP stream (`net_notcp` disables it), `Shutdown`, and a handler
that fails without clearing the channel (section 10). An overflowed
reliable buffer ends an end's sending: the disconnect that follows is the
handshake's.

## 4. The lock-free list, the lock-free queue and the job queue

### Modules

`TSList.tla` is `CTSListBase` (`public/tier0/tslist.h`): one action for each access
to shared memory, so that threads interleave anywhere. Threads call `Push`, `Pop`
and `Detach` in any order with nodes they own, and nodes are used again.

| Action | Code |
|---|---|
| `Push`, `Pop`, `Detach` | the call |
| `ReadNext`, `ReadWord` | `oldHead.value64x128 = m_Head.value64x128`, a plain assignment that the compiler makes of two loads: either half may come first |
| `Prepare` | `pNode->Next = oldHead.value.Next`, `oldHead.value.Next->Next`; the memory of a node that is not in the list may read as anything |
| `SwapPush`, `SwapPop`, `SwapDetach`, `Retry` | `ThreadInterlockedAssignIf64x128` succeeds or fails; `Pushed`, `Popped`, `Detached` are the new heads, with the carry between `Depth` and `Sequence` |
| `Suspend` | the scheduler never runs the thread again |

`list`, `hand` and `ret` are histories: the nodes of the list, those that belong to
a thread, and what an operation just answered. `AtomicStack.tla` is the promise in
terms of the three.

`TSQueue.tla` is `CTSQueue`, in the same manner. Its free list is a `CTSListBase` and
is one atomic stack here, which is what `TSListProofs` proves of it.

| Action | Code |
|---|---|
| `PushItem`, `SetEnd` | `PushItem` takes a node of the free list or a new one; `pNode->pNext = End()` |
| `ReadTailSeq`, `ReadTailNode`, `LinkNode`, `LinkFails`, `ReadHelped`, `HelpPush`, `MoveTail`, `CountUp` | the loop of `Push`, `FinishPush`, `m_Count++` |
| `PopItem`, `ReadHeadSeq`, `ReadHeadNode`, `ReadTailSequence`, `ReadNext`, `CheckSeq`, `PopEmpty`, `CheckTail`, `HelpPop`, `ReadElem`, `TakeHead`, `TakeFails`, `CountDown` | the loop of `Pop`, `m_Count--` |
| `FreeNode` | `elem` is copied to the old dummy, which goes to the free list |

`Recycle` tells `PushItem`/`PopItem` (the free list) from `Push`/`Pop` with nodes
that are not used again, as the comment above the class demands of their callers.
`AtomicQueue.tla` is a queue whose operations take effect at one moment.

`JobQueue.tla` extends `TSQueue` with `CJobQueue` (`vstdlib/jobthread.cpp`): a `Pop`
reserves an item under the mutex (`Reserve`) and takes it from the queue afterwards
(`Take`, `QueueStep`), or gives the reservation back (`GiveBack`); a `Push` puts the
job into the queue (`PushJob`, `QueueStep`) and counts it afterwards (`CountJob`).
`Wake` and `NoJob` are `CJobThread`'s `Wait` and the break out of its loop; a worker
pushes jobs, too, in the jobs it runs. `Takers` are the threads that call `Pop`:
every thread for the shared queue, one worker for its direct queue.

### Runs

| Run | Shows | Instance |
|---|---|---|
| `structures` | the list: no node in two places, the refinement of `AtomicStack`, lock freedom (and the locks, section 5) | two threads of which one may be suspended anywhere, two nodes, three sequence numbers |
| `queues` | recycled nodes: nothing lost or duplicated, the counts, the event, every job is taken. Fresh nodes: the refinement of `AtomicQueue`, lock freedom | a thread and a worker that both push and pop, three recycled nodes, four items; two threads of which one may be suspended anywhere, four nodes, three items |
| `serial` | a disagreement, see below | two pushers, a worker's direct queue, four items |

`structures` and `queues` hold several machines, one of them at work in each
behaviour (`part`): what one does has nothing to do with the others.

Bounds. An ABA needs one thread asleep and another that pops a node, changes what
is below it, and pushes it back: two threads, and two nodes in the list; in the
queue a third, the dummy. `SeqMod` stands for the 65536 values of `Sequence` and
comes round many times in a run; `DepthMod` is larger than the number of nodes, the
limit `RunTSListTests` states. `InTime` leaves out executions in which a thread
sleeps, between its read of `Sequence` and its compare-and-swap, through a whole
round of it: then the list does break. The list has no bound on its operations and
is checked for deadlock; the queue's `sequence` is as wide as a pointer and grows
with `MaxPush`, and a machine that has pushed so many items may come to rest, so
the other configurations are not. The job queue needs four pushes: one that wakes
the worker, one that stalls, one whose node is popped, one that recycles it. Nodes
that were never used are alike, and `NewNode` picks one.

Memory. Accesses to shared memory are in program order, as the barriers in the code
and the x86 the engine ships on have it, except for the two halves of `oldHead`.

Fairness. `LiveSpec` is weak fairness of each thread that was not suspended, inside
an operation it has started: the scheduler runs it. Nobody must start an operation.
In `queues` workers also look for jobs whenever they are awake and wake when
the event is set, as `CJobThread::Run` does; the other threads need not take any.

Disagreement found:

- *serial*: `pNext` is compared and swapped without a sequence number. A pusher that
  read the tail, and slept while that node was popped, recycled and closed with
  `End()` by another push, links its item behind a node that is not in the queue.
  Its `Push` has returned and the item cannot be reached until the other push links
  its node; by then a later item of the same thread may be in front of it. Two
  `JF_SERIAL` jobs, such as two appends to a file, change places.

`queues` contains the same behaviours: it takes `GiveBack`, behind the assertion
"Expected at least one queue item", and shows that nothing is lost by it. A tail that
lags at rest, which `Push` tolerates, is "Corrupt CTSQueueDetected" to
`ValidateQueue`; `CountIsContents` is the part of `ValidateQueue` that holds.

### Proofs

`TSListProofs.tla` proves, for any set of threads, any finite set of nodes that
`Depth` can count and any number of sequence values:

- `Invariance`: the inductive invariant `IInv`;
- `NoNodeTwice`: `NodeOnce`;
- `ChainAndDepth`: `ChainIsList` and `DepthIsLength`, which no run repeats: `Next`
  leads from the head through the nodes of the list, as many as `Depth` says;
- `Linearizable`: `ImplementsAtomicStack`, each step maps to a step or a stutter.

`NodeOnce` and `ChainIsList` are not inductive: whether a compare-and-swap does the
right thing depends on what the head a thread read still means, and `IInv` says so.
`AgeOk` relates the sequence a thread read to the head's: `age` pushes lie between
them, so that equal sequences mean, with `InTime`, that nothing was pushed since,
and then the depth can only have fallen; an equal depth means that nothing was popped
either. `NewOk` says that a `Pop` whose swap will succeed has the true successor of
the top, whatever `Next` it may have read of a node that was popped. A swap that
succeeds is therefore a step of the stack. A thread that does not move is untouched
by the step of another unless that step changes the head, which makes its `age` grow
or its `old` differ. The assumptions are those of `TSList` about its constants, and `InTime`, a conjunct of `Next`.

`TSQueueProofs.tla` proves of `CTSQueue` and `CJobQueue`, for any number of threads,
nodes and items, wherever threads are suspended, two things. The first is about nodes
that are not used again (`~ Recycle`):

- `QueueIsChain`: the inductive invariant `IInv`;
- `QueueIsAtomic`: `ImplementsAtomicQueue`, what `queues` checks as
  `PlainImplementsAtomicQueue`: items come out in the order in which they were linked,
  none is lost or comes out twice, and a `Pop` that answers NULL saw the queue empty.

The invariant is about a sequence that no variable holds: there is a `c`, the *chain*,
of distinct nodes, the dummies of the past, the dummy and the nodes of the items that
are left, each followed by the next one and the last by `End()`. `head.seq` counts the
items that were popped, so that the head is at a place of the chain that the sequence
number alone tells, and the tail is somewhere on the chain, however far behind.
`LinkNode` appends to the chain: `End()` is at its last node only, which is why the
swap of `pNext` needs no sequence number here (with recycled nodes it does, see
*serial*). A thread that pops and whose sequence number is still the head's has read
the dummy, its true successor and the successor's item; what it read of an empty queue
it saw during its call. `~ Recycle` is needed for that: a recycled node leaves the chain
and its `pNext` changes while threads still hold it. `PtrAssumption` says that there is
memory for the first dummy, which the constructor allocates without asking.

The second is about recycled nodes as well, where the queue is not atomic (*serial*),
and what it keeps all the same:

- `QueueIsWoven`: the inductive invariant `RInv`;
- `NothingIsLost`: `NothingLostOrDuplicated`;
- `CountIsRight`: `CountIsContents`;
- `JobsAreCounted`: `ItemsAreJobs`, of `JobQueue`.

There is no single chain here: a pusher that slept may link its node behind one that
was recycled and belongs to another push, so that a thread's new node may have a list of
its own behind it before it is linked itself. `RInv` says that there are a set `P`, the
nodes of the dummy and of the items that are left, and three functions: `own` tells
whose list a node is in, the queue's (`Main`) or that of a thread with a node to link;
`dep` tells how deep it lies there, by which `Next` counts up and `End()` is at the
bottom only; `rank` orders the threads, and one about to link its node to a node in the
list of another is above that one, so that linking never closes a circle of lists, which
would lose them all. `Memory` keeps `P`, the free list, the unused nodes and those in a
thread's hand apart; `Held` says that each item pushed was popped or is in exactly one
node of `P`. `PushSees` and `PopSees` are what a thread knows as long as the tail or
the head it read has not changed, which the sequence numbers tell: that is enough for
each swap that succeeds to be right, whatever became of the nodes it read. At rest no
thread has a node, so all of `P` is the queue's, and `Contents` walks it from the dummy
down, item by item. `Counted` says how far `m_Count` is from the number of items:
by the threads between taking an item's number and counting it, and those between taking
an item and discounting it. `JInv` says the same of `m_nItems` and `Afoot`, the threads
that have pushed and not counted, or reserved and not taken; it makes the event set
exactly while `m_nItems` is not 0.

The walk and the counts need finitely many nodes and threads (`IsFiniteSet`, hypotheses
of the theorems that use them). The module extends `JobQueue`, whose `ThreadsAssumption`
(workers are takers, takers are threads) is true of a `CTSQueue` alone with no workers
and no takers.

Lock freedom and `EveryJobTaken` are liveness and stay with TLC. That serial jobs keep
their order does not hold (*serial*).

### Left out

The native list of Windows (`USE_NATIVE_SLIST` is not defined), the queue's
`Purge` and `RemoveAll`, which their comment declares not thread-safe,
the priorities of a job queue (they are in `ThreadPool`) and `Flush`. The overflow branch of
`CJobQueue::Push` is never taken: nothing assigns `m_nMaxItems` after `INT_MAX`.
Whether the memory of a deleted node can still be read is the allocator's.

## 5. Mutexes and reader-writer locks

### Modules

| Module | Class | One step is |
|---|---|---|
| `FastMutex` | `CThreadFastMutex` | one access to `m_ownerID` or `m_depth` |
| `RWLock` | `CThreadRWLock` | what is done under `m_mutex`, and the return from a wait |
| `SpinRWLock` | `CThreadSpinRWLock`, as built without `REENTRANT_THREAD_SPIN_RW_LOCK` | one access to `m_lockInfo.m_i32` or `m_writerId` |

| Action | Code |
|---|---|
| `LockMutex`, `TestOwner`, `ClaimMutex`, `Deepen` | `Lock` and `TryLock`: the call, `threadId != m_ownerID`, the interlocked assignment (a failed one spins or answers false), `++m_depth` |
| `UnlockMutex`, `ReleaseMutex` | `Unlock`: `--m_depth`, and `m_ownerID = 0` if that was the last |
| `LockForRead`, `WakeReader`, `RecheckReader`, `UnlockRead` | the reader's side of `CThreadRWLock`; between `WakeReader` and `RecheckReader` the thread has not locked `m_mutex` again, and a writer may come |
| `LockForWrite`, `WakeWriter`, `UnlockWrite` | the writer's side; `m_CanWrite` resets itself, `m_CanRead` is reset by `LockForWrite` |
| `SpinForWrite`, `TestForWrite`, `SwapForWrite`, `SignForWrite`, `UnsignForWrite`, `ClearWord` | `TryLockForWrite` and `UnlockWrite` of the spin lock, the two stores of either one by one |
| `SpinForRead`, `TestForRead`, `LoadForRead`, `SwapForRead`, `SpinUnlockRead` | `TryLockForRead`, which reads the word twice, and `UnlockRead` |

A lock that spins and a try-lock that fails differ in what the caller does next, and
`Fails` is either.

### Runs and fairness

The run `structures` checks, beside the list, `MutexExclusion` (three threads, two
levels deep), `OneRightToWrite`, `WritersGetIn` and `ReadersGetIn` (four threads,
each of which may read or write), `SpinExclusion` and
`SpinProgress` (three threads, a count that has room for three readers).

`OneRightToWrite` says where the right to write is. Exclusion follows from it, and
so does that no wake-up is lost: while writers are counted and no reader is active,
either one thread writes or `m_CanWrite` is set, never both.

Fairness is weak, of each thread between its call of a lock and its unlock: the
scheduler runs it, and critical sections end. `WritersGetIn` promises of a crowd of
writers only that one after the other gets in, because which one the event wakes is
not promised; `ReadersGetIn` promises a reader its turn unless writers keep coming,
since the lock prefers them. `SpinProgress` is progress of the whole, not of each
thread: a thread that spins may be overtaken for ever.

### Proofs

In `LockProofs.tla`: for any set of threads and any nesting `Exclusion`, for any finite
set of threads `RightToWrite`, and for any number of threads below `ReaderMod`
`SpinExcludes`. The first two invariants are inductive with the types
and, for the mutex, with what a thread holds that is about to count its depth up or to
clear `m_ownerID`. The arithmetic of `OneRightToWrite` rests on `Moves`, the number of
threads at a place when one comes or goes. `SpinInv` adds that what a reader has read
never contains the writer's flag: its swap then fails if a writer came between the two
reads. That there are fewer threads than the count has values is an assumption of
`SpinRWLock` (65535 in the code): one reader more would carry into the flag.

Progress and starvation are liveness and stay with TLC.

### Left out

`CThreadMutex` and the critical sections under it, which the operating system
provides; `CThreadSemaphore`, `CThreadLocal`; the events' own code on POSIX; the
re-entrant variant of the spin lock, which no build defines.

## 6. The thread pool

### Module

`ThreadPool.tla` is `CThreadPool`, `CJobThread` and `CJob` with `CWorkerThread`'s calls.
`Masters` call the pool; `Helpers` execute and abort jobs by handle, which is what
`AsyncFinish` and `AsyncAbort` do on any thread. There is one master in the run:
`jobthread.h` marks what adds jobs "(master thread)", and the file system calls the rest
from the same thread.

| Action | Code |
|---|---|
| `AddExecuted`, `AddQueued`, `AddSerial`, `Added` | `AddJob`: executed by the caller, queued, or into the first worker's direct queue; the creator's reference |
| `PushJob`, `Count`; `Reserve`, `Take` | `CJobQueue::Push` and `Pop`, with the steps `JobQueue` shows to be apart |
| `Wake`, `Look`, `Busy`, `Again`, `Rest` | `CJobThread::Run`: `Wait`, `PeekCall`, the count of idle threads |
| `Service`, `Execute`, `Enter`, `Done`, `Cleanup`, `Release` | `ServiceJobAndRelease`, `CJob::Execute` |
| `Abort` | `CJob::Abort` |
| `CallWorkers`, `ReplySuspend`, `SuspendSelf`, `Suspended`, `ResumeExecution`, `Awake` | `SuspendExecution`: the call, the reply, the worker's `Suspend`, the wait for `IsSuspended`; `ResumeExecution` |
| `ExecuteToPriority`, `Scan`, `Filter`, `PutBack`, `Scanned` | the walk over priorities and queues with the workers suspended, with and without a filter |
| `AbortAll`, `NextQueue` | `AbortAll` of the shared and the direct queues |
| `Shutdown`, `CallExit`, `Exit`, `Join` | `ShutdownAsync`: `AbortAll` and `Stop` |
| `WaitForFinish`, `Yield`, `EndWait` | `WaitForFinish`, `YieldWait`: the waiting thread serves the shared queue |
| `ChangePriority`, `ByHand`, `ReleaseHandle` | the same, and what an owner of a handle may do |

The lock-free queue under each priority is a sequence: what `AtomicQueue` promises,
section 4. One consequence of what it does *not* promise, the order of two serial jobs
with recycled nodes, is the finding `serial` and is not repeated here.

### Run

`pool`: one worker, one master, one helper, two jobs of which the first is kept by its
creator, two priorities, one suspension. It shows that every job is executed at most
once and never after it was aborted (`ServicedOnce`), that a suspended pool is at rest
(`SuspendedMeansIdle`), that no freed job can be reached (`NobodyHasFreed`),
`NeverServicesNull`, `SerialInOrder`, and that jobs finish and calls return.

Two jobs are enough for one that is queued twice (raised) beside one that is queued
once, for a serial pair, and for one under execution while the other is aborted. One
worker is enough because workers meet only at a queue, where `JobQueue` has several
threads, and at a job's mutex, where the helper is the other thread. Two workers without
a helper (with liveness) and two workers with a helper (safety) also pass; they take
longer than the runs do.

Guards that stand for callers: `WaitForFinish` and `Shutdown` are not called by a master
that keeps the workers suspended. Otherwise they wait for workers that cannot answer,
which the hazard list names.

Fairness. Workers and clients inside a call run (weak fairness). A master that has
suspended the pool resumes it in the end (`SF` of `BeginResume`: strong, since its other
calls disable that one in between); `AsyncSuspend` without `AsyncResume` stops all file
access on purpose. Nobody must call anything else.

### Proofs

`ThreadPoolProofs.tla` proves, for any sets of workers, masters, helpers, jobs, queues
and priorities:

- `JobRunsOnce`: `ServicedOnce`;
- `SuspendedIsIdle`: `SuspendedMeansIdle`;
- `JobsOutliveUse`: `NobodyHasFreed`;
- `WalkServicesJobs`: `NeverServicesNull`, with one master (`OneMaster`);
- `PoolTypesHold`: the types of all variables, which the others rest on.

The first three follow from one inductive invariant, `PoolInv`. `Locks` says which
thread is inside a job's mutex and what the job's status is meanwhile: `ServicedOnce`
is inductive only with it. `Suspension`: a worker that does not run is where it
suspended itself, and while the pool is suspended none runs. `References` counts: the
references of a job are one for a handle, one for the mutex' owner, one for each thread
that took it out of a queue or is adding it, and one for each place of a queue, or of
`jobsToPutBack`, that it is at, so that the last release is of nobody who still uses the
job. `Handles` says that who uses a handle uses it while it is there.

`NeverServicesNull` says that `ExecuteToPriority` finds in a queue the jobs that its
count promised. `WalkInv` adds that a queue's count, with the pushes not yet counted and
the reservations not yet taken, is its length (`Balanced`), that a thread that walks the
queues holds the suspension alone (`Holding`), and that what the walk saw is still there
(`Popping`). With a second master it may not be: that one may be serving the shared
queue from `WaitForFinish` when the first one suspends the workers, and takes what the
walk has seen.

`SerialInOrder` is model-checked only; jobs that finish and calls that return are
liveness.

### Left out

`Start` and processor affinity; `m_nJobs`, which is counted up after the job is in the
queue and is only reported; the overflow of a queue, which `m_nMaxItems = INT_MAX` rules
out; `Stop` without `AbortAll`, which deletes the workers with what is in their direct
queues; the per-frame helpers (`ParallelProcess`, `DistributeWork`); a wait for more than
one job, of which the code takes 62 at most.

## 7. Snapshots and delta compression

### Module

`EntityDelta.tla` is a server, one of its clients, and the packets between them.

| Action | Code |
|---|---|
| `ED_Reuse`, `ED_Grow`, `ED_Free`, `ED_AllowImmediateReuse`, `StateChanged` | `ED_Alloc` and its fellows: a slot used again gets a new serial number; a slot whose reuse was allowed at once has to be deleted explicitly |
| `SendClientMessages` | `TakeTickSnapshot`, `SV_PackEntity` (the last packet serves again), `SetupPackInfo` (`KeepFrame`, `MAX_CLIENT_FRAMES`), `WriteDeltaEntities` (`DetermineUpdateType`, `WriteDeletions`), the choice between a delta, a full update and silence in `SendSnapshot` |
| `SVCMsg_PacketEntities` | `CL_ProcessPacketEntities`, `ReadPacketEntities`, `CopyEntityBaseline`, `DeleteClientFrames`, `MarkEntitiesOutOfPVS`, the restart for a full update |
| `ForceFullUpdate` | `CBaseClientState::ForceFullUpdate` |
| `CL_SendMove` | the tick in the client's packet and, if the channel has room, the baseline acknowledgements that wait |
| `NETMsg_Tick` | one packet of the client: confirmation, `CLCMsg_BaselineAck`, `UpdateAcknowledgedFramecount` |
| `LoseSnapshot`, `LosePacket` | the network; a packet that is overtaken is dropped (`TakePacket`) |

The game changes the world only between reading packets and sending snapshots
(`thinking`), as `_Host_RunFrame_Server` orders it. An entity's properties are one value
and all classes share one instance baseline: which property a delta names is not what
the protocol can get wrong, which frame it is against is.

### Runs

`delta` checks `ViewIsSnapshot` (the client shows what the server sent it, whatever was
lost), `BaselinesAgree`, `DeltasApply` (neither end gives up) and `FullUpdateAlone`. Its
`Starts` are four small worlds (`MCStarts`): one edict that changes, one and two of
which only the view changes, and a world that grows. Each leaves a different part of
the protocol active and their bounds on ticks, so that together they stay small; three
client frames are the smallest window that can overflow with a frame acknowledged.

`deleted` is a disagreement: `SV_WriteDeletions` and the client assert that an entity
that is deleted explicitly is not shown by the same snapshot. With a slot beyond the
end of the acknowledged snapshot that is allocated, freed, allowed for immediate reuse
and allocated again, it is: the client creates the entity and deletes it.

### Proofs

`EntityDeltaProofs.tla` proves, for every number of slots, ticks, frames, requests and
packets, every set of worlds to start with and every order of losses and deliveries:

- `SnapshotsWellFormed`: `DeltaTypes`;
- `FullUpdatesStandAlone`: `FullUpdateAlone`;
- `BaselinesAlwaysAgree`: `BaselinesAgree`;
- `ViewsAreSnapshots` and `DeltasAlwaysApply`: `ViewIsSnapshot` and `DeltasApply`, of the
  behaviours in which `DeletionsNotTransmitted` always holds;
- `FilledWorlds`: if the world starts with every slot in use that it may use
  (`Filled`), then `DeletionsNotTransmitted`, `ViewIsSnapshot` and `DeltasApply`.

The assumption is `DeltaConstants`, on the shape of the constants. The hypothesis of the
last but one is an assertion of the code; the run `deleted` shows that the code does
not keep it, and that this needs a slot the acknowledged snapshot did not reach yet.
`FilledWorlds` proves it of worlds that do not grow: there edicts are freed and
reused as before, with and without an explicit deletion, but no slot is new. Of worlds
that grow `delta` checks both without the hypothesis, in its fourth start.

Each step of the proof adds an invariant to those before it. Messages are taken as a set
(`Members`), since after the first step their ticks order them.

- `DeltaTypes` has the types, and what a frame and a message have besides: a frame packs
  what it shows (`FrameOk`), a message gives an entity that enters its value or leaves it
  out because it is the class's (`MsgOk`), what waits to become a baseline
  is in the frame it was sent with (`ServerOk`).
- `Ordered` is about ticks. `Times`: every message is newer than all the client has, and
  every packet tells of a frame it has. `OneFull`: a full update that waits is the last
  message, and the client is not beyond it. `Bases`: the client has the frame of
  every delta under way, no packet under way acknowledges an earlier one, and the frames
  that deltas are against do not go back. It gives `FullUpdateAlone`, and that the server
  is never out of order; this is why a client may delete the frames before the one
  a delta is against.
- `Baselines` compares the copies. The server's is the client's copy of the same number
  whenever neither starts over (`Agree`). The one message that updates them is the one
  the server remembers (`UpdatesOk`). Once the client has read it its other copy is what the
  server will have when the acknowledgement arrives (`WillAgree`), and of an entity that a
  message leaves out the value is in the copy it is to be read against (`LeftOutOk`).
- `Remembers` is about entities. What the client holds is of snapshots the server may
  have dropped since, so the invariant says that there is a history, one frame for every
  tick, of which the frames and messages are (`Told`): a rigid
  function, found anew at each step by adding the frame just taken. In it a slot's serial number
  tells its entities apart (`Numbered`), an entity of two frames was in all frames
  between and was not deleted explicitly in them (`Lasting`), and the last
  pack is that of every frame since it changed (`LastPacks`). The client then has, of every
  entity of a frame it keeps that is still the same in the newest, what it was shown of it
  last (`Kept`): this is what a delta and a `preserve` need. An explicit deletion of
  an entity the message shows would break it, hence the hypothesis.

### Left out

Several classes and properties, send proxies and their per-client results; temporary
entities and sounds; HLTV and replay clients; the local network backdoor; a snapshot
larger than its buffer, which disconnects the client (`sv_ents_write.cpp:912`); dormant
entities the client never hears of again when they are deleted out of its view and its
frames.

## 8. String tables and signon

### Modules

`StringTable.tla` is one network string table and the client that mirrors it.

| Action | Code |
|---|---|
| `Change` | `AddString` and `SetStringUserData`, with `DataChanged` and the tick of the container |
| `WriteBaselines` | `SendPendingServerInfo`: the tables as they are, reliably, and `m_nSignonTick` |
| `Think`, `NotFinalTick`, `SendClientUpdates` | `SV_Frame`: the tick of the tables, the snapshots of the last tick, the tick for changes made afterwards (`AfterSnapshots`) |
| `ReceiveMessage` | `ParseUpdate` and the client's tick |
| `RequestFullUpdate`, `SendMove`, `ReceiveMove` | `ForceFullUpdate`, `CL_SendMove`, `UpdateAcknowledgedFramecount` with `m_nDeltaTick`, `m_nStringTableAckTick` |
| `ActivatePlayer` | the end of the signon |

A delta that gets lost is one that was not sent, since the server keeps nothing of
it; so is a move. `content` is a history in each message: the server's table when it was
written.

`Signon.tla` is the exchange of signon states over the two reliable streams, each a
sequence (the promise of `ReliableStream`), with `Clear` at either end.

| Action | Code |
|---|---|
| `ReadSignonState` | `CBaseClient`'s handler: `ProcessSignonStateMsg`, or `Reconnect` for a message out of turn |
| `SendServerInfo`, `SendFullUpdate` | `SendPendingServerInfo`, the first snapshot |
| `ChangeLevel` | `InactivateClients`, `SpawnServer`, `ReconnectClients` |
| `ReadSignon`, `ReadServerInfo`, `ReadEntities` | `SetSignonState` of both classes, `SVCMsg_ServerInfo`, the snapshot that ends the signon; `CL_Retry` |

### Runs

`mirror` holds both and `SplitPacket` (section 9), one at work in each behaviour. It
shows that a message read leaves the mirror equal to the table it was written from
(`MirrorIsTable`), that what `WriteUpdate` skips the client has (`SkippedIsUpToDate`),
that a client is active only in the level that runs (`ActiveInLevel`), and that one
change of level at any moment does not break the connection (`OneChangeIsTaken`). Two
names, two data values and four ticks let an entry be added and changed with a snapshot
lost between; four levels let answers of two old ones be under way.

`SignonRace = FALSE` leaves out changes of a table between `WriteBaselines` and the next
tick. `MCStringTableRace.cfg`, which is not among the runs, puts them in, and TLC finds
`SkippedIsUpToDate` violated: such a change has the tick the client signed on with, and
"Client is up to date" (`networkstringtable.cpp:980`) skips it until the entry changes
again.

That a client gets in is not promised and not checked: two `SIGNONSTATE_CONNECTED`
replies under way can make the server start over for ever, each time just before the
exchange is complete. A second change of level while the client loads the first reaches
`Assert( 0 )` ("Received wrong spawn count") and `CL_Retry`; the property says what holds
of one change.

### Proofs

`StringTableProofs.tla` proves, for any strings, data, sizes and bounds:

- `MirrorsAreTables`: `MirrorIsTable`;
- `SkippedIsKnown`: `SkippedIsUpToDate`.

Both are of `TableSpec` and assume `~ SignonRace`; without it the second is false, as
`MCStringTableRace.cfg` shows. `StringTableConstants` says that `NoData` and `NoName` stand for nothing, that the
table is created with a string in it, and that ticks begin after 0.

`Mirrored`, the inductive invariant, has a client in one of three stages. `Fresh`:
nothing was sent. `Signing`: the signon data is under way, alone. `Signed`: there is a tick
whose table the client has, and from it a `Chain` of the messages under way leads
on, each of which `Follows` the one before: its update holds all in which the two contents
differ, and a string that is new is in it whole. What makes `WriteUpdate` keep the chain is
`Covers`: a content of a tick has everything that the table stamped no later, so
that what was changed after the tick the client acknowledged contains what the client
lacks, however many messages of ticks between were lost. `Sealed` says that a tick is
closed: changes made from now on are stamped later (the race breaks just this), and
`Known` that every tick the server may take for acknowledged is of a message the client
has read. That losses keep the chain is not a case of its own: the model writes a message
that is lost only as one that is not sent.

`ParseUpdate` is a loop, a function defined by recursion. `ParseFollows` shows that on
an update that follows the client's content it yields the content of the message:
`Upto` says what the loop has made after each entry, and the least entry at which it would
have made something else, which exists because `<` is well-founded on numbers, cannot be.

`ActiveInLevel` and `OneChangeIsTaken` of `Signon` are checked and not proved: an answer of
an old level may be under way at any place of two streams that both ends clear, and what
tells it from an answer of this level is where it lies, not what it says.

### Left out

What the states load and ask for; several tables, dictionaries, the HLTV copy and
`RestoreTick`; a table update that overflows the snapshot; an update for a table the
client has not created (`baseclientstate.cpp:2990`); split-screen users and fake
clients, which sign on inside the server.

## 9. Packets in parts

`SplitPacket.tla` is one sender and one receiver of datagrams that are longer than the
routable payload.

| Action | Code |
|---|---|
| `SendDatagramLong` | a frame that may send (`ShouldSendMessages`, `CL_Move` ask `CanPacket`) and whose packet goes to `NET_SendLong` |
| `TransmitLong` | `CNetChan::Transmit` and others that send without asking `CanPacket` |
| `SendQueuedPacket` | the loop of `CQueuedPacketSender::Run`, or `NET_SendQueuedPackets` when there is no thread |
| `ResetChannel` | `CNetChan::Reset`, which starts `m_nSplitPacketSequence` again |
| `ReceivePart` | `NET_GetLong` |
| `DiscardStale` | `NET_DiscardStaleSplitpackets`; at any moment, as the model has no clock |
| `LosePart`, `RepeatPart`, `DelayPart` | UDP |

The run `mirror` checks `PutTogetherAsSent`, which has two halves. What
`NET_GetLong` hands over is all the parts of one packet, whatever arrived between them
(`WholePackets`); this rests on three things together: the series starts over when the
number changes, a part counts once per number, and the size is only known when the last
part has counted. And a packet sent when nothing of an earlier one was queued comes out
if nothing disturbs it (`CalmPacketArrives`), which rests on `HasQueuedPackets` in
`CanPacket`: the receiver has one buffer for each sender, and parts of another packet in
between make it start over. The bounds are three packets of two or three parts, one
sent at once (the default of `net_splitrate`), and one fault or reset.

Both halves speak of numbers that were used once. A `Reset` gives the numbers out again
while the flags of the receiver's entry stay until nothing came for 15 seconds
(`SPLIT_PACKET_STALE_TIME`): a part whose flag is still its number "is duplicated", it
does not count, and the packet does not become complete. `MCSplitReset.cfg`, which is not
among the runs, shows this. The code does not promise otherwise, and the next packet has
another number.

### Proofs

`SplitPacketProofs.tla` proves, for any finite set of numbers of parts, any
`net_splitrate` and any number of packets, resets and faults:

- `SplitInvariance`: the inductive invariant `SplitInv`;
- `PacketsPutTogether`: `PutTogetherAsSent`.

Neither half is inductive. `EntryInv` says of the receiver's entry that, when its current
number was used once, there is a set of parts of that packet that are flagged with the
number and copied to their places, that `left` is what the set lacks, and that the size
is known once the set has the last part (`Gathered`). A part that arrives adds itself to
the set or, flagged already, changes nothing (`PutGathers`); when `left` is zero the set is
the whole packet (`GatheredAll`). Flags and `current` are numbers that were used, so
a number that was not used before finds nothing of its own in the entry (`SendLong`).
`Order` and `Reached` follow an undisturbed packet: its parts are, in order, from the
entry over the wire to the queue, and what is under way of other packets is in front
of them all, so that no part of another comes between two of them; `current`, `left` and the
flags are then those of its first `k` parts. `CanPacket` is what `Order` rests on: with
nothing queued, no other part comes in behind. TLC found no state of `SplitPacket` that
violates `SplitInv` with two or three parts, three packets, a fault, and `net_splitrate`
0, 1, 2 and 5. The assumptions are those of `SplitPacket` about its constants; that a
part's number fits its byte (at most 127 parts) is left to the code.

### Left out

The size of the parts, which `NET_GetLong` compares; out-of-band packets, which
are numbered by a counter of the socket and sent at once; the sender's limit of 1024
packets, which drops parts as the network may; `ClearQueuedPacketsForChannel`, which
nothing calls; packets of more than 127 parts, whose numbers do not fit the signed byte
they are read as (`net_ws.cpp:1231`).

## 10. Not modelled

- *Flow statistics, the handshake, the host state machine, the data cache, append lists of the file system, the rate limit*: the
  plan's next modules.
- *Clock drift*: averages of floating-point offsets.
- *Matchmaking and the game coordinator*: driven by callbacks of services whose
  contract is not in the repository.
- *Game rules, rendering, user interface, map tools, sound*: numeric or graphical, with
  little state that depends on an order of events. They are most of the repository's
  lines.

Exposures of the modelled files that no module reaches: a file of no bytes
(`net_chan.cpp:2539`); a handler that fails after some messages of a block, which is
then handled again (`:2594`); a table update that overflows its snapshot, which is
acknowledged nevertheless (`networkstringtable.cpp:2074`); the number of fragments in three bits (`:1627`); an overflowed
reliable buffer (`:2013`); more than 255 choked packets (`:2052`); a gap longer than
the ring of frames (`:1180`); nodes of `CTSList::PopItem` deleted while another thread
reads `Next` (`tslist.h:508`); `m_nJobs` (`jobthread.cpp:740`); waits for more than 62 jobs
(`jobthread.cpp:620`).
