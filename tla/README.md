# Specifications of the programs in computer-science

TLA+ models of the concurrent and algorithmic programs of this repository, TLC
configurations that check them on small instances, and TLAPS proofs of the
results that hold for every value of the constants.

The repository is a collection of course work: Go exercises on concurrency
patterns, the handouts and testers of MIT 6.5840, the programs of CMU 15-213,
and notes. It has no single main program; it has some fifteen small systems,
each with its own processes, threads or goroutines. Every module here is a
translation of one of them, and what ties them together is stated below.

Paths are relative to `src/`. `Go` is `Go-Concurrency-Patterns-and-Hints`,
`6.5840` is `MIT-6.5840/6.5840-Dev/src`, `213` is `CMU15-213`.

## 1. Inventory

| Part | Code | State | Operations | What is hard about it | Module |
|---|---|---|---|---|---|
| Bounded buffer | `213/25-sync-advanced/sbuf.c` | ring, two int cursors, three semaphores | `sbuf_insert`, `sbuf_remove` | order of the semaphores, cursors read and written in separate steps, int overflow | `Sbuf`, `BoundedFIFO` |
| Publish/subscribe | `Go/01_publish_subscribe` | map of channels (V1); loop goroutine, helper goroutine and queue per subscriber (V2) | `Publish`, `Subscribe`, `Cancel` | sending under a mutex, sends on closed channels, slow subscribers, close after drain | `PubSub`, `PubSubServers` |
| Work scheduler | `Go/02_work_scheduler` | channels of servers, tasks and completions | `ScheduleFixedV1` to `V10` | unbuffered rendezvous in a cycle, retries, servers that join late, goroutine leaks | `IdlePool`, `WorkScheduler`, `Schedulers` |
| Replicated client | `Go/03_replicated_service_client` | `prefer`, a timer and a channel per call | `Call`, `CallV2`, `CallV3` | timeout racing a late reply, shared preference | `ReplicatedClient` |
| Multiplexer | `Go/04_protocol_multiplexer` | map from tag to waiting call | `Call`, `sendLoop`, `recvLoop` | replies out of order, reuse of tags | `Mux` |
| Simulated network | `6.5840/labrpc` | ends, connections, servers; a goroutine per request and per handler | `Call`, `processReq`, `Enable`, `AddServer`, `DeleteServer`, ... | server deleted or replaced under a running handler, lost requests and replies | `LabRPC` |
| Raft tester: crash and restart | `6.5840/raft/config.go`, `persister.go` | instances, ends, Persisters | `crash1`, `start1`, `connect`, `disconnect`, `cleanup` | old instances cannot be stopped, Persister copied while it is written | `RaftConfig` (extends `LabRPC`) |
| Task queues | `213/26-parallelism/pqsort/taskq.c` | list of threads | `spawn_task`, `join_tasks` | tasks that spawn on a queue that is being joined | `TaskQueue` |
| Parallel quicksort | `213/26-parallelism/pqsort/pqsort.c` | array, scratch array, threads on three kinds of queues | `tqsort`, `sort_thread`, `copy_thread`, `partition_thread` | disjointness of blocks, reservations from both ends | `PQSort` (extends `TaskQueue`) |
| Linearizability checker | `6.5840/porcupine`, `models/kv.go` | linked list of calls and returns, stack, cache; kill flag, result channel, timer | `checkOperations`, `checkParallel`, `checkSingle` | backtracking on a mutable list, killed goroutines, timeout | `Porcupine` |
| Reaping children | `213/15-ecf-signals` | children, signal mask, pending signal, counters | `fork10` to `fork15`, `procmask1`, `procmask2`, `waitforsignal`, `sigsuspend`, `shellex` | signals that merge, handlers that interrupt at any point | `Reaping` |
| Raft tester: agreement | `6.5840/raft/config.go` | logs of all servers | `checkLogs`, `applier`, `applierSnap`, `one`, `nCommitted`, `checkOneLeader` | appliers of all servers share the logs | planned |
| kvraft, shardctrler, shardkv | `6.5840/kvraft`, ... | clerks with a cached configuration; testers | clerk loops, partitions | retries of executed operations, stale configuration | planned (servers are the empty handout) |
| Raft, MapReduce | `6.5840/raft/raft.go`, `6.5840/mr` | - | - | the handouts are empty: there is no protocol in the code | not modelled |
| Echo servers, tiny | `213/22-netprog2`, `23-concprog`, `25-sync-advanced` | connections, byte counter | accept loops, `doit` | descriptors passed between threads, end of file | planned |
| RIO | `213/22-netprog2/csapp.c` | buffer with cursor and count | `rio_read`, `rio_readlineb`, `rio_readnb` | short counts, interrupted reads, end of file | planned |
| Counters and sums, readers and writers | `213/24-sync-basic`, `25-sync-advanced/rw1.c`, `26-parallelism/psum-*.c` | shared counters | threads | lost updates, starvation | planned |
| Linked list | `C_Primer_Plus/ADT/list.c` | nodes | add, traverse, empty | allocation failure | planned |
| Everything else | bits, machine code, cache and vm examples, file and socket programs, notes | - | - | pure functions, timing or input and output | not modelled |

`PROJECT.json` has the same list with all source files, the lines each
definition models, and the hazards with the properties aimed at them.

How the parts interact:

* `tqsort` and its threads use the task queues; `PQSort` extends `TaskQueue` and
  every thread of the sort is spawned and joined through its actions.
* The Raft tester drives the network and the Persisters; `RaftConfig` extends
  `LabRPC` and adds the tester's functions, which change the network's maps while
  calls are under way.
* The two publish/subscribe servers implement one interface, `PubSub`;
  `PubSubServers` runs either. The ten schedulers share `Schedulers`.
* The buffer implements `BoundedFIFO`, which is what the prethreaded echo server
  relies on. That composition is planned.
* Porcupine judges the histories that the kvraft and shardkv testers record.

## 2. The modules and the code

Conventions. A step of a model is what the code does between two points where
another thread can see or change shared state: a critical section is one step, a
read of a shared cursor and the write that follows are two. A send on an
unbuffered channel is one step of sender and receiver together. Data is reduced to
what the properties tell apart. Definitions keep the names of the source.
Definitions marked *Plausible slip* are wrong variants of the definition that
follows them: each property is shown to fail when one of them takes its place, so
that no property holds for want of content.

**Sbuf, BoundedFIFO** (`sbuf.c`). `buf`, `front`, `rear`, `mutex`, `slots`, `items`
are the fields of `sbuf_t`. `InsertWait`, `InsertLock`, `InsertLoad`, `InsertStore`,
`InsertUnlock`, `InsertPost` are the lines of `sbuf_insert`, with `++sp->rear` split
into its load and its store; likewise `Remove...`. `Succ` and `CMod` are the
compiled increment (which wraps) and the C remainder (which may be negative);
signed overflow is undefined in C, and wrapping is what the build produces. A read
outside the array yields any value and a write outside it changes no slot.
`fifo` is a history variable. `BoundedFIFO` is the promise: insert and remove as
one step each on a queue of at most `N` items.

**PubSub, PubSubServers** (`01_publish_subscribe`). `PubSub` is the interface's
comment as a specification: one order of events for all subscribers that respects
each publisher's order; a channel is closed only after it is cancelled and
everything published before has been sent. In `PubSubServers`, server 1 is the mutex
version: `Publish` is lock, one send per subscriber, unlock. Server 2 is the
goroutine `loopV2` with a goroutine `helperV3` and a queue for every subscription;
helper `<<c, k>>` is that of the k-th subscription of `c`. `DrainsQueue` selects
helperV3's loop condition, see section 5. Subscribe and Cancel may be called at any
time. Both servers accept a channel that Cancel has closed (`server_v1.go:30`,
`server_v2.go:73`), and the next use of it panics, which is the end of the
behaviour. Such a channel is in `Reused`; the interface promises nothing of it
(`Misused`), and the properties are about the others, which it must not disturb.

**IdlePool, WorkScheduler, Schedulers** (`02_work_scheduler`). `IdlePool` is V1 and
V2, a channel of idle servers. `WorkScheduler` is V3 to V10, one next-state relation
per version built from shared actions (`HandTask` on an unbuffered and `TakeTask`
from a buffered channel, `CallThenDone`, `CallFails`, `Requeue`, ...).

**ReplicatedClient** (`03_replicated_service_client`). Several goroutines call one
version. `flying` and `done` are the attempts under way and the buffered channel
of a call; a timer may fire whenever it is awaited, which covers every duration.

**Mux** (`04_protocol_multiplexer`). `Register`, `HandToSender`, `Return` are the
parts of `Call` around its blocking points; the remote service is external and
answers every request once, in any order. `SendMade` is explained in section 5.

**LabRPC, RaftConfig** (`labrpc.go`, `raft/config.go`, `raft/persister.go`). The
goroutine of `MakeNetwork` accepts requests until it takes `<-rn.done` (`Stop`). The
path of a request is `Call`, `Accept`, `ReadEndnameInfo`, `Dispatch`, `Handle`,
`HandlerReplies` or `GiveUp`, `Check`, `Return`; every access to the network's maps
is one step under `rn.mu`, and the decisions in between use the values read before.
The tester's `crash1` and `start1` are `Disconnect`, one `EnableOne` per end,
`Delete`, `Copy`, `Kill`, `Make`, `Add`, and any step of a request may come between
them. A Raft instance is external: it calls peers at any time, crashed or not, and
its handlers persist the request. `cleanup` kills the last instances without
disabling their ends, so `OldEndsSilent` is about instances that went through
`crash1`. `EnabledMeansConnected` is about all moments, those in the middle of
`connect` and `disconnect` included: it leaves out only the ends still to be set.

**TaskQueue, PQSort** (`taskq.c`, `pqsort.c`). `tq[q]` is the list of a queue, and
`joining[q]` the thread that `join_tasks` has taken off it and waits for. `PQSort`
has the array, the scratch array and the locals of every thread; the serial parts
(`partition_sweep`, `partition_serial`, `qsort_serial`) are recursive functions on
arrays, with the index arithmetic of the code.

**Porcupine** (`porcupine/checker.go`, `models/kv.go`). One step of `checkSingle` is
one iteration of its loop on the linked list: `Linearize`, `Skip`, `Backtrack`,
`Refuted`, `Killed`, `Linearized`. `lift` and `unlift` are the four assignments to
`next` and `prev`, in their order. `checkParallel` is `Receive`, `Timeout`, `Drain`.
`Linearizable` is a reference definition that shares nothing with the search: some
permutation of the whole history respects real time and the store.

**Reaping** (`15-ecf-signals`). The kernel part is `ChildExits`, `Deliver`,
`Interrupt`; the handlers and the main programs have the names of the C functions
and files. While a handler runs, main does not. The endless loops are cut after `N`
rounds. `addjob` and `deletejob` are empty in `procmask1.c` and `procmask2.c`; the
model keeps the job list that the comments on their calls describe, because what the
two programs demonstrate is the order of those calls.

## 3. The runs

All passing runs explore their whole state space. Deadlock checking is off
because every system here comes to an end: all calls made, all children reaped, a
panic of the code, or one of the stops the properties name (V5 with too few servers,
`fork14` after merged signals, an empty history). That it stops nowhere else is
what the liveness properties say.

| Run | Instance | Shows |
|---|---|---|
| `sbuf` | 2 slots, 2 producers, 2 consumers, 2 values, 4 inserts, `IntMax` 4 | `MutualExclusion`, `SlotAccounting`, `RingContents`; the code implements `BoundedFIFO` (`ImplementsFIFO`); every insert is stored and every item is removed (`EveryItemRemoved`) |
| `sbuf_overflow` | `IntMax` 3, 6 inserts, one thread a side | violated: `FirstAndLastItem`, see section 5 |
| `pubsub` | 2 publishers, 2 channels, 2 events, both servers; one channel of V2 subscribed twice, those of V1 without limit | a server uses no closed channel unless it was subscribed again, nothing lost or reordered, both implement `PubSub`, every Publish returns, a cancelled channel is closed |
| `pubsub_committed` | 1 publisher, 1 channel | violated: `ClosedMeansCancelled`, see section 5 |
| `schedulers` | 2 servers, 0 to 3 tasks, 2 failing calls, V1 to V10 | one task per server, no task lost or run twice, return only when done, V5 never returns with fewer servers than tasks, a buffered send never blocks or panics, every version returns, V10 leaks nothing |
| `replicated_client` | 2 callers, 3 servers, 2 calls each, 0, 1 or 2 servers down | every server asked at most once, late attempts never block, an answer comes from a server that was asked, calls return |
| `mux` | 3 callers, 2 tags, 2 calls each | the right reply for each call though tags are reused, `recvLoop` is never stuck, every call returns |
| `mux_committed` | the same | violated: `EveryCallReturns`, see section 5 |
| `raft_config` | 2 servers, 3 instances, 1 request | what is acknowledged is in the Persister the next instance gets, crashed instances are never heard, ends are enabled exactly between connected servers (in the middle of `connect` too), a call fails only after a fault, callers and handler goroutines end |
| `pqsort` | all arrays of 4 elements over 3 values, serial and parallel; two arrays of 7 | the array is sorted on return, no thread outlives its queue, `tqsort` returns |
| `porcupine` | histories of 0, 1 and 3 operations on 2 keys in 5 time patterns, verbose or not, with or without timeout | the verdict is right, the partial linearizations are the longest, the list is intact however often calls are lifted and put back, the check returns and leaves no goroutine |
| `reaping` | 11 programs, 4 children | the parent's bookkeeping is right wherever a signal interrupts it, and every wait ends except where signals merge in `fork14` |

Why the bounds are enough. Two slots are the smallest ring that wraps with both a
full and an empty buffer, and four inserts go round it twice. Two events are
published by two publishers in both orders, or one after the other by the same one,
and two channels let one be cancelled, or used again, while the other is served; the
third subscription of a channel meets the same closed channel as the second. Two servers with up to three tasks have fewer, as many and
more servers than tasks; two failures let one task fail twice or two fail once.
Three multiplexer callers on two tags force a tag to be contended and reused. One
request and one restart reach every interleaving of a request with `crash1` and
`start1`; a second request shares no state with the first but the Persister, which
only grows. Arrays of four over three values have all patterns of equal elements,
and the arrays of seven run two sort threads at once with blocks of unequal length.
Three operations are the fewest in which the search has to undo two calls.

Fairness. Weak fairness of a goroutine, thread or process that can go on is what
the schedulers of Go and of the kernel provide. Strong fairness appears twice, for
goroutines that queue for a channel another goroutine serves (`HandToSender`
in `Mux`, `TakeV1` in `IdlePool`): Go's channels serve waiting goroutines first in,
first out. Assumptions about the environment are separate and named:
subscribers receive (`Receiving`), handlers return (`HandlersReturn`), servers that
are up answer, a call to a worker returns. The schedulers run under weak fairness
of the whole next-state relation: every bounded behaviour of them ends, so this is
the least that rules out stopping early. `Timeout` of Porcupine and a handler of
labrpc without `HandlersReturn` are not fair: they may never happen.

## 4. What is proved

`tlapm` checks `SbufProofs` and `TaskQueueProofs` completely; nothing is assumed but
the named assumptions on the constants.

**SbufProofs**, for every `N >= 1`, all finite disjoint sets of producers and
consumers, every set of items and every `MaxInserts <= IntMax` (`SbufAssumption`
and the hypothesis of each theorem):

* `Invariance`: `Spec => []IInv`.
* `InsideTheArray`: the index of every store and load (`IndicesInside`) is that of a
  slot.
* `Exclusion`, `Accounting`, `Contents`, `FirstAndLast`: `MutualExclusion`, `SlotAccounting`, `RingContents` and the two index comments of
  `sbuf.h`. `FirstAndLast` and the run `sbuf_overflow` together say exactly how far
  those comments go.
* `Refinement`: `Spec => ImplementsFIFO`. The store to `rear` is the abstract insert,
  the store to `front` the abstract removal, every other step stutters.

None of the invariants is inductive alone. `RingContents` needs that a store
through a register writes the current cursor plus one, which holds because its
thread has the lock since the load (`Locals` with `MutualExclusion`), and that the
slot it writes is not one of the unread ones, which holds because the number of
items plus the inserts under way is at most `N` (`SlotAccounting`) and because
cursors less than `N` apart have different remainders (`ModInjective`). That the
cursors do not overflow is `rear + nStoring = inserts` (`Cursors`). `IInv` is the
conjunction of the invariants with `Sides`, `Locals`, `Cursors` and `Stored`. One
lemma per action shows that it is preserved; `CountMove`, `ProducerCounts` and
`ConsumerCounts` reduce the cardinalities in `SlotAccounting` to arithmetic on the
one thread that moves.

**TaskQueueProofs**, for all sets of queues and threads, and for any program on
them (`QueueSpec` allows every order of spawns, joins and returns, of which tqsort's
is one): `NoThreadOutlives` (`QueueSpec => []NoThreadOutlivesQueue`), which is
inductive as it stands because `join_tasks` holds on to the thread it took off the
list until the thread has ended, and `JoinedMeansEnded`: when every `join_tasks` has
returned, no thread runs.

Only model-checked: all liveness, which with `ENABLED` is beyond the prover; what
the recursive functions of `PQSort` and the search of `Porcupine` compute, which
would need induction over data that the installed backends cannot instantiate; and
the invariants of the modules without a proof module so far.

## 5. Findings

1. *Cursors of the bounded buffer overflow* (`sbuf.c:32`, run `sbuf_overflow`).
   `front` and `rear` are ints that are only incremented. At the first insert after `INT_MAX`
   of them `rear` becomes negative, `rear % n` is negative or zero, and `buf[rear%n]` is no longer
   "last item" (`sbuf.h:11`). The run uses a small `IntMax`; the theorem
   `FirstAndLast` shows that the comment holds up to that point.
2. *helperV3 stops at once* (`server_v2.go:149`, run `pubsub_committed`). Its loop
   condition `in != nil && len(q) > 0` is false for the empty queue it starts with,
   so it closes the subscriber's channel before any Cancel. `pub_sub.go:17` promises
   the opposite. With `||` (`DrainsQueue = TRUE`), which is what the body of the loop
   is written for, the server implements `PubSub`; the passing run uses this, and
   says nothing of the committed loop condition.
3. *The multiplexer's send channel is never made* (`mux.go:14`, run
   `mux_committed`). Sends and receives on the nil channel `m.send` block for ever,
   and no Call returns. The passing run has `SendMade = TRUE`, one added `make`.

Smaller observations, without a run:

* Both publish/subscribe servers accept a Subscribe of a channel they have closed, and
  panic when they next use it. `pub_sub.go` does not say whether this is allowed.
* `CallV3` returns a zero Reply and resets `prefer` to 0 when every timer has fired
  (`client.go:122`), where `CallV2` goes on waiting. `RepliesOrTriedAll` allows it.
* `ScheduleFixedV4` counts the servers left in its channel at the end, which need
  not be those it started, and may return before the tasks are done; `ReturnsWhenDone`
  excepts it.
* A porcupine check of an empty history without a timeout never returns
  (`checker.go:294`); `CheckReturns` has this as a precondition. The comment at
  `checker.go:64` has "call" and "return" the wrong way round.
* `fork14` and `procmask1` are the textbook's wrong examples; `EveryWaitEnds` and
  `ChildrenAccounted` state their exceptions.
* The coordinator's main loop waits while `Done()` is true
  (`mrcoordinator.go:29`).
* `read_requesthdrs` of tiny waits for an empty line only (`tiny.c:105`) and does not
  end when the input does.

## 6. What is not modelled

The Raft, kvraft, shardctrler, shardkv and MapReduce servers are empty handouts:
modelling the protocols would be modelling the papers. Encoding (labgob), HTML
output, timing loops, floating point, machine code examples and programs that
only do input and output have no state a property could be about. Of `labrpc`, the
statistics and the lengths of delays are left out; of porcupine, `checkEvents` (no
caller, same search) and the hash buckets of the cache; of the signal programs,
those that show output order, process groups or jumps out of handlers, and
`signaldeadlock.c`, which depends on locks inside the C library.

## 7. Plan

The modules were built in the order `Sbuf`, `PubSub`, `WorkScheduler`,
`ReplicatedClient`, `Mux`, `LabRPC` and `RaftConfig`, `TaskQueue` and `PQSort`,
`Porcupine`, `Reaping`. Next:

1. *Agreement checkers of the Raft tester*: the logs, `checkLogs`, `applier`,
   `applierSnap`, `nCommitted`, `one`, over abstract servers that apply commands in
   any order. Property: a run without a reported error had one log. Bounds: 2 servers,
   3 indices, 2 commands. Composed with the instances of `RaftConfig`.
2. *Clerks and testers of kvraft, shardctrler, shardkv*: the retry loops over
   `LabRPC`'s promise (a false reply does not tell whether the request ran) with a
   configuration that changes, and the partitions of the testers.
3. *Prethreaded echo server*: worker threads, descriptors and the byte counter on
   `BoundedFIFO`, and the composition with `Sbuf` through the refinement.
4. *RIO and tiny*: `rio_read`, `rio_readlineb`, `rio_readnb` against the byte stream,
   with short counts and end of file; then the control of `doit`.
5. *Counters, sums, readers and writers, the linked list*: small modules against
   reference definitions.
6. *Proofs*: `RepliesMatch` and `RecvLoopNeverStuck` of `Mux`; `NoSendOnClosed` of
   `PubSubServers` and its refinement of `PubSub`; `OneTaskPerServer` of `IdlePool`;
   `AttemptsNeverBlock` of `ReplicatedClient`; `OldEndsSilent` and `AckedSurvives` of
   `RaftConfig`; the accounting of `Reaping`.
