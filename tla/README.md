# Specifications of freshgrlc-pool

This directory holds TLA+ specifications of the programs in `src/`, the
configurations TLC checks them with, and proofs for TLAPS. The reference is the
C++ code; each module says in its comments which functions it stands for, and
`PROJECT.json` (`map`) names the lines.

## 1. The system

Four programs are built from a set of libraries.

| Program | What it does |
| --- | --- |
| `mbus-relayd` | A message bus. Clients connect by TCP, subscribe to message classes and publish; the relay sends each message to every subscriber, its publisher included. |
| `pool` | Polls a full node by RPC for the block to mine and serves miners by the stratum protocol. |
| `utils/crawler` | Connects to a node of a Bitcoin-like network and, by its address lists, to all others. |
| `utils/mbus-test` | A client of the bus that prints what it receives. |

### Components, their state and their operations

| Component | State | Operations | Interacts with |
| --- | --- | --- | --- |
| Registry (`lib/socket/ConnectionManager`) | vector of owned connections, one lock | `addConnection`, `add`, `remove` | the listener adds, each connection's receiver removes, broadcasts iterate |
| Connection (`IncomingConnection`, `AsynchronousSocket`, `Socket`) | file descriptor, receiver thread, stream parser's buffer | `receive`, `send`, `cleanup` | the kernel; `onReceive()` of the component on top |
| Relay (`mbus-relayd`) | per connection: subscriptions and their lock, message queue, worker | `onReceive`, `broadcastToClients`, `queueMessageIfSubscribed`, `processEvent` | the registry, and every other connection's queue |
| Queue and worker (`lib/util`) | semaphore, list, lock; one thread | `queue`, `waitForMessage` | any thread queues, the worker takes |
| Thread (`lib/util/Thread`) | state, run lock | constructor, `start`, `setOwnState`, destructor (cancels, does not join) | its creator and its destroyer |
| Bus client (`lib/messagebus/MessageBusClient`, `ReconnectingClient`) | list of subscriptions, descriptor, receiver thread, parser's buffer | `subscribe`, `unsubscribe`, `setSubscriptions`, `broadcast`, `onReconnect`, `cleanup` | the program's thread and the receiver thread share descriptor and list without a lock |
| Framing (`AbstractMessage`, `MessageStreamParser`) | none | `encode`, `decode`, `getReceivedMessageSize` | relay and client |
| Pool daemon (`pool`), RPC client (`lib/bitcoinrpc`) | last height and parent hashes, RPC socket | `poll`, `getBlockTemplate`, `updateNetworkState` | the full node; the stratum server |
| Stratum server (`lib/stratum`) | current block information and coinbase; per connection: jobs, active job, difficulty, accepted shares | the four `mining.*` calls, `updateWork()`, `sendJob()` | miners, in a receiver thread each; the thread that learns of blocks; the RPC client |
| Mining data (`lib/mining`) | the job manager's list of coinbase outputs | `rebalance`, commitments, scripts, serialisation | the stratum server |
| Crawler (`utils/crawler`, `lib/bitcoinp2p`) | vector of nodes and its lock, queue of addresses, several workers | `addNode`, `processAddNodeEvent`, `processMessage` | every connection's receiver thread |

### What is hard here, and what makes each part correct

* *Threads.* Every connection has two threads, and all of them meet in one
  registry whose elements are destroyed by their own receivers. Correct: no
  thread touches a destroyed connection; nobody waits for ever; every client sees
  the same order of messages and misses none it is subscribed to.
* *Lock-free hand-over.* A queue's semaphore and list are changed at different
  times. Correct: who passed the semaphore finds a message.
* *Failure.* Clients close and reset their sockets, threads cannot be created,
  frames do not decode, writes are short. Correct: the failure of one connection
  costs only this connection. (It does not; see the findings.)
* *Reconnecting.* The client's receiver thread opens the next connection and
  replaces itself, while the program goes on using the socket. Correct: after
  every loss the relay knows the subscriptions again.
* *Chain reorganisations.* The poller decides from heights and hashes whether a
  block template is news. Correct: miners are not sent back and forth between a
  block and its child, and the work settles when the nodes agree.
* *Two threads, one miner.* `sendJob()` runs in a client's receiver and in the
  thread that updates the work; only the list of jobs is locked. Correct: what a
  miner works on is a job whose shares are accepted, at the difficulty it was
  told, and every block reaches every miner.
* *Numbers and bytes.* Two size limits for one frame, byte orders that change on
  the way from the node to the miner and back, a parser of options with memory.
  Rounding: every update rewrites the coins of all outputs twice, in calls that
  repeat themselves until the sum is the reward. Correct: never more than the
  reward, in the end all of it, and a call returns. (It may not; see the
  findings.)
* *Objects under construction.* A crawler's connection is spoken to by its own
  receiver while it is constructed, and it is stored through a pointer into a
  vector that other workers grow. Correct: every address is connected to once,
  none is lost, and what a node tells is tried.

## 2. Modules

| Module | Models | Kind |
| --- | --- | --- |
| `BusService` | what the bus promises, with no threads, locks, queues or sockets | abstract specification |
| `Relay` | `mbus-relayd` with the parts of `lib/socket` and `lib/util` it uses | specification |
| `MCRelay` | the frames and the symmetry of the small instances | for TLC |
| `RelayProofs` | theorems of `Relay` | proofs |
| `RelayRefinement` | `Relay` implements `BusService` | proofs |
| `BusClient` | `MessageBusClient` on `ReconnectingClient` | specification |
| `BlockUpdates` | the pool daemon's poller and its RPC connection | specification |
| `MCBlockUpdates` | a tree of six blocks | for TLC |
| `BlockUpdatesProofs` | theorems of `BlockUpdates` | proofs |
| `Crawler` | `utils/crawler` with `lib/bitcoinp2p` and a queue with several workers | specification |
| `MCCrawler` | the address lists of three nodes | for TLC |
| `CrawlerProofs` | theorems of `Crawler` | proofs |
| `BusClientProofs` | theorems of `BusClient` | proofs |
| `Stratum` | `lib/stratum`: the job manager, the connections and their two threads | specification |
| `MCStratum` | the difficulties of two blocks, the requests of two clients | for TLC |
| `StratumProofs` | theorems of `Stratum` | proofs |
| `Bytes` | byte strings, hexadecimal digits, variable length integers | operators |
| `Frames` | the bytes of the bus's frames, the stream parser and the decoder | specification and operators |
| `Coinbase` | the job manager's outputs and their rebalancing, scripts, the coinbase and its parts | specification and operators |
| `Blocks` | jobs as JSON, headers, targets and difficulties | operators |
| `Options` | the command line and the help screen | operators |
| `RpcSharing` | threads that share one `RPCConnection` | specification |
| `MCParts` | the inputs of the six above, and what is compared with what | for TLC |
| `FramesProofs` | facts about sequences, folds and numbers as bytes; theorem of `Frames` | proofs |
| `PartsProofs` | theorems of `Coinbase`, `RpcSharing`, `Bytes`, `Blocks` and `Options` | proofs |

### Relay

State: `clients` is the registry, `lock` its lock, and `todo` and `target` are
the broadcast's loop (the connections still to visit, and the one about to be
queued to). Per connection, `recv` and `work` are the program counters of the
receiver and the worker, `subs`, `queue` and `sem` its data, and `peer` and
`unread` the client's end of the socket. `listener` and `newConn` are the main
thread's. A message is its *rank*, its position in the history variable `log`.

A write for a client that has closed its socket (`peer` is `"closed"`) succeeds
and is answered by a reset, which nobody is told of; a later write (`"reset"`)
raises SIGPIPE. The system of a client that closes with messages it has not read
may reset the connection at once (`"refused"`): the next write fails and is
reported, the one after it raises SIGPIPE.

| Action | Code |
| --- | --- |
| `Accept`, `AcceptNoReceiver`, `AcceptNoWorker`, `AcceptFails` | `Listener::listen()`, the constructors of `BusConnection` and `Thread` |
| `Add`, `Start` | `Connections::add()`, then `enableProcessing()` after the lock is released |
| `ReadFrame` | `Socket::receive()`, `processPacket()`, `BusConnection::onReceive()` |
| `Count` | `calculateEffectiveBroadcastClients()`, evaluated only for the debug log |
| `BeginBroadcast`, `Visit`, `Enqueue`, `EndBroadcast` | `broadcastToClients()` and what it calls |
| `ReadEnd`, `Cleanup` | the end of `receive()`; `cleanup()`, `remove()` and the destructors |
| `WaitForMessage`, `TakeMessage`, `SendMessage` | `waitForMessage()` in its two parts; `processEvent()` and `send()` |
| `ClientRead`, `ClientClose`, `ClientReset` | the client (external) |

Abstractions. The vector of connections is a set: the loop may visit in any
order, a superset of the code's. The critical sections of a queue and of a
connection's subscriptions contain no other lock, nothing that blocks and
nothing that throws, so each is one step; the registry's lock is held over
several. The counting pass is one step, because it writes nothing. A client's
socket buffer holds `WireCap` messages, and a message is written as a whole
(short writes are in `BusClient`). A worker stops where it is when its connection
is destroyed; because `pthread_cancel()` does not wait for it, destruction may
also end in `process = "corrupted"`, after which nothing is claimed.
`process` is also how the relay ends by an exception nothing catches
(`"aborted"`), by SIGPIPE (`"killed"`) or because `accept()` failed (`"exited"`).

### BusClient

`step` is the program's thread and `recv` the receiver. `Write` is
`Socket::send()`: a frame has two parts, and a short write leaves the second to
the recursive call, so both threads' writes can interleave. `up` and `down` are
the parts written to and coming from the current connection, `buffer` the
parser's, which survives a reconnect. `View(up)` is what the relay makes of the
parts: the last whole update. A `Break` may come at any time and lose any suffix
of `down`. The code's copy of the list in `onReconnect()` while the list is
changed is a data race: either list, or corruption. Attempts to connect that fail
change nothing and are stuttering steps.

### BlockUpdates

A block template is represented by the block it extends; `Parent` and `Height`
are the tree the nodes' tips (`tip`) move on, to longer chains only. The
poller's variables keep their names, `work` is the block the stratum server's
work extends, and `previous` is history. `Start` is `StratumServer`'s
constructor, `Poll` is `BlockTemplatePoller::poll()` with the update it makes,
`RequestFails` every failure of a request: in the poller's thread it ends the
daemon. Heights are natural numbers; the code's are 32 bits wide and start at
zero, where `lastHeight - 1` wraps to a height no block has, which no template
equals.

### Crawler

`list` is the vector of nodes, `stale[w]` says that an insertion moved the
elements while worker `w` held a pointer to one (the vector's capacity doubles),
`build[n]` is how far the connection to `n` is constructed, and `recv[n]`,
`adding[n]` and `input[n]` are its receiver, the address list it is queueing, and
what it has yet to read. `peer`, `heard` and `odd` are the node's.

| Action | Code |
| --- | --- |
| `AddSeed`, `NoWorkers` | `main()`, the constructor of `ConnectionManager` |
| `WaitForMessage`, `TakeMessage`, `Ignore`, `Insert` | `waitForMessage()`, `processAddNodeEvent()` up to the end of the lock |
| `Connect`, `ConnectStale`, `ConnectNoReceiver` | `holder->connect()` up to the start of the receiver |
| `CheckReceiver`, `SendVersion` | `P2PConnection`'s constructor |
| `Construct`, `Initialise`, `Store` | `NodeConnection`'s constructor in its two parts, and the assignment to the holder |
| `ReadVersion`, `ReadVerAck`, `ReadAddr`, `QueueAddress`, `ReadPing`, `ReadBad`, `ReadEarly`, `ReadEnd` | `receive()`, `onReceive()`, `processMessage()` |
| `Answer`, `Misbehave` | the nodes (external) |

The critical section of the vector's lock contains nothing that blocks, so it is
one step. Reading from or storing into freed memory may corrupt the process
(`"corrupted"`), after which nothing is claimed, connect to nowhere because the
host name is gone, or lose the connection. `raced` records the nodes this
happened to and those whose verack was handled before their connection was
constructed: what only they know may never be learnt, so `TriesAll` excludes
them. The main thread's dumps and the counts a receiver prints read the vector and change
nothing. A descriptor closed by the receiver is taken to be -1 at once; that
another socket gets its number between `close()` and the assignment is left out.

### Stratum

`gen` and `coinbase` are the block of the job manager's two references, which
`updateWork()` replaces in two critical sections. `pc[t]` is where a thread is in
`sendJob()` (or in a request, or in `updateWork()`), and `job[t]` the job it
refers to there; a job that is no longer in `jobs[c]` is freed memory. `told` and
`work` are the miner's view: the last difficulty and the last job sent to it.
`overlap[c]` is history: whether `sendJob()` ran for `c` in both threads at once.

| Action | Code |
| --- | --- |
| `ActiveJob`, `ChooseDiff`, `CreateJob` | `job()`, `calcNewDiff()`, `JobManager::createJob()`, under the jobs' lock |
| `CompareDiff`, `SetDifficulty`, `StoreDiff`, `EncodeJob`, `Notify` | `sendJob()` and `updateDiff()`, step by step, without a lock |
| `UsesFreed` | the same with a job that was cleared |
| `UpdateWork`, `UpdateCoinbaseOutputs`, `GenerateCoinbaseTransaction` | `JobManager::updateWork()` and `updateCoinbaseOutputs()` |
| `SendToNext`, `ClearJobs`, `AllSent` | `sendNewJobsToClients()`, `clearJobs()` |
| `Invalid`, `Throw`, `Subscribe`, `ReplySubscribed`, `Answer`, `Submit`, `AcceptShare`, `RejectLowDiff`, `Reply` | `onReceive()`, `parseMessage()` and the calls |

Abstractions. No program sets a connection's job manager yet (that is the task of
the unfinished pools), so `Init` chooses the set `pooled` of clients that have
one, and starts from a job manager that has its first work and outputs. One
thread updates the work. Connections neither come nor go: that is `Relay`'s
subject, as is the registry's lock, which only the updater takes here. The
order of the connections is any. Difficulties are in units of `DIFF_FLOOR`, and
how long a client has been measured is a free choice from `Elapsed`. Messages to
miners are written as a whole. A request that joins two, or whose numbers are too
long for their type, is in `Invalid` and `Throw`; the latter, and the use of
freed memory, set `alive` to `FALSE`, after which nothing is claimed.

### The parts

`Bytes`, `Blocks`, `Options` and most of `Coinbase` are algorithms as operators;
`MCParts` chooses an input in its initial state and compares the result with
what its reader makes of it (`ReadVarInt`, `PushedBy`, `MinersHeader`,
`NodesHeader` are the readers). Hashes are terms: different inputs have different
hashes. Targets are four digits to the base 3 where the program has 32 bytes, a
quotient looks at two of them where the program looks at four.

`Frames` is a small machine: encoded messages are on the wire, arrive in pieces
cut anywhere, and are decoded. A frame the decoder refuses leaves the parser's
buffer in order, and the machine goes on as the bus client does, which catches
the exception; in the relay nothing does (`Relay`'s `ReadFrame`).

`Coinbase`'s machine is the job manager's list of outputs through its updates.

| Action | Code |
| --- | --- |
| `UpdateCoinbaseOutputs` | `updateCoinbaseOutputs(newOutputs)`: commitment and new outputs, up to the call of `rebalance()` |
| `UpdateWork` | `updateWork(generationInformation)`: the new reward, the commitment in element 0 of the list, or a crash if it has none |
| `RebalanceReturns`, `RebalancePass` | one call of `rebalance()`, for `updateCoinbaseOutputs()` or for `generateCoinbaseTransaction()` |
| `GenerateCoinbaseTransaction` | `generateCoinbaseTransaction()` places the commitment and calls `rebalance()` |
| `KeepCoinbase` | it builds the transaction the next jobs are made of |

`newOutputs` is history: the outputs as they were set, before any rounding. One
thread makes all updates. The machine starts with a block's information (before
the first one the code dereferences a null reference). No program calls the two
updates yet, so outputs and rewards are any of the run's. The commitment is
always `forCoinbaseOnly()`, as no block with witnesses is ever passed. Amounts
are natural numbers: a reward times the precision of the factor fits into the
code's 64 bits. A job's merkle branch is a parameter of a header, but in the code
it is always empty: `BlockGenerationInformation` has nothing to fill it with, and
`MerkleRoot::fromTxIds()` and `RawTransactions` have no caller; they are not
modelled.

`RpcSharing` is the connection to the node that the poller and the receivers of
miners share; it has no lock, so a thread may destroy the socket another one
waits on, or return the answer to the other's request. `OwnAnswer` claims nothing
of requests that another one overlapped, which is all that can be claimed.
`OptionsMean` likewise claims nothing of a parameter whose value is missing
because another `--name` follows it, and `HelpLinesUp` nothing of a longest name
that ends at a tab stop.

## 3. Runs

| Run | Instance | Shows |
| --- | --- | --- |
| `relay_safety` | 2 connections, 2 classes, 2 frames each, all subscription sets | `SemaphoreMatchesQueue`, `TotalOrder`, `PublisherOrder`, `ExactDelivery`, and that `Relay` implements `BusService` |
| `relay_live` | 2 connections, 2 frames each of every kind but a smaller subscription; threads and `accept()` may fail; one client may never read and may close | `BroadcastTouchesLive`, `StartTouchesLive`, the inductive invariant `IInv`; `QueuedIsSent`, `BroadcastEnds`, `ClosedIsDestroyed` |
| `relay_sigpipe` | 2 connections, 2 frames each | violated: a client that leaves and is sent two more messages ends the relay |
| `bus_client` | 2 classes, 2 calls, 2 lost connections, 2 messages | `ResubscribedUnlessOverlapped`, `WholeFramesUnlessOverlapped`, `IntactUnlessTorn`, `Reconnects` |
| `bus_client_resubscribed` | 1 class, 1 call, 1 lost connection | violated: the call overlaps the re-sending, and the older list wins |
| `block_updates` | 2 nodes, 6 blocks on 2 branches | `Settles`, `NoFlipBack` |
| `block_updates_back` | the same | violated: work goes back to an ancestor when a node lags behind further, or after a jump |
| `crawler` | 3 nodes (one unreachable, one that may leave or send anything once), 2 workers, threads may fail | `EachNodeOnce`, `NoAddressLost`, `TriesAll` |
| `crawler_unreachable` | 3 honest nodes, one unreachable, 1 worker | violated: the unreachable node ends the crawler |
| `stratum` | 2 clients (any of them pooled; one sends 2 requests), 2 blocks, 2 updates, 3 times of measurement | `JobsAreCurrent`, `MinerInStep`, `NoFreedJob`, `WorkArrives` |
| `parts` | lists, numbers and texts up to the bounds in `MCParts`; 3 frames; any updates from 5 lists of outputs and 5 rewards; 3 requests of 2 threads | `FramesDecode`, `EncodingsParse`, `CoinbaseWellFormed`, `HeadersAgree`, `SolutionsAccepted`, `OptionsMeanWhatTheySay`, `HelpTextsLineUp`, `NeverOverpays`, `PassesGain`, `JobsPayReward`, `OwnAnswer` |
| `rebalance_retries` | the job manager of `parts` alone | violated: `rebalance()` may go on calling itself with the same amounts |

Bounds. Orders and losses need two publishers or two messages for one client:
two connections with two frames each have both, and a pass that is overtaken by a
subscription, a removal or another broadcast; the loop is in the middle while the
other connection is added or about to be removed. More connections at once are
covered by the theorems, which are about any set of them. `WireCap = 1` makes a client that does not read block its worker at
once. In `BusClient` two losses give a loss during the recovery from another.
In `BlockUpdates` a node can be behind by one or more blocks, on the same branch
or the other one, and a chain can be replaced by a longer one. In `Crawler` two
workers are enough for one to move what the other points to or to be told of the
same node, and the vector moves at its second and third element. `MaxOdd`
bounds how often a faulty node misbehaves. In `Stratum` two requests are a
subscription beside an update and another one, or a share, after it; two updates
are one that overlaps and one that does not; with the second client the updater's
loop has somewhere else to be. One block's limit is below the default difficulty
and the other's is above. In `MCParts` the lengths and numbers lie on both sides
of the limits in the code; blocks have up to 100 transactions. The outputs' shares
are ones that add up to the reward in one call, in several, and never.
`MaxFrames`, `MaxCalls`, `MaxBreaks`, `MaxMessages`, `MaxRequests` and `MaxUpdates` only end the behaviours;
the runs do not check for deadlock, because a system whose traffic is used up, or
whose process has ended, may stop.

Fairness. `Relay`: weak fairness of the listener and of each connection's
receiver and worker: the kernel schedules threads that can run. Weak fairness is
enough although the registry's lock is contended: a pass holding it never blocks,
and the frames, hence the passes, of an instance are finitely many. Only the
clients in `Readers` are assumed to read, and nobody to send or to close.
`BusClient`: weak fairness of the receiver thread, which includes that the relay
can be reached again at some time; the program need not finish its calls.
`BlockUpdates`: the poller polls for ever, and no node that has news is left out
of the answers for ever. `Crawler`: weak fairness of each worker (`connect()` has
a timeout), of each receiver, and of the nodes' answers. `Stratum`: weak fairness
of the updater within an update and of each receiver within a request; `write()`
waits for a client that does not read, so this includes that clients read what
they are sent. Nobody need send a request, and no block need come. A lock is held
over steps only by a thread that can go on. `MCParts`: the updater's thread goes
on within an update; only `rebalance_retries` needs it.

What holds of miners is limited by one race, which `overlap` delimits: a client
that subscribes while an update is under way. Then `sendJob()` may use a job that
is freed, and the two threads' messages may interleave, so that the miner works
on one job at the other's difficulty. The jobs are in step again after the next
block (`overlap[c] = "before"`), but the difficulty need not be: `currentDiff` may
go on differing from what the miner was told, and while it equals a new job's the
miner is not told again. TLC finds a violation of `MinerInStep` and of
`NoFreedJob` when the exemption is taken out of either.

## 4. Proofs

`RelayProofs` proves, for any set of connections and classes, any set of frames
and any bounds, that `IInv` is an invariant of `Relay` (`Invariance`), and from it
`TypeOK`, `BroadcastTouchesLive`, `StartTouchesLive`, `SemaphoreMatchesQueue`,
`TotalOrder`, `PublisherOrder` and `ExactDelivery`. The only assumption is
`RelayAssumption`, the types of the constants.

None of the properties is inductive by itself. `IInv` adds:

* `LockInv`: who is inside a broadcast is exactly who holds the lock, and the
  loop's variables are its own and point into the registry; so `Cleanup`, which
  needs the lock, cannot run in the middle of a pass.
* `RegistryInv`: what is registered is alive, what is not is not yet or no longer
  at work, and between `add()` and `enableProcessing()` the receiver is still
  waiting for its run lock; this is why the reference stays valid.
* `ThreadInv`: a worker has an event exactly while it sends, and a receiver on
  its way to a broadcast has a message.
* `OrderInv`: what a worker has written, is writing and has queued are increasing
  and one before the other, and all below the rank of a broadcast that has yet to
  come to this connection.
* `PublisherInv`: a publisher's messages in the log are older than the one its
  receiver is about to publish.
* `DeliveryInv`: between visit and queueing the subscription seen can only have
  been replaced by a later one.

The step is split into one lemma per part (`TypeStep`, `LockStep`,
`RegistryStep`, `ThreadStep`, `OrderStep`, `PublisherStep`, `DeliveryStep`), each
with one step per action that disturbs the part. The module begins with the facts
about `Append`, `Tail` and concatenation of rank sequences.

`RelayRefinement` proves that `Relay` implements `BusService` (`Refinement`), again
for any constants: the initial states map to `BusInit`, and every step, in a
state where `IInv` holds, to a step of the bus or to none (`StepRefines`). The
lemmas on the stream of a connection say what the mapping `BusOut` does when a
message is visited (`StreamPending`, the bus's `Offer`), queued and taken
(`StreamEnqueue`, `StreamTake`: nothing the bus sees) and written (`StreamSend`,
its `Deliver` or `Drop`). `IInv` is needed for what the code never checks: that a
connection that reads a subscription is registered, that a dropped message's
client is gone, and that the worker finds a message.

`BlockUpdatesProofs` proves `TypeOK` and `NoFlipBack` of `BlockUpdates` for any
set of nodes and any tree of blocks in which a child is one higher than its
parent (`BlockAssumption`). The invariant `MemoryInv` says that the poller's
variables describe the block the work extends, and that the hash before the last
is the parent's whenever the last step was from a block to its child; then a
template of the parent is exactly what `LaggingBehind` recognises.

`StratumProofs` proves all four invariants of `Stratum`, `TypeOK`,
`JobsAreCurrent`, `MinerInStep` and `NoFreedJob`, for any clients, blocks,
limits of difficulty, times and bounds. The assumption is `StratumAssumption`:
the types of the constants, and that no block's limit is below four floors, so
that a quarter of it is a difficulty. `Inv` is a conjunction of

* `PcInv`: where each thread can be, that only pooled clients are sent jobs, and
  what a thread holds where it is;
* `OverlapInv`, `ActiveInv` and `NoFreedJob`: two threads in `sendJob()` for one
  client are recorded in `overlap`, the active job is one of the client's, and so
  the updater's `ClearJobs`, the only step that removes jobs, frees a job
  somebody refers to only then;
* `CoinbaseInv` and `JobsInv`: jobs of another block, or made between the two
  assignments of `updateWork()`, are only with clients that are `Stale`: those
  the updater's loop has yet to visit and clear;
* `MinerInv`: what the only thread that sends to a client has told it and will
  store, at each step, and what it leaves when it is done.

Each is shown to be kept by a step of `sendJob()`, of the updater and of a
receiver in a lemma of its own (`SendJobHolds`, `UpdaterHolds`, ...);
`StepBeside` covers the steps that have nothing to do with a client, `StepBegin`
those that enter `sendJob()`.

`CrawlerProofs` proves the three invariants of `Crawler`, `TypeOK`, `EachNodeOnce`
and `NoAddressLost`, for any nodes, address lists, finite set of workers and
bounds (`CrawlerAssumption`). `EventInv` ties a worker's step to its event: a node
from the moment it is taken from the queue, and one of the vector's from the
moment it is inserted. `SemInv` counts the workers that passed the semaphore, so
`TakeInv` finds the queue not empty; `OnceInv` is kept by `Insert` because the
node is not in the vector, where all nodes being connected to are.

`BusClientProofs` proves the four invariants of `BusClient`, `TypeOK`,
`ResubscribedUnlessOverlapped`, `WholeFramesUnlessOverlapped` and
`IntactUnlessTorn`, for any classes and bounds (`BusClientAssumption`). Its
invariant `Inv` adds three parts to the types:

* `ControlInv`: what each thread has in hand at each of its steps;
* `WireInv`: on a connection whose re-sending no call overlapped, the caller is
  idle while the receiver re-sends; what was written is whole frames followed by
  the part of the one frame that is begun, and the whole frames tell the relay the
  subscriptions the program has or, within a call, is about to have (`Known`);
* `StreamInv`: what the parser's buffer holds and what is on the way are whole
  frames whose numbers rise, and those delivered come before them.

The parser's count of frames and the relay's last update are chosen by a property
and not computed, so that they exist is proved from the well-foundedness of `<`
(`LeastNumber`, `GreatestNumber`). `CallerWire`, `ReceiverWire` and `PeerWire`
keep `WireInv` through the steps of the two threads and of the connection.

`FramesProofs` and `PartsProofs` prove of the parts, for every input, what the
run `parts` checks on bounded ones. The algorithms are recursive functions over
lists, so they begin with two facts that everything else uses: `Induction`, for a
set of numbers that contains 0 and with each number the next one, and `Recursion`,
that a function defined step by step exists; from these a recursive definition is
unfolded once (`SumIs`, `RootIs`, `Joined`, ...) and its properties follow by
induction. The assumptions are types and sizes of constants: `ThrowsAssumption`
(the value that stands for an exception is no number and nothing that was read),
`MaxMessageSizeAssumption`, `RegistrationsAssumption`, `CoinbaseAssumption`,
`DigitsAssumption` (a base, a window that fits into a hash, and `Diff1` a hash),
`TemplateAssumption` (the parameters of a program) and `MaxRequestsAssumption`.

* `FramesAreDecoded`: `FramesDecode` for any messages, registrations and limit,
  and any cutting of the stream. `StreamInv` says that what was handed on, what is
  in the buffer and what is on the wire are together the frames sent, in order;
  with `FrameReceived`, that the parser sees the length of the first of them as
  soon as its four bytes are there, no step can hand on anything else.
* `RebalancingNeverOverpays`, `JobsPayTheReward` and `RebalancingGains`:
  `NeverOverpays`, `JobsPayReward` and `PassesGain` for any outputs, rewards and
  precision, and any sequence of updates. A pass multiplies by a factor that is
  rounded down and divides with rounding down again, so the corrected sum is at
  most the reward, and who had at least as much still has. The invariant
  `ManagerInv` is the types, `SharesFit` (what a call leaves), `ListAsSet` (at
  every step the list is the commitment and the outputs set last, in proportion)
  and `CoinbaseKept` (between updates the list is the one the coinbase was built
  from). Of the end of `rebalance()` only this holds: a pass raises the sum, or
  what is left to pay is less than a coin for each output and one part in
  `Precision` (`NearlyPaid`), and then it is the same for ever. That it returns is
  false; see the findings.
* `AnswersAreOwn`: `OwnAnswer` for any threads and requests. `RpcInv` adds that
  requests and answers on a socket are of threads that wait for them
  (`RequestsAwaited`), and that a thread that nobody has overlapped is the only
  one at work and its socket is not freed (`AloneIsAlone`).
* `EncodingsReadBack` and `EncodingsAreParsed`: digits, numbers, pushes and a
  block's transactions are read as they were written.
* `HeadersAreOne` and `HeadersAreAgreed`: the header checked, hashed and read is
  one, from the facts on digits, byte orders and `Swap32`.
* `CoinbasesAreMadeOfParts` and `CoinbasesAreWellFormed`: the bytes around the
  nonces do not depend on them (`BuildIs`, `LaidOut`).
* `HelpTextsAreInLine` and `HelpTextsAlwaysLineUp`: the columns of the help screen.
* `SolutionsAreNeverRefused` and `SolutionsAreAccepted`: a hash below the target
  passes a job's test, whatever the base, the window and the difficulty suggested.
  The test compares quotients of the first digits after the leading zeros. A lower
  hash begins with at least as many zeros (`LowerBeginsLater`); after the same
  number of zeros the windows compare as the hashes do (`WindowsCompare`); after
  more of them a window is worth at most so many powers of the base more as it is
  shifted (`LowerIsWorthLess`); and the exponents of the two quotients add up
  (`WeightMoves`). `CappedDiff` is needed: without it the mutant is refused.
* `OptionsAlwaysMean` and `OptionsMeanTheirWords`: what an accepted command line
  does, for any parameters and arguments. `ReadWell` is the invariant of the loop
  of `process()`: `current` is the parameter of the one argument that is `Open`,
  that is, followed by none of any effect, and a parameter has the value of the
  greatest position at which it is `Settled`. `ArgumentReadWell` keeps it, one
  case per kind of argument; the end of the line settles the open one.

The pairs of theorems are the algorithm's fact, for every input, and the property
of `MCParts`, which follows for the run's inputs because these are as the fact
requires (`SubjectIs`, `HeaderInputs`, ...).

Proving corrected the model in several places. A `CASE` whose guards overlapped
(in `Frames` and `Options`) left the choice open where the code's `else` decides
it. `MCDiff1` had a digit that is none to the base of the run. A type of messages
registered by several implementations, and `Throws` as a possible reading, had to
be excluded or decided.

Only model-checked: the liveness properties (fairness and leads-to are beyond the
prover). `Texts` adds the literals of the run to `STRING` because the prover does
not know that a literal is a string.

## 5. Findings

* `relay_sigpipe`: `send()` logs "Closed by peer" and "Write error" as if a write
  to a lost connection returned. Nothing ignores SIGPIPE: the first write for a
  client that has closed succeeds and provokes a reset, a later one ends the relay.
* `bus_client_resubscribed`: re-sending the subscriptions after a reconnect races
  with a call of the program and may leave the relay with the old ones.
* `block_updates_back`: "Ignore: Node is lagging behind" holds for a lag of one
  block after a step of one block; otherwise the miners are sent back.
* `crawler_unreachable`: a node that cannot be reached may end the crawler by an
  exception in a worker, although the crawler counts "unavailable nodes".
* `rebalance_retries`: `rebalance()` logs that the sum is not the reward and is
  "retrying". Once the amounts are so close to the reward that the factor rounds
  to one (three equal outputs, and a reward not divisible by three), every further
  call is the same as the one before, and the update of the work never ends.

## 6. Not modelled, and the plan

Not modelled: name resolution, the set-up of sockets and plugins (pure I/O and
`dlopen()`), logging, vendored code, and `lib/stratum/Pool.cpp` and
`StratumConnectionManager.cpp`, which are not part of the build and include a
header that does not exist; until they are, `Stratum` models the library and not
a program. `Socket`'s `moveTo()` has no caller that a program can reach. The
handling of a receiver that cannot be created (`AsynchronousSocket.cpp:16`) cannot
be reached either: `Thread`'s constructor calls its own callback, which throws;
`Relay` has the exception.

Also left out: the offsets of an address list in the crawler, which go wrong from
253 addresses on (`Crawler` lets a node send any list), the hash rate that is
computed for the log, and what new outputs mean for a miner: an update of the
outputs alone sends it its old job again.

Possible extensions, in this order:

1. The composition of `Stratum` with `BlockUpdates` (the updates that come from
   the poller) and with the registry of `Relay`, once the pools are finished and
   connections are pooled.
2. The byte layout of the peer-to-peer messages.
