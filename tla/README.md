# QuantumRadar: a TLA+ verification development

QuantumRadar reads Uniswap and Aave events from an Ethereum node, keeps the
newest ones in a ring buffer, turns them into graphs and tensors, scores those
in a worker process, and sends alerts to subscribed webhooks. This directory
holds TLA+ models of its concurrent and stateful parts, the TLC configurations
that check them on small instances, and theorems that TLAPS checks for every
value of the constants. Paths and line numbers are those of `src/`.

Contents: 1 the system · 2 the modules · 3 the runs · 4 bounds · 5 fairness ·
6 theorems · 7 where code and documentation part · 8 what is not modelled ·
9 the plan.

## 1. The system

Three kinds of concurrency meet in it: coroutines of one event loop (ingestion,
the mock node, webhooks), threads of FastAPI's pool (the subscription API), and
processes joined by `multiprocessing.Queue` (the engine).

| Component | State it keeps | Operations | What makes it hard |
|---|---|---|---|
| Ring buffers, `core/ring_buffer.py` | a bounded deque, or a circular array with head and size; one `asyncio.Lock` | `write`, `read_all`, `read_latest`, `snapshot` | wrap-around; waiters cancelled after they were woken; a snapshot that must stay true while its caller works |
| Engine process, `engine/runner.py` | two multiprocessing queues, a child process, a drop counter | `start`, `submit`, `poll_results`, `stop`, the loop `_worker` | drop-oldest over a queue whose length is a semaphore and whose messages may still be in a feeder's buffer; stop messages; `terminate()` |
| Mock node, `tools/mock_wss/server.py`, `replay.py`, `health.py` | clients with subscriptions and bounded queues, the replay position, counters | connect, subscribe, unsubscribe, replay, drain, stop; rows to heads and logs | replies and notifications share one evicting queue; one deadline for all clients |
| Realtime and backtest pipeline, `ingestion/pipeline.py` | the time of the last head, two counters, the ring buffer, the stop event, three tasks | `run_realtime`, `run_backtest`, `_amain` with its signals and teardown | logs stamped by the last head read; a signal, a failure and an end racing each other |
| Client, head stream, back-off: `ingestion/client.py`, `streams.py`, `reconnect.py` | the web3 object, the subscription, the number of attempts | `connect`, `disconnect`, `stream_new_heads`, `auto_reconnect` | a generator abandoned at its yield; cancellation at every await; retries over a whole session |
| Watchdog and metrics, `ingestion/metrics.py` | time of the last message, gauge, two counters | `record_message`, `start_stall_watchdog` | one more task to cancel |
| Router, whitelist, decoders, `ingestion/router.py`, `whitelist.py`, `decoders/` | the whitelist | `route`, `route_validated`, `decode` | two's-complement words, order of words, partial failure |
| CSV loader and replay driver, `ingestion/csv_loader.py` | the position, the previous time, the count | `map_csv_row`, `iter_csv_events`, `stream_csv`, `ReplayDriver.run` | malformed rows, pacing by differences, cancellation |
| Subscription API, `emitter/api.py`, `registry.py` | rate windows by key, the set of URLs, its JSON file | subscribe, unsubscribe, list, load, save | endpoints are plain functions, so they run in threads; restarts during a save |
| Webhooks, `emitter/webhook.py`, `pipeline.py`, `payload.py` | the attempts of a delivery | `evaluate_and_emit`, `format_alert`, `emit` | retries, a time-out after the receiver took the alert, rounding at thresholds |
| Baseline detector, `engine/baseline.py` | none | `borrow_activity`, `fragility_score`, `utilization_ratio` | thresholds |
| Graph and tensors, `engine/graph/`, `engine/tensor/` | none: functions of a window of events | `build_graph`, dense and sparse adjacency, features, `normalize` | sums over two sides, parallel edges, constant columns |
| MPS engine, `engine/mps/` | none: floating-point linear algebra | contract, truncate | numerical |
| Fixture tools, `tools/extract_fixtures.py`, `verify_fixtures.py`, `reconcile_etherscan.py` | the file, the pages yet to fetch | extract, verify, reconcile | pages cut off at a cap, retries, crashes, two more decoders |
| Other tools, `tools/profile_quality.py`, `visualize.py`, `webhook_echo.py`, `scripts/validate_payload.py` | none | reports, pictures, an echo server | nothing |

How they interact:

- **run_realtime** asks the node for heads and logs over a socket of the
  **client**; web3's listener queues the notifications; it reads them one by
  one, routes and decodes each log and awaits a write of the **ring buffer**.
  The **mock node** stands in for the chain in tests and demonstrations; the
  **replay driver** feeds the same buffer from a CSV file; `_amain` runs either
  beside the **watchdog** until a signal.
- The files are written by the **extractor** from Etherscan, checked by the
  **verifier**, read by the replay driver and the mock node. The
  **reconciliation** compares an ingested buffer with the chain.
- The hot path turns what the buffer holds into a **graph** and **tensors**,
  scores it and, from YELLOW on, **emits** a payload to every subscriber's URL.
  The **engine process** takes the same work off the event loop: frames are
  **submitted**, results **polled**. The URLs are those of the **registry**
  that the **subscription API** maintains.

What makes each component correct, in short: a buffer is the deque it imitates
and a snapshot stays true; a graph depends on the events and not on their order,
its volumes balance and its two matrices agree; an alert passes its schema and
its outcomes are told truly; the engine bounds its queue, keeps frames in order,
loses none in silence and lives exactly from start to stop; the node's streams
are in order and complete up to counted evictions, and it always closes; the
pipeline writes exactly the events that what it read calls for, and ends when
told to; a backtest accounts for each row and leaves no task; a stream of heads
has no gap and no repetition, and its call leaves no socket; the API keeps its
limit and its file; all decoders and encoders agree, and an extraction is
complete. The hazards these properties aim at, each with its line, are listed in
`PROJECT.json`.

## 2. The modules

| Module | Models | State and actions |
|---|---|---|
| `DequeRingBuffer` | `DequeRingBuffer` (98-136) and `RingBufferProtocol` | Abstract specification of a buffer: `deque` is `_buf`, `DequeWrite` is `write`. `ReadAll`, `ReadLatest` and `Evict` are the pure functions, with Python's `list[-n:]` as `SliceFrom`. |
| `NumpyRingBuffer` | `NumpyRingBuffer` (142-196) | `buf`, `head`, `size`; `Write` is 166-171; `ImplementsDeque` is the refinement, `deque <- ReadAll`. |
| `AsyncRingBuffer` | `AsyncRingBuffer` (199-262) over a deque, with `asyncio.Lock` | `locked`, `waiters`, `woken`, `cancelling` are the lock; `call[t]` is where a task is. `CallAtOnce` and `CallAndWait` are a call with the lock free and not; `Resume`, `ResumeCancelled`, `Cancel`, `ExitSnapshot` the rest of it. |
| `EngineRunner` | `EngineProcess` and `_worker` | `submit` and `stop` are split at every queue call (`Submit`, `SubmitEvict`, `SubmitRetry`; `StopSignal`, `StopEvict`, `StopRetry`, `StopJoined`, `StopTerminate`); the worker at its lock, receive, release, detect and exit; `Feed`, `FeedOut` are the feeder threads. |
| `MockWss` | `MockWssServer` | One action per request with its reply, a replay burst up to the next positive delay, one send of a writer, each step of `_drain_and_close`. `subs[c]` is the dictionary `client.subs`, whose order is that of the ids; `InTurn` puts the notifications of a burst in the order of blocks, items and subscriptions that the nested loops send them in. |
| `RealtimePipeline` | `run_realtime` (54-110) | `phase` is the await it is in; the node is any node. |
| `MockIngestion` | `tests/integration/test_pipeline.py`'s arrangement | Composes `MockWss` (one client) and `RealtimePipeline` (the mock for its node), both by EXTENDS, over a connection with backpressure and web3's bounded listener: `asked` are the requests on their way, `taken` counts the frames the listener has read. Each action joins one of the node with one of the pipeline, or leaves one of them alone; on leaving the loop, or when it is not entered at all, the client asks for both subscriptions to be ended. |
| `SubscriptionApi` | `create_app`, `SubscriberRegistry` | `request[t].pc` is where a pool thread is in an endpoint: look up, count, change, sort, open (truncate), write; `Restart` reads the file back. |
| `GraphBuilder` | `build_graph`, `validate_graph_snapshot` | No state. One operator per dictionary of the loop (`Volume`, `Latest`, `TokenPools`, `PoolProtocol`), per kind of edge, and for the nodes; `BuildGraph` is the snapshot. |
| `Tensors` | `engine/tensor/` | No state. `AdjacencyTensor` is the dense matrix, `SparseAdjacencyTensor` the CSR one with its row pointers, `FeatureTensor`, `Fit` and `Apply` the normalisation. |
| `Alerts` | `evaluate_and_emit` with `fragility_score`, `format_alert`, `emit` | `phase` of the call; `post[u]`, `tries[u]` of each subscriber's task; `Take` is the receiver, so that an attempt may fail after the alert was taken. |
| `HotPath` | ring, graph, tensors and alerts together | Composes `NumpyRingBuffer`, `GraphBuilder`, `Tensors` and `Alerts`: an evaluation reads `ReadAll`, a copy, and the ring goes on while it is delivered. |
| `HeadStream` | `auto_reconnect`, `EthereumClient`, `stream_new_heads` | `call` is the await of the consumer's task; `closing` are the generators the finalizer hook has yet to close; `cut` marks a disconnect that was cancelled. A session ends by itself, by a lost connection (`SessionFails`), or by a failure on a live one (`SessionRaises`, `ReadMalformed`). |
| `Backtest` | `iter_csv_events`, `stream_csv`, `ReplayDriver`, `run_backtest`, `_amain`, the watchdog | `work`, `waiter`, `watchdog` are the three tasks and `main` is `_amain`. One action per row; a row is its time, or *malformed*, or *the replay fails here* (an unreadable file, a time that `fromisoformat` refuses). Nothing else runs while the replay runs between two awaits. |
| `Decoding` | both decoders and the router, the extractor's decoders, the mock's encoder | No state. Which word of which log each reads, as a table per protocol; `Signed` and `ToWord` are two's complement; `Half` is half of what a word holds. |
| `FixtureTools` | the extractor, the verifier, the replay's grouping, the reconciliation | `ranges` is the recursion of `etherscan_get_logs` as a list of ranges yet to ask for; `fetched`, `file` what was fetched and written; a crash leaves a line without its last column (`torn`) or with digits missing there (`cut`); `verdict`, `asked` are the verifier. The buffer that is reconciled is a list, whose entries count each. A list is ordered by rank (`Place`, `Turn`): a member's place counts those before it. |
| `SetLemmas` | | Lemmas on finite sets that mention no component: induction over the subsets of a set, sums, the greatest and the least member, places in an order. |
| `*Proofs` | | The theorems of section 6. |
| `MC*` | | Values of the constants for TLC. |

Operators whose comment begins with *Mutant* are plausible bugs of the
definition that follows; no specification uses them. Each shows that a property
can fail.

Conventions. An action is everything a task does between two points at which
another can run: for coroutines the awaits that really suspend (`Lock.acquire`
on a free lock, `queue.put` on a queue with room do not), for pool threads the
calls that return to the interpreter, for processes every queue operation.
Variables that exist only for properties (`lost`, `discarded`, `killed`,
`completed`, `consumed`, `view`, the head stream's `cut`, `received`, the API's `asked`, `accepted`,
`answer`, `overlapped`, `torn`) appear in no guard but those of bounds. Modelled
from their use and marked external: `asyncio.Lock`, `multiprocessing.Queue`,
`web3`, `websockets`, `eth_abi`, Etherscan.

Choices a reader might question:

- *`asyncio.Lock`* is CPython's: a free lock is taken at once unless a waiter
  that is not cancelled is queued; `_wake_up_first` wakes the head only; a
  waiter cancelled after it was woken passes the wake-up on.
- *`multiprocessing.Queue`*: `put_nowait` takes a slot and appends to a buffer;
  a feeder moves the buffer to the pipe; `get` holds the reader lock while it
  waits and gives the slot back last; `get_nowait` raises `Empty` when the
  reader lock is taken or the pipe is empty, whatever the semaphore says.
- *Slow clients*: `WriterSend` may suspend in `ws.send`; only `WriterResume`
  ends that, and nothing forces it. `ws.close()` is taken to return, as
  `websockets` sees to with a close time-out of its own.
- *The API's file*: opening truncates it, then the text is written at offset 0;
  a text shorter than what another thread wrote leaves that one's tail, and the
  result is not valid JSON.
- *Numbers*: an address is a number, so that sorting hex strings of one length
  is `<`; a weight is an integer numerator over a common denominator
  (`Decay[dt]` stands for `exp(-lambda dt)` and is any function with natural
  values; in the run it halves with every tick); a score is a fraction of hundredths of a point, so that `round(score, 2)` with its
  ties to even is exact; an ABI word holds `2 * Half` values: 8 in the run, any even
  number in the theorems. Where the code has floats the models are exact: they show that the
  arithmetic asked for is right, not its rounding errors.
- *Time* exists in `Backtest` only, where the pace is a property. Elsewhere a
  time-out is an action that may happen.

## 3. The runs

| Run | Instance | Shows |
|---|---|---|
| `hot_path` | 4 events, ring of 5, 6 writes, 2 subscribers, 1 retry; 111 000 states | Every window a wrapped ring can hold builds a graph that passes its validation, balances and does not depend on the order of the events; the matrices agree; the ring implements the deque, `read_latest` included; alerts end and are told truly. |
| `async_ring` | 3 tasks, capacity 2, 5 calls; 28 000 | Snapshots stay true, writes land once and in call order, none that returned is lost, no wake-up is lost, every queued call ends. |
| `engine` | queue 2, 4 frames (one bad), 2 lifetimes, output pipe 1; 123 000 | Slots add up, results in order and none twice, no silent loss, the worker lives exactly from start to stop, a clean stop drains, calls return, frames leave the queue. |
| `mock_wss` | 2 clients, 3 blocks, queue 2, 2 requests; 343 000 | Order of what a client gets, across its subscriptions, and completeness of the streams; a subscription's id is missing only if a full queue evicted it, and is counted; drain in time loses no event, a stop closes the server, the replay ends. |
| `pipeline` | 2 blocks, 4 logs, 4 messages, capacity 2; 339 000 | Buffer and counters are exactly what the messages read call for; no log ends the loop; a stop ends the coroutine at every await. |
| `mock_ingestion` | 4 blocks, queue 3, listener 1, connection 1; 124 000 | Stamps come from a head of the chain, events arrive in chain order, a run without evictions is complete and right, stops spread to the other side. |
| `api` | 2 threads, 1 key, 2 URLs, limit 1, 3 requests, 3 minutes, 1 restart; 1 670 000 | No request within its limit is refused, however threads interleave; of requests served one at a time: the limit holds, the file follows the registry, answered requests survive restarts outside the truncated file. |
| `head_stream` | 2 retries, 4 heads, 3 streams, 3 failures to connect or to stay connected; 99 000 | Streams yield each head once and in order while abandoned ones share their socket; a call ends released and within its retries; abandoned subscriptions go. |
| `backtest` | every fixture of up to 4 rows over 3 times, malformed and broken ones; 39 000 | Each row goes to the ring or the error log, in order, none early; the program ends with no task left, whatever races its signal. |
| `fixtures` | every chain of up to 8 logs in 3 blocks, pages of 2, gate 1 in 3; 179 000 | A finished extraction is the chain's, once and in order; the verdicts of verifier and reconciliation mean what they say; five ways between logs and events agree; every extraction ends. |
| `engine_drop_counter`, `api_save_race` | smaller | Counterexamples: section 7. |

Deadlock is not checked. Every model may really stop: a buffer nobody calls,
an engine nobody starts again, a server that is closed, a pipeline that has
ended, and the bounds on calls stop the rest. What must go on is stated by
liveness properties instead.

## 4. Bounds, and why they are enough

- **Buffers.** With three tasks one can hold the lock, one be the first waiter
  and one stand behind it, which is all that `_wake_up_first` and the removal of
  a waiter tell apart. A ring of five wraps after six writes; the theorems remove
  all these bounds.
- **Hot path.** The four events have a negative side, a token of two pools, a
  pair of one token, an event of one token, a step back in time and of blocks,
  and a lending pool beside two exchanges; windows have up to five of them, with
  repetition. The score's range of four makes NONE, YELLOW (75) and RED (100)
  reachable.
- **Head stream.** Two retries with a cap of 3 reach the cap and the give-up;
  three streams leave two abandoned ones beside the third.
- **Backtest.** Four rows hold a malformed one between two paced ones, and end
  with one; the buffer is shorter than the fixture; the reader's yield comes
  after every second event, so that a signal can meet it.
- **Fixtures.** A page cap of two makes blocks that split, halves that split
  again and one that cannot; words of eight values have a smallest integer of -4.
  One transaction has rows whose `log_index` has two digits, so that one cut short can
  be a new one or that of another row. The gate lets one entry in three be false,
  where the code's 99.5 % is one in 200: buffers and samples with one false entry, or the
  same one twice, then fall on both sides of it. In the theorem the gate is any number.
- **Engine.** A queue of two distinguishes *full in the pipe*, *full in the
  feeder's buffer* and *split*; four frames overflow it with the worker holding
  one; two lifetimes let a stop message or an unfinished message of the first
  meet the second; an output pipe of one blocks the flush.
- **Mock node.** Two clients share the deadline and the fan-out; a queue of two
  is overflowed by one block with two rows; the three blocks have a burst, a
  malformed header, a malformed row and a pause. Two requests are two
  subscriptions, or one and its end. One client with three requests was
  checked as well (396 000 states) and shows nothing else.
- **Pipeline.** A block is its own timestamp, so that a wrong stamp is visible;
  four messages over two blocks give every order of two heads and two logs.
- **Composition.** Four blocks with pauses, so that the client can fall behind
  by more than the queue; connection and listener hold one frame each, the
  least that can block.
- **API.** Two threads are enough for a lost update; the second request of a
  minute exceeds a limit of one; three minutes let a thread carry an old minute
  past a newer one.

## 5. Fairness

No safety property and no theorem needs any. `FairSpec` (`PipeFairSpec` in
`RealtimePipeline`, `RunFairSpec` in `MockIngestion`, `HotSpec` in `HotPath`,
`StreamSpec` in `HeadStream`, `ToolsSpec` in `FixtureTools`) adds:

- `AsyncRingBuffer`: weak fairness of every task's own steps. The event loop
  runs every ready callback; that a caller leaves its snapshot block is an
  assumption on callers, named there.
- `EngineRunner`: the feeder threads and the worker run, and a call of submit
  or stop that was begun goes on: they are separate threads and processes, and
  `stop` has a time-out. Nobody has to submit, poll, start or stop.
- `MockWss`: the replay task, the drain and a writer that has something to send
  run. `WriterResume` is not fair: a client may never read.
- `RealtimePipeline`: only the coroutine's own steps; every await in it has a
  time-out. Nothing is asked of the node.
- `MockIngestion`: the client's steps and the node's shutdown; the node need
  not answer, send or replay.
- `HotPath`: each request of a delivery ends, by its time-out if by nothing else
  (`aiohttp.ClientTimeout`), and `gather` returns. Nobody has to write or evaluate.
- `HeadStream`: the consumer's own steps and the finalizer tasks; nobody has to
  cancel, break off, drop the connection or produce heads.
- `Backtest`: the tasks that can run do and time passes; no signal has to come.
- `FixtureTools`: the extractor goes on (its requests have time-outs); nobody
  has to verify or run it again.

## 6. Theorems

All are proved from the assumptions named in the modules: a capacity or queue
size of at least one, bounds that are naturals, the shape of the events and of
the chain. Only `AlertsAreTrue` has a hypothesis beside them.

**`SetLemmas`.** The library's induction theorems take a predicate as a parameter,
which these provers cannot instantiate. The lemmas avoid that: a property of the
subsets of a finite set `T` is given as the *set* of the subsets that have it, and
`SubsetInduction` says that this set contains `T` when it has the empty set and is
closed under adding a member. It rests on the well-foundedness of `<` on the
naturals. `FoldExists` builds a recursion over the subsets the same way, so that the
community modules' sum is what one expects (`SumAdd`); a sum splits by a key
(`SumFibers`), and terms may be renamed (`SumRenamed`). `PlaceInOrder` and the lemmas
behind it show that places in a strict order are a numbering.

**`HotPathProofs`.** `NumpyTypeOK`: head and size agree and exactly the
slots behind the head hold events; it is inductive as it stands. On it rests
`NumpyImplementsDeque`, the refinement: lemmas describe what `ReadAll` returns
before the array is full (the prefix) and after (the rotation), that
`Write` turns the one into the next, and that `ReadLatest` slices both alike;
modular arithmetic is split at `head = Capacity - 1`. `HotPathImplementsDeque`
carries it over to the composition, where evaluations and deliveries leave the
ring alone. For the alert, `AlertsInv` says what holds while it is delivered: it
is the alert of some score, and each subscriber's attempts have failed as often as
its request tells. From it follows
`AlertsAreTrue`, under the hypothesis `WholeHundredths` that `High - Low` divides
10000. That is a fact of the program (32 - 16, `engine/baseline.py:61-62`) and
not a convenience: without it the theorem is false (section 7).

`SnapshotsAreSound` and `TensorsAreConsistent` are about what `build_graph` and the
tensor stage make of a window. Every window is a run of the chain's events, so the
lemmas speak of any non-empty window. The validation's facts need no sum: edges end
in nodes, weights are not negative. That the books balance and that the
order of the events is immaterial are facts about sums over positions of the window:
split by pool and side they are the edges' weights, and a permutation renames the
positions. The two matrices agree because the place of an edge in the compressed one
lies between its row's pointer and the next (`RowStart`, `PlaceOf`), and every
edge has one.

**`AsyncRingBufferProofs`.** The checked invariants are not inductive: they do
not say who may own the lock. `IInv` adds that at most one waiter is woken, it
is the first and the lock is free (`QueueOK`); that at most one task is inside
a snapshot (`OneSnapshot`); that the numbers of queued calls increase and those
that can still get in are later than every write that returned (`NumbersOK`);
and that the backend's length counts the completed writes (`CountOK`). A lemma
`BodyStep` treats the locked section once, for a call that finds the lock free
and for a waiter that is resumed. From `AsyncInvariant` follow `AsyncTypeOK`,
`AsyncSnapshotStable`, `AsyncWritesKept`, `AsyncNoLostWakeup` and `AsyncLockSound`,
for every set of tasks and every capacity.

**`EngineRunnerProofs`.** The worker's life depends on where a stop message can
be. `IInv` adds to the checked invariants what the worker holds (`HandOK`), the
bound of two drops per submit (`DropsOK`), and `StopLast`: as long as no worker
was killed there is a stop message only while its `stop()` joins, it is the
last message of the queue, and once the worker has it the queue is empty. Two
lemmas say what a put and a take do to it, one (`SlotsKept`) what they do to
the sum of the slots; then there is one lemma per action. From
`EngineInvariant` follow `EngineTypeOK`, `EngineSlotsAccounted`,
`EngineAliveUntilStopped` and the action property `EngineDrainedByCleanStop`.
`EngineFramesAccounted` needs one more invariant, `Line`: what is in flight, from
the answers back to the feeder's buffer, is one line of growing frame numbers
up to the last one submitted, and every number is in it or was lost, discarded or
bad. A step either moves the line's parts (feeders, poll), takes a message out of
it (detector, eviction, stop) or appends one, and there is a lemma for each.

For the head stream, `CallsEndClean` says nothing of a call that is under way.
`CallInv` ties the number of delays slept to the attempt in every phase (`RetryOK`),
so that the next delay is the next power, and adds that a call that is about to
connect holds nothing and that an interrupted disconnect is its last step
(`ReleaseOK`). `AfterKeeps` treats the decorator's decision once, for a failed
connect and for an ended session. From `HeadStreamInvariant` follows
`HeadStreamCallsEndClean`, for all retries, delays and caps.
`StreamYieldsHeadsOnce` rests on `StreamInv`: of the messages on the socket, those
of the stream being read are in order, continue where it stopped and lack no head
up to the node's last one. An abandoned stream's copies lie between them and
are told apart by their subscription.

**`IngestionProofs`.** For the mock node, `StreamsSound` speaks of what a client
has received, queue included, while heads of a queue are evicted at any point.
The invariant is on pairs of messages and not on the sequence: whatever two a
client gets are in line, also when they belong to different subscriptions, none
is ahead of the requests or of the replay (`Known`), a subscription that was
answered away gets nothing more, and until the first eviction nothing is missing
(`Complete`). A put is a *thinning*: what the client got afterwards maps, by an
increasing map of indices, into what it got before and the new messages. So an
eviction anywhere preserves every statement about pairs. The notifications of a
burst are in line because the places `InTurn` gives them are a bijection that
grows with block, item and subscription. `Drained` adds, for `DrainKeepsEvents`,
that a queue the drain has seen empty holds no event. `MockInvariant` has one
case per action; `StreamsInOrder`, `CompleteWithoutDrop` and `DrainKeepsEvents`
follow, for all chains, filters, queues and clients.

That a missing id was evicted and counted (`Announced`) is not a statement about pairs and
has an invariant of its own, `AnnouncedTo`, inductive beside `IInv`. `EnqueueEvicts` says
which messages a put takes out: the first `over` of the queue and the new ones, which are
counted and leave the queue full. So the ids that a client misses grow by at most those
of the messages evicted (`PutAnnounces`): an answer brings its own id, a burst is for
subscriptions that the client has.

For `run_realtime`, what the messages read call for is stated by
rank: the log at a position of `consumed` is due at the place that counts the routable
logs up to it, with the time of the last head before it (`IngestedExactly`). With the
stamp's own invariant (`Stamped`) this is inductive; `IngestionExact` follows,
and the action property `LogsKeepIngestion`.

**`MockIngestionProofs`.** The composition. Every step of it is, at the node, a step
of `MockWss` or none, and at the client a step of `RealtimePipeline` or none
(`NodePart`, `PipePart`): that is `PartsRefine`, and it carries the invariants of
both over to the two together. It is not free: that the answer the node gives is one
it may give, and that a frame is one of the pipeline's messages, need to be known. So
`RunInv` adds where the two are in their conversation (`SubsInv`, `AskInv`: at most
four requests, in one order, and which of them are on their way, answered or read),
and which kind of frame belongs to which subscription (`FrameInv`). The link between
the two is `Linked`: there is an increasing map from what the loop has read and has
yet to read to the notifications among the frames taken. `HeadSent` and
`HeadRead` say that without an eviction the head of a log's block goes before it,
until the heads are unsubscribed, on the wire and in the loop.

`EventsComeFromChain` follows the events of the ring back: to the messages they were due
at (`IngestedExactly`), to frames in the same order (`Linked`), whose order is that of the
chain (`StreamOrder`, across the subscriptions). `WholeReplayIngested` is a
count. When nothing is on its way, `consumed` is all the node ever sent, and without an
eviction that is exactly what was due (`NoGapWithoutDrop`); so the positions of the
loop's heads, and those of its routable logs, are in one-to-one correspondence with
the replay's items (`AllHeadsCounted`, `AllLogsIngested`). The assumptions are those of
the parts and `CompositionAssumption`, `WireAssumption`: one client, whose
filter is the whitelist, and a connection and a listener that hold at least one frame.

**`SubscriptionApiProofs`.** Threads interleave at every call, so `RateInv` says who may
count where: a window is reached by one key only, and counts no more
than the key's requests without those that are still to be counted. From it
`NeverFalselyRejected` follows for all interleavings. `SerialInv` holds as long as
no two requests overlapped: one thread is busy, the key's window counts at least
what was let through in its minute, the file is the registry, or empty while it
is about to be written, and answers hold of both. `LimitEnforced`,
`RegistrySaved` and `AnswersStand` follow.

**`FixtureProofs`.** What a fixture file goes through. `ToolsInv` says what an extraction
has in hand at any moment. The ranges still to ask for tile the blocks from a cursor to
the end of the period (`Tiled`), which splitting one and finishing one keep; and what
was fetched lists, each row once, exactly the rows due before the cursor and in the
queries before (`Listing`, `Soon`). Sorting such a listing gives the period's
rows in chain order whatever their order was (`SortedListing`); the file is
always a prefix of that (`OnFile`), since a second run begins by truncating it.
`ExtractionIsComplete` follows. So does the verifier's half of `VerdictsAreTrue`: what is
in chain order without a repetition has nothing to be refused for but its size,
and a row's transaction has the row's block on the chain. A line cut in its `log_index`
is the next row but for that number (`CutLine`), so it keeps the order of the blocks
and can repeat a key only by its number; what is accepted is then as `VerifierFair` says,
and no more is true of the code. The reconciliation's half is
a count over the buffer: an event matches what was fetched of its block exactly when
it matches an event of the chain, because a transaction is in one block.

`SourcesAreOne` has two parts. Decoding and encoding agree event type by event type, with
two's complement on words of any size (`WordFacts`), whatever amounts the
chain's words hold: the round trips are stated about one row (`UniRoundTrip`,
`AaveRoundTrip`). The replay of an ascending list sorts it into itself; its runs are one per
block (`RunFacts`); and the pauses add up by induction along the numbers of the heads
(`PausesAdd`).

The assumptions are those of the module, as the chain and the configuration grant them: a
log has its place in its block, a transaction one block, later blocks no earlier time
(`ChainAssumption`); the data of a log are its ABI's words (`LogAssumption`); and the
whitelist holds the pools the extractor reads, under the tokens and the protocol that
the extractor has as constants (`WhitelistAssumption`, `ingestion/whitelist.yaml`). The last one
matters: with other tokens there an extracted swap would not be the routed one.

For the backtest, `RowsAccounted` is stated by rank as well, and is inductive with
the types. `NeverEarly` is not: it speaks of events written, and a sleep's end depends
on the time of the event before. `Paced` adds that the clock has run at least as
far from the first event as the timestamps, and that the end of a sleep is that
of the next event. `EveryRowAccounted` and `NoEventEarly` follow for every fixture,
malformed and broken rows and steps back in time included.

TLC checked each of these inductive invariants as an invariant of its run's instance
before it was proved.

Only model-checked: the liveness properties `StopsPropagate`, `StopEnds`, `StopCloses`
and their like. Fairness and ENABLED are outside the prover's reach. Every
invariant and every action property of a passing run is proved.

## 7. Where the code and its documentation part

Two have a run whose counterexample TLC prints.

1. `engine_drop_counter`: `engine_frames_dropped_total` is incremented after
   `get_nowait` whether or not it removed a frame, and again when the second
   put fails (`engine/runner.py:93, 99`).
2. `api_save_race`: the registry's docstring says no locking is needed; two
   saves in threads can leave a file that is not the registry, or not JSON.

The others are visible in the models, and the properties say exactly where they
stop:

- `submit` promises to keep the freshest data (`runner.py:80-81`), but when the
  queue is full of frames still in the feeder's buffer, the new frame is the one
  dropped (`SubmitRetry`).
- After `stop()` had to terminate a worker, a stale stop message ends the next
  worker at once, a slot may be lost, and if it died holding the reader lock
  the next worker waits for ever. `AliveUntilStopped`, `SlotsAccounted` and
  `QueueDrains` therefore speak of engines whose earlier lifetimes ended
  cleanly (`killed` is FALSE).
- Of the mock's reply to a subscription a comment says that it is "never the message
  evicted under backpressure" (`server.py:237-239`). It is always placed, but a burst that
  overflows the queue while it waits evicts it like any message, and the stream then has
  no id. `StreamsSound` says what is left: the eviction is in the client's own
  count and took a full queue. An eviction caused by a reply is not in `dropped_total`
  (83-85, 240).
- An implementation note (`1E-1-pipeline-orchestrator.md:73`) holds that the head
  is always there before its logs; the mock's queue can evict the head alone,
  and the logs are stamped with an earlier block's time. `EventsFromChain` allows
  that, `IngestsWholeReplay` excludes it for runs without evictions.
- `research/failure_modes.md:11` promises a reconnect with back-off;
  `run_realtime` does not use `auto_reconnect`, and a lost connection ends it.
  Line 16 there describes a de-duplication that is not in the code: a log the
  node repeats is written twice. `IngestionSound` is about messages read,
  repeated or not.
- Two overlapping requests of a key can each store a rate window, and the limit
  is exceeded (`emitter/api.py:47`); a restart between truncation and write
  loses the list (`registry.py:44`). `RateEnforced`, `RegistrySound` and
  `AnswersHold` say exactly when they hold.
- `EVENTS_INGESTED` counts "events written to the ring buffer" (`metrics.py:36`),
  but a backtest adds its events once, at its end (`pipeline.py:49`): an
  interrupted or failed one has written events and counted none.
- A cancellation that falls into `disconnect()` passes its `except Exception`
  (`client.py:40`), and `w3` keeps a provider that a later `connect()` would
  hand out again. `CallsEndClean` excludes that one call (`cut`).
- `alert_level` is taken twice, of the score and of the rounded score. With
  `B0_SCORE_LOW` and `B0_SCORE_HIGH` 16 apart every score of a whole borrow count
  has its hundredths whole, and the two agree; with a range such as 2003 they
  need not, and `AlertsSettled` would fail: hence the hypothesis of `AlertsAreTrue`.
- A row of an Aave V2 period comes back from the mock and the router as
  `aave_v3`, where `test_mock_router_roundtrip.py:3-4` speaks of the original
  values; `SourcesAgree` maps the protocol.
- The verifier has nothing to compare the number of rows with: a prefix of whole
  lines, left by a crash, passes once it has enough rows and kinds. So does one whose last
  line was cut inside the digits of `log_index`, which is the last column: `14` of `147`
  is a number, satisfies the schema, and is refused only if another row of the
  transaction has it (`verify_fixtures.py:78-136`). The
  reconciliation looks up what is in the buffer, so an event that was missed, or
  that carries another block's time, is no mismatch; and its gate of 99.5 % lets one
  event in 200 be false (`reconcile_etherscan.py:26, 131`).

## 8. What is not modelled, and why

- `engine/mps/`, the SVD and contractions: floating point.
- Logging, Prometheus exposition, argument parsing, the health endpoint (one
  read), the HTML of the visualiser: no state anything else reads.
- `tools/profile_quality.py`, `visualize.py`, `webhook_echo.py`,
  `scripts/validate_payload.py`: sequential reports and hand tools.
- `normalize(..., "zscore")`, which takes a square root; `utilization_ratio`,
  which nothing on the hot path calls; the wall-clock text of the watchdog's
  warning.
- `_bmad/`: vendored workflow scripts, no part of the program.
- A caller that writes to the buffer inside its own snapshot block waits for
  itself (`asyncio.Lock` is not reentrant). Nothing in the repository does so.
- A second `start()` without `stop()`, which would leave two workers on one
  queue. No caller does so.

## 9. The plan

Done: buffers, engine, mock node, pipeline, their composition, API; the client
and head stream; the backtest; the hot path from ring to webhook; decoding and
the fixture tools; the refinement of the deque, and of both its parts by the
composition `MockIngestion`; proofs of every safety property of every component
and of the composition.

What could come next:

1. `RealtimePipeline`: that its counters and ring are those of an abstract ingestion
   which takes one message at a time, as a refinement.
2. A reconnecting `run_realtime`, should the code get one: `HeadStream` has the
   retries, and `IngestionSound` would then have to speak of heads and logs
   that come twice.
