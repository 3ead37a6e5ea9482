# Verification of streamsight-agent

TLA+ models of the agent's own logic, TLC configurations that check them on
small instances, and TLAPS proofs of nearly all of their safety properties for
every instance.
`PROJECT.json` is the index: which definition models which lines, which run
checks what, which mutated definition each property catches, which hazards of
the code each property is for.

To reproduce: `tlc -config X.cfg M` for a run, `tlapm M.tla` for each of the
eight modules `*Proofs.tla`.

## 1. The system

The agent samples a Kafka cluster on a ticker and ships one *batch* per cycle
to stdout, a file or an HTTP ingest. A batch holds seventeen *sections*; each
carries data, a status (`ok`, `partial`, `failed`, `unauthorized`, `skipped`)
and counted errors.

| Component | State it keeps | Operations | What makes it correct |
|---|---|---|---|
| **Agent loop** `internal/agent` | `batchSeq`, the run context, exporter counters stamped into the batch | `Run`, `runCycle`, `stamp`, `Close`; restart | a cycle cut short by SIGTERM is not shipped; counters add up; a key names one batch; shutdown completes |
| **Collector phases** `internal/collector` | five channels and a WaitGroup per cycle; sections | `Collect`: twelve goroutines | no negative lag or backlog; every section ships; a status promises no more than the section carries; `Collect` returns |
| **Section errors** `errors.go`, `limits.go` | per section: status, entries, buckets per key, drop counts | `record`, `request`, `requestPartial`, `mergeErrors`, `finish` | counts exact under sampling, folding and two caps; rare causes survive; truncation is admitted |
| **Leader-epoch probes** `truncation.go` | the remembered (answered) questions, over cycles | triggers, cap, filter, rounds, answers | a question is retired only by an answer, is eventually answered, and is not asked for ever |
| **HTTP exporter** `export/http.go` | bounded queue, counters, closed flag, done channel, cancel | `Export`, worker, retries, `Close` | each batch settled and counted once; oldest lost first; worker occupancy and shutdown bounded |
| **File exporter** `export/file.go` | open file, buffered writer, size, `needsReopen`; the files on disk | `Export`, `rotate`, `reopen`, `open`, `Close` | data lost from the old end only, in order, bounded; a failure is survived |
| **Mock ingest** `internal/mockingest` | per instance: bodies, last seen and acknowledged `batch_seq`, last drop counter | `checkState`, `markAcked`, checks of one batch | it states what a receiver may rely on |
| **RPC hooks** `kafka/hooks.go` | a mutex, the open window's map, when it was opened | four hooks, `snapshot` | every observation is in exactly one window, whole; detached windows do not change; the snapshot gets its lock |
| **Startup**: `config`, `kafka/client.go`, `kafka/capabilities.go`, `agent.New`, `cmd/agent` | the parser's problems, the client, the cached fingerprint, the options | `Load`, `NewClient`, `Ping`, `Probe`, gates, constructors, `Close` | what `Load` accepts nothing later refuses; phases are off only for cause and on only where every broker serves them; startup ends and leaks nothing |
| stdout exporter, filters, wire types | none, or counters only | | |

**Interactions.** The agent calls `Collect` under a context with a timeout and
then `Export` under one detached from the signal. Collector goroutines wait for
one another over channels and share a `ListGroups` result. Each goroutine fills
its own sections; only after `wg.Wait` are errors merged and the RPC window
drained. The HTTP exporter's worker shares a channel, atomic counters and a lock
with `Export` and `Close`. The counters flow back into the next batch.

**What is hard here.** Three non-blocking selects of `Export` against a worker
that receives in between; `Close` against both; a grace period that has to cover
any number of queued batches; acknowledgements that are lost; samples taken at
different instants while the log moves, with a timeout that may end a wait early;
replies that carry data *and* an error; a sequence of system calls any of which
fails or is the last before a kill; counters that several caps change;
remembered state that is evicted and questions that are never reached; hooks
that fire on foreign goroutines while the window they write is swapped; brokers
that are upgraded, refuse or stay silent while one deadline runs for the ping and
both probes; several wrong settings at once, judged by two packages.

## 2. Modules

| Module | Models | Notes |
|---|---|---|
| `BatchLedger` | the promise of an asynchronous exporter | abstract specification with liveness |
| `HttpExporter` | `export/http.go` | refines `BatchLedger` (`LedgerSpec`) |
| `HttpExporterProofs` | | TLAPS theorems |
| `FileExporter` | `export/file.go` | one step per system call |
| `FileExporterProofs` | | TLAPS theorems |
| `AgentLoop` | `agent.go`, the receiver of `mockingest/check.go` | composes the loop, a coarse exporter and the receiver's bookkeeping |
| `AgentLoopProofs` | | TLAPS theorems |
| `Sections` | status order, `request`, `requestPartial`, `record`'s downgrade | operators shared by the next two |
| `CollectPhases` | `collector.go`, `metadata.go`, `offsets.go`, `groups.go`, `throughput.go`, `configs.go`, ... | goroutines, channels, samples, statuses |
| `CollectPhasesProofs` | | TLAPS theorems |
| `ErrorBudget` | `errors.go`, `limits.go` | record and merge |
| `ErrorBudgetProofs` | | TLAPS theorems |
| `EpochProbes` | `truncation.go` | several cycles against a moving cluster |
| `EpochProbesProofs` | | TLAPS theorems |
| `WindowLedger` | the promise of the RPC statistics | abstract specification: every observation in one window, every window shipped as the tally of what landed in it |
| `RpcHooks` | `kafka/hooks.go`, `rpc.go`, the histogram of `types.go` | refines `WindowLedger` (`ImplementsLedger`) |
| `RpcHooksProofs` | | TLAPS theorems |
| `Config` | `config.Load` | operators: problems and settings of an environment |
| `Capabilities` | the fold, the gates, the wire features | operators |
| `Startup` | `cmd/agent`, `agent.New`, `NewClient`, `Probe`, the constructors, `Close` | composes the two |
| `StartupProofs` | | TLAPS theorems |
| `MC*` | | one per specification; bounds are in the `.cfg` files |

### HttpExporter

State: `queue` is the channel; `exportPc` is where `Export` is between its
three selects; `closePc` records how far `Close` has got (flag set under the
lock, `done` closed, context cancelled, returned); `workerPc`, `cur`, `attempt`,
`spent`, `timer` are the worker inside `sendWithRetry`, `send` and `wait`;
`sent` and `received` are the wire; `outcome` records how each batch ended.
`ExportEnqueue`, `ExportEvict`, `ExportAdmit` are the three selects;
`WorkerTake`, `WorkerSeesDone`, `WorkerExit` the two loops of `worker`;
`SendOk`, `SendRejected`, `SendFailed` the three ways an attempt returns;
`WaitOver` and `WaitAborted` the two ways a backoff ends.

The read lock of `Export` is the guard `exportPc = "idle"` of `CloseBegin`. Time
is in ticks and passes only while the worker is blocked; a timer that is due
fires before the next tick, and goroutines take no time of their own, so the
two timing properties bound the waiting the code asks for and not scheduling
delay. Bodies, headers and gzip are abstracted to the batch number.

`BackoffCeiling` computes `baseDelay << (attempt - 1)` in `DurationBits` bits
(two's complement), so the shift wraps to a negative value in the run's instance,
as it does in the code after some tens of retries; that it becomes zero after more
is left to the theorem, which has every width and number of retries. The counter
of retries is only reported and is left out. `SendOk` takes a status below 400 to
mean that the ingest has the batch; a redirect that `net/http` follows with a GET
would count as one too.

### FileExporter

`maxBackups` is configured once; `disk[0]` is the live file and `disk[i]` is
`path.i`, each a sequence of lines
with a byte count. `pc` walks through `Export` and `rotate` one system call at a
time. `Faults` says which calls may fail and `MaxFaults` how often, `failed`
which kinds have;
`ProcessEnds` may strike at any step and may leave part of a line behind. `wErr`
is bufio's sticky error, `file = "stale"` a file whose close failed.

### AgentLoop

`pc` is the collection goroutine, `Tick` and `RunReturns` the two cases of
`Run`'s select, of which either is taken when both are ready. The exporter is
coarse here (one step for `Export`, retries as a counter), because its detail is
in `HttpExporter`. `ingest` and `verdicts` are what `checkState` and `markAcked`
remember and complain about, including the early return on a counter regression,
and what `checkAgent` says of the counters stamped into the batch.

`wire` holds the batches in requests that the agent has given up: an attempt
timed out, or the process was closed or killed in the middle of one (`Abandon`).
`ArrivesLate` lets the ingest take such a request in at any later time, after
newer batches were acknowledged, in any order and more than once. The mock ingest
then reports `idempotency.seq_regression` (`check.go:903-909`), and rightly so:
the network reordered the batches. `SequenceAdvances` therefore asks for this
verdict of the batch the agent is sending only; the drop counter and the counters
stamped into a batch must pass their checks for late arrivals too.

### CollectPhases and Sections

`Waits` is the channel graph; a goroutine is `Ready` when every channel it
receives from is closed. The cluster is one partition with one transactional
consumer, whose offsets move between any two steps until the last sample. Each
of `Calls` is one call of `Collect`: the number of its cycle, the phases that are
switched on, how requests may be answered and how far the log may move. An answer
is complete, lacks our partition, has failed shards (ours among them or not),
has every shard failed or denied, is a bare error, or is a bare authorization
error *after* some entities were decoded (`deniedLate`; the comment of
`requestPartial` describes it). Under an expired context a request fails. `data`
is the sampled offset where a property compares offsets, and otherwise whether the
section ships any row.

The epoch probes are one request per round: `CollectEpochProbes` decides whether
there is something to ask and how many rounds it takes, and each `AskRound` goes
through `requestPartial` by itself, so that a round without data may set the
status after an earlier one was answered. `SampleStatuses` says what a sample of
one of the later offsets does to its section: a partition missing from the reply
is an entity error, except that the max timestamps record nothing of a partition
that is missing from a topic the reply does list.
Phases that are switched off only wait and report `skipped`; they take their step
together (`SkipOff`), since nobody but the WaitGroup waits for them.
`early` remembers the ceilings that were sampled before the committed offsets,
and `overrun` whether the consumer ever was behind the start of the log;
`Objections` are the checks of the mock ingest's `checkSections` and `checkData`
that compare one section with another, and `IngestAccepts` says that no batch
the collector builds meets one.

### ErrorBudget

`Record` is `section.record` in the code's order: status, then fold, sample or
refuse. `MergeErrors` admits by priority, section and index. Errors are
their deduplication keys. `happened` and `records` count the failures
themselves, which the code does not: the properties compare what ships with
them. `CountsAddUp` says of the entries of a key that one, the exemplar, counts
what the others, which count one each, leave over. `Objections` are the ingest's
reconciliation of `error_count`, statuses and entries.

### EpochProbes

`CollectTopics`, `CollectTriggers`, `AskRound` (one request each) and
`BuildProbes` are the steps of a cycle; elections, topic recreations and commits
happen between any two. `Clusters` are the clusters an agent may be started on,
with the epochs under which their groups have committed; `Consumes` says which
group still consumes which partition and commits again. The loops (`Mismatches`,
`Fresh`, `EpochRounds` with its
first-fit `Place`, and the loop of `BuildProbes`) are recursive functions of the
number of turns taken, a form the prover can reason about.

### RpcHooks

The maps are on a heap: `accum[w]` is the map made for window `w`, and a hook
that has looked its row up keeps `w` in `held`, as the code keeps a pointer. A
hook is one step for the lock, one for the lookup, one for every field it
updates (`Body`) and one for the unlock; the snapshot is one step each for the
lock, the swap, the unlock, every row it converts and the return. What a call
observes is a constant (`Saw`); when its hook fires is open, also after the
phase that sent the request has given it up (`Abandon`). That the hook of a
request fires before kgo hands the response over is an assumption on the library
(the guard of `PhasesDone`), and `OwnTrafficCovered` rests on it. Bytes written and read
are one count, names of APIs are numbers, and the sorting of rows is left out,
since rows are functions here.

### Config, Capabilities, Startup

An environment gives each numeric setting as a number, `Unset` or `Junk`, each
switch likewise, and names the other settings by what `Load` tells apart (an
endpoint is empty, without a host, or a URL; a pattern is its length, its
slashes and whether it compiles). `Complaints` is what the parser has
accumulated; `Load` the configuration it returns. A broker's release determines
the API keys it advertises, and a newer release takes none back
(`ReleasesGrow`). `Startup` walks through `run` of `cmd/agent`: each constructor
keeps its own checks, so that a setting `Load` should have refused would be
refused there. `Upgrade` may happen at any time while the client is open;
`answer` is what each broker said to the one `ApiVersions` round. `Brokers` is
fixed. kadm asks the brokers it finds in the metadata: one that is down at the
probe is left out of the fold, and if it comes back on an older release,
`GatesSound` and `FilterHonoured` do not cover it.

## 3. Runs

### Runs that pass

| Run | Distinct states | Shows |
|---|---|---|
| `http_exporter` | 292 k | accounting, order, eviction, worker occupancy, bounded shutdown, nothing stranded; jitter can be drawn although the shift overflows; `HttpExporter` implements `BatchLedger` including its liveness |
| `file_rotation` | 2.5 M | no backups or two, any call failing twice and a kill anywhere: order, loss from the old end only, sizes, one generation per interrupted rotation, and no more damaged batches than restarts |
| `epoch_probes` | 111 k | retirement only by an answer; packing as tight as the protocol allows; every question is eventually answered and the phase falls silent |
| `phases` | 579 k | every goroutine, optional phase and kind of reply, and a log that moves: lag, backlog and window counts are never negative, a status says what its section carries, the ingest accepts the batch, all sections ship, no goroutine is left, and `Collect` returns |
| `error_budget` | 82 k | counts, statuses, caps and truncation report, reconciled as the ingest does |
| `agent_loop` | 248 k | two boots with signals, kills, lost acknowledgements and requests that arrive after the agent gave them up; the receiver finds neither counter nor sequence wrong; a signalled agent shuts down |
| `rpc_window` | 284 k | six calls on two brokers against two cycles: `RpcHooks` implements `WindowLedger`; detached windows are frozen; own traffic in the own window; windows tile the time; the snapshot completes |
| `startup` | 313 k | several hundred environments against two brokers of three releases: see below |

Each property of these runs is violated by at least one mutant of the code it
is about; the mutants stand in the modules above the definition they change.

Some properties carry a condition, in the formula or in the bounds, because the
code does not keep them without it:

* `OldestGoesFirst` and `FilesBounded` exclude a `stat` that
  failed (`SizesSeen`). `rotate` takes any error of `os.Stat` for a missing
  file, skips that backup, and the next rename overwrites it.
* `ShiftNotReplayed` excludes a failed rename: `needsReopen` is set only around
  the open that follows the shift, so after a failed rename the next `Export`
  replays the rotation and removes a second generation.
* `EventuallyAnswered` holds in this instance because no more questions can be
  open at once than the cap admits. The cap is applied before answered questions
  are filtered out, so with more mismatches than the cap the ones behind it are
  never reached.
* The half of `StatusHonest` that a failed section carries no data leaves out the
  sections built from the group listing, those that describe and the epoch
  probes; `NoSectionFailsWithData` says it of all sections and is refuted below.
  The half that an `ok` section has the partition leaves out the max timestamps:
  a partition missing from a listed topic is recorded nowhere (`metadata.go:443`).
* `SequenceAdvances` does not hold a request against the agent that arrives after
  the agent has given it up and sent newer batches.
* `DamageBounded` is about exported batches: besides the batch being written, a
  kill may cost the first batch of the next boot, which `open` appends to the torn
  line and which the agent counts as exported.
* `GatesSound` is about a known fingerprint. When the probe failed, every phase
  runs as configured, as `agent.New` says.

The `startup` properties in a sentence each: no constructor after `Load` refuses
a setting or replaces it (`ConfigFaultsCaughtByLoad`), except that kgo refuses a
`KAFKA_BROKERS` entry it cannot parse, of which `Load` only asks that the list is
not empty, that an output file may not open, and that a size of zero is replaced;
what is on, and what the
wire claims, every broker serves, also after upgrades (`GatesSound`); what is off
is off because a broker said so (`DisabledForCause`); `GROUP_STATES` is honoured
or refused (`FilterHonoured`); silent brokers do not hold startup up, and a
failed start leaks no client (`StartsOrFails`).

The receiver's drop verdict (the counter stamped into a batch against the gap
seen) has no property. `stamp` reads the counters before `Export` evicts, so an
eviction is reported one batch after the gap it leaves; the receiver only warns.

### Runs that refute a statement of the repository

Each of these checks one property that a comment, a document or a test states.
They are descriptions of disagreements, with the quotation in `PROJECT.json`.

| Run | What TLC shows |
|---|---|
| `file_wedged` | after one failed write bufio keeps its error; batches are dropped although the volume works again |
| `phases_honest` | one broker failing `ListGroups` marks sections failed that ship data; the overlay of `ConsumerGroupDescribe`, the describe phases and a failing round of the epoch probes do the same |
| `phases_overrun` | nothing orders the sample of the committed offsets after that of the start offsets: the consumer commits, retention follows it, and the batch shows an overrun that never was |
| `agent_stable_id` | with a stable `AGENT_INSTANCE_ID` a restart reuses idempotency keys for other batches |

Disagreements met while modelling that need no run of their own, because a
passing property already carries the exception:

* "A SIGKILL loses at most the batch being written" (`file.go:85`): the next
  boot's first batch is appended to the torn line and is unreadable too
  (`file.go:203`). `DamageBounded` counts it.
* `RPCStats.WindowMs` is described as running "from the previous reset to this
  batch's CollectedAt" (`types.go:258`); it ends when `RPCSnapshot` reads the
  clock, after the phases, and before the lock is taken, so an observation may
  land in a window whose end has been read already.
* `retryTimeout` promises retries "at most half the collection window"
  (`client.go:130`); below a window of 4s its floor of 2s is more than that. The
  floor of `metadataMinAge` likewise reaches the interval at 10ms and below.
* `Load` collects its problems for "one restart, not five"; a misspelt
  `EXPORT_MODE` corrected to `http` may still cost a second one, because the
  endpoint and the key are asked for in http mode only.
* The fingerprint stays what it was at startup, so phases switched off for an
  old broker stay off after its upgrade until the agent restarts.

### Bounds, and why they are enough

* `MCHttpExporter`: `MaxBatches = QueueSize + 2` lets one batch be in the
  worker's hands, the queue of two be full and one more overflow it, so that
  evicting the wrong end of the queue shows. Budget 2, request timeout 1 and waits
  of 1 or 2 let a batch run out of attempts, of budget before a wait, and of budget
  inside a request. The theorems remove the bounds.
* `MCFileExporter`: two backups make a shift of two renames with a hole between
  them, none takes the path of `MaxBackups = 0`; lines of 2 and 5 bytes against a
  threshold of 4 share a file, fill it or exceed it alone; five batches overflow
  every generation; two faults let a failure meet the repair of an earlier one.
* `MCCollectPhases`: one partition and one group, since no phase compares
  two. The run is the union of six calls: the offset chain in a log that moves;
  the chain and the groups with all nine replies; the optional offsets after the
  chain, and the reassignments with the epoch probes, with replies that carry the
  partition, lack it, fail with data and fail without; the describing phases on a
  cycle of their cadence and off it. No phase reads what one of another call's
  optional phases leaves, and the theorems have every combination.
* `MCErrorBudget`: cap 2, two samples, three keys, four failures, which reaches
  every refusal, fold and ceiling in both sections.
* `MCEpochProbes`: three groups behind by different amounts give a partition up to
  three epochs while two rounds are allowed, so that a question meets a round it
  fits, one it does not, and the limit; a memory of five is filled and forgotten.
  No more than five questions are open at once, so the cap of a cycle never cuts
  here: see `EventuallyAnswered` above. `RetiredByAnswerOnly` and `PackingIsTight`
  have every cap.
* `MCRpcHooks`: two calls that succeed and fail on one API of one broker, a dial
  that fails and one that succeeds, a throttle and a disconnect: every hook body,
  with two calls meeting in one row; durations on a bucket's bound and beyond the
  last; three ticks to a cycle at two ticks to the millisecond, so that truncation
  shows; two cycles, so that a late hook finds another window.
* `MCStartup`: each setting wrong or at its boundary by itself in file and in http
  mode, and every second change on top of a state filter or of all switches; two
  brokers of three releases chosen so that each gate differs between neighbours.
* `MCAgentLoop`: two boots, so that identities can collide; queue 1 and three
  batches in the first, so that one is evicted; two batches on the wire, so that
  late requests overtake each other and newer batches.

`CHECK_DEADLOCK FALSE` is given where the system stops: the exporter has been
closed, the batch has been built, the boots or cycles are used up, the agent has
stopped or refused to start. `epoch_probes`
checks deadlock, because the ticker never stops.

### Fairness

* `HttpExporter`: weak fairness of the worker, of an `Export` or `Close` that
  has begun, and of time: goroutines that can run are scheduled. Nothing is assumed of
  the ingest; the request timeout makes `SendFailed` the only step.
* `BatchLedger`: each pending batch is eventually settled; this is the
  promise and `HttpExporter` is shown to keep it.
* `CollectPhases`: weak fairness of the goroutines; requests return because the
  client honours the context. The timeout itself need not happen.
* `EpochProbes`: weak fairness of the cycle (the ticker).
* `RpcHooks`: weak fairness of a hook inside its critical section and of the
  snapshot's steps; strong fairness of `SnapshotLocks`, since `sync.Mutex` hands
  the lock over in order once a waiter starves. No hook is assumed to fire.
* `Startup`: weak fairness of the program's own steps and of the deadline, and
  that kadm reports a silent broker once the context is over. Brokers need not
  answer and nobody need stop the agent.
* `AgentLoop`: weak fairness of the loop and `Close`, strong fairness of
  `RunReturns`: Go's select chooses at random among ready cases, so a case that is
  ready again and again is eventually taken.

## 4. Proofs

The theorems have no bounds: they hold for every value of the constants that the
`ASSUME`s of the specifications allow. Each invariant was checked by TLC on its
run before it was proved. A table gives the theorem, the property it states, and
what the induction needs beyond the property, since hardly any is inductive by
itself. Every proof that a step keeps an invariant goes action by action.

**`HttpExporterProofs`**, from `ConstantsAssumption` (positive queue size,
timeout and delays; any retry limit, budget, clamp and number of batches).

| Theorem | States | Induction |
|---|---|---|
| `TypeCorrect` | `TypeOK` | itself: the worker holds a batch exactly while it works on one |
| `WorkerLeavesNothing` | `NothingStranded` | `ControlInv`: an `Export` under way excludes a closed exporter (the lock), and a worker drains only after `done` |
| `QueueOrdered`, `EvictionMakesRoom` | `OldestFirst`, `RoomAfterEviction` | `QueueInv`: the batch in hand, the queue and the batch offered are one ascending sequence; order alone is not inductive, because an append is in order only if the offered number exceeds everything held |
| `WorkerOccupancy`, `CloseWithinGrace` | `OccupancyBounded`, `CloseBounded` | `TimingInv` relates `spent`, `timer` and `closeAge` to the worker's state: a wait that has begun still fits the budget, a request still fits the timeout |
| `BatchesAccounted` | `EveryBatchAccounted` | `AccountInv`, on top of the others: a batch not handed over has no outcome, and `QueueInv` makes the batches held distinct, so settling one leaves the others pending |
| `JitterAlwaysDrawable` | `JitterDrawable` | none: lemma `CeilingInRange` shows it for every attempt, whatever the shift wraps to |
| `ImplementsLedger` | `LedgerSafety`: initial states and steps are those of `BatchLedger` | `SentInv`: what has left the agent is in hand or settled. `OfferStep`, `TurnAwayStep` and `SettleStep` say which change of the exporter's state is which step of the ledger |

**`RpcHooksProofs`**, from `CallsAssumption` and `ConstantsAssumption` (any calls,
brokers, bucket bounds, clock resolution, cycle lengths and number of cycles).

| Theorem | States | Induction |
|---|---|---|
| `TypeCorrect` | `TypeOK` | with `IInv`: every row belongs to a broker a hook was called for |
| `DetachedStaysFrozen`, `OwnTraffic` | `DetachedFrozen`, `OwnTrafficCovered` | `IInv`: who is in a critical section holds the mutex (`Exclusion`), the open window is the cycle's until the swap (`InStep`), a hook past its lookup holds a row of the *open* window (`HoldsOpen`). Without the last an update of an earlier window would be allowed |
| `WindowsDoTile` | `WindowsTile` | `Tiling`: between swap and return the window's length is in `rows`, and the clock that was read is not behind `since`. `WindowAccounts` is the arithmetic of one truncated window, `ReportedAppend` that of the sum |

**`AgentLoopProofs`**, from `ConstantsAssumption` and `BoundsAssumption` (any
queue, retries, boots, batches and late requests).

| Theorem | States | Induction |
|---|---|---|
| `CutNeverShipped` | `ShutdownNotShipped` | `CutIsSeen`: a batch cut short meets the check of `runCycle` with the signal standing |
| `CountersExact` | `CountersAddUp` | itself |
| `SequenceNeverRegresses`, `KeysAreUnique` | `SequenceAdvances`, `KeyNamesOneBatch`, **if `~StableID`** | `Pipeline`: the batch being sent, the queue and the one in hand ascend in number and in the drops they report; `Stamps`: of all batches the agent or the wire holds, a later one of a boot reports no fewer drops; `Overtaken`: a request given up is behind everything still to be sent; `Receiver`: so is what the ingest has acknowledged, and the drops it remembers are not above those of any batch beyond the last it saw. With a stable identity `KeyNamesOneBatch` is false, see `agent_stable_id` |

**`StartupProofs`**, from `EnvsAssumption` (numbers are numbers), `ReleasesGrow`
(a newer release takes no API key away) and `BrokersAssumption` (there is one).

| Theorem | States | Induction |
|---|---|---|
| `LoadCatchesConfigFaults` | `ConfigFaultsCaughtByLoad` | `Loaded`: past `Load` there are no complaints and the settings are those of `Load`; then bound by bound, every check of a constructor follows from one of `Load` |
| `GatesStaySound`, `FilterStaysHonoured`, `NothingDisabledByDefault` | `GatesSound`, `FilterHonoured`, `DisabledForCause` | `Probed`: a known fingerprint was folded from answers of all brokers, and none has been downgraded since; `Gating`: what is on follows from the fingerprint. Lemmas: the fold is below every answer, and a gate is monotone in the release |

**`FileExporterProofs`**, from `ConstantsAssumption` (any backups, line lengths,
kinds and numbers of failures, kills at any step).

| Theorem | States | Induction |
|---|---|---|
| `GenerationsStayOrdered` | `GenerationsOrdered` | `Behind`: nothing on disk is newer than the batch at hand, which is not there before its line is written |
| `OldestLeaveFirst` | `OldestGoesFirst` | `Rotation`: while generations move the live file is closed, and the shift moves into a free place unless a failed stat hid what is there |
| `ShiftIsNotReplayed` | `ShiftNotReplayed` | `Consumed`: a generation removed since the last open is paid for by a reopen that is due |
| `FilesStayBounded` | `FilesBounded`, **if `MaxBytes > 0`** (rotation is on) | `Measured`: while lines can be written the exporter knows the live file's size and has asked whether the line fits; `Weights` |
| `DamageStaysBounded` | `DamageBounded` | `Damage`: one restart is in reserve while the live file ends in a torn line that the writer could run into; `Accounted`: a torn line is never an exported batch's |

**`ErrorBudgetProofs`**, from `ConstantsAssumption` (any sections, keys, caps,
samples, failures).

| Theorem | States | Induction |
|---|---|---|
| `CountsStayExact` | `CountsAddUp` | `EveryKept`: the bucket of a key names its exemplar and knows how often the key was seen; a key without a bucket met the ceiling and never gets one later |
| `CausesSurvive` | `RareCauseSurvives` | the same, and that the entries admitted are the first by `Before`: lemmas on the number of entries ahead of one |
| `BatchesReconcile` | `IngestReconciles` | `Unmerged` and `Merged`: what the global cap took from each section, and that without folding and refusing there are as many entries as failures |

`Effect` says once what `record` does to a section in each of its branches; the
invariants are proved from it.

**`CollectPhasesProofs`**, from `CallsAssumption` and `ConstantsAssumption` (any
switches, replies, cadences and length of the log).

| Theorem | States | Induction |
|---|---|---|
| `AllSectionsShip` | `EverySectionShips` | `Base` (theorem `BaseHolds`): a goroutine past its wait has seen its channels close, and a section has a status from the moment its goroutine is past it |
| `DifferencesNotNegative`, `BatchesAccepted` | `NeverNegative`, `IngestAccepts` | `ChainInv` (theorem `ChainHolds`): ceilings are asked for with the floors in or the context over (`Awaited`), the log has not gone back behind a sample (`Behind`), no sample exceeds a later one that bounds it (`InOrder`), and a ceiling that came early was shipped as failed or skipped (`Early`) |
| `StatusesStayHonest` | `StatusHonest` | `Faithful`: sections not begun are untouched (`Untouched`), failed ones empty (`Silent`), `ok` ones complete (`Truthful`), the listing's IDs imply offsets (`Listed`), and epoch probes that are `ok` after their last round have an answer (`Probed`); lemma `LaterStatus` says what a further round can do to a status |

Every step of the collector is first shown to be one of a few kinds (`PhaseStep`,
`SecondStep`, `SampleStep`, `LogStep`); the invariants are then proved per kind.

**`EpochProbesProofs`**, from `ConstantsAssumption` and `ClustersAssumption` (any
partitions, groups, clusters to start on, elections, caps and memory).

| Theorem | States | Induction |
|---|---|---|
| `RetiredByAnswerOnly` | `RetiredOnlyByAnswer` | `OwnSample` (theorem `TriggersOfOwnSample`): the triggers a cycle holds carry the topic IDs and epochs of the cycle's own sample; `OnlySettled` is about the loop of `BuildProbes` |
| `PackingIsTight` | `RoundsTight` | over the turns of the loop, `Packed`: rounds are not empty, a partition in a round is in every earlier one (`Nested`), nothing is asked twice, and a question is placed or its partition is in every round there may be. Then counting: a partition in round *j* has at least *j* epochs, and no more than the rounds while one is left |

**Loops.** What a recursive function computes is proved by induction over its
turns: `Least` (a set of naturals has a least member, from the well-foundedness of
`<`), `LoopInvariant`, and `LoopExists`, which gives a loop its defining equation.
This is why the loops the theorems are about are functions of the number of turns
and not folds with an operator argument.

**Only model-checked.** Liveness under fairness, which the prover does not
handle: `EventuallyAnswered`, `Terminates`, `SnapshotCompletes`, `StartsOrFails`,
`ShutdownCompletes` and the fairness part of `LedgerSpec`. And
`ImplementsLedger` of `RpcHooks`: that a shipped report is the tally of the calls
that landed in its window needs sums over sets and the counting of buckets, which
are not proved yet; its other half, that no hook writes a detached window, is
`DetachedStaysFrozen`.

## 5. Not modelled

* The stdout exporter: one write under a mutex.
* Configuration: `Warnings`, `Redacted`, the log level, the default instance ID
  and three switches that nothing at startup depends on (TLS, fsync, internal
  topics). Filters: matching a name. Kafka client: `retryTimeout`, version guesses and the
  pass-through requests. Commands: flags, version, the mock server's command.
* Mock ingest: schema validation, reports, injected faults (these are the
  nondeterminism of `AgentLoop`), the checks of one row's shape, and the replay
  and unexplained-rejection checks, which a lost acknowledgement trips although
  the agent did nothing wrong.
* The construction of rows and names in the collector: data without control.
* Wire types other than the histogram: declarations.

## 6. Plan

Done, in this order: `HttpExporter` with its proofs and `BatchLedger`;
`FileExporter`; `CollectPhases` and `Sections`; `AgentLoop`; `EpochProbes`;
`ErrorBudget`; `RpcHooks` with its proofs and `WindowLedger`; `Config`,
`Capabilities` and `Startup`; the proofs of every safety property of the runs but
one, and of the safety part of `HttpExporter => BatchLedger`.

Left:

1. `RpcHooks => WindowLedger`: for each field of a row, the set of calls of its
   window that have made that update; a step of a hook adds one call to one of
   these sets. It needs the sum of durations as a loop over the calls, and that
   the bucket of a duration is the one whose bounds enclose it.
2. The bound on the memory of `EpochProbes` and on the sampled entries of a key in
   `ErrorBudget`, as theorems.
3. The mock server's own faults and replay check, as a specification of the test
   bench.
