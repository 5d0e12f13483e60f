# Thor Firewall: TLA+ models, checks and proofs

This directory specifies the parts of Thor Firewall in which order, concurrency
and failure decide whether the program is right: the agent's flow table, the
buffered writers and the stream behind it, the response to incidents, threat
intelligence, access control, the hunting and detection engines, the correlators
and collectors, and the engines that decide, serve and learn. Each has a TLA+
module and small instances that TLC checks exhaustively, and, for most of
them, theorems that TLAPS proves for every value of the constants.

    tlc -config FlowTableShared.cfg MCFlowTable.tla   # check one run
    tlapm FlowTableProofs.tla                         # check one module's proofs

`PROJECT.json` lists the components, the runs, the mutants that show that every
property can fail, the source lines behind every definition, the hazards, the
findings and the theorems.

## 1. Inventory of the system

Thor Firewall is a security platform in several processes:

    kernel (XDP, TC, conntrack)  --ring buffer-->  agent (Rust)
    agent  --HTTP-->  inference server (Python, ml/)   verdicts back
    agent, collectors  --HTTP/Redis-->  control plane (FastAPI, Python)
    control plane  -->  ClickHouse, Redis, WebSocket clients, SOAR actions
    SOAR  --HTTP-->  rules, tickets, chat, threat intelligence

| Component | State | Operations | What makes it hard |
|---|---|---|---|
| Flow table, `agent/src/flow_manager.rs` | DashMap hash -> record, atomic `active_count` | `process_packet`, `handle_new_flow`, `apply_decision`, `cleanup_loop` | map and counter are each atomic, not together; the background sweep runs between any two steps |
| ClickHouse writer, `control-plane/src/services/clickhouse.py` | three buffers, one `asyncio.Lock`, flush task | `insert_flow/threat/decision`, `_flush_loop`, `close` | buffers are cleared before the insert is awaited; failures; cancellation |
| Universal ingester, `control-plane/src/ingestion/universal_ingester.py` | batch, dedup window, statistics | `ingest_raw`, `ingest_splunk_hec`, `_flush_loop`, `_flush` | inserts outside the lock, several in flight; failing publish after a good insert |
| Redis Streams pipeline, `control-plane/src/services/redis_streams.py` | stream, group position, pending list (in Redis); the batch in hand | `publish_*`, `consume` | lost replies, failing handlers, restarts, trimming |
| Dynamic batcher, `ml/serving/batching.py` | queue, event, futures | `infer`, `_batch_loop`, `_process_batch` | set/clear/wait races, cancelled callers, positional answers |
| Policy engine, `control-plane/src/services/policy_engine.py` | rule list, index by id, sorted flag, blocklist | `add_rule`, `remove_rule`, `toggle_rule`, `evaluate`, `update_blocklist` | two copies of the rules, lazy sort, lazy eviction |
| SOAR orchestrator, `control-plane/src/soar/` | executions and their action results | `trigger`, `_execute`, `record_action`, `_persist` | concurrent actions in stages, cancellation, partial failure |
| SOAR service and rule store, `services/soar.py`, `routes/rules.py` | audit log, rules | `execute`, `_run_action`, `create_rule` | timeouts after the effect, results of `gather` ignored |
| Event hub, `main.py`, `services/event_bus.py`, `connection_manager.py` | list of connections, gauge, channel | `connect`, `disconnect`, `broadcast`, `listen` | the list changes during a broadcast |
| Threat intelligence, `services/threat_intel.py`, `ml/threat_intel/feeds.py` | L1 dictionary, Redis, feed sets, block lists | `lookup_ip`, `is_malicious`, refresh loops | levels that expire at different times, overlapping refreshes |
| Rate limiters, `middleware/rate_limit*.py` | windows, buckets and counters per key | one call per request | boundaries of the window, cleanup |
| Authorizer, `auth/casbin_rbac.py` | the enforcer and its policy | `get_enforcer`, `check_permission`, changes of roles | lazy creation and changes with awaits in them, a failing adapter |
| Forensics, `routes/forensics.py`, query half of `clickhouse.py` | none; reads ClickHouse | listings, hunts, investigations, statistics | rows come and expire between the reads of one answer |
| ThorQL, `thorql/` | none; reads ClickHouse | parse, transpile, execute, saved hunts | the answer must cover the question |
| Sigma and YARA, `threat_intel/sigma_engine.py`, `yara_engine.py` | loaded rules | check, scan, hot reload | files edited during a reload, one broken file |
| Risk and entity scores, `xdr/risk_engine.py`, `ml/ueba/entity_scoring.py` | histories, alerts, profiles | add, drain, list, acknowledge, reset | scores decay between their uses |
| Correlators, `xdr/causality_builder.py`, `event_stitcher.py` | events by source and identity | add, chain, stitch | late and unordered events |
| Cloud collectors, `cloud/` | jobs, tokens, queue positions | polls, pages, SQS stream | redelivery, caps, refused detectors, restarts |
| Decision engine, `ml/brain/` | cache, profiles, attack chains | `decide` | overlapping calls about one flow, warm-up |
| Model cache and servers, `ml/serving/`, `ml/inference_server.py` | LRU of models, memory budget | `get`, `put`, loaders, predict | loads outside the lock, padded vectors |
| Federated learning, `ml/federated/` | round, pending updates, global model | receive, aggregate, checkpoints | late, lost and overtaken updates |
| Learners, `ml/training/online_learning.py`, `ml/online/` | queue, replay buffer, buckets, feedback files | add, drain, update, save | crashes between writes, failing saves, malformed records, bounded queues |
| MARL training, `ml/marl/`, `train_marl_full.py` | rollouts, best weights | collect, advantages, keep | episodes that end in a rollout, agents that share a buffer |
| Kernel data path, `kernel-modules/linux/ebpf/` | per-CPU connection table, LPM tries, counters | one program per packet | packets of a connection on several CPUs; not modelled |
| Agent event processing, `agent/src/ebpf/ring_buffer.rs`, `rl_core.rs` | flow accumulators | `process_event`, `flush_expired_flows` | flows leave the table before the inference call; not modelled |
| EDR, agent services, integrations, reporting, compliance, dashboard, networks, Windows drivers | mostly per-request data | adapters, queries, numerical code | not modelled, see section 7 |

What makes each component correct:

* flow table: never more flows than allowed, a counter that agrees with the
  table, verdicts that stay, idle flows that go, suspicious flows that keep being
  sampled;
* writer and ingester: a row is stored once, or known to be lost, in order, and
  never forgotten in a buffer; statistics that do not claim too much;
* stream: nothing handled twice, nothing acknowledged unhandled, everything
  delivered, failures retried;
* batcher: every call ends with its own answer or an exception;
* policy engine: the rule that should decide decides;
* SOAR: the reported outcome is the real one, stages are ordered, executions end;
* event hub: messages in order, at most once, and no live client dropped;
* threat intelligence: an answer rests on what a source reported of that address;
* limiters and authorizer: no request too many, no decision without its policy;
* forensics and ThorQL: nothing that was asked for is missing from an answer;
* Sigma, YARA: a check uses whole and recent rules; what a feed listed is blocked;
* scores, correlators, collectors: what belongs together comes together, and
  what is deleted was read;
* decision engine, servers, learners: verdicts are fresh and have a reason, rounds
  average what was trained from their own model, the best result is the one kept.

### A remark on the agent crate

`flow_manager.rs:202` assigns `record.last_seen_ns`, a field that `FlowRecord`
does not have (lines 320-329 add accessors of that name), and `ring_consumer.rs:173`
calls a `FlowManager::update` that does not exist. The model takes line 202 for what
line 201 and the accessors do, the assignment of `stats.last_seen_ns`, and takes
concurrency from the types: the manager is `Clone` over `Arc`s of a DashMap and an
atomic, `process_packet` and `apply_decision` take `&self`, and `new` spawns the
sweep on another task.

## 2. Modules

| Module | Role |
|---|---|
| `FlowTable` | the flow table; workers, decisions and the sweep interleave step by step |
| `FlowTableProofs` | its theorems |
| `RowLedger` | abstract: what a buffering writer promises about rows |
| `ClickHouseWriter` | the writer; implements `RowLedger` |
| `ClickHouseWriterProofs` | its theorems, the refinement included |
| `Ingester` | the universal ingester |
| `StreamConsumer` | publisher, consumers of a group, and Redis between them |
| `StreamConsumerProofs` | its theorems |
| `RequestReply` | abstract: what a batching service promises its callers |
| `DynamicBatcher` | the batcher; implements `RequestReply` |
| `PolicyBase` | abstract: which rule decides |
| `PolicyEngine` | list, index and lazy sort; implements `PolicyBase` |
| `Ordering` | sequences in order and their parts, without recursion |
| `SequenceLemmas` | what the proofs need of `Ordering`, of sequences whose elements differ, and of folds |
| `SoarOrchestrator`, `SoarEngine` | the playbooks' executions; the actions on an incident and the rule store |
| `EventHub` | live events: the bus, the connections and the broadcast |
| `ThreatIntel`, `FeedManager` | lookups through three levels and the refresh of the feeds; the block lists |
| `RateLimiter`, `Authorizer` | the three request limiters; the lazily created enforcer. `RequestsSpec` of the former puts the limiters beside the two modules of the next row |
| `Forensics`, `ThorQL` | listings, hunts and statistics; the hunting language |
| `SigmaEngine`, `YaraEngine` | rules that are reloaded while their files are edited |
| `RuleProofs` | theorems of `PolicyEngine` (the refinement included), `SigmaEngine`, `YaraEngine`, `FeedManager`, `EntityRisk` and `XdrCorrelation` |
| `EntityRisk`, `XdrCorrelation`, `CloudCollectors` | decaying scores; chains and incidents; polls and queues |
| `DecisionEngine` | `decide()` and the engines it asks |
| `ModelCache`, `InferenceServers` | the models in memory; the answers of the two servers |
| `ServingProofs` | theorems of what answers calls: `DynamicBatcher`, `ModelCache`, `InferenceServers`, `RateLimiter`, `Forensics`, `ThorQL` |
| `Federated` | rounds of federated learning |
| `LearningProofs` | theorems of `Federated`, `DecisionEngine`, `MarlTraining` and `Learners` |
| `OnlineLearner`, `DriftMonitor`, `FeedbackLoop`, `MarlTraining` | what is learnt, from what, and what is kept |
| `Learners` | the first three of these together |
| `ControlPlaneProofs` | theorems of `Ingester`, `SoarOrchestrator`, `SoarEngine`, `EventHub`, `ThreatIntel`, `Authorizer`, `CloudCollectors` |
| `MCControlPlane`, `MCLearning` | one run each for the modules from `SoarOrchestrator` on |
| `MCFlowTable`, `MCClickHouseWriter`, `MCPolicyEngine` | the small instances whose constants a `.cfg` cannot write |

Some operators are marked *Mutant* in a comment. They are plausible bugs of the
definition that follows them, are used by nothing, and exist so that each property
can be shown to fail when the code is wrong.

### FlowTable

A worker is a thread inside `process_packet`. `Hit` is the fast path, one action
because DashMap holds the shard lock throughout. `Miss`, `AdmitFlow` or
`RefuseFlow`, `InsertFlow` and `CountFlow` are the slow path: the failed lookup, the
load of the counter, the insert, the `fetch_add`; other threads run in between.
`ApplyDecision` is the RL engine. `StartSweep`, `RemoveExpired`/`RetainFlow` per key,
and `EndSweep` are `cleanup_loop`: `retain` locks shard by shard, and `fetch_sub`
comes only at the end. Time is the age of each record, saturating just above the
timeout; a packet's timestamp may be older than now by `MaxLag`, so a record can be
born expired. `active_count` is an integer whose negative values stand for wrapped
unsigned ones; `Full` treats them so, and `CounterSound` implies that none occurs.

`Serves` says which flows reach which worker: all flows every worker (shared), or
each flow one worker (affine, as with receive-side scaling). The code does not
establish affinity; the properties that need it say so, and FlowTableLeak shows what
happens without it.

### ClickHouseWriter and RowLedger

The lock is the FIFO queue of the tasks that asked for it, as in `asyncio.Lock`. A
caller queues (`Insert`), then appends (`AppendRow`) or appends, copies, clears and
awaits the insert (`FillBatch`). The flush loop and `close()` visit the buffers in
order (`FlushFrom`). An insert returns, or raises, whether or not the server applied
it. `close()` cancels the flush task, which is a raise inside an insert and a leave
inside the queue (`LockWithout`). After its last flush it releases the lock and awaits the client's close
(`ClientClosed`): whoever queued behind it appends meanwhile. `late` has the rows of calls made after `close()`
was, and `CloseDrains` says that no other row is in a buffer when `close()` returns. `RowLedger` keeps, per table, the accepted rows in order; the writer
settles a prefix at once, as stored or as lost. The refinement puts a batch in flight
in front of its buffer. Row identities are reused once settled, so the run covers
behaviours of any length.

### Ingester

Sections under the lock never await, so an action is the code from one real await to
the next. Contents stand for what `compute_hash` distinguishes. An event, which the code gives
an id of its own, is its place among the events taken: the history `taken` has their contents, and
`inserted` and `lost` are sets of events, so that no event can be mistaken for another with the same content. `FlushIfFull` is the end
of `ingest_raw` for any request, duplicates included. `InsertRaises` loses the batch
(or not: the server may have applied it); `PublishEnds` counts a failed publish as
errors although the rows are stored.

### StreamConsumer

An entry is its number. `Deliver` and `Acknowledge` are Redis (external): the position
of the group advances and the entries become pending in one step: a read starts at
`Oldest`, the first stored entry after that position. `ReadRaises`,
`AckRaises` and `Stop` allow that step with or without the reply arriving.
`NextEntry` is the inner loop of `consume`.

### DynamicBatcher and RequestReply

`Woken` is `asyncio.Event.set`: waiters resume even if the event is cleared before
their turn. `NextTurn` joins the end of a turn and the `wait`/`clear` at the top of the
loop, which return at once when the event is set. `Distribute` takes the number of rows
the model returned; 0 is a raise. The 1 ms polling is one step, since leaving
`gathering` may happen at any time. `start()` called twice is two loops.

### PolicyEngine and PolicyBase

The methods are synchronous, so each is an action. A rule has the fields `evaluate` and
`_match_rule` read: priority, effect, whether it expires, and its conditions. Conditions
that just reject are the set `scope` of contexts that pass them; the geo list and the
threat-intelligence flag are kept because their order matters. `ByPriority` is Python's
stable descending sort: the positions of the list, arranged by priority and then by place
(`Arranged` of `Ordering`, which says where each element stands and not how it got there). `PolicyBase` has no list: it has the rules and the pairs of ids of which one came
`before` the other, and says declaratively which candidate wins. The refinement
reads the arrival order off the list, which the stable sort must keep.

### SoarOrchestrator and SoarEngine

A playbook is a sequence of stages, sets of actions that `gather` starts back to back.
`OrchStep` is the task of an execution: the next stage starts, an action ends, the row is
written. The built-in actions catch what their calls raise and end as "success"; what lies outside
their `try` raises at once, and `Faults` says for which playbook and alert: an import that does not exist
(`notify_security_team` always), connectors that cannot be imported (the constant `Broken`), a risk
that is no number, labels that are no mapping. An action of a built-in playbook that raises is recorded as failed;
`RunRaises` is `run()` itself raising, before its first stage or, in a registered playbook, at any await: the status is
then "failed", with an action `playbook_runner`. `Shutdown` cancels: `CancelledError` is no
`Exception`, so the status stays. In `SoarEngine` a handler makes its calls in rounds, the
calls of a round together; the 15 s timeout gives up calls that the service may have
carried out. The rule store is the operations of `routes/rules.py`, in steps of their own.

### EventHub

`Broadcast` is one turn of `listen()` and `broadcast()`: take a message, send to the
connection at the list iterator's index, or remove the dead at the end. Connections come
and go in between, as they do at its awaits; Python's iterator is an index into the live list.

### ThreatIntel and FeedManager

`LookupStep` goes from one await to the next: L1, Redis, the three services that are asked
together, the writes. `Expire` is Redis (external). `RefreshStep` and `FeedStep` are the
loop and the pipelines it fills, which are not transactions. In `FeedManager`, `BeginUpdate`
chooses what is due, `LoadReturns` and `LoadFails` are the loaders, `Integrate` is the end
of `gather`; two updates may overlap.

### RateLimiter and Authorizer

A check awaits nothing, so each is one step with its cleanup. Time is in ticks, since one
limiter rounds it to seconds; counters of keys that went quiet are dropped (`Evicted`). In `Authorizer`, `MakeEnforcer`, `ReadPolicy` and `PolicyLoaded` are the
awaits of `get_enforcer()`; calls in between make another enforcer, or use one without a policy. `AskRole` asks for one role of
the token after another. A change is asked for (`RequestChange`), committed by the adapter (`PolicySaved`), and only then
made in the model (`ModelFollows`); `SaveRaises` may come before or after the commit. `always` and `once` are, for a call,
the policies that were surely stored all the time and those that may have been at some time; `Flying` has the policies of changes under way, and of those that
raised, met another change of the same policy, or met the load.

### Forensics and ThorQL

Rows arrive in batches and expire between the reads of one request, sums of a day after `StatsTtl`. Networks in a hunt are
counted and not searched for, as in the code, and the property speaks of addresses. `ReadPage`, `Hunt`
and the statistics are the queries with their bounds, orders, joins and limits. A ThorQL
query is the record of its clauses; `ExecuteQuery` parses and transpiles at once, `Read`
is the await. Text is kept only as far as the parser depends on it: which column a
condition begins with, and whether it contains a forbidden word. `WHERE` is a conjunction of such
conditions: what the split at every AND makes of `BETWEEN` and `OR` is left out (see section 6).

### SigmaEngine and YaraEngine

`EditFile` and `RemoveFile` change the rules on disk at any time; `ReadFile` and
`EndReload` are the hot reload, file by file, which takes up to `MaxLoad` seconds. `MatchRules` evaluates selectors, modifiers
and the conditions the code tells apart, the textual replacement of selector names included.
`YaraEngine` compiles all files at once (yara-python, external); scans run in threads.

### EntityRisk, XdrCorrelation and CloudCollectors

Scores are integers halved per half life and cut as the code cuts them. `XdrCorrelation`
has the pending events of an address (`IngestEvent`) and the buckets of an identity
(`Ingest`), with events that are older than their arrival. `CloudCollectors` follows one job
through its streams (CloudTrail, then one for each of the `Detectors`; or the two of Azure), through the `Pages` that the cloud cuts
a window into, of CloudTrail up to `MaxItems` (`UpToMaxItems`), and through its tokens (`FetchPage`, `RateLimited`, `HandOver`) and one queue through
`ReceiveMessages`, `Download`, `DeleteMessage`; a message is delivered again when it was not
deleted in time (SQS, external).

### DecisionEngine, ModelCache and InferenceServers

`Decide` is `decide()` until its `gather`, `Score` the four engines, `Conclude` the fusion,
the correlation and the verdict, `Explained` the rest of a call that waited for the
explainer. Risks are log-odds in tenths, clipped to those of 1e-9 and 1 - 1e-9 as the fusion
clips them, which it adds. `LookUp`, `LoadAndPut` and
`LoadFails` are the three loaders with threads between look-up and load. A model is loaded for a device and in a size
(precision) that its name does not hold, and `Put` replaces an entry of that name whatever it takes; `Weighs` marks the entries
whose bytes were held against the budget; the bytes on a device
are counted one by one, as the set of pairs of an entry and a byte of it, since a sum over a sequence is a recursion. The servers' rules are
kept with the positions they look at, since padding decides what they find there; `SignalScores`
are what the rule-based fallback scores a combination of signals.

### Federated, OnlineLearner, DriftMonitor, FeedbackLoop and MarlTraining

`TrainAndPost` puts an update on the wire, where it may be lost or arrive in a later round;
`BeginAggregate`, `AggregateTimesOut` and `Aggregate` are one round, `LoadCheckpoint` a
rollback, in the same process or another. `OnlineLearner` has the bounded queue, the prioritised buffer
that drops a share when full, and the checkpoint file that outlives the process. A record may have one of the `Flaws` that nothing
checks; then the sort, the sample or the update raises and `run()` is dead. `Evaluate` sets the best accuracy, `Save` writes the file
afterwards, and may raise or leave it torn. `DriftMonitor`
is the arithmetic of ADWIN's buckets and of DDM. `FeedbackLoop` has two buffers and their
files, `CrashAndReload` between any two steps, torn files, and the logger that raises at INFO (`infoOn`): then the
new samples are never cleared and nothing is saved. `MarlTraining` collects rollouts over
episodes and turns them into advantages; a network is the number of its optimizer steps. In `ml/marl` a
buffer is of one agent, in `train_marl_full.py` the agents take turns in one and the advantages run through all of them.

## 3. Runs

| Run | Instance | Shows |
|---|---|---|
| FlowTableShared | 2 workers sharing 2 flows, `MaxFlows` 1, timeout 1, lag 2, mirror every 2nd | the counter covers the table under every interleaving; idle records go; suspicious flows are sampled again and again |
| FlowTableAffine | 3 flows divided between 2 workers | counter exact, verdict kept, overshoot bounded by the number of other workers |
| FlowTableLeak | as shared, `MaxFlows` 2 | violation: at rest the counter is not the number of flows |
| ClickHouseWriter | 2 callers, flush loop, closer, 2 tables, 4 rows, batches of 2 | implements `RowLedger`; `close()` leaves only rows that came after it; buffered rows settle |
| Ingester | 2 raw handlers, 1 HEC handler, 3 contents, window 2, batches of 2, 5 requests | about 699 000 states: conservation of events, conservative statistics, once per window, draining |
| StreamConsumer | 2 consumers, 4 entries, reads of 2, stream of 2 | at most one handling, honest acknowledgements, delivery |
| StreamRetry | the same | violation, while nobody stops and no read raises: an entry whose handler failed is never seen again |
| DynamicBatcher | 4 requests, 2 loops, batches of 2 | no lost wakeup, own answers, every call ends |
| PolicyEngine | 3 ids, 3 kinds of rule, 2 contexts; symmetric in the ids | list and index agree; the right rule decides |
| PolicyConditions | the same | violation: a geographic rule decides about a country it does not list |
| ControlPlane | 19 focuses, about 258 000 states: playbooks, actions, store, hub, lookups, refresh, feeds, limits, rights, forensics, thorql, sigma, yara, risk, scorer, chains, incidents, polls, queue | what each component promises, while nothing else runs |
| Learning | 8 focuses, about 412 000 states: decisions, models, answers, rounds, learner, drift, loop, trainers | the same for the components under `ml/` |

The components of ControlPlane and of Learning share no variable. A run of all of them at
once would be their product, and would show nothing more: a property of one component
cannot see a step of another. So `focus` chooses at the start which component takes steps
in a behaviour, and the others stay as they started. Inside `ThreatIntel`, whose
lookups and refresh do share Redis, "refresh" runs the loops with one lookup at a time and
"lookups" runs concurrent lookups with the loops off.

### The properties

* `CounterSound`: the types hold, and (`CountCoversTable`) records plus removals to be subtracted
  never exceed the counter plus insertions to be counted. Hence the counter never wraps.
* `TableBounded`: the check and the insert are separate, so the table can exceed
  `max_flows`, by at most the number of other workers. (`flow_manager.rs:143` calls
  `max_flows` the maximum number of concurrent flows; the code bounds them less
  strictly, as this property says.)
* `CountExact`, `VerdictKept`: under affinity no insert replaces a record.
* `IdleReclaimed`, `SuspiciousSampled`: liveness of the sweep and of the sampling.
* `KeepsLedger`, `BuffersBelowLimit`, `CloseDrains`, `BufferedRowsSettle`: see the
  comments in the module. The last says more of the first table than of the others,
  because an insert that keeps failing for one table keeps the loop from the later ones.
* `EventsAccounted` (`EventsConserved` and `StatsConservative`: where an event is, and that the statistics
  claim no more), `TakenOncePerWindow`, `BatchDrains`.
* `HandledOnce`, `AckedWasHandled`, `EverythingDelivered`.
* `QueueSound` (the types, and `NoLostWakeup`), `AnswersOwnCall`, `EveryCallEnds`.
* `ListMatchesIndex`, `DecidesByPriority`.

Of ControlPlane (the type invariants of its modules are conjuncts of these; each module states the parts):

* `OutcomeIsReal`: an execution's status is the outcome of its actions, stages do not
  overlap, and what is persisted is final; "failed" means that `run()` raised or that no playbook was found. `SoarReportsAreReal`: the actions that check
  their answer succeed only when the service did what was asked, a dry run touches nothing,
  and the audit log has one unchanging entry per concluded incident.
* `OrderedOnce`: a client is listed once, gets each message at most once and in order, and is
  not removed while its socket is open; the gauge never exceeds the list.
* `IntelSound`: an address is never given another's indicator, or one that no source reported.
* `AccessSound`: if the first calls did not overlap, whoever is allowed had the right at some time of the call (or it was being
  changed), whoever is denied asked before the load or had not the right all the time, and a loaded enforcer enforces what is stored;
  all of it but for the policies in `Flying`, whose table and model may part for good.
* `RequestsSound`: no window of time, wherever it begins, lets more than the limit pass, and a
  refusal by the window or the bucket names a time at which a request passes; pages that are read to their end miss no flow that stayed, a hunt names all addresses it searched for with counts that are
  not too high, no address with threats is called clean, the sums of a day account for every flow of it until they expire; an answer of ThorQL,
  below its limit, holds every row that meets all conditions.
* `SigmaSound`: a check tries every rule that had been on disk, when it began, for longer than the
  reload interval and the time a reload takes. `YaraSound`: an engine always has rules that compile, and a
  scan uses one compilation to its end. `FeedsSound`: the block lists are exactly the integrated
  entries, and while no update runs an address that a feed listed is blocked.
* `RiskSound`: an alert is handed over once, and scores are those of now. `XdrSound`: events of an
  address in two phases, and events of one identity, within their window come together.
* `CloudSound`: a poll hands over no record twice, and of a stream that was opened and came to its end unrefused all of its window,
  up to `MaxItems` of CloudTrail; a message is
  deleted only when its files were given out or could not be read.
* `AlertsAreListed`: the entity over the threshold is in the list, unless enough others score as much.
* `JobsEnd`: playbooks, incidents, broadcasts and refreshes come to their ends.

Of Learning:

* `DecisionsSound`: an answer from the cache is about the same flow and within its time to live; a hot
  source has one chain that says why; an engine without data outvotes the others unless one of them
  reports more than 0.98.
* `FederationSound`: a round averages one update of each of enough clients, each trained from
  the model it is added to, unless a checkpoint was loaded in between.
* `ServingSound`: whatever threads load, the cached models fit their number, and those held against a budget fit it
  (a replacing `put()` is not, so that a device may exceed its budget by it, as in the code); only a
  threat is blocked.
* `LearnersSound`, of `Learners`: a checkpoint of one process only improves, unless saving it raised, and the learner dies only for the
  reasons in `KilledForAReason`; the window of ADWIN is a suffix of
  what was seen; feedback is lost by crashes and by clashing file names only; where INFO is not logged and
  saving succeeds, a crash costs less than `SaveEvery` train steps.
* `PoliciesSound`: in `ml/marl` an advantage is of its episode, in `train_marl_full.py` it reaches no later episode of
  its own agent; every step is counted once and rewarded for what was shown;
  pretraining and `ray_trainer.py` keep the first of the best networks, and training goes on from that of pretraining. (`train_marl_full.py`
  keeps none.)

### Bounds

Two workers, callers, consumers or loops are the smallest number with a race; no
argument of these components distinguishes a third, and the theorems confirm it for
the flow table, the writer, the ingester, the consumers of the stream, the batcher, the rules, scans and feeds, the playbooks and
incidents, the hub, the look-ups, the authorizer, the scores, chains and incidents, the collectors, the calls of `decide()`, the
threads of the model cache, the federation, the trainers and the learners. Three flows with a maximum of one let the table overshoot; two rows to a
batch make a buffer fill, overflow and flush while a third row waits. Ages saturate
one tick above the timeout, above which the code does not tell them apart. Named
bounds that cut behaviours are `MaxEvents` (requests served by the ingester) and
`MaxEntries` (entries of the stream): enough for two full batches and for one window to
roll over, and for a trim to pass an unread entry. All other runs are unbounded in
time. Deadlock is checked except for ClickHouseWriter (a closed writer with nothing left to do stops),
Ingester (the bound on requests stops it), ControlPlane and Learning (their bounds stop them).

The bounds of the two large runs are chosen by the shortest behaviour that reaches
the hazard, and one more step of it:

* two executions, incidents, lookups, updates, threads, federation clients or authorization
  calls, because two make a race; three WebSocket clients, because a removal must move
  a third past the iterator; three calls of `decide()`, so that one is answered from the cache while
  another waits for its explanation;
* `MCControlPlane` leaves out behaviours that show nothing else: calls, clients and executions that differ only in
  name start in one order (`InOrder`); the second execution, which shares only the shutdown with the first, is of the registered playbook
  (`ExecutionsTried`); a third authorization call changes the policy once it is loaded, and a behaviour ends with a second enforcer,
  of which `DecisionsBacked` says nothing (`CallsTried`; the theorem has no such bound); rule files stand
  still while a check only matches (`SigmaTried`); sums merge and expire while no request is served (`ForensicsTried`);
* clocks (`LastTick`, `LastDay`, `LastQueryMinute`, `LastSecond`, `LastScoreHour`,
  `LastMinute`, `LastHour`, `HorizonOf`, `MaxSeconds`) run to at least one tick after the longest window,
  age or time to live of the instance, which are scaled to one or two ticks;
* `Published`, `MaxPosts`, `MaxEventsIn`, `MaxJobs`, `MaxReceives`, `MaxIocs`: two or three, for a
  second message, alert, event of a chain, overlapping job, redelivery, or reload; `LastDay` 2 with flows that stay for two days, so that a page is read while a newer row comes or an
  older one goes; pages of 2 and `MaxItems` 2 of three records of CloudTrail, and two detectors; `StatsCap` stops a
  counter that no property reads above one; `MaxLate` spans the window;
* `MaxRounds`, `MaxOnWire`, `MaxLoads`: an update that arrives in the next round, and a rollback;
  `MaxModelLoads`, `MaxChanges`: a third load after an eviction, and a file that changed;
* `MaxLearnSteps`, `MaxRestarts`, `MaxSamples`, `MaxTrainSteps`, `MaxCrashes`, `MaxFlows`, `MaxWeights`: buffers of
  two that fill and overflow, a checkpoint before and after one restart, seven elements in
  ADWIN's buckets (two merges and a cut), three candidates for the best weights.

### Fairness

* `FlowTable`: weak fairness of the sweep; the interval timer re-arms for ever and
  `retain` visits every key. Nothing makes packets arrive.
* `ClickHouseWriter`, `Ingester`: the event loop resumes what can run, timers fire, and
  inserts return or raise (the client has a `send_receive_timeout` of 60 s). No
  fairness on new rows, on `close()`, or on an insert to succeed;
  `BufferedRowsSettle` assumes in its own statement that failures stop.
* `StreamConsumer`: handlers and acknowledgements end and the pause after an error
  ends (weak fairness). Reads are strongly fair, since a read may raise and be
  retried each second: Redis is not down for ever. Nothing restarts a stopped consumer.
* `DynamicBatcher`: each loop's turn is weakly fair: the event loop schedules it and
  the inference function returns or raises.
* `PolicyEngine`, Learning: safety only.
* ControlPlane: each step of a playbook (`OrchStep`) and of an incident (`SoarStep`, which its
  timeout of 15 s forces), each turn of the broadcast, each step of a feed and of the refresh
  loop is weakly fair: the event loop resumes what can run, and calls return or raise. Nothing
  makes clients, alerts or services act, and `JobsEnd` does not need them to.

## 4. What is proved

`FlowTableProofs` (any finite sets of flows and workers, any `Serves`, any bounds):

* `CounterCoversTable` (of `CounterSound`) and `OvershootBounded`. `CountCoversTable` and
  `TableBounded` are not inductive. `IInv` adds that nothing waits to be subtracted
  between sweeps (otherwise `StartSweep`, which resets `removed`, could lose some) and
  that workers already past the admission check are charged to the bound:
  `Cardinality(Present) + Cardinality(At("admitted")) <= MaxFlows + |Workers| - 1`.
  A worker is admitted only when the counter is below `MaxFlows`; `CountCoversTable` turns the
  counter into a statement about records and workers still to count; and a worker
  cannot be in two places.
* `ExactUnderAffinity`, `VerdictKeptUnderAffinity`, from `AffineInv`: while a worker
  is between its miss and its insertion, its flow is absent, since no other worker
  serves it.

They rest on lemmas about cardinalities of sets that change by one element, proved
from the library's `FiniteSetTheorems`. Assumptions: those named in `FlowTable`
(finite sets, at least one worker, bounds that are natural numbers); TLC evaluates them
in every run of the module.

`ClickHouseWriterProofs` (any tables, rows, callers and batch size): `LimitHolds`,
`ClosingDrains` and `WriterKeepsLedger`, from the inductive invariant `WriterInv`, and for the second from `LateInv` beside it:

* `LockInv`: the tasks in the queue of the lock are those that wait or insert, each
  once, and a task that awaits an insert is at the head. So at most one batch is in
  flight, and no caller appends while `close()` inserts;
* `Drained`: while the final flush inserts, the buffers up to the one it visits are
  empty;
* `LateInv`: once the last flush has ended, the rows in the buffers and those that callers still wait with are late.
  `Behind` makes it inductive: whoever stands behind `close()` in the queue of the lock called after it, and whoever stands before it has appended, and been flushed, by
  then;
* `WantedFresh` and `OwnTable`: a row that a caller waits with is nowhere else, and a
  buffer has rows of its table only: without them `Accept` of the ledger would not be
  enabled when the row is appended;
* `BatchesHaveRows`: what is settled is a prefix of at least one row.

The refinement follows case by case: a row becomes pending when it is appended, also
when that fills the batch; what a flush takes from a buffer stays pending, ahead of the
buffer; an insert that ends settles exactly the batch, whether or not the same step
takes the next buffer.

`StreamConsumerProofs` (any consumers, read size and length of the stream):
`AcknowledgementsAreHonest` (an acknowledged entry was handled, and a handled one is
acknowledged or pending) and `EntriesAreHandledOnce`. The latter needs `OnceInv`: what has been
handled or is in hand was delivered, so it is not after the group's position; an entry
is in the hand of one consumer, once; and what a consumer has yet to handle nobody
handled. A read gives out only what is after the position, and moves it.

`SequenceLemmas` has what these and the following proofs say of lists. `Arranged` and
`AtPositions` define a sequence by the rank of each element, which is the number of elements
before it; its lemmas turn this into the order of the elements (`ArrangedInOrder`,
`PositionsInOrder`), and say what removal, appending and concatenation leave of a
sequence whose elements differ (`KeptOfDistinct`, `AppendedOfDistinct`, `ConcatOfDistinct`,
`RemovalShifts`). It stands in for an induction over sequences.

Where the code sums, merges or reduces, the models use folds of the community modules, whose definitions
choose a recursive function without saying that one exists. `FoldExists` proves that it does, for any
finite set, order of picking and step, and `FoldUnique` that there is no other; `LeftFold` and `RightFold`
turn the fold of a sequence into the list of its intermediate results (`Climbs`, `Descends`), one equation for each
element. The lemmas about sums (`SumGrows`, `SumAgrees`) follow. Inductions go over sets: `SetOfNaturals` says that a
set with 0 and the successor of each of its elements has all naturals, `SetOfSubsets` the same for finite sets
that grow by one element. A lemma puts what it wants to show for each length, or each prefix, into such a set.

`RuleProofs`, for any of the constants of each module (ids, kinds of rule, contexts; files, events,
scanners; feeds, lists, networks):

* `ListMatchesIndexAlways`: the list has each installed rule once and, if it is marked as sorted,
  in descending order. Each operation, the lazy sort included, keeps a listing a listing.
* `DecidesByPriorityAlways`, the refinement of `PolicyBase`: a list that was not sorted has arrivals
  in their order, and the sort changes neither this among rules of one priority (`SortedListing`) nor
  the candidate that wins (`FirstOutranks`).
* `SigmaIsAlwaysSound`: a load finds what was there when it began, at most `MaxLoad` seconds before it
  ended. So the invariant says that files older than the last load by more than `MaxLoad` are
  loaded (`LoadedOnes`), that a reload that runs has found, or has still to read, what is older than its check
  (`Reloading`), and that after it what is old enough is older than the last load (`UpToDate`).
* `YaraIsAlwaysSound`: what is compiled, or about to be, has the built-in rules in it
  (`HasBuiltin`); the active set compiled, and a scan keeps the set it began with (`ScansAreWhole`).
* `FeedsAreAlwaysSound`: lists, networks and statistics are functions of the entries (`Integrated`), and what was
  listed is among them or in an update that runs (`NothingMissing`). An entry is an
  address or a network, and an address is a network of itself (`FeedAssumption`), so that either list blocks it.
* `RiskIsAlwaysSound` and `AlertsAreAlwaysListed` (scores), from `RiskInv`. `EngineInv`: drained and pending alerts
  are `1..raised`, in order. `MarksInv` and `ProfilesInv` bound a profile's score from both sides: it
  is at least what its history decays to at the hour, and at most what was ever added. Decay
  lowers each summand and keeps their order (`ScoreBounded`). `ListInv`: whoever is on the list reached the threshold.
* `XdrIsAlwaysSound` (chains and incidents), from `BuilderInv` and `StitcherInv`. The first: an event that any
  later one could still be linked to waits under its address (`KeptInv`), in order of time (`WaitingInv`),
  and for two that are linked, however late either came, a chain has both (`ChainsInv`). The second: buckets hold only events with their
  key (`Filed`) and all whose window is open (`Kept`). An event has several keys, handled one after another, and `Stage` is
  what holds after the first m of them.

`ControlPlaneProofs`, for any of the constants of each module:

* `EventsAreConserved`, `StatsAreConservative`, both together as `EventsAreAccounted`, and `WindowIsKept` (the ingester, any handlers, batch
  size and window). `Placed` says that each event is in exactly one of the batch, a flight, the
  table and the lost; a flush, an insert and a loss only move events between these. `ErrorsCounted`,
  that every lost event was counted as an error, is inductive beside it. The window: if it rolled over `q` times
  (`WindowsPassed`), then `q * (Window + 1)` events and those now seen have passed, and a
  content was taken `q` times, and once more if it is seen. `q` is no variable of
  the program: the invariant says that there is one.
* `OutcomeIsAlwaysReal` (the orchestrator): the stages of a plan share no action and an action whose exception leaves `run()` is
  alone in its stage (`PlansAreStagings`, for every built-in playbook and any custom one
  that satisfies `OrchAssumption`); `run()` itself raises only between stages. That is why nothing runs any more when an execution is persisted.
* `SoarReportsAreAlwaysReal` (the actions on incidents): `ActionOK` ties a result to the calls that
  are open or took effect, so that no call of a concluded action is open; `AuditOK` says how long the log is and that its
  entries say what their incidents' results say, which is so only because results of a concluded
  incident never change.
* `OrderedOnceAlways` (the hub): `OrderedOnce` is not inductive, since the iterator is an index into a list
  that shrinks. `Unserved` says that from the index on nobody has the current message, and `Coming` and
  `Received` that messages are taken in the order of publication.
* `IntelIsAlwaysSound` (threat intelligence): what a call is about to save is backed, not only what
  is in the caches; what was reported once stays reported (`ReportsStay`).
* `AccessIsAlwaysSound` (the authorizer): `ObjectsOK` says that a single enforcer, once loaded, agrees with
  the stored policy on all that does not fly; `CallInformed`, what a call knows: the rows it has read agree in the same way, and what it was refused was not surely
  stored; `CallsApart`, that two changes that are not marked are of different policies; `ObjectsCounted`, that calls not yet past the creation bound the number of
  enforcers to come.
* `CloudIsAlwaysSound` (the collectors): the records of a window that are not yet handed over are
  on the page in hand or on the pages to come, each in one place (`Spread`), and with those handed over
  they are all (`Covers`, up to the cap and unless the stream was refused); records of past streams are not
  touched again (`OfPastStreams`). For the queue, `ReadSoFar` is what was read of the message in hand, up to its file and record.

`LearningProofs`:

* `RoundsAverageTheirOwn` (the federation; any clients, datasets and bounds), from `AllKnown`: an
  update, and what a client remembers of its model, is of a round not later than the server's, and of the server's very model
  if it is of its round, unless a checkpoint was loaded in between; and from
  `PendingIsCurrent`. The two lemmas that count say that an update that replaces one of its client
  does not make fewer, and that there are as many clients as updates.
* `DecisionsAreAlwaysSound` (the brain; any flows, requests, bounds and horizon). A cached verdict
  lives as long as its level says (`Kept`), and a call that is answered from the cache has an age within it. A hot source is
  explained by a chain over the threshold (`Explain`): scores grow with the stages, targets
  and events of a chain (`ScoreGrows`), trimming events takes nothing from them (`StillExplain`),
  and a chain that is evicted takes its source with it (`KeptExplain`). That silence outvotes is arithmetic
  on the weights and the clip (`SilenceWeighsMost`).
* `PoliciesAreAlwaysSound` (the trainers; any agents, scores, batch sizes and lengths of episodes). Advantages are computed
  backwards through the buffer: `Reach` is the recursion's unique solution, and what it reaches from a
  transition ends where an episode does; with one agent in the buffer that is its own, and all of it is reached. `StepsAreCounted` ties the counts of an environment to its step, and rewards to what they judge;
  `TopsHistory` says that no score seen exceeds the kept one, `FirstOfBest` that those before it are lower.
* `LearnersAreAlwaysSound` (any feedback, accuracies, risks, capacities and bounds), which puts three theorems together.
  * `CheckpointAlwaysImproves`: `SavedInvariant` adds that the file is of this process or of an earlier one, and that it is not yet the best while
    it is being saved; the buffer
    stays within its capacity because sorting keeps its length (`SortedOrders`), also among priorities that cannot be compared, and what is dropped is something
    (`LearnerAssumption`); `DeadForAReason` rests on a count: a buffer without a zero and without a flaw has enough records to draw from.
  * `WindowIsAlwaysSuffix`: `Tidy` says that sizes of buckets are powers of two, the least set with 1 and all doubles,
    and fall strictly; hence each is at least twice the next. `Covers` ties the buckets to differences of partial sums of all values, at
    boundaries that end with the last value. Appending opens a bucket of one, after which two neighbours may
    have one size; merging from the right keeps the boundaries that are left and is tidy again after each step (`Joined`,
    `MergedCovers`), and trimming drops the first boundaries (`TrimmedCovers`). `_update_buckets` stops at the first pair of different
    sizes, where `Merged` goes on: the theorem shows that nothing further up would merge.
  * `LittleIsEverLost`: `NothingDropped` places each sample in a file or in the buffer; `UnsavedAreLast` says that, where saving goes well, the steps
    since the last checkpoint are the metrics modulo `SaveEvery`, which survives the cut of the metrics only
    because their maximum is a multiple of it (`LoopAssumption`; 1000 and 10 in the code).

`ServingProofs`:

* of the batcher (any requests, loops and batch size): `NoWakeupIsLost` (of
  `QueueSound`: a queue that is not empty leaves the event set or some loop
  awake: inductive relative to the types, since the loop that ends a turn re-arms itself), and
  `AnswersAreOwn`, the refinement of `RequestReply`: initial states map to initial states,
  and each action maps to an action of the abstract module or leaves its variables alone;
* `ServingIsAlwaysSound`, of the cache and the servers. `CacheInv` is `CacheFits` (bounds), `Loaded` (no entry
  was deleted, none is twice in the list) and the threads' states. A list that has the entries of another at other
  places, or new loads that are weighed only within what they replace (`Rearranged`, `Renewed`), takes no more weighed bytes, because
  there is an injection of the counted bytes; evictions from the front make room for what is appended
  (`EvictionsMakeRoom`), or empty the device. The servers' part is arithmetic on scores: a vector of the
  agent's length has padding where the heuristic rules look for the rates, so that they never block it.
* `RequestsAreAlwaysSound` (any clients, limits, rows, queries and indicators) puts three theorems together.
  * The limits, from `LimiterInv`. `Holds`: the deque of a key has every request it let through within the last
    window, whatever was dropped. `FlowedIn`: what a bucket let through since any `t`, plus what is left in it, is
    at most its capacity plus what flowed in from `t` to the last check. `InSeconds`: the counters
    of the seconds add up to what was let through in them, and a stale counter that is evicted counts for no
    window that is still open. A refusal's promise is kept (`PromiseOK`): the request that has to leave the window is
    the oldest one in it, and the missing part of a token flows in within the stated time.
  * The hunts, from `ForensicsInv`. `RowsOK`: what is stored was written, and nothing is written before its time. `StatsAgree`: the
    sums of a day that has not expired, added up, have as many flows as were written of it, however its rows were merged; the lemmas on sums over sets
    and bags (`SumOfTwo`, `SumOfParts`) serve this only. `PagesOK`: a listed flow that is neither read nor due has at least
    as many newer ones before it as were skipped (`Reaches`): an arrival before it only adds to these,
    and what is before it is newer: when that falls due, the flow is due too (`PagesKept`). `HuntOK`: what a search has found covers the base
    rows that are still stored, and was written for the very address.
  * The answers, from `ThorQLInv`. `RunningOK`: a query in hand is the one that was asked, transpiled; `AnsweredOK`: an answer
    holds, below its limit, all rows stored when the query began that meet its conditions, and an alert is about rows.
    A row that is wanted later was wanted before, if it was stored (`WantedEarlier`): windows only close.

Assumptions: those named in the modules, which TLC evaluates in the runs. Those that proofs made
necessary say what the code's own types say: risks are log-odds of probabilities (`BrainAssumption`), sizes
and budgets are numbers of bytes (`CacheAssumption`), signals are
normalised, and an agent's vector ends before the byte and packet rates (`ServeAssumption`), ids of
events and of detectors are unique (`CloudAssumption`), a token has a role (`AuthAssumption`), thresholds of alerts rise and the most that one type
of event may add is not above the lowest (`RiskAssumption`), windows are numbers of minutes (`XdrAssumption`), trainers have agents (`MarlAssumption`), feedback has
whole rewards (or a flaw) and the share that is dropped is at least one record (`LearnerAssumption`), risks are whole numbers (`DriftAssumption`),
clocks, capacities and rates are numbers (`LimiterAssumption`), there are finitely many rows with whole days and times, and an optional
parameter of a route has at most one value (`ForensicsAssumption`, `ThorQLAssumption`).

Proving corrected the models in four places that no run had shown. In `Authorizer`, the internal
roles were not taken out of `Roles`, because `UNION` binds looser than the set difference: it had
policies of roles that no call asks about, which no property notices. In `DecisionEngine`, `SilenceOutvotes` said that only an engine that is "as certain of
the contrary" prevails over a silent one; the weights differ, and the true bound is 0.98. In `SigmaEngine`, no
time passed during a check, and the proof showed that its invariant rested on that: a reload counts from its end
(`sigma_engine.py:349`), so that an edit it has just missed waits for the interval and the duration of the reload. In `Forensics`, a listing without an end
whose range grows beyond the maximum while it is read answers 400 (`routes/forensics.py`), and what it had not yet
shown stays unread: `PagesMissNothing` speaks of listings that end with a page.

## 5. Only model-checked

* Liveness (`IdleReclaimed`, `SuspiciousSampled`, `BufferedRowsSettle`, `BatchDrains`, `EverythingDelivered`,
  `EveryCallEnds`, `JobsEnd`): the provers have no fairness.

Every invariant and every action property of a passing run is stated by a theorem.

Two things cannot be stated here at all: an induction theorem with the property as a parameter, which is why
lemmas form the set of naturals, or of finite sets, that have it; and facts about RECURSIVE operators, of which the models have none.

## 6. Findings

1. `active_count` (`flow_manager.rs:173`) leaks upwards when two threads register the
   same flow, and nothing corrects it: run FlowTableLeak.
2. A stream message whose handler failed is not retried, contrary to the comment at
   `redis_streams.py:267` and to the promise of a dead letter queue at line 8: run
   StreamRetry.
3. A policy rule with a `geo_block_list` matches flows of every country
   (`policy_engine.py:393`), although `_match_rule` promises that all conditions are
   checked: run PolicyConditions.

`PROJECT.json` lists 55 more, found while translating and not turned into runs. They are of
these kinds; each property that such code touches is stated with the exception, never
weakened beyond it:

* success that is not one: `quarantine_host` never reads the results of its posts, and the
  rules it posts do not have the shape the rule store asks for (`services/soar.py:188,131`);
  an update of another round is rejected and answered with "accepted" (`fed_learning.py:415`);
  a log file that cannot be read is deleted from the queue (`aws_collector.py:418`); a busy window of CloudTrail
  is cut at 10000 items and a refused detector skipped (`aws_collector.py:112,261`); a row that came behind `close()` stays in its
  buffer (`clickhouse.py:756`);
* steps that fail half-way: a policy committed and not in the model, or in another order (`casbin_rbac.py:243`); a best
  score without its file (`online_learning.py:190`); samples that are never cleared (`incremental_trainer.py:165`); a malformed record that kills
  the learner (`online_learning.py:216`); a malformed alert that stops a playbook before it contains anything (`ransomware_response.py:112`);
* a list changed while it is iterated, so that a broadcast skips a client, and a gauge that
  is lowered twice (`connection_manager.py:34`, `main.py:37`);
* caches: an L1 that never forgets (`threat_intel.py:158`), a look-up by path of what is stored by
  hash (`model_cache.py:202`), a replacing `put()` beyond the budget (`model_cache.py:74`), a late explained verdict over a newer one (`decision_engine.py:341`);
* boundaries and units: `retry_after` one moment too early (`rate_limiter.py:41`), a score compared
  with 0.5 in one place and with 50 in another (`threat_intel.py:284`), windows that are not
  the documented ones (`event_stitcher.py:44`), the cap per event type (`risk_engine.py:142`);
* answers that cover another question: a dropped condition (`thorql/executor.py:163`), BETWEEN and OR taken apart (line 152), a hunt
  for networks (`routes/forensics.py:367`), rankings and joins (`clickhouse.py:627,656`), selectors
  replaced textually (`sigma_engine.py:309`);
* code that cannot run: imports and attributes that do not exist (`routes/xdr.py:14`,
  `decision_engine.py:238`, `yara_engine.py:263`, `apt_response.py:108`), records that cannot be serialised (`aws_collector.py:179`), a module that is no Python (`insider_threat_response.py:117`);
* training that does not train (`train_marl_full.py:303`), and rewards about a flow that the agent
  has not seen (`environment.py:217`).

## 7. Not modelled, and the plan

Not modelled for good:

* neural networks, gradients, noise and statistics in floating point; the ClickHouse schema;
* adapters: integrations, compliance, reporting, dashboard, the agent's gRPC server, configuration and
  telemetry, the legacy agent: input and output without state of their own;
* the agent's EDR: heuristics over operating system data; the Windows drivers, whose kernel
  interfaces are outside the repository;
* `StreamRouter`, which only dispatches; STIX export; the verification of tokens (a library)
  and the static tables of roles; the audit log, which only appends.

Still worth modelling: the connection table of the data path (`xdp_conntrack.c`: one value per
CPU, so that the packets of a handshake meet different states), the agent's event processing
(flows leave the table before the inference call), and the composition of ingester, stream,
consumer and writer: what the pipeline as a whole promises about an event.

The theorem still worth proving is the one about that composition; no safety property of a run is left.
