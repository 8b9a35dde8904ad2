# TLA+ verification of nvidia-api-gateway

The gateway serves OpenAI, Claude and Gemini style requests with a pool of upstream API
keys. It picks a key for every request, retries with the same key and with others, marks
keys that the upstream refuses, probes them later and brings them back, and does so while
administrators change the pool. This directory models that behaviour in TLA+, checks it with
TLC on small instances and proves the central results with TLAPS.

## 1. The system

All goroutines live in one Go process (`serveBackend` in `main.go`); state is in package
variables and structs protected by mutexes, and in JSON files.

| Component | State | Operations | Correct when |
|---|---|---|---|
| Local scheduler (`pkg/scheduler/redis.go`, no Redis) | rotation with weights and credits, cooling and dead marks, slots in use | acquire, try a given key, release, mark, add, reset | no slot is lost, no key is starved, the limit holds |
| Redis scheduler (same file) | the same in Redis keys with TTLs | Lua scripts | as above, for several processes |
| Key pool (`loader.go`, `status.go`, `recover.go`, `probe.go`, `pkg/prober`) | rows of the store; the scheduler is their image | load, restore, probe, persist a verdict | the scheduler follows the rows, recovers, and respects the admin |
| Key administration (`admin.go`, import and bind files) | rows | add, update, delete, status, probe, reload | an admin's decision wins |
| Request loop (`proxy.go`, `responses.go`, `embeddings.go`, `stream_live_compat.go`, `upstream_attempt.go`, `upstream_error_policy.go`) | one goroutine per request | attempt with a key, retry, back off, answer, charge | one lease at a time and returned, one charge, one answer |
| Conversation affinity (`upstream_affinity.go`) | conversation -> preferred key, 2 h TTL | get, set, clear | a failure only unbinds its own key |
| Stream drain and relay (`stream_drain.go`, `stream_live_compat.go`, `responses.go`) | reader goroutine, pooled buffer, translator flags | read, write, abort, finish | no buffer reuse, well-formed streams, no retry after output |
| Responses store (`responses_store.go`) | response and conversation by ID, 30 min TTL | put, get | expired entries are not served |
| Usage (`pkg/middleware`) | quota per master key | check, record | the quota is overshot by no more than what is in flight |
| Data store (`pkg/db/db.go`) | cached snapshot, ten JSON files | read, update, start-up with migration | readers see whole updates; a crash is explicable; ids are not reused |
| Xray manager (`core_xray_manager.go`, `admin_core_profiles.go`) | child process, its binary and configuration, profiles with their ports, managed proxies | reconcile, download, start, stop, wait | no process is lost, the enabled profiles are served |
| Proxy pool (`proxy_pool.go`, `transport_cache.go`) | index of proxies and keys, failover and cooling maps, transports | rebuild, look up, promote | a failover leads to a path that works; bindings decide the route |
| Proxy import (`proxy_import_manager.go`, `free_proxy_import.go`) | one task, schedule, log | start, test, persist, clean up, log | one run per scheduled minute; what was added by hand is spared |
| Health (`health.go`, `upstream_runtime.go`) | report, history, catalogue, persisted copy | run, put, hydrate | every model is reported; a restart serves the same |
| Translation, tokenizer, utilities, frontend | none | pure functions, a web client | (conversion tests) |

**Interaction.** A request asks the affinity store for its preferred key, tries it in the
scheduler, or polls the scheduler every 500 ms for 45 s; the first time it finds nothing it
runs a restore itself. It calls the upstream; a 429 or 401/403 marks the key in the
scheduler and then, separately, the row in the store. The refresher (5 min) reloads the
scheduler from the rows; the prober (5 min) and the boot restore rows first and reload then;
every admin handler that changes rows, proxies, configuration or Xray profiles reloads too.
A reload reads the rows once, then calls `Reset` and one `AddKey` per row, each under the
scheduler's mutex but not together.

**Hard behaviours.** Reloads of several threads interleave with one another and with
requests; counters are reset under requests in flight; restores act on snapshots;
cancellation arrives anywhere in two nested retry loops; the affinity store is read and
written in separate steps. `PROJECT.json` lists these as hazards, each with its line and the
properties aimed at it, and those that no property covers yet.

## 2. Modules

| Module | Models | Uses |
|---|---|---|
| `Scheduler` | the local scheduler and its callers | |
| `KeyPool` | rows, loader, restores, prober, admin handlers, requests as seen by the pool | `Scheduler` |
| `RequestLoop` | one request's path through both loops, affinity, charging | |
| `StreamDrain` | plain streams: reader goroutine, pooled buffer, drain, heartbeat | |
| `StreamRelay` | translated streams: attempts, line reader, keep-alive, Claude and Gemini translators | |
| `StoreRows` | the rows of the store as functions of the admin handlers: ids, bindings, managed proxies, ports | |
| `Store` | the cache, the ten files, updates, start-up, migration, crashes | `StoreRows`, `CrashRegister` |
| `CrashRegister` | abstract: a register of several parts that survives crashes | |
| `XrayBinary` | how a reconcile comes by a working xray binary | |
| `XrayManager` | reconciles, the configuration, the process and its waiter, the profile handlers | `XrayBinary`, `StoreRows` |
| `ProxyPool` | the proxy index, effective proxies, cooling, failover | |
| `ProxyImport` | the import's task, schedule, persistence, clean-up and log | `StoreRows` |
| `HealthReport` | the health report in memory and on the disk, the sweep's worker pool | |
| `StoreRowsProofs` | lemmas: what the row operators keep and establish in any store | `StoreRows` |
| `KeyPoolProofs` | theorems about the scheduler and the pool | `KeyPool` |
| `StoreProofs` | theorems about the store | `Store`, `StoreRowsProofs` |
| `ManagerProofs` | theorems about the background managers | `XrayManager`, `ProxyImport`, `StoreRowsProofs` |
| `UpstreamProofs` | theorems about the way to the upstream and back | `ProxyPool`, `StreamRelay` |
| `RequestLoopProofs`, `StreamDrainProofs`, `HealthReportProofs` | theorems | the module they name |
| `MC...` | instances for TLC | the module they name |

### Scheduler

`active`, `weight`, `current`, `cooling`, `dead`, `concurrency` are the fields of
`Scheduler` and `localKey`; a map entry that is absent is 0. `now` is the clock in seconds
(bounded by `MaxTime`), `holds` the key each caller acquired and has not released; it stands
for the local variable `key` of the request handlers. Every operation holds `Scheduler.mu`
from beginning to end and is one action: `AcquireKey` and `AcquireNothing` are the two
outcomes of the Go function (purge, eligibility, credit, choice, payment),
`TryAcquireSpecificKey`, `ReleaseKey`, `MarkCooling` (negative durations are possible
through Retry-After), `MarkDead`, `AddKey`, `Reset`, `CleanupExpired`. The code's weights
are positive floats and the limit may be given as 0 or less, which the operations replace;
the model takes weights 1..`MaxWeight` and the effective limit `MaxConcurrency`.
A key's credit may exceed the sum of the active weights: of keys with weights 8, 1, 1 and 1
that drop out and return, one can be owed 12. `DebtBounded` states the bound that holds.

### KeyPool

Extends `Scheduler` with the rows (`status`, `probeOnly`), the upstream's opinion
(`health`), and the program counter, snapshot and pending verdict of every thread. Threads
are requests, admin handlers, probers and the main goroutine, which boots with a restore and
then becomes the refresher. `LoadActiveKeys` is `LoadRead`, `LoadReset`, one `LoadAdd` per
row in store order, and `LoadEnd`, which also is where a row that does not decrypt
(`Broken`) ends the load. `restoreAPIKeyStatuses` is `RestoreRead`, then `Probe` and
`Record` per row, then a load. A request's `Answered` marks the scheduler, `Persist` the
row, `Release` returns the key. Row updates are atomic because `UpdateStore` holds a mutex
over the read, the mutation and the write.

### RequestLoop

One program counter per request walks through `executeOpenAINonStream` ("chat"),
`executeOpenAIStream` ("chatStream"), `executeTranslatedCompatStream` ("compat"),
`executeResponsesStream` ("responses"), `executeOpenAIJSONPath` ("embeddings") and
`fetchUpstreamModels` ("models"). They share the shape of the loop and differ in the budget,
in whether the head looks at the context, in what is done with an error, where the binding
is forced, and what is charged; those differences are the conditions on `flow`.
`executeUpstreamJSONRequest` and `openUpstreamStream` are `Open`, `Accepted`, `Refused`,
`Transient`, `Failed`, `Backoff` and `Unbind`. The scheduler is abstracted to "any key may
be had, or the preferred one refused": `KeyPool` says when. `leases` counts acquires minus
releases, `lateCalls` the upstream calls begun on a cancelled context, `charged` the calls
of `UsageTracker.Record`. `Leave` cancels the context of the flows that use the HTTP
request's one (it also stands for a server shutdown); "embeddings" and "models" run on
`context.Background()`. The affinity store's expiry is `Expire`.

### StreamDrain

Each stream is three processes: the handler (`pc`; the loop of `drainOpenAIChunks` is the
place "select", its deferred function "abort" and "join"), the reader goroutine (`rpc`) and
the heartbeat goroutine (`hpc`). The unbuffered `results` is the joint step `Receive`.
`closed` stands for the closed `abort` channel and the closed body, which `doAbort` closes
together. `pool` and `made` are the `sync.Pool` and the buffers it ever made. `Read` fills
the buffer and `Copy` copies it in a second step, so that a shared buffer would show. The
upstream's answer is `Length` units, two to an event, the last event `[DONE]`; the first
`Prefetched` come out of the `MultiReader` and are read even after a cancellation. Appending
to the response is two steps (`BeginWrite`, `EndWrite`; `Beat`, `BeatWrite`), because
nothing keeps handler and heartbeat from appending at the same time: who ends last has
overwritten what came in between, as two unsynchronised `append`s do. Time is abstracted: an
idle timer may fire in any wait.

### StreamRelay

`executeTranslatedCompatStream` is `AnswerCancelled`, `Acquire`, `OpenUpstream`, `Settle`
and `Exhausted`; `relayOpenAIStream` is the rest. Each line of the upstream is read by a
goroutine of its own (`reader`), which leaves it in a channel with room for one (`line`) and
exits; a goroutine of an attempt that has ended returns when its body is closed. `pending`
is `dataLines`. The two translators are the functions `ConsumeWrites` and `FinishWrites`
(the events they emit) with `ConsumeState` and `FinishState` (their fields). `out` is what
the client has received over all attempts, `head` the kind of answer that the first write
announced: an event stream, the plain answer a keep-alive implies when it comes first, or an
error's JSON. A chunk is one of six kinds: text, a tool call with or without arguments,
another tool, a role only, and one that is no JSON. Nothing follows `[DONE]`.

### StoreRows and Store

`StoreRows` has one operator per mutator that admin handlers, the import and the xray
manager pass to `UpdateStore`, from store to store: rows are functions from ids to what
matters of them (whom a proxy belongs to, the profile it serves, its endpoint, whether it is
enabled), and each list carries its id counter. `Store` is `db.go`: `BeginUpdate` takes the
clone of the cache under `storeMu`, `Replace` renames one file after the other in
`WriteOrder`, `Commit` refreshes the cache, `FailWrite` leaves it, `Remove` is the fallback
for a rename that is refused. `Crash` may come between any two steps; `Start`,
`MoveLegacyFile`, `Layout`, `Created`, `EnsureFile` and `Open` are the start after it, over
the directories of `Legacies`. A directory is a function from the names of the files it
holds; a file is blank (the NUL bytes of a power failure) or holds its part of the store.
What a legacy directory may be is `LegaciesAssumption`: files of the right types, and
bindings that resolve.

`CrashRegister` says what that amounts to. Readers see the last value that was stored whole;
a failed update leaves no trace while the process lives; after a restart each part is as it
was last stored or as an attempt since then would have made it; a part that was taken away
(the Windows fallback's first step) comes back as one of its `Fallbacks`. `ImplementsRegister`
is the refinement, with the cache as the register's value while the process is up and the
last promise while it is not. The fallbacks are the default and what older releases left: an
earlier version of the register allowed the default only, and its proof failed at the start
that finds a legacy file which the first start did not move because the store had that file
already. When the store's newer file is lost later, the old one is taken over. TLC then
confirmed it on such a directory, which is among those of `MCStore`.

### XrayBinary and XrayManager

A reconcile (`XrayCoreManager.reconcile`) is a thread: `Sync` (profiles, ports and managed
proxies in one update), then the binary, then `BeginConfig` and `EndConfig` without a lock,
then the manager's lock for `StopCore`, `KeepCore`, `FailStart` or `StartCore`, and the wait
for the ports under it (`PortsReady`, `PortsMissing`). The ticker's thread starts one every
30 seconds, admins start others with their changes. Processes are slots: starting,
listening, killed, dead, and free again when their waiter (`WaitCommand`) has run, which
takes the lock. In `XrayBinary` a file is nothing, whole, torn or being written by a thread,
so that two downloads to one `.part` file and two extractions over one binary meet.

### ProxyPool

`index` and `byKey` are rebuilt together by each load from a store it read earlier; the
failovers and the cooling stay. A request reads its key's entry (`Begin`), resolves it to a
proxy (`Route`), and when it fails looks the proxy up again to blame it (`Recover`), chooses
a replacement from the store (`Choose`), resolves that (`Resolve`) and sets it under the
lock (`SetFailover`): five steps of one request that those of another come between.
A proxy's runtime information is its id; latencies are taken as equal. `Break` ends a path
for good, at any time; a call over a path that works may fail too, `MaxSpurious` times.

### ProxyImport

`jobs` are the goroutines of the tasks: fetch, test, persist, reload, end, log; `task` is
the manager's one task. The schedule's goroutine reads the schedule (`RunScheduledIfNeeded`),
starts the task (`StartScheduled`) and records the run (`RecordLastRun`) in three steps,
between which admins edit the schedule or start an import. `Upserted` and `Cleaned` are what
the one update makes of the proxies that are there by then. Minutes pass at any time.

### HealthReport

Memory and disk hold report numbers instead of reports. A request loads the disk's copy
(`Load`), fills memory field by field (`Fill`), and lists models, or checks and puts its
report: under the lock into memory (`Put`), then, with the copy made there, to the disk
(`Save`). `runModelRunTasks` is `Dispatch`, `Checked`, `Deadline` and `Close`. `calm` sets
apart what the code does not order: saves that overtake one another or overlap a load.

## 3. What the runs check

| Run | Question | Bounds |
|---|---|---|
| `MCScheduler` | `NoSlotLeaked`: no interleaving of releases with `Reset`/`MarkDead` leaves a slot occupied. `DebtBounded`: no key is ahead or behind by more than the largest weight for every other active key. `CreditConserved`: a round takes what it gives. `TypeOK`: counters never go below zero. | 3 keys (weights 1 or 2, 1, 1), 2 callers, limit 1, 2 time units |
| `MCKeyPool` | `ImplementsScheduler`: every step of the pool is a scheduler step or leaves it alone. `DisabledIsFinal`: a settled disabled key is not revived by anyone but an admin. `PoolInv`. Under fairness `HealthyKeyReturns`, `WithdrawnKeyLeaves`, `LeaseReturned`. | 1 key, 1 request, 1 admin, prober, refresher, 2 time units |
| `MCRequestLoop` | `LeaseMatchesPath`, `ChargedForAnswers`, `OneLateCall`, `UnbindsOwnKey`, `Answered` | a request of every kind beside an embeddings request, 2 keys, 1 conversation, 2 attempts in chat loops, 1 retry per key |
| `MCRequestLoopFake` | violation: `CancelledNotFaked` | 1 chat request |
| `MCStreamDrain` | `BufferHasOneOwner`, `NoReaderLeft`, `PassedOnFaithfully`, `CachedWhole`, `DrainEnds` | 1 stream of two events, reads of 1 or 2 units, 1 heartbeat |
| `MCStreamRelay` | `WellFormed`: over all attempts the client gets one well-formed message. `ChargedForWhole`: only a message with content and an end is charged. `RelayEnds`: the handler ends and leaves no goroutine and no lease. | both protocols, 2 attempts, 4 chunks of six kinds |
| `MCStore` | `ImplementsRegister`; `BindingsResolve`: no key is left bound to a proxy that is gone; `IdsNotReused` | 1 key, 2 proxies, 1 profile, 1 crash, 1 failure, 6 directories to start from |
| `MCXray` | `NoOrphan`; `SyncRepairs`: a reconcile leaves profiles and managed proxies in step; `EnabledServed` | ticker and 1 admin, 2 profiles, 1 change, 1 fault, 3 processes |
| `MCProxyPool` | `ManualStays`, `FaultSurvived`, `BindingTakesEffect` | 3 managed proxies, any one of which breaks at any moment, and a manual one, 1 key, 2 requests, 1 loader, 1 change, 1 failure of a good path |
| `MCProxyPoolStuck` | violation: `PromotedTakesOver` | the same, none broken, 2 failures |
| `MCProxyImport` | `OncePerMinute`, `ScheduledMinuteServed`, `ImportSparesManual`, `EveryTaskLogged` | 2 endpoints, 2 minutes, 2 tasks, 1 event (a change, a failure or a restart), log of 2 |
| `MCHealthReport` | `EveryModelReported`, `RestartServesTheSame`, `EveryRequestEnds` | 2 requests, 2 models, 1 worker, 2 checks, 1 list, 1 fault, history of 2 |

**Why the bounds are enough.** The scheduler's hazards need a key that drops out and comes
back while two others rotate (three keys), and a slot that is counted when its holder's
counter was cleared (two callers, limit 1). In the pool, two threads over one key already
produce every order of read, reset, add, mark, persist and record. `MaxTime` 2 lets a
cooling expire once. In the request loop and the relay the second attempt is where state of
the first could survive. Row ids grow and are never reused, so a deleted row stays deleted.
Two events are needed for a chunk to end inside one; that buffers are not shared between
streams is proved for any number of them. Four chunks open, close and reopen a text block
around a tool. A store with one key and two proxies has a binding to lose and an id to reuse
in every file that a crash can tear from another; a second crash, during the start after
the first, is beyond the bound. Two reconciles are the least that race,
three process slots hold one that runs, one that ends and one that waits for its waiter (a
new process takes whichever slot is free: they only tell processes apart). In
the proxy pool three managed proxies leave a choice when one fails and one cools; the one
that breaks may be the key's own, its replacement or the third, before or after a failure
of a good path made another cool. With one loader two reloads do not overlap; that a load
brings a store it read before a change is in the run. Two tasks
and two minutes let an import run past the end of its minute. Two checks with one worker put
the deadline before, between and after the models.

**Violations.** `MCRequestLoopFake` shows that a client that leaves while its request waits
for a key in the last attempt is answered by the silent 200 fallback: the queue's
`ctx.Err()` counts as a failed attempt, and the check at the loop's head is not reached
again. `MCProxyPoolStuck` shows that `setProxyRuntimeFailover` may map a proxy to itself:
it looks the chosen replacement up, and that lookup follows the replacement's own earlier
failover, back to the proxy that failed. It takes three proxies and two failures: 1 fails
over to 2, the cooling of 1 ends, 2 fails, 1 is chosen and looked up, and 2 is mapped to 2.
A key on 2 stays there although 3 works, also when 2 is broken for good. `FaultSurvived`
therefore sets a proxy that is mapped to itself apart; it says that there is no other way
to stay on a broken path. Both are recorded as findings with the text they contradict.

**Fairness.** `KeyPool` assumes weak fairness of each thread's own steps (a runnable
goroutine runs; probes and calls are bounded by client timeouts), of the two tickers, and of
a request that can proceed; nothing is assumed of clients, admins or the upstream.
`HealthyKeyReturns` speaks of keys that the upstream accepts from some point on.
`RequestLoop` assumes that a request keeps taking steps: waits for a key end after 45 s,
calls and silent streams after the configured timeouts. `StreamDrain` and `StreamRelay`
assume that goroutines run, that a wait of the handler ends (by a line or result, the idle
timer or the context), and that a read of a closed body returns; nothing is assumed of the
upstream or the client, and heartbeats need not tick. A stream that never ends and never
falls silent is not bounded by the code, and is excluded by this assumption. `XrayManager`
assumes that the ticker ticks, reconciles go on, processes come up and a killed one ends;
the waiter has strong fairness because it waits for a mutex that others take again and
again. `ProxyPool` assumes that loads recur, that the ten minutes of a cooling pass, and
that a key in use is used again (strong, because a request may be serving another key). `ProxyImport` assumes that a task's goroutine
runs, `HealthReport` that a request's goroutine, its workers and its dispatcher do; the
deadline need not come for a request to end. `Store` has safety properties only.

## 4. What is proved

All theorems hold for every value of the constants allowed by `SchedulerAssumption`,
`KeyPoolAssumption`, `RequestLoopAssumption`, `StreamDrainAssumption`, `PoolAssumption`,
`HealthAssumption`, `BinaryAssumption`, `ManagerAssumption`, `StoreAssumption` and
`LegaciesAssumption` (finite sets of keys and requests, a sentinel that is not a key,
positive weights and limits, disjoint kinds of threads and of proxies, ids that are numbers,
legacy directories of the right types whose bindings resolve).

- `TypeCorrect`: `Spec => []TypeOK`. `TypeOK` is inductive; the work is that the total
  weight of eligible keys is a number (`TotalWeightIsNat`, by finiteness) and that slots are
  not released below zero.
- `SlotsNeverLeak`: `Spec => []NoSlotLeaked`. `TypeOK /\ NoSlotLeaked` is inductive: an
  acquire adds its caller to the holders of the key it counts (`AcquireAddsHolder`), a
  release takes one from both or finds zero (`ReleaseRemovesHolder`), and resets only lower
  the count.
- `PoolInvariant`: `PoolSpec => []PoolInv`. A thread that is calling, persisting or
  releasing holds a key, any other request holds none, and whoever is about to write a
  status has one. These conjuncts are what the refinement needs: without them a release or a
  mark could act on no key.
- `PoolRefinesScheduler`: `PoolSpec => ImplementsScheduler`. From `PoolInv`, each pool
  action is one scheduler action or a stutter, so what is proved of the scheduler holds of
  the pool:
- `PoolLeaksNoSlot`, `PoolDebtsAreBounded`: `PoolSpec => []NoSlotLeaked` and
  `PoolSpec => []DebtBounded`.
- `RoundsConserveCredit`: `Spec => CreditConserved`. The sum over the keys is a fold, so the
  argument is an induction over sets of keys; it is had from the least set for which a claim
  would fail, which exists because the keys are finitely many (`LeastSetOfKeys`). The fold is
  defined (`SumExists`), does not depend on its order (`SumRemove`), and a claim that survives
  one more key holds of every set (`KeyByKey`). `RoundAddsUp` says what a round does to every
  set's sum.
- `DebtsAreBounded`: `Spec => []DebtBounded`. The bound of one key is not inductive: what a
  key can be owed depends on what others are owed together with it. `DebtInv` bounds every
  set of live keys: j of n active keys are owed, and owe, at most MaxWeight * j * (n - j)
  together (`WithinDebt`), and a key that is dead or not active is even. A round pays from
  the key with the most credit, so each key that takes part has no more than it; the bounds
  of the set without those that take part, and of the set with the served key, then average
  to the bound of the set (`DebtIsConcave`, `Averaging`, `RoundKeepsDebt`). Looking for this
  proof showed that the property, which had named the sum of the active weights, held on the
  small instance only; it was corrected.
- `AdminsDecide`: `PoolSpec => DisabledIsFinal`. From `PoolInv`, no step but an admin's writes
  another status to a settled key's row, loads it or takes it up: a load takes `Enabled` rows
  (`LoadLeavesSettled`), a request works with a key of the rotation and writes about the one
  it holds (`RequestLeavesSettled`), a restore or probe about one that it has read, and the
  other handlers about other keys or the probe-only flag (`AdminLeavesSettled`).
- `RequestLoopProofs` has one inductive invariant, `LoopInv`, for the five properties of the
  loops: `LeasesMatchPaths`, `ChargesMatchAnswers`, `AtMostOneLateCall`, `UnbindingsAreOwn`,
  `TypeCorrect`. Its four parts per request are what the properties leave unsaid: the loops'
  variables are below their budgets (`WithinBudgets`), a request that binds or forgets a key
  knows it (`KnowsItsKey`), nothing is charged before the last step (`ChargedLast`), and
  after a call on a cancelled context nothing follows but release and answer (`LateIsLast`;
  without it a second late call could not be excluded).
- `BuffersHaveOneOwner`, `NoReaderOutlivesItsDrain`: from `DrainInv`, which adds to the two
  properties that a reader has a buffer exactly between its first and its last step and that
  every buffer in use was made by the pool (`HoldsWhileReading`): a new buffer is then
  nobody else's.
- `StreamsArePassedOn`, `WholeAnswersAreCached`: `Spec => []PassedOnFaithfully` and
  `Spec => []CachedWhole`. `DataInv` follows the bytes: what was copied, what the handler has
  in hand and what the reader has in its buffer or its payload are consecutive parts of what
  the upstream sent (`Pipeline`); an end of file is read and received after all of it
  (`EndOfFile`); and what the client was sent, and what a write under way found there, is the
  copy unless a heartbeat is in it (`Client`). The payload is a copy, so that a buffer goes
  to another stream without a trace; this uses `BufferHasOneOwner`.
- `FailoverStaysManaged`: `Spec => []ManualStays` of `ProxyPool`, for any number of requests
  and loads. A request carries the proxy it blames and its replacement over several steps in
  which everything may change, so the invariant also says that both are proxies that xray
  serves while it does (`BlamesManaged`), and that a load carries a well-typed store
  (`LoadsOK`). `LookupLeads` and `EffectiveLeads` say where lookups can lead.

- `StoreRefinesRegister`: `Spec => ImplementsRegister` of `Store`, for every legacy
  directory and any number of crashes, failed writes and refused renames. `RegisterInv` says
  of each file what a start would take over for it: what was promised, what an attempt since
  then would have made it or, if it was taken away, a leftover (`DiskOK`); that the files
  before the one a write is at are the new ones (`JobOK`); that readers see the promise and
  a file missing under them is counted as lost (`UpOK`); and what start-up has in hand
  (`OldOK`, `StartOK`). Each action has a lemma that keeps it (`MoveKeeps`, `ReplaceKeeps`,
  ...), and `StepRefines` maps each to an action of the register or a stutter.
- `BindingsAlwaysResolve` and `IdsAreNew`: `Spec => []BindingsResolve` (with `Store`'s
  `TypeOK`) and `Spec => []IdsNotReused`. They need `StoreInv`, which adds to `RegisterInv`:
  everything read or written is a store (`StoresOK`); while nothing went wrong, each file is
  the cache's until the write has been there, and the new keys resolve in the old proxies as
  well as in the new (`Resolving`; this is why a crash between the two files, which replaces
  the keys' first, leaves no dangling binding); and no attempt, promise or file has a counter
  below an id given out (`Issuing`). That every update an admin can cause is of this kind
  (`UpdateProceeds`) rests on the lemmas of `StoreRowsProofs` about each row operator, the
  sync of core profiles included.
- `NoProcessIsLost` and `ReconcileRepairs`: `Spec => []NoOrphan` and `Spec => SyncRepairs`
  of `XrayManager`. `XrayInv` says that a command stays named while a thread waits for its
  ports or its process runs (`CmdOK`), that a thread in the midst of a download has addresses
  left (`BinaryOK`), and that the store is typed with profiles and managed proxies naming
  each other (`StoreOK`). `SyncMatches` then is a fact about any such store: the n-th free
  port exists (`NthFree`), new proxy ids are consecutive (`Numbered`), so that no two
  profiles share either. The proof attempt showed that `NothingLocal` of `XrayBinary` had to
  say what happens with an empty list of addresses; it was corrected from the code.
- `ModelsReported` and `SavesServeRestart`: `Spec => []EveryModelReported` and
  `Spec => []RestartServesTheSame` of `HealthReport`, from `HealthInv`: a sweep skips
  nothing before its deadline and has no more workers than it may (`RunsOK`); each history,
  wherever a copy of it is, names checks that were made, each once, and none still at work
  (`HistoriesOK`), so that a put lands as it should; and while the saves are calm, who saves
  has memory's copy and otherwise the disk is as memory (`SavesOK`).

- `StreamsAreWellFormed` and `ChargesAreForWholeStreams`: `RelaySpec => []WellFormed` and
  `RelaySpec => []ChargedForWhole` of `StreamRelay`, for any number of attempts and chunks.
  `RelayInv` says of the events written so far that they are a message whose blocks
  1 .. n - 1 were opened and of which those in S are open (`Message`), where n and S are what
  the translator remembers (`WrittenBy`: the next index, the open text, the tools); that a
  chunk which was read and is not translated yet is accounted for by one index (`ChunksOK`),
  which is why the indexes stay below the bound, a line left from an attempt before
  included; and that only a stream of which nothing was written is tried again (`ResultOK`).
  What a translator writes is put together from few lemmas about one message: it starts
  (`MessageStarts`), opens a block (`MessageOpens`), goes on in an open one
  (`MessageGoesOn`), closes all that is open (`MessageCloses`) and ends (`MessageEnds`);
  `ConsumeKeeps` and `FinishKeeps` are these for a whole chunk and the end.
- `OncePerMinuteHolds`, `ScheduledMinutesAreServed`, `ImportsSpareManual`:
  `ImportSpec => []OncePerMinute`, `ImportSpec => ScheduledMinuteServed`,
  `ImportSpec => ImportSparesManual` of `ProxyImport`. `ImportInv` says that once a minute's
  import was started, `LastRunAt` says so, or the task at work is still to write it, or a
  restart or a failed write excuses it (`MinuteOK`); that in a calm minute nothing but the
  scheduled task can stand in its way (`CalmOK`); what the tasks carry (`TasksOK`); and that
  the rows are a store with proxies of both kinds (`ImportRowsOK`). The clean-up and the
  replacement of rows are operators on any such store (`FoundRowsDeleted`,
  `ResultsUpserted`, `ImportSpares`).

Every invariant, every action property and both refinements that a passing run checks are
proved. Only model-checked is what must happen under fairness (`HealthyKeyReturns`,
`WithdrawnKeyLeaves`, `LeaseReturned`, `Answered`, `DrainEnds`, `RelayEnds`,
`EnabledServed`, `FaultSurvived`, `BindingTakesEffect`, `EveryTaskLogged`,
`EveryRequestEnds`): liveness is outside the prover's reach, as are ENABLED and recursive
operators; no module here declares a recursive operator.

## 5. Plan

In order of what the system depends on most:

1. `Scheduler`, `KeyPool`, `RequestLoop`, `StreamDrain`, with their proofs; `StreamRelay`,
   `Store`, `XrayManager`, `ProxyPool` with its proof, `ProxyImport`, `HealthReport`: done.
2. Proofs: `Store`'s refinement and invariants, `NoOrphan` and `SyncRepairs`,
   `RestartServesTheSame` and `EveryModelReported`, `CachedWhole` and `PassedOnFaithfully`,
   `DisabledIsFinal`, `CreditConserved` and `DebtBounded`, `OncePerMinute` and what imports
   spare, `WellFormed` and `ChargedForWhole`: done.
3. `RedisScheduler` against `Scheduler`; the quota of a master key, with the overshoot
   bounded by the requests in flight; the relay of the Responses API.

## 6. Not modelled

Redis mode. Quotas and authentication; the responses store, the semantic cache's similarity
search and eviction, the transport cache. The contents of requests and answers, of the xray
configuration and of subscription texts: request translation, share links and their import,
the tokenizer, and what single health checks and connectivity tests measure. Diagnostics,
logs, metrics and progress counters. Replacing the plaintext of a row, two rows with the
same plaintext, a missing encryption key. In `Store`: the backup of an older SQLite database
and files that are damaged otherwise than blank. In `ProxyPool`: failover of proxies that
only the configuration names by URL. The admin frontend and the process that serves it.

Some behaviour is in the models but no property claims the opposite, because the code does
not prevent it; `PROJECT.json` lists it under the hazards: a reload forgets the requests in
flight and with them the limit per key; the heartbeat of a plain stream writes without a
lock; a client's leaving may look like the upstream's failure; a scheduled import is skipped
while another runs; health snapshots are saved in any order; a crash after a failed write
leaves what had been written; a restore under way overwrites the status of its key, and a
reload between a refused key's mark and its record revives it until it is refused again.
