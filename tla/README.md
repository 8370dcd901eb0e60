# GoModel in TLA+

GoModel is an AI gateway written in Go: one OpenAI-compatible HTTP server in
front of many model providers. This directory models the parts of it that keep
state, run concurrently or translate streams in TLA+, checks the models with TLC
on small instances, and proves the safety properties that matter most with TLAPS
for every value of the constants. Paths below are relative to the repository;
modules, `.cfg` files and `PROJECT.json` (the map from definitions to source
lines, the runs, mutants, hazards and theorems) are in this directory.

```
tlc -workers 2 -config RequestPath.cfg MCRequestPath.tla     # check a model
tlapm SharedStateProofs.tla                                  # check its proofs
```

## 1. The system

A request passes the HTTP server and its middleware (authentication, audit), is
resolved (aliases, overrides, workflow, guardrails), looked up in the response
caches, charged against the budgets, executed with fallbacks, routed by the model
registry to a provider adapter, and sent by that adapter's client. A streamed
answer passes the adapter's converter and the observers on its way back. The
request leaves an audit entry and a usage entry in two buffered loggers, whose
events the live broker streams to the admin dashboard. Background goroutines
refresh the registry and the configuration snapshots. The parts, with what makes
them hard:

| Part (under `internal/`) | State | Operations | Hard behaviour | What makes it correct | Module |
|---|---|---|---|---|---|
| `llmclient`: breaker and client | breaker state, counters, probe gate; per request the retry loop | DoRaw, DoStream, DoPassthrough, acquire, RecordSuccess/Failure | late outcomes of other requests, a probe that ends without an outcome, retries | one probe per outcome, it switches on true streaks, every request observed once, the circuit heals | `CircuitBreaker`, `LLMClient` |
| `responsecache` | exact and semantic store, write queue, workers | TryHit, StoreAfter, enqueueWrite, close | enqueue against close, answers of fallbacks, broken streams, a moved alias | a hit is an ended answer of the model asked for; implements `DrainContract`; close ends | `CacheWriter`, `ResponseCache` |
| `gateway` inference | none that outlives a request | resolve, authorise, budget, execute, fallbacks | the order of checks and caches | as above | `ResponseCache` |
| `gateway`: batches; `batch`, `filestore` | one stored record per batch, upstream batch, uploaded files, hints of the adapter | Create, Get, Cancel, Results | whole-record writes from old copies, rollback that fails half-way | no orphan file or batch, the input file kept while the batch runs, deleted after | `NativeBatch` |
| `conversationstore`, `responsestore` and their handlers | map with TTL, insertion order, cap | Create, Get, Update, AppendItems, Delete | copies held across provider calls, eviction, sweep | no exchange lost or reordered, what is gone stays gone | `Conversations` |
| `authkeys`, `aliases`, `modeloverrides`, `pricingoverrides`, `budget` tables | a stored table and a snapshot | Upsert, Delete, Refresh, loop | unserialised refreshes, rollback and reconciliation that fail | the snapshot is the table at rest, and heals | `CachedTables` |
| `workflows`, `guardrails`, their admin handlers | definitions, versions, one active per scope, compiled snapshots per instance | Create, Deactivate, Upsert, Delete, Refresh, Match | three mutexes, two loops, several instances, crashes | references resolve, edits take effect at once and everywhere in the end | `Workflows`, `GuardedRequest` |
| `usage`, `auditlog`: loggers | channel, WaitGroup, closed flag, batch, store | Write, Close, flushLoop, flushBatch | Write against Close, full buffer, partial batch failure | nothing accepted is lost, the store is closed last, one terminal event per entry | `AsyncLogger`, `DrainContract` |
| stream converters and observers (`providers`, `anthropicapi`, `usage`, `auditlog`, `server`) | open blocks and items, buffers, what was captured | one event at a time, flushStream, Close | four dialects, streams that break off anywhere, clients that leave | a stream of the client's protocol, the whole answer, one record of each kind | `StreamConverters`, `AnswerStreams` |
| `streaming` | pending bytes of a stream | processChunk, Close | boundaries split over reads, oversized events | the events of the whole stream | `EventScanner` |
| `budget` periods | none | PeriodBounds | short months, leap years, week starts | consecutive periods tile time | `BudgetPeriods` |
| `live`: broker | sequence number, replay window, snapshots, subscribers | Publish, Subscribe, Unsubscribe, Close | slow subscribers, resume at the edge of the window | no gap without a reset, snapshots hold exactly the running entries | `LiveBroker` |
| `admin/handler_live.go` and the dashboard's live log | cursor, rows, reload in flight | stream, heartbeat, reconnect, merge, reload | drops, restarts, a REST answer overtaken by an event | the rows shown end up being the rows stored | `LiveStream` |
| `providers`: model registry | inventories, bare-ID routes, metadata list, cache, refresh semaphore | Initialize, RefreshProviderModels, RefreshModelList, SaveToCache, LoadFromCache | five goroutines, network calls between lock regions, outages, restarts | routes follow the registration order, outages are reported and take nothing away | `ModelRegistry` |
| `app`, `cmd/gomodel` | the components, their storage connections, the server | New and its unwinding, Start, Shutdown | a deadline that passes, a signal during start-up, main against the signal goroutine | users are closed before the storage they use, and once drained; the process ends | `AppLifecycle` |
| server handlers, router, vendor adapters, whole-message conversion, storage, configuration, metrics, dashboard pages | none shared, or a database | | | | not modelled: stateless conversion or I/O |

`PROJECT.json` lists them all with their sources, status and reasons.

**Interactions.** Requests share a breaker per provider (locks). Loggers receive
entries over a channel, publish their events to the broker by a callback and own
the store. The broker hands events to SSE handlers over bounded channels; the
browser also polls the store through REST, so the two can disagree. The registry
is written by goroutines that hold a refresh semaphore during network calls and a
read-write lock for the swap; the router only reads the maps. Workflows are
compiled against the guardrails' snapshot and follow its changes; a request holds
the version it matched and looks its pipeline up later. The conversation turn
appended after a streamed answer is what an observer saw of the stream. Components
that keep data share the storage connection of the first one that opened it.
`app.Shutdown` closes the parts in order; `app.RefreshRuntime` refreshes them in
order.

## 2. Modules

| Module | Models | State ↔ code | Actions ↔ code |
|---|---|---|---|
| `CircuitBreaker` | `llmclient/circuit_breaker.go` | `state`, `failures`, `successes`, `halfOpenAllowed` are the fields; `elapsed` stands for the clock passing `lastFailure + timeout`; the streaks and `herd` are history | one action per branch of acquire, RecordSuccess, RecordFailure |
| `LLMClient` | `llmclient/client.go` | `pc`, `probe`, `budget`, `attempts` per request; `gauge` is OnRequestStart minus OnRequestEnd | admission, attempt with one of eight outcome classes, backoff, record, the two-step 429 charge, end |
| `DrainContract` | what an asynchronous writer promises | held, settled, shut | Accept, Settle, Shut |
| `AsyncLogger` | `usage/logger.go`, `auditlog/logger.go` | the atomic flag, the WaitGroup (its counter, and its waiter, which panics when the group is reused before it ran), the channel, flushLoop's batch, the store, the live events per entry | every read of `closed`, `Add`, send, `Done`, `Swap`, `Wait`, `close(done)`, receive, tick, drain, WriteBatch, publish is a step |
| `CacheWriter` | `responsecache/simple.go`: the write queue | `enqueue` the place of each enqueueWrite call (a read-locker between "locked" and its release), `jobs` the channel, `writes` the WaitGroup, `worker`, `closing` | lock, closed check, Add, send or drop, unlock; receive, Set, Done; close's lock, channel close, waits |
| `ResponseCache` | `responsecache` middleware, semantic layer, and the order of `gateway` inference around them | `serving` and `answer` per request; `exact`, `semantic` the stores; `target` what an alias resolves to; `denied` the models forbidden | prepare, look up each layer, replay, dispatch, fallback, capture of a stream, store, semantic insert, alias and access edits |
| `NativeBatch` | `gateway/batch_orchestrator.go`, the rewrite chain, the result hints | `record` is the stored row, `create` the creation's locals, `call` a request's copy of the row, `upstream` and `files` the provider's side | one action per external call of Create, its rollback, Get, Cancel, Results, each answered, refused or lost |
| `Conversations` | both memory stores, `server/native_conversation_service.go`, the turn of `/v1/responses` | `items` is the map under its mutex, `request` a handler's locals, `lastCleanup` the throttle | a store operation is one step; Get hands out a reference and copies it in a step of its own |
| `CachedTables` | `authkeys`, `aliases`, `modeloverrides`, `pricingoverrides`, `budget` services | `table` the store, `view` the snapshot, `writerMu` the mutex where there is one, `edit` a writer's locals | write, apply in place, list, swap, rollback, reconcile, loop, each store call with its failures |
| `Workflows` | `workflows`, `guardrails`, the admin handlers | `defs` and `rows` are the store; `registry`, `current`, `byVersion` each instance's snapshots; the three mutexes | one action per lock acquisition, store call and swap; loops, crash, start-up |
| `GuardedRequest` | a request beside the editors | `request`, `unfiltered` | Match, Patch |
| `AppLifecycle` | `cmd/gomodel/main.go`, `app/app.go` | `built`, `storage`, `closed`, `server`, `main`, and the two callers of Shutdown | build, fail, unwind, startServer, accept, complete, signal, Shutdown's stages, deadline, exit |
| `StreamConverters` | the four converters of `providers/anthropic`, `providers`, `anthropicapi` | a converter's fields as a record with its buffer | operators: one per event handled |
| `AnswerStreams` | the adapters, observers and `flushStream` around the converters | `source` and `sent` the provider's side, `client` what the client understands, `observed` and `log` the observers' | one action per provider event; pass, write, read error, end, Close |
| `EventScanner` | `streaming/observed_sse_stream.go` | `pending`, `discarding`, `discardTail` | ReadChunk (any chunk), CloseScanner |
| `BudgetPeriods` | `budget/types.go` | none in the code; a clock and one budget's settings | PassTime |
| `LiveBroker` | `live/broker.go` | `nextSeq`, `events`, `active`, `subs`, `brokerClosed` | one action per method (they hold `b.mu`); Close closes the channels after unlocking, so that is a step of its own |
| `LiveStream` | `admin/handler_live.go`, dashboard `live-logs.js`, `audit-list.js`, and the events of the audit logger | `cursor`, `view`, `reload`, `answer` are the browser's; `todo` what the handler still owes; `phase` the server's side of an entry; `hist` the mishaps a property excuses | Connect, SendReset, SendReplay, SendEvent, Heartbeat, Drop, EndOfStream, the two halves of a reload, Shutdown, Restart |
| `ModelRegistry` | `providers/registry*.go`, `configured_models.go`, the goroutines of `providers/init.go`, the registry steps of `app/runtime_refresh.go` | `catalog` is modelsByProvider, `routes` is models, `list` the version of modelList, `asked`/`errors` the fetch fields of providerRuntime, `sem` refreshCh; per goroutine a program of jobs, its position, its fetched inventory, its copy for the cache | acquire, fetch, swap, mark, download, install, SetModelList and enrichModels, copy and write for the cache, restart with or without a readable cache |
| `MC*` | instances for TLC | small constants, which part runs | |
| `*Proofs`, `SequenceFacts` | theorems, proofs, lemmas on sequences; `SharedStateProofs` is about `LLMClient`, `ResponseCache`, `NativeBatch`, `Conversations`, `CachedTables` and `AppLifecycle`, `RecordingProofs` about the logger, the scanner and the periods, `AnswerStreamsProofs` and `ResponsesProofs` about `AnswerStreams` | | |

**Composition.** `LLMClient` extends `CircuitBreaker`, `LiveStream` extends
`LiveBroker`, `ResponseCache` extends `CacheWriter` (its requests are the writer's
jobs), `GuardedRequest` extends `Workflows`, `AnswerStreams` extends
`StreamConverters`. The phases of `LiveStream` are the events `AsyncLogger`
publishes, reduced to one entry.

**Refinement.** `AsyncLogger` and `CacheWriter` instantiate `DrainContract`
(`held <- Held`, `settled <- Settled`, `shut <- storeClosed`, and the like); that
every step of either is a step of the contract or a stutter is both checked
(`ImplementsContract`, `CacheImplementsContract`) and proved.

**Combined runs.** Some MC modules hold several components that share no state;
a variable `part` (in the registry: `setting`) fixed by the first state says which
one runs, and the others stay as they are. Each property then speaks about its own
component, and the fairness is the chosen component's own. This changes nothing of
what a component may do.

Operators whose comment begins with "Bug:" are mutated forms of the definition
that follows them. The specification does not use them; `PROJECT.json` "mutants"
pairs each with a property that fails when it replaces the original, which shows
that the property depends on that line of the code.

## 3. What the runs show

| Run | Instance | Result |
|---|---|---|
| `request_path` (`RequestPath.cfg`) | client: 2 requests, thresholds 2 and 2, 2 attempts, every outcome class; cache: 2 requests, 2 models, the second the first one's fallback and translated, 2 options, a queue of one write | passes: breaker and hooks, `HealsUnlessStuck`, genuine hits, refinement of `DrainContract`, close ends |
| `stored_state` (`StoredState.cfg`) | a batch with 2 preparers and 2 requests, every call failing or losing its answer; 3 requests on conversations or responses with a cap of 1 and a TTL of 2; one key of an admin table under 2 writers, the loop and 2 failures; the application with 4 switchable features and 2 requests in flight | passes: see section 4 |
| `workflows` (`Workflows.cfg`) | 2 instances, one of them edited through 2 handlers, 1 guardrail, 2 scopes, 2 versions, 2 definitions, 1 failing call or crash | passes: references, effect of edits, convergence |
| `recording` (`Recording.cfg`) | logger: 3 writers, 2 Close calls, buffer 1, flush at 2; streams: 5 routes, 3 blocks, 2 pieces; scanner: 8 bytes, limit 5; periods: 15 months | passes: life cycle, drain, refinement, liveness; streams, events, periods |
| `live_stream` (`LiveStream.cfg`) | 2 entries, 1 browser, window 3, replay 2, channel 1, one each of drop, heartbeat, restart, removal | passes: gap-free stream, exact resume, the dashboard converges |
| `registry` (`ModelRegistry.cfg`) | 2 providers that share a model, one restart, at most 2 of the goroutines at work; either all five with one list version, or four with two versions and a provider in allowlist mode | passes |
| `client_stuck_half_open` | the client alone | violates `Heals`, finding 1 |
| `live_heartbeat_skips` | 2 entries, large buffers | violates `CatchesUp`, finding 2 |
| `guarded_request` | `workflows` with a request | violates `GuardedRequestIsFiltered`, finding 3 |
| `conversation_update` | 3 requests on conversations | violates `ExchangesKept`, finding 4 |
| `exit_before_close` | the application, 2 requests | violates `ExitsClosed`, finding 5 |
| `streamed_turn` | an answer of one block and piece | violates `TurnIsWhole`, finding 6 |

**Why the bounds are enough.**

- *Client.* Two requests let one be late while the other probes. Thresholds of 2
  separate a streak from its first member, and two attempts let a retry happen and
  be exhausted.
- *Caches.* A queue of one job is full while the worker is busy, so a write can be
  dropped, queued or in hand when close begins. Two requests are enough for one to
  store what the other replays, with an alias moved in between; one fallback makes
  "answered by another model" happen. Two options let the second request hit in the
  semantic cache what the exact one does not have. `MCBounds` names the first request
  and its options, which are interchangeable, moves the alias once, and moves nothing
  that no request will read.
- *Batches.* Two preparers let a later file supersede an earlier one and let the
  chain fail with something to undo. Two requests on a record are one old copy over
  one new one. `failed` and `expired` behave as `completed` and are folded into it.
- *Conversations.* Three requests: one creates, one turns, one updates, deletes or
  evicts. A cap of 1 evicts on the second create; the clock runs past the TTL and
  the sweep's throttle.
- *Tables.* One key, because all entries are listed and swapped together; two
  writers and the loop give every overtaking of a pair; the second failure makes a
  rollback or a reconciliation fail too.
- *Workflows.* One guardrail that the scoped workflow names, and a global one
  without, so that a reference can be added, used and deleted; the second version
  replaces the first. One crash or failing call at any place.
- *Application.* All 16 settings of the features that decide who owns the shared
  connection; two requests tell "drained" from "one left".
- *Logger.* A buffer of 1 with three entries is full while one is in flight; a
  flush threshold of 2 lets both the threshold and the ticker flush; two Close
  calls exercise the idempotence.
- *Streams.* Three blocks give each pair of kinds in both orders with one to
  follow; two pieces split a text or the arguments; the capture limit of 1 is
  passed by the second piece.
- *Scanner.* All chunkings of all streams of 8 bytes: with a limit of 5 an event
  can be too long, and its end can be split over the three bytes kept of it.
- *Periods.* In half days from January 2024 to March 2025: a leap February and one
  without, months of 30 and 31 days, the end of a year; reset days 1, 15 and 28 to
  31, every weekday, custom periods of 3 and 20.
- *Live stream.* A window of 3 with a replay limit of 2 and a channel of 1 makes
  trimming, a resume past the limit, a cut-off subscriber and an exact resume all
  happen with two entries, each of which publishes up to three events.
- *Registry.* Two providers that offer the same model make "first" mean something,
  and let one be down while the other answers; two goroutines at work are enough
  for every race of a pair, and the two that start with the process can be joined
  by an administrator's refresh once one is done. The second list version replaces
  the first.

Deadlock is checked in the registry run. In the others something comes to rest by
design: requests are served once, the process exits, a stream ends, the clock of a
bound stops.

**Fairness.** Go's scheduler runs goroutines that can run, so every step of a
goroutine that has begun is weakly fair. `WF(Timer)` is the clock.

- `LLMClient`: the HTTP timeout ends every attempt and clients keep sending
  requests; that the provider recovers is not assumed, `HealsUnlessStuck` starts
  from a recovery.
- `AsyncLogger`, `ResponseCache`: Write, Close and requests need not be called;
  what is begun goes on; a store's Set and Insert return (five seconds each).
- `NativeBatch`: a request goes on, because each of its calls returns or times
  out. A deletion tried again and again is not refused for ever (strong fairness):
  an assumption about the provider. That somebody polls is the hypothesis of
  `CleanedIfPolled`.
- `CachedTables`, `Workflows`: the tickers keep firing and a mutex is granted in
  the end (Go's mutexes are fair under starvation), hence strong fairness; edits
  and failures are bounded, and a restarted instance starts.
- `AppLifecycle`: requests in flight end or the server's grace period does.
- `LiveStream`: the handler, the browser's fetches and reconnect timer, and the
  event that follows a successful write are fair; drops, restarts and the request
  itself are not.
- `ModelRegistry`, `Conversations`, `AnswerStreams`, `EventScanner`,
  `BudgetPeriods` are checked for safety only.

## 4. Properties worth reading first

- `OneProbePerOutcome`, `SwitchesOnStreaks`: the half-open gate survives outcomes
  that arrive in the wrong state, and the circuit opens and closes only on as many
  true failures or successes as the thresholds say.
- `HitsAreGenuine`: what either cache replays is an ended answer of the model the
  request was resolved to, although fallbacks, broken streams and a moved alias
  pass through the same code. It does not say that a translated answer is whole, or
  that a semantic hit answers the request's own options: section 5, *Caches*.
- `ImplementsContract`, `CacheImplementsContract`, `CloseLeavesNothing`,
  `CachesClose`: answers and entries accepted while close runs.
- `NothingOrphaned`, `FileKeptWhileRunning`, `CleanedIfPolled`: a batch's rewritten
  files and hints against creations that fail half-way and records written back
  from old copies. The first excepts a `mishap`: an undo call that failed itself or
  whose answer was lost.
- `KeptUnlessOverwritten`, `GoneStaysGone`: conversations under concurrent turns,
  updates, eviction and expiry. The exception of the first is finding 4.
- `InStepAtRest`, `TableHeals`: snapshot against table. Excepted are failures the
  service reports or cannot know (`torn`) and, without a mutex, a late swap of an
  older listing (`raced`). Budgets have no loop and are not healed.
- `ReferencesResolve`, `EditsTakeEffect`, `EventuallyCurrent`: a deletion of a
  guardrail against the creation of a workflow that names it; an edit against a
  refresh that listed the store before; other instances after failures and crashes.
- `DownInOrder`, `StopsOnSignal`: every order of start-up failures, signals and
  deadlines, for every owner of the shared connection.
- `StreamWellFormed`, `AnswerArrives`, `RecordedOnce`: any provider stream, broken
  off anywhere, over five routes. A response that ends, cut or whole, had begun and
  has its items done (`EndsInOrder`), except after the two cuts at which Anthropic's
  converter ends it otherwise (`CutBeforeStart`, `CutInCall`); text after a tool call
  on `/v1/responses` is excepted too (`Exempt`, see section 5).
- `EventsExact`: the chunked scan against the places of the events in the whole stream.
- `PeriodsTile`: for every moment of 15 months in the run, of 23 in the proof.
- `ResumeIsExact`, `StreamHasNoGap`: a subscriber gets every event or a reset.
- `DashboardTells` joins `StoredShown`, `InProgressShown`, `NoGhostRows` and
  `ShownIsStored`: what the dashboard shows against what the store has. They hold
  except after the mishaps recorded in `hist`, which are limits of the code:
  `skipped` (finding 2), `resumed` (a cursor from before a restart), `overtaken`
  (a REST answer applied after a newer event), and for ghost rows `reset`.
- `RoutesAreFirst`: the bare-ID map is a second copy of the catalogue that four
  paths maintain; they agree. `NeverOverwritesNewer`, `OutageTakesNothing`,
  `OutageIsReported`: refreshes under outages. `EnrichedUnlessRaced`,
  `SavedAtRest`: stated with their exceptions.

## 5. Findings

1. **A breaker can stay half-open for ever** (`llmclient/client.go:377`). A probe
   whose request fails in buildRequest ends without recording an outcome; the gate
   stays shut and the half-open state has no timeout.
2. **A heartbeat skips events** (`admin/handler_live.go:78`): it carries the latest
   sequence number although events are still queued for that browser; a drop then
   resumes behind them without a reset.
3. **A guarded request can pass unfiltered** (`workflows/service.go:384`). It is
   matched to a version when it arrives; if that version is replaced before the
   guardrails are applied, its pipeline is not found and none is applied. The cache
   key's guardrails hash is the matched version's, so such an answer can also be
   stored as a filtered one.
4. **A metadata update can lose a turn** (`server/native_conversation_service.go:116`):
   it writes back the whole conversation it read.
5. **The process can exit before Shutdown has closed anything**
   (`cmd/gomodel/main.go:160`): main returns when the server has stopped, and
   nobody waits for the goroutine that runs Shutdown.
6. **The turn of a streamed answer can have no output**
   (`server/conversation_responses.go:183`): it is taken from `response.completed`,
   which the converters write without an output.

Met while modelling, without a run of their own; where a property is affected it
names them as exceptions:

- *Client.* The late success of a request admitted before the circuit opened
  reopens the gate, so two probes can run at once (`circuit_breaker.go:85`, against
  the comment in line 60).
- *Loggers.* A Write that passed the first closed check registers while Close waits
  on the group; `sync.WaitGroup` panics if the counter is in use again before the
  waiter runs (`usage/logger.go:65`). `AsyncLogger` models the panic, and its
  liveness properties except it.
- *Live.* The reset event takes `LatestSeq` after `Subscribe` (`handler_live.go:45`),
  sequence numbers restart with the process (`live/broker.go:261`), a reload read
  before an event may be applied after it (`audit-list.js:158`), and pending
  previews survive a reload whose terminal event was missed (`audit-list.js:183`).
  Two requests with the same client-supplied request ID share one snapshot
  (`live/broker.go:347`), and a page that has seen no event has cursor 0, which is a
  fresh start (`live-logs.js:49`).
- *Registry.* The initial list goroutine sets the list without the semaphore
  (`providers/init.go:128`): an inventory that was enriched before and swapped in
  after `enrichModels` stays without metadata until the next refresh. `SaveToCache`
  copies under the lock and writes outside it: an older copy can overwrite a newer
  one, until the next save. `IsInitialized` is also set when all models come from
  configuration (`registry_init.go:256`, against the comment in line 434).
  `RefreshRuntime` does not refresh pricing overrides and budgets.
- *Batches.* A late write-back can take a record's status back to an earlier one,
  clear `UsageLoggedAt` or name a deleted file again; the next poll repairs it. Two
  concurrent Results may both log the usage (`batch_usage.go:33`); its store keeps
  one, since the entries' ids are deterministic. A process that dies during a
  creation leaves what it had uploaded: no code recovers it.
- *Conversations.* `Get` copies the entry after unlocking while `AppendItems` changes
  it, a data race modelled by its outcomes (old, new, or half read, when the request
  fails). An entry is stamped before the lock, so it may be the first to be evicted.
- *Tables.* Two racing budget edits can leave an older limit in force until the next
  edit. A rollback writes the snapshot's previous value, which would undo another
  instance's edit.
- *Workflows.* With two editing instances `ReferencesResolve` fails: `mutationMu` is
  an instance's own, and a dangling reference makes every refresh and start fail.
- *Application.* A signal before `startServer` has registered the server shuts the
  components down and the server then runs on closed ones (`late` contains
  "early").
- *Caches.* The semantic key's parameters hash leaves out tool_choice, stop, n, seed
  and the penalties, though its comment says all output-shaping parameters. A
  converter adds `[DONE]` at a bare end of the provider's stream, and the validation
  of a stream before it is cached looks at framing, JSON and `[DONE]` only
  (`sse_validation.go:11`, against the "complete" of its comment), so a translated
  answer that was cut can be cached and replayed. `ResponseCache` models both
  (`SemanticKeys`, `Translated`), and `HitsAreGenuine` says where it stops.
- *Streams.* On `/v1/responses`, text after a tool call gets the output index 0 of the
  earlier text (`responses_output_state.go:49`, `:62`). An end of an Anthropic stream
  before `content_block_stop` leaves a tool item undone (`CutInCall`), and before
  `message_start` gives a completed response that was never created (`CutBeforeStart`):
  `StreamWellFormed` holds everywhere else. A call announced late carries
  its arguments in `item.added` and again in its first delta
  (`responses_converter.go:147-158`). A call that never got an id is dropped.
  Interleaved tool deltas reach `/v1/messages` on a block already closed.

## 6. What is proved

All proofs are for arbitrary constants under the named ASSUMEs (thresholds and
sizes positive, offers and configured models sets of models, registration order a
strict order, and the like). Each module defines an inductive invariant, proves that
the initial state satisfies it and every action preserves it, one lemma per group of
actions, and derives the theorems with PTL.

- `SharedStateProofs`, the client (`IInv` of `LLMClient`). The counters are not inductive
  alone: the proof needs that a probe admitted since the last outcome shut the gate, that the
  true streaks dominate the counters, and where in its life cycle a request can be a
  probe. Theorems: `TypeCorrect`, `CountersCorrect`, `NoThunderingHerd`,
  `ProbesAreSingleCalls`, `HooksBalance`, `SwitchesRightly`.
- `RecordingProofs`, the logger. The invariant ties the WaitGroup's counter to the set
  of writers in flight (a cardinality), orders Close's stages against `done` and the
  writers, and says for each entry where it is and which events it has had. Theorems
  include the life cycle, the drain, the closed store, and `Refinement`: every step
  refines a step of `DrainContract` or a stutter.
- `RecordingProofs`, the periods: `BudgetsCountOnce`. Of each kind of period there is a
  family of cuts, one for every integer or month; PeriodBounds finds the neighbouring
  two (`DayCut`, `WeekCut`, `MonthCut`, `Remainder`), and no moment lies between two
  pairs. The calendar is defined by recursion on the month; `AllNumbers`, induction
  over the naturals in terms of sets, shows that it is the table of first days and in
  order.
- `RecordingProofs`, the scanner: `EventsAreExact`. `Begins` says where the event begins
  that is under way after each byte of the stream. `OnTrack`: until Close the scanner
  holds the bytes of that event, or its last three once it is too long, and has given
  the observers the events before it. The searches find the first boundary behind the
  event's beginning (`Finds`), also across the join, because none lies within the event
  (`NoneWithin`); a turn of the loop gets from one point on the track to a later one
  (`ScanNext`); and bytes that follow change nothing of what was there (`PrefixBegins`).
- `SharedStateProofs`, the caches. `WriterInv` says that a job is in one place and that behind
  the closed flag nobody is about to send; `GenuineInv` that what is stored, or on its
  way to a store, is an ended answer of the model in its key, whole unless a converter
  ended it, and to the options of an exact key. Theorems:
  `WriterInvariance`, `WriterRefinement`, `CacheRefinement` (the writer inside the
  cache still implements the contract), `HitsCorrect`.
- `AnswerStreamsProofs`: `ChatAnswersArrive`, that streams of chat completions and of
  `/v1/messages` stay well-formed, arrive whole and are recorded once. Between the layers
  the proof speaks of what has been told of the answer (`Told`: its text, calls, blocks
  and stop so far), and `Says` is what a chunk adds to it. Each layer is shown to follow
  that alone: the chat client (`ChatSays`), the observers (`ObserverSays`) and the
  converter for `/v1/messages` (`MessagesSays`); and each event of either provider makes
  its adapter say what the answer, as sent, has more (`Tells`, one lemma per event). What
  a converter has written and the client has not read is a path of states of the client,
  each reached by reading one event (`Reaches`), so that a read, a write and a new event
  are steps along it, at its end, or at its beginning. `RecordsFollow` derives what Close
  leaves in the log from what the observers have seen.
- `ResponsesProofs`: the record (`StreamsAreRecordedOnce`) and the arrival
  (`StreamsArrive`: `StreamWellFormed` and `AnswerArrives`) on all five routes. On the two
  to `/v1/responses` the observers pass over all but the texts and the end, so that
  whatever a converter does with items and calls is a step that they do not notice
  (`Passes`), and the rest is one that tells them so much more of the text (`Heard`); what
  it has written is a path of what they have seen (`Followed`). For the client the
  invariant is `Shows`: what is written and not read yet leads it to the items of the
  answer so far, the message first where there is one, then the calls in order, each at
  the output index its converter holds and done when it says so. `BlockCalls` and
  `ChunkCalls` say which entry of the converter's table is which call, for the two
  dialects, and `Finishes` what the client has after the end: the beginning, the items
  done, but for the last one of an answer cut inside a call (`OpenIsLast`). It is given up
  where text follows a call, which both properties exempt.
- `SharedStateProofs`, what is stored, in four parts.
  Batches: `CreationInv` says what a creation can have left behind at each of its
  places, and `CopiesInv` that every copy of the record, old or new, names the file
  while it exists and knows an end of the batch only once there is one:
  `BatchLosesNothing`, `BatchKeepsInput`.
  Conversations: `EntriesInv` and `HandlersInv` say that an entry is created once and
  no copy was kept longer (`GoneForGood`); `ExchangesInv` that a stored conversation,
  and every copy of one, is a sequence of whole exchanges, each appended by its own
  request and once (`KeepsExchanges`).
  Tables: under the mutex one edit is under way at most and the table is the snapshot
  with that edit applied; without it, whatever differs has an edit that is still to
  bring it in (`TablesInv`; theorem `InStep`).
  The application: `LifeInv` says that the lender of the storage connection is the
  first of its users to start and the last to be closed, and that each caller of
  Shutdown has closed a prefix of one order, after the server (`ComesDownInOrder`).
- `WorkflowsProofs`, for any instances, scopes, versions, definitions and handlers, of
  which one instance edits (`OneEditor`, see below). Beside the types: at every place of
  a task it holds exactly the mutexes of that place (`Locked`), its locals are what it
  read under them (`LocalInv`), the editing instance's snapshots are the store's but for
  the edit under way (`EditorInv`), and at most one version of a scope is active.
  Theorems: `WorkflowsTypes`, `AlwaysResolve`, `EditsAlwaysTakeEffect`.
- `LiveStreamProofs`. `BrokerIInv`: the window, the channels and the snapshots, for any
  publishers and subscribers; the proof follows an event through trimming by its
  distance from the end of the window (`WindowCorrect`, `StreamCorrect`,
  `SnapshotsCorrect`). The loop of the replay is a recursive function: `AllNumbers`
  shows that it returns the part of the window behind the cursor (`ResumesExactly`).
  `DashInv` adds the browser: what is on its way to it (snapshots or replay still owed,
  then its channel) ends with the last event of each entry; with nothing on its way, a
  row is right or a fetch under way makes it so; and a browser that is disconnected was
  right up to its cursor, or will be reset. The named mishaps are exactly the steps that
  break this (`StreamInvariance`, `DashboardIsRight`).
- `ModelRegistryProofs`. Beside the properties, the invariant says that what a
  goroutine fetched came from the providers it asked and carries the list it read,
  and that no list is replaced by none. Theorems: `RegistryTypesCorrect`,
  `RoutesCorrect`, `RefreshesAreSerial` (no refresh overwrites a newer one, and the
  semaphore is held inside), `OutagesAreReported`, `EnrichmentCorrect`,
  `OutagesTakeNothing`. `SaveInv` says that after every change of memory some goroutine
  is still to write the cache, or the change is one that the code does not save:
  `SavesAreCurrent`.
- `SequenceFacts` holds lemmas on sequences, and `AllNumbers`, that the others cite.

**The assumption of `WorkflowsProofs`.** `OneEditor` says that edits go through one
instance; the other instances refresh, restart and crash as they like. It is a
hypothesis of each of its theorems and not of the model: with two editing instances
`ReferencesResolve` is false, as section 5 says. The run has one editing instance too.

**Only model-checked.**

- Liveness (`HealsUnlessStuck`, `AcceptedIsSettled`, `CloseReturns`, `CachesClose`,
  `CleanedIfPolled`, `TableHeals`, `StopsOnSignal`, `EventuallyCurrent`,
  `StoredIsShown`): fairness and ENABLED are beyond the prover.
- Every violation: a theorem cannot refute.

## 7. What is abstracted

- Payloads, headers, models' metadata and formatting: an attempt is its outcome class,
  an event its kind and entry, a metadata list its version, on which every model is
  found; a cached answer is the model and the options it answers, whether it is whole
  and whether it ends with `[DONE]`; an item of a
  conversation is a turn's input or output; a stored value of a table is the number of
  its edit.
- Time: timeouts may fire whenever they are armed; backoff has no length.
- `ResponseCache`: an exact key is a text, a model and options, a semantic key the first
  two: options are the parameters that it leaves out, those in both keys are left out
  here; texts are similar if the embedder says so, which it may of any two; a miss is
  always possible. A send on the closed channel, which would panic, is a job stuck,
  which `CachesClose` would see. Embedding requests and internal requests are left out.
- `NativeBatch`: one batch. A client that leaves makes every later call fail, which the
  failing calls cover. The stored batches have no delete.
- `Conversations`: every request runs once; identifiers are fresh.
- `CachedTables`: one instance, one service at a time, chosen by the first state; a
  store call that fails had no effect or had it (then `torn`). Hashing and expiry of
  keys are left out.
- `Workflows`: a failing store call has no effect; the six forms of a scope are names
  beside the global one; EnsureDefaultGlobal finds its version in place. Edits go
  through one instance.
- `AnswerStreams`: a provider sends its calls one after the other, each with id and
  name in its first delta; routes that need no conversion, pings, signatures and
  `message_stop` are left out. That `max_tokens` with a tool call becomes `tool_use` is
  documented behaviour.
- `EventScanner`: a byte is LF, CR or data. An event that ends within three bytes of
  the limit may be dropped or not, depending on the chunks; `EventsExact` says so.
- `BudgetPeriods`: half days; hourly periods and minutes are the same arithmetic.
- `ModelRegistry` leaves out the availability fields, configured metadata and pricing,
  and uses one administrator and one request at a time. The fetch and the read of the
  list are one step, because nothing of the fetch is visible before. Configured models
  occur in allowlist mode.
- `LiveStream` follows audit rows; usage rows use the same protocol. Filters, paging and
  failed reloads outside a restart are left out.
- External code is modelled by its use: `ListModels` (an error or any list), `WriteBatch`
  (all, or an error after any part), the provider's batch API (accepted, refused, or the
  answer lost), the stores of the tables, the HTTP server's life.

## 8. Not modelled, and why

- The HTTP handlers and middleware, the router and factory, whole-message conversion
  (`anthropicapi`, batch identity, vendor adapters, `batchrewrite`), `core`: decoding,
  dispatch and format, without state of their own between requests. Their size is most
  of the repository's.
- `auditlog` and `usage` readers and stores, `storage`, `cache`, `modelcache`, `modeldata`,
  `embedding`, `httpclient`: SQL, files and network calls; token and cost arithmetic is on
  floating-point numbers.
- The fallback resolver ranks configured lists and scores; `ResponseCache` takes its result
  as a constant.
- `config`, `cmd` but for main, the dashboard but for its live log, docs, helm, tests.

## 9. What could follow

1. Two instances over one store in `CachedTables`, with the rollback that restores a
   stale value, and two editing instances in `Workflows` as a run of its own.
2. Interleaved tool calls and the pass-through routes in `AnswerStreams`.
3. The spending side of budgets: a check before an answer and its charge after it.
4. The concurrency inside a guardrail pipeline, and EnsureDefaultGlobal with a changed
   configuration.
