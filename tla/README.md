# TLA+ models of the Seleric MCP gateway

`seleric-mcp` (`src/src/seleric_mcp/`) is the gateway through which chat hosts
and the Seleric dashboard reach a semantic layer: they query catalogued metrics
in Cube, resolve the names and values people use, propose and confirm write
actions on ads, create campaigns on Meta and Google, and talk to an analyst that
does these things by itself. This directory holds TLA+ models of the parts of it that
keep state and run concurrently and of the two that decide what a question
means (the catalogue and the query planner), the TLC configurations that check
them, and TLAPS proofs about nine of the components.

1. [The system](#1-the-system)
2. [The models](#2-the-models)
3. [The runs](#3-the-runs)
4. [Fairness](#4-fairness)
5. [The proofs](#5-the-proofs)
6. [Where the code and what it says differ](#6-where-the-code-and-what-it-says-differ)
7. [What is not modelled](#7-what-is-not-modelled)
8. [Plan](#8-plan)

To check a model: `tlc -config ActionBrokerSafety.cfg MCActionBroker.tla`; to
check a proof: `tlapm ActionBrokerProofs.tla`.

## 1. The system

The gateway is one Python process with one asyncio event loop and one SQLite
file. Code between two awaits runs alone; at an await any other task may run,
and a client that disconnects raises `CancelledError` there. Each SQLite
statement is committed by itself (`storage/db.py`), so the process may die
between any two. Worker threads are used for blocking libraries: the LLM
providers, the Google Ads library, Postgres, `resolve` of the value index.

| Component | State | Operations | Talks to |
|---|---|---|---|
| Action broker (`actions/`) | tables `pending_actions`, `idempotency_keys`, `audit_log` | propose, commit, status | business rules over the ads clients, the pipeboard executor |
| Ads writes (`ads/envelope.py`, `ads/idempotency.py`, `ads/*/client.py`, `ads/*/tools.py`) | tables `ads_idempotency`, `ads_operations`, `audit_log` | execute_write, execute_read | Meta Graph API (httpx, retries), Google Ads API (a thread per call) |
| LLM rate limiter (`llm/rate_limit.py`) | two token buckets and a hard block per model | try_acquire, reconcile, penalize, time_until | called by the router from worker threads |
| LLM router (`llm/router.py`) | per call: the models left out, wait rounds | complete, complete_stream | limiters, the provider |
| Value index (`catalogue_service/value_index.py`) | snapshots per brand in memory and in SQLite, running builds | warm_all, get, resolve, locate_live, verify_filter_values | Cube |
| Analyst (`gateway/analyst.py`, `llm/agent_core.py`) | chat sessions, one lock | ask, ask_stream | the router, every read tool |
| Query planner, result store (`app/query_planner.py`, `app/result_store.py`) | `query_results`, one hour | run, drilldown | catalogue, Cube client |
| Dataset builder and store (`app/dataset_*.py`) | `datasets`, until deleted | build, get, list, delete | query planner |
| Gateway (`gateway/server.py`) | caches of freshness and schema, a window of tool calls | the MCP tools | everything above |
| OAuth (`gateway/oauth.py`, `gateway/auth.py`) | clients and codes in memory, signed tokens | register, authorize, token, bearer check | the HTTP app |
| Credential resolvers (`ads/*/credentials.py`) | a cache per selector | resolve | Postgres, the environment |
| Cube client, semantic SQL (`semantic_layer/`) | none | load, meta, sql | Cube |
| Catalogue (`catalogue_service/loader.py`, `service.py`, `scope.py`, ...) | immutable after start-up | resolve, search, validate | YAML, Cube meta |
| Insight engine, provenance, prompts, semantic inventory | none | pure functions | |

What is hard in it, and what makes each part correct:

- **Action broker.** A token may be replayed while its commit is at an await; two
  requests may claim one key; the process may die between spending the token,
  taking the key, calling the platform and recording the outcome; a timed-out
  call may still take effect. Correct means: dispatched at most once, only what
  was previewed and confirmed, identical actions a window apart, and an outcome
  in the database that the audit log and the platform bear out.
- **Ads writes.** The key is looked up before the platform call and stored after
  it; the Meta client sends a request again when it does not know what became of
  it; cancelling a Google call leaves its thread running. Correct means: only
  admitted calls act, a replayed answer is genuine, a key that was answered
  success does not act again, and the logs are true.
- **Limiter and router.** Buckets are locked one by one and the block not at all,
  so a request holds a slot while its tokens are refused. Correct means: rates are
  kept, debts are bounded, waiting as long as one is told suffices, a stream never
  changes its voice, a refused model rests, and calls end.
- **Value index.** Builds, probes, callers and a worker thread share snapshot
  objects that are replaced under them, and queries fail one by one. Correct means:
  nothing is reported that Cube does not hold, an absence is only claimed when it
  was established, no older index replaces a newer one.
- **Analyst.** A turn is a generator that its client may abandon at any await or
  yield; sessions are evicted and their ids reused. Correct means: one scope per
  conversation, a conversation the provider accepts, one terminal event, and no
  piece of a fenced block among the tokens shown.
- **Catalogue.** A dozen resolvers read one set of YAML files that people edit, and
  each entry point (search, definition, concept tool, planner, value matcher) asks
  another of them. Correct means: what a mistake in the files leaves dangling is
  refused at the start, one name has one answer everywhere, the pinned database is
  kept, no axis a caller sets falls silently to its default, and a value that is
  said is heard.
- **Query planner and result store.** Names, aliases, terms, date axes, bindings,
  slices, forced filters and the default brand all change what is asked of Cube, and
  may contradict each other; parts load side by side, fail one by one and save rows
  that expire one by one. Correct means: no load counts a slice twice, leaves its
  metric's range, or mixes clocks or brands; a drill only narrows; a composed row
  stands for saved parts.
- **Datasets.** A build reads several pipelines at several instants, while they land
  and the day turns. Correct means: a zero is a zero, rows are of the range, a
  dataset stays in its scope, no brand keeps more than its share. The first does not hold
  when the day turns during a build (section 6).
- **Gateway.** Rights, modules and freshness are decided before the planner, over
  caches that age while calls overlap. Correct means: an answer is of measures the
  caller may see and of views that are not behind, a refusal was true when given, the
  rate is what is promised, and calls end.
- **OAuth, credentials**: see [what is not modelled](#7-what-is-not-modelled).

## 2. The models

Each module's comments say what it leaves out; `PROJECT.json` maps every
definition to its lines. Definitions marked "Mutated form" are not part of a
model: each is a plausible bug, and is there to show that a property would catch
it when it stands in for the definition it follows.

**`ActionBroker`** models `ActionBroker.propose` and `commit` statement by
statement. `row`, `idem` and `audit` are the three tables. `loop` is the task that
has left its await: nobody else moves until it awaits or returns, but `Restart` may
fall between any two of its statements, each of which is an action (`Consume`,
`Purge` of the keys whose window is over, `Register`, `Dispatch`, `LogFailure`,
`MarkFailed`, ...). The two awaits are
`checking` (the rules of propose) and `executing` (the executor); `Cancel` ends a call
there. `Platform` decides what became of the request, before or after the caller
stopped waiting. `Configs` are the ways the process may be started (kill switch,
contract, executor), and a restart may change them. Hashes are abstract: two
requests have one key when their actions and payloads agree, and a client presents
a valid token only if it was given it.

**`ActionLease`** is what the broker promises, without tokens, tables, clocks or
tasks: a lease per key, claimed once by a request, held while its run is open, given
back on failure, and dropped (`Lapse`) only from a holder without an open run. `ActionBroker!BrokerKeepsLease` is the refinement: keys come
from the rows, holders from `idempotency_keys`, open runs from the calls that have
claimed.

**`AdsWrites`** models `execute_write` with `AdsIdempotencyStore` and
`OperationLog`, over the two platform clients. `config` is how the process was started:
the kill switch (`write`) and the scopes of its callers; a restart may change both, and
`sentUnder` remembers under which of them a call went out. `ask` is what a call was made
with (key, request hash, platform, validate_only, over the spend cap), `wire` the fate of
the transmission it waits for, `stray` the transmissions nobody waits for any more
(abandoned by a timeout, a cancellation, or a restart), which may still take effect.

**`ModelLimiter`** models `TokenBucket` and `ModelLimiter`. Every locked region and
every unlocked read or write is a step: `TakeSlot` and `TakeTokens` are
`try_consume` on the two buckets, `Refund` what happens between them,
`ReadBlocked` and `WriteBlocked` the unlocked `max` of `penalize`. Balances are
integers and refills happen with `Tick`, which no touch of a bucket can tell from
the code's lazy refill.

**`LLMRouter`** models `complete` and `complete_stream`: passes over the candidates,
reservations, 429s, the wait rounds. A limiter is abstracted to `open[m]`, whether
its next `try_acquire` would succeed, which others change at any time.

**`ValueIndex`** models background builds, the snapshot served (`current`), the
snapshot persisted (`disk`), and callers that `get` and resolve or `verify` a filter of
an empty result. Snapshots are objects on a `shelf`: a caller goes on using the one
it was given, and what its probes find goes there. `Match`, `Store` and `Return` are
the steps of `by_norm` in the worker thread. What Cube holds only grows (`Appear`).

**`FenceStripper`** models `_FenceStripper` on texts of ticks and letters: `Cut` is the
loop of `feed`, as a recursive function, and `Prose` is a reference written
independently of it, by the positions of markers in the whole text.

**`Analyst`** models sessions, `_evict`, the lock, and `_run_turn` with
`_stream_final`, composed with `FenceStripper` for what the client is shown. A turn
yields `events`; `ClientGone` closes its generator at any await or yield. Which tools
the model asks for, and with what arguments, is left out; how many, and in which
order calls, results and answers enter the conversation, is not. A tool step, a label
and what follows the answer may raise out of the turn (`ToolRaises`, `LabelRaises`,
`AnswerRaises`): such a turn is `broken`, and its terminal event is the route's.

**`CatalogueLoader`** models `load_catalogue`: what is merged, derived and overlaid
(`Loaded`), every integrity check that refuses to start (`Sound` and its parts),
`scope_catalogue` for a pinned database (`Scoped`) and the drift check against Cube
(`Drifted`, over all the members the metrics need, unknown ratio components included). A catalogue is one record; ids are strings, a typed name is a sequence of
words.

**`CatalogueService`** models the resolvers over the variable `cat`: metric ids,
aliases and retired ids, concepts with their axes (`Selection` gathers what sets each
axis, `Selected` finds the row, `RowAnswer` refuses what the metric cannot take),
terms (`Tiers`, in the code's order), dimensions, brands, and search. Similarity is
`difflib`'s ratio taken over words instead of letters. **`CatalogueTools`** adds what
the listing, definition, batch, neighbour and ontology tools return, **`ValueMatch`**
`ValueIndex.resolve`: which values of a snapshot a question names. How two words
resemble each other is the constant `Resembling`.

**`Catalogue`** puts them to work: a process is deployed with one of `Sources`,
loads (`Load`), checks drift (`DriftCheck`, `DriftSkipped`) and answers one question
(`AskTerm`, `AskWithAxes`, `AskBatch`, `AskValues`); `last` keeps the answer of every
entry point to it. `Sources` are the sample as it is, with each of the `Mistakes` a check of
the loader looks for, and with each of `Unguarded`, the mistakes no check looks for.
**`SampleCatalogue`** is a small catalogue with one of each thing
the code distinguishes: aliases plain and refused, retired and deprecated ids, drafts
with and without a fallback, concepts with axes, filters and unsupported
combinations, bindings with slices, two databases, hierarchies.

**`QueryPlanner`** models the way from a request to Cube queries: `Reference` (what a
measure stands for), `OneAxis`, `ForcedFilters`, `BindingFor` and `Candidates` (the
slice), `Parts` (one per view, clock and forced scope), what a view refuses
(`PartRefused`), and the loads of a part (`MainLoads`, `UndatedLoads`,
`CoverageLoads`). A refusal is an empty set. Where the code looks at the first filter or
the first metric of a list, the model, whose filters and metrics are sets, takes any one
and keeps to it. **`Queries`** runs it: `Ask`, `Drill`
and `DrillHierarchy` start a call, whose parts load stage by stage (`CubeAnswers`,
`CubeWaits` for "Continue wait", `CubeFails`), `Save` their rows, and `Compose` the
parent; rows expire with `Tick`. What is stored is `Dated`, the request with the axis it was
read on in place of `report_date`, which is what a drill reads back.

**`Datasets`** models `build_dataset_query`: `Start` resolves the range, `Load` reads a
brand of a view at one instant, `Judge` refuses (and resolves the range again, as the
code does), `Probe` reads each view's newest date, `Finish` aligns the parts into a
table and stores it within the brand's share, `Slice` and `Delete` follow. `Land` moves
a pipeline, `Tick` the clock. The data are `Events`; a cell is the number of events of
its row. A saved build never changes, so the cells of what was stored are computed from it
(`Cell`) and only the rows and columns of a dataset are kept.

**`Gateway`** models what stands before the planner: `Query` and `Drill` with scopes,
module and the freshness gate, whose probes go through `cache` (`ProbeHit`,
`ProbeSent`, `CubeReads`, `ProbeAnswered`, `ProbeFailed`); `Sql` and `ListMetrics` with
a limit each (0 counts nothing); the schema cache (`SchemaHit` to `SchemaFails`). Of a
statement the model knows whether it is a SELECT or an EXPLAIN, which members it reads and
which of them the check can see to be a view's (`seen`); `Enforced` is
`freshness_enforcement`. The planner
answers or fails (`PlannerAnswers`, `PlannerFails`): what it answers is `Queries`' matter.

The `MC*` modules give the constants that a configuration cannot write down.

| Module | Code | Configurations |
|---|---|---|
| `ActionBroker`, `ActionLease`, `MCActionBroker` | `actions/`, `storage/db.py` | `ActionBrokerSafety`, `ActionBrokerLive` |
| `AdsWrites`, `MCAdsWrites` | `ads/` | `AdsWritesSafety`, `AdsWritesContention` |
| `ModelLimiter`, `MCModelLimiter` | `llm/rate_limit.py` | `ModelLimiterSafety` |
| `LLMRouter`, `MCLLMRouter` | `llm/router.py` | `LLMRouter` |
| `ValueIndex`, `MCValueIndex` | `catalogue_service/value_index.py` | `ValueIndex` |
| `FenceStripper`, `Analyst`, `MCAnalyst` | `gateway/analyst.py` | `Analyst`, `AnalystBatch` |
| `CatalogueLoader`, `CatalogueService`, `CatalogueTools`, `ValueMatch`, `Catalogue`, `SampleCatalogue`, `MCCatalogue` | `catalogue_service/` (`loader.py`, `scope.py`, `validate.py`, `service.py`, `value_index.py`), `gateway/server.py` | `Catalogue`, `CatalogueFilters` |
| `QueryPlanner`, `Queries`, `MCQueries` (with `SampleCatalogue`) | `app/query_planner.py`, `app/result_store.py`, `semantic_layer/cube_client.py` | `Queries`, `QueriesCoverage` |
| `Datasets`, `MCDatasets` | `app/dataset_builder.py`, `app/dataset_store.py` | `Datasets`, `DatasetsMidnight` |
| `Gateway`, `MCGateway` | `gateway/server.py`, `semantic_layer/semantic_sql.py` | `Gateway`, `GatewayBrand` |
| `ActionBrokerProofs`, `AdsWritesProofs`, `LLMProofs`, `ValueIndexProofs`, `AnalystProofs`, `QueriesProofs`, `DatasetsProofs`, `GatewayProofs` | the proofs (section 5) | |

What composes what: `Catalogue` is `CatalogueTools` and `ValueMatch` over
`CatalogueService` over `CatalogueLoader`; `Queries` is `QueryPlanner` over the same
service; `Analyst` runs `FenceStripper`; `ActionBroker` implements `ActionLease`.

The operators of `CatalogueService` and `QueryPlanner` hand heavy intermediate results
on as arguments (`ResolveTerm` to `Strongest`, `Parts` to `Planned`) instead of naming
them in a LET that is read several times: TLC's coverage mode copies such a name at
each of its uses, and the chain of resolvers is twelve operators long.

## 3. The runs

Bounds are CONSTANTS: the sets of calls, requests, keys and so on, and one bound for
each counter that would grow without end (`MaxTime`, `MaxCells`, `MaxBuilds`,
`MaxRestarts`, `MaxText`, `MaxCalls`, `MaxAsks`, `MaxHandles`, `Horizon`). Runs that
turn deadlock checking off are those of the router, the value index, the analyst, the
catalogue, the queries, the datasets and the gateway, whose calls are made once:
everything being over is a proper end.

| Run | What it shows |
|---|---|
| `broker_safety` | `DispatchSafe`: no replay, interleaving, cancellation or restart dispatches a request twice (`SingleDispatch`), and what is dispatched was previewed as eligible, handed to the client, and spent (`OnlyVettedDispatch`); `TypeOK` is a part of it. `OutcomeRecorded`: EXECUTED means applied and audited, FAILED audited, wherever the process died (`AuditBacksStatus`), and a failed request owns no key (`RetryNotBlocked`). `WindowApart`: two requests with one key that were not given back are a window apart. `BrokerKeepsLease`: the tables implement `ActionLease`. |
| `broker_live` | `CallsReturn`: no call waits for ever, with or without the contract, the executor and the kill switch. |
| `ads_safety` | `OnlyAdmittedEffects`: only calls that were sent with the kill switch on and the write scope granted, within the cap and not as a preview, act, at most once per transmission the client may make, however late. `LogsTellTheTruth`: EXECUTED is logged after the effect and the stored result, REJECTED and VALIDATED never act, nobody has two outcomes. `CallsEnd`: the retries end. |
| `ads_contention` | `KeysHonoured`: a replayed answer is the result of a call with the same key and arguments that took effect (`ReplayIsGenuine`), and a key that was answered success does not act again in its window, whoever else used it meanwhile (`NoActAfterSuccess`). |
| `limiter_safety` | `RatesKept`: what is let through (`RequestRate`) and charged (`TokenRate`) stays within capacity, refill and the debts a drain dropped, and balances within their buckets (`LimiterTypeOK`). `DebtBounded`: one bucket per thread at most. `WaitSuffices`: who waits for `time_until` alone gets through. |
| `router` | `RouterSafe`: a caller's deltas come from one model (`OneVoice`) and a reservation is settled before the call goes on (`OneReservation`). `RefusedRests`: a model that answered 429 is asked again only once all have. `CallsEnd`: by the budget, or because buckets refill. |
| `values` | `NothingInvented`: no snapshot, row or answer holds what Cube does not. `ClaimHonest`: a value is reported missing only when it was absent at the question, but for dimensions nobody could ask. `NeverBackwards`: a snapshot is never replaced by an older one, in memory or on disk. `WorkEnds`: builds and calls. |
| `analyst` | `NoScopeLeak`: a conversation holds one scope's messages. `OneTurn`: a conversation has no unanswered tool call but of the running round, or of a turn that its client or an exception ended among its tools (`CallsAnswered`); one terminal event, last, and no answer kept from a turn that failed (`OneTerminal`). `TokensAreProse`: the tokens are the prose of the answer however it is cut. `TurnsEnd`. |
| `catalogue` | `NothingDangles`: after the load, whatever mistake the files carry, checked for or not, every id that a reader follows without a guard leads somewhere; excepted, by name, are ratios with an unknown component (`RatiosHold`), filters of a concept alias and retired ids whose replacement the gate hides (`AnswersHold`). `OneAnswer`: resolver, concept tool, planner, definition, listing and first search hit name one metric for one name (`OneMetric`, `OneDefinition`); so for dimensions (`OneDimension`) and brands (`OneBrand`). `GateHolds`: nothing of another database, another module or missing in Cube gets through any tool. `AxesHonoured`: an axis the caller set, by its name or by a value only it can take, is not defaulted. `ValuesHeard`: a value the question says is proposed, and is not called vocabulary when it is a filter. |
| `queries` | `LoadsSound`: every load reads one slice of a fact that repeats its total (`OneSlice`), stays within what its metrics and breakdowns are valid for (`InRange`), and is on one clock (`OneClock`). `BrandKept`: every load of a view that carries the brand, disclosures included, reads one brand, and the main loads the one asked for; only a caller whose own filter asks for several (two values, notEquals, set) gets them, and under that very filter. `ChildNarrows`: a drill loads under all of its parent's filters and on its axis. `PartsBeforeParent`: a composed row names parts that are saved, and outlives none of them unseen. `CallsEnd`. |
| `datasets` | `TablesHonest`: unless the day turned during the build, a zero tells that nothing happened, two excuses apart, and rows are of the range; a number of one brand before the source's last bucket tells all that happened. `StoreSound`: slices stay within their table and scope, and no brand keeps more than its share. `BuildsEnd`. |
| `gateway` | `GateHeld`: under a module, every measure an answer stands for is of the module and within the caller's scopes; without one, every measure but those named by a term (`RightsHeld`). While freshness is enforced, each view of a measure given by its id, if its probe was heard, has a brand among those the filters leave whose pipeline is on time (`FreshAnswers`). `RefusalsTrue`: what a view was called stale by was read recently, lay too far back and is never a failed probe; a member called unknown was so recently; a rate refusal had its calls in the window. `CallsEnd`. |

Five configurations are expected to fail and are kept beside the runs: each checks what the
repository says of a case, and TLC finds the case where the code does otherwise (section 6).
`tlc -config AnalystBatch.cfg MCAnalyst.tla` shows the first.

| Configuration | Property | What TLC finds |
|---|---|---|
| `AnalystBatch` | `BatchSurvives` | A call whose arguments are no object, or a label or scratchpad key that is no text, raises out of the batch, and its calls stay unanswered. |
| `CatalogueFilters` | `FiltersLand` | A concept alias filters a dimension its metric's view does not carry; the load passes and the concept tool answers with it. |
| `QueriesCoverage` | `CoverageOfBrand` | The attribution coverage beside an answer is of another brand than the answer. |
| `DatasetsMidnight` | `ZeroIsReal` | The day turns during a build, and the table has zeros for a day nobody loaded. |
| `GatewayBrand` | `BrandQueried` | A query without a brand is answered for the default brand and passes the gate on another's landed data. |

Why the bounds are enough to be of interest:

- *Broker.* Two calls and two requests are the least that interleave on one key;
  two keys tell a key's own lease from another's. The clock reaches 2 with a token
  lifetime of 1 and a window of 2, so tokens expire and windows lapse within a
  behaviour. All five starting configurations, and changes between them, occur. The
  rules are those of `pause_meta_ad`. `broker_live` uses one key and a shorter clock
  because liveness allows no symmetry; interleavings over two keys add nothing to
  termination.
- *Ads writes.* `ads_safety` has every kind of call, four configurations (kill switch, a scope of one platform) and two
  transmissions per request (one retry), with no time passing, since its properties
  do not depend on the window. `ads_contention` has three calls, so that one may
  succeed between two others, two payloads, and a window of 1 in a clock of 2; one
  transmission per request, since retries are in the other run.
- *Limiter.* Two threads; a slot of 2 units against a refill of 1, so that slots are
  refused in the middle of a refill, and capacity for three of them, so that the token
  bucket can be overdrawn as far as its guard allows. Retry-After 0, 1
  and 2 lets blocks overlap. A third thread changes no state found interesting, and
  the proofs hold for every number.
- *Router.* Two models and two calls, each streamed or not; budgets 0 (none, the
  default) and 2.
- *Value index.* One brand, two targets, two values, up to two cells in Cube, two
  snapshots per process, one restart, one caller. So an older and a newer build, a
  loaded row and a build, a failed target and a probe can meet. Two things are in
  the model and beyond this instance: two brands, and two callers on one snapshot
  (the race on `by_norm`, section 6).
- *Analyst.* Two turns, one after the other or with one waiting; two ids and two scopes
  (all assignments up to renaming), one session at most, so that every new id evicts;
  a lifetime of 0 in a clock of 1, so that a session may be idle; two rounds of up to
  two tools; answers of up to seven characters in pieces that split a marker after one
  tick or two, hold one whole, or follow a letter.
- *Catalogue.* The sample, 23 mistakes, one or more per check of the loader, and four that no
  check looks for (an unknown ratio component, an alias filter, ...), each with and
  without a pinned database and with four sets of members Cube may lack. 30 terms cover
  every tier of the resolver, eight axis choices and three questions every way an axis
  is set, five batches, twelve spoken questions over three snapshots every rank of a
  match. A question writes nothing a later one reads, so one per behaviour is enough.
- *Queries.* 36 requests, one or two per rule of the planner (two bindings, a forced
  scope, every operator that matters, two brands, a brand by name, measure filters without
  a number, an hour, a comparison cut at now), each followed by every drill, over the whole
  sample and over the sample behind the gate, on the deployed default axis
  (`event_date`, `config.yaml:97`). A metric that is both switchable and bound is not in
  the sample: none is shipped (section 6); Cube asks to wait once, a row lives one
  tick of a clock of two. Two calls never share anything but the store, which is why
  one ask and one drill are enough.
- *Datasets.* One build (two share only the store, where `Finish` is one step), nine
  requests that differ in grain, preset, breakdown, brand filter and additivity; a day
  is two hours of two ticks, a month two days; pipelines lag 0, 1 or 4 ticks at the
  start, the clock may pass midnight at 8. `DatasetsMidnight` is one view with an
  event on each of three days, and yesterday asked at 7, the last tick of a day. Clock
  and pipelines move only while a build runs: `Init` offers the states they would
  reach before.
- *Gateway.* Eight mixes of calls, up to three at once, each aimed at one interplay: a
  drill into a row that expires, a brand masked by another, rights by id and by term (a term
  for a measure anyone may see and one for a measure only finance may), two views at once,
  a rate of either tool, a schema that changes, EXPLAIN and columns the check cannot place.
  The limits are 2 for SQL and 1 for the listing; the shipped 0 of the listing counts nothing,
  which `TooMany` has as a case, and freshness is enforced, as shipped. A day is three ticks and starts a tick after midnight;
  caches live one tick. Only the pipelines and members that a mix asks about change
  (`Touched`), and only between its first call and its last (`Between`).

## 4. Fairness

Safety runs use `Spec`. Liveness is checked under `FairSpec` (in the later modules
`Spec` itself), and rests on this:

- asyncio runs ready tasks in FIFO order, so a call that can go on again and again
  does so: strong fairness on a call's own steps in the broker and the ads writes
  (another task may hold the loop between, so weak fairness would not be
  enough). `asyncio.Lock` wakes its waiters in order; in the analyst's instance one
  other turn can hold the lock and then ends, so weak fairness is enough. In
  `Queries`, `Datasets` and `Gateway` a step of a call is one turn of the loop that
  nothing else disables, so weak fairness is enough there too.
- httpx raises at its timeout (the executor, the Meta client, the Cube client), the
  LLM client at its own (with the deployed wait rounds, `config.yaml:132`; the code's own
  default of none would wait for a model for ever, so `Analyst!TurnsEnd` assumes that
  a single call of the model ends, and shows that a turn does then): the steps that record an answer or a failure are enabled
  while the outside is silent, and are fair. Nothing is assumed of what is answered.
  A load that Cube asks to wait for is retried a bounded number of times
  (`ContinueWaits`), which is what `Queries!CallsEnd` rests on.
- The Google library is called without a deadline of this program's; `AdsWrites`
  therefore assumes that the Google platform answers in the end, and the assumption is a
  conjunct of `FairSpec` of its own.
- `GiveUp` and `Expire` of the value index are `asyncio.wait_for` timeouts.
- A worker thread is not starved.
- Nothing is assumed of clients, clocks, pipelines, restarts or refills. The exception
  is the router's `Patience`, a hypothesis of its `CallsEnd`: a call without a budget
  ends only if buckets refill and a provider that is asked over and over does not
  answer 429 for ever.

## 5. The proofs

Each `…Proofs` module extends the module it is about (`LLMProofs` both modules of `llm/`,
which is why the limiter's definitions carry its name) and proves, for all values of the
constants that satisfy that module's named assumption (`BrokerAssumption`,
`AdsAssumption`, `LimiterAssumption`, `RouterAssumption`, `ValueIndexAssumption`,
`AnalystAssumption`, `QueriesAssumption` with `CatalogueAssumption`, `DatasetsAssumption`,
`GatewayAssumption`; TLC evaluates them in every run):

| Theorem | Property |
|---|---|
| `ActionBrokerProofs!TypeCorrect` | `TypeOK` |
| `DispatchKept`, from `AtMostOneDispatch` and `DispatchVetted` | `DispatchSafe` |
| `OutcomeKept`, from `AuditBacked` and `RetryFree` | `OutcomeRecorded` |
| `WindowKept` | `WindowApart` |
| `BrokerImplementsLease` | `BrokerKeepsLease`: `ActionBroker` implements `ActionLease` |
| `AdsWritesProofs!EffectsAdmitted` | `OnlyAdmittedEffects` |
| `LogsTrue` | `LogsTellTheTruth` |
| `KeysAreHonoured` | `KeysHonoured` |
| `LLMProofs!BothRatesKept`, from `TypeCorrect`, `RequestRateKept` and `TokenRateKept` | `RatesKept` |
| `DebtKept` | `DebtBounded` |
| `WaitingSuffices` | `WaitSuffices` |
| `LLMProofs!RouterIsSafe` | `RouterSafe` |
| `RefusedModelsRest` | `RefusedRests` (an action property) |
| `ValueIndexProofs!InventsNothing` | `NothingInvented` |
| `ClaimsAreHonest` | `ClaimHonest` |
| `GoesForwards` | `NeverBackwards` (an action property) |
| `AnalystProofs!ScopesStayApart` | `NoScopeLeak` |
| `TurnsEndOnce` | `OneTurn` |
| `QueriesProofs!PartsBeforeParentHolds` | `PartsBeforeParent` |
| `BrandKeptHolds` | `BrandKept` |
| `ChildNarrowsHolds` | `ChildNarrows` |
| `DatasetsProofs!TablesStayHonest` | `TablesHonest` |
| `StoreStaysSound` | `StoreSound` |
| `GatewayProofs!GateNeverLeaks` | `GateHeld` |
| `RefusalsHaveReasons` | `RefusalsTrue` |

The theorem `Inductive` of a module is `Spec => []IInv`, its inductive invariant
(`LimiterInductive` and `LimiterInv` for the limiter); the properties follow from it.
Every `IInv` was model-checked on the instance of its run before it was proved. The
proofs have one lemma per action, or per group of actions that write the same things,
and before them the lemmas of what a step leaves alone.

The assumptions are about constants only, and mild: counts and durations are natural
numbers (those the code divides by, or that have to be positive for it to work, are
not zero), the sets of inputs are sets of well-typed inputs, and the values that stand
for "nothing" are none of those they are told from. `MaxHold < Window` of the broker is
the one that relates two numbers of the deployment (see below); `GatewayAssumption`
says besides that the clock starts late enough for no pipeline to lag before day 0, and
that views, metrics and names refer to each other, which the loader checks.
`DatasetsAssumption` says of the data that the events are finitely many and that a brand's
id means that brand.

*The broker.* None of the properties is inductive. `IInv` adds: `CtlInv`, a task is
between two awaits exactly while it holds the loop, so at most one is; `RowInv`, what a
row and the request's history say of each other (a spent token was handed out, a
dispatched request claimed its key, an owner claimed its key and did not give it back);
`CallInv`, how far each call's request has come; `SoleInv`, at most one call has spent
the token of a request, which is why it is dispatched once; and `LeaseInv`, a request
that claimed its key still owns it until the window has passed, from which two claims
of one key are a window apart. `LeaseInv` needs `MaxHold < Window`: a commit
that outlived its window would give back another's key. The code bounds a commit
by an HTTP timeout of 30 s and the window is counted in hours. `OutcomeInv` carries what
was already written when a status becomes final. `Typing`, `Preservation` and
`OutcomePreservation` show each part kept, one step per action.

*The limiter.* `SlotInv` counts the slots that threads hold between the two buckets;
`DebtInv` counts the threads that wait for the provider: each of them has yet to
overdraw. Both are about sizes of sets of threads, so the proof needs that a step
moves at most one thread into or out of such a set (`Moves`, `Counts`). The type
invariant includes that a refund never lifts the request bucket above its capacity.

`WaitSuffices` is arithmetic: `TimeUntil` rounds a division up, and rounding up is enough.

*The lease.* The mapping `Lease` takes the key of a request from its row once it was handed
out, its claim from `claimedAt`, its runs from `dispatches`, the holders from the owners in the
idempotency table, and what is open from the calls between their claim and their outcome.
Each step of the broker is a step of `ActionLease` (a preview is an `Offer`, `Purge` a
`Lapse`, a restart a `Close`) or changes nothing of it. Several are so only under `IInv`: that
a purge takes the lease of no open run needs `LeaseInv`.

*The ads writes.* `OnlyAdmittedEffects` says of whatever took effect under which configuration
it was sent (`sentUnder`), since the one of the moment may be another by then; that a request
is on its way only under one that admits it is part of the invariant. It also counts effects, which come late: `SendInv` bounds
what a call has applied, has pending and has astray together (`Reach`) by the
transmissions it has counted, so that whatever still arrives was already allowed for.
`LogInv` places each log row at a point of the call; `RowInv` and `StoreInv` tie a stored
result to an effect and keep it, or a later one, in the table until its window is over;
`EarlierInv` says that whoever began found no result of its key to be honoured, from which
nobody acts after a success.

*The router.* The properties speak of what was heard and owed after a failure; `CallInv`
says what holds before: a call that scans or sleeps has heard nothing and owes nothing, and
what it has asked since the last release is what it leaves out. `RefusedRests` then is that
a candidate about to be asked is not left out.

*The value index.* A snapshot is wrong if its rows or the index made of them are, and each
is written before it is served: `SnapshotInv` covers the snapshots under way, including that
the one being built is the last of its brand and not older than what the database has,
which is why saving it never goes backwards. `CallInv` keeps, through the probes, that a
dimension that was asked and did not have the value did not have it at the question.

*The analyst.* `TalkInv` splits the conversation of the turn that runs: everything before its
round is settled (every call answered, or of a turn that was cut or broken among its tools), and the
round is its calls and the payloads of the steps so far, in order. Only that turn holds the
lock, so every other session is settled (`SessionInv`); the last payload of a round settles
it (`SettledByLast`), a client that goes away or an exception excuses it. `StayKeeps` shows that eviction never
drops the session in use nor keeps one twice; it rests on counting places in a sequence
(`Places`, `OnlyKeeps`). `EventInv` has one terminal event exactly when a turn is done and
was not cut; of a broken turn it is the one the route sends.

*The queries.* `ParentInv` says of a composed call what `PartsBeforeParent` says and that its
parent's row expires no sooner than its parts', which were saved before it and all live equally long;
that no row of another call takes the parent's place is `Apart`: ids are given out once, the
parent's before its parts'. `BrandKept` is kept because what is loaded is settled when a part
starts (`LoadsBranded`, `PartInv`): the main loads are under the caller's brand filter with its
names read as ids, or else under the default brand (`ScopeHolds`), the undated outcomes carry the
main loads' filters (`UndatedShape`), and the coverage has a rule of its own (`CoverageHolds`).
`ChildNarrows` is about a request that is stored, read back and resolved again. `RowInv` says
that every filter of a stored load, the default brand aside, is one of the stored request's,
and that this one is `Stable`: read back, it asks of Cube the same, or is refused by the view, so
that the drill has no loads there. What a part keeps of its request through references, axis,
slices, forced filters and sort is in `Canonical`, `SplitRequest`, `PartsKeep` and `SortedKeep`,
which hold of any catalogue. `Stable` rests on `ReadAs`: to read an id as a name gives the id, unless
it is one of the words that stand for the payment breakdown. `CatalogueAssumption` is about those
words alone: a dimension whose id is one of them (`payment_type` in the shipped files) has no
view in common with `payment_bucket`, and neither has a conformed family. An attempt to
prove the lemma without it failed, and showed that the planner reads ids as names twice
(`Reading`), and what follows for `payment_type` (section 6).

*The datasets.* `BuildInv` keeps how far a build has come and that whatever it read is of the
past; `MarkInv`, that a source's mark is the last bucket of its own rows or the end of a range
that the source was seen to have passed. From the latter a zero is real (`ZeroHolds`): an
event that the source had not landed at the load, though it had landed later ones at the probe,
landed in between (`LandedSince`). The proof needs that the range the rows are of is the one the
mark is about, `window = asked`, and that a load reads every brand up to one instant
(`OneBrand`): attempts without them failed, the first where the code does (section 6), the
second because two brands' pipelines are at different places. `DatasetInv` keeps a dataset
within a saved build's table, scope and share. What a brand uses is the size of a union over
its datasets, so `StoreGrows` and `StoreShrinks` are about finite sets; that a table is finite
follows from the events and the spine. The last bucket and the least of a set of numbers are
found by the well-foundedness of the naturals (`Least`, `MaxIn`).

*The gateway.* A cached or returned reading is `Sound`: no newer than what has landed of
some brand the filters of the probe leave, which is monotonic; that the newest of several days is
one of them, and so a brand's, is `NewestThere`. `QueryInv` keeps that what was
gated is what the planner will run (a drill's parent may expire or be read again in
between), and that each view behind a measure given by its id is still to be probed, once
(`LineNew`), or was judged (`SeenInv`, which also tells why a view is called stale).
`RightsHeld` is stated over every measure the names stand for and not by the gate's own test;
from that test it follows only because the code refuses names that are no ids under a module,
and is why the property has its exception without one. `TimesInv` says that the instants kept of a key include every call still in the
window, from which `RateHeld` follows; since `RateHeld` is about the past it is itself part of
the invariant. `CacheInv`, `OutInv` and `SeenInv` bound the age of a reading by its
entry's lifetime plus what Cube may take.

Only model-checked:

- all liveness properties and ENABLED, which are beyond the prover;
- `TokensAreProse`: what `FenceStripper!Cut` computes for every text needs induction over
  sequences;
- the five configurations of section 3 that are expected to fail;
- the catalogue (`Catalogue`): its five invariants speak of resolvers that read nested records
  through `SelectSeq`, folds and CHOOSE, where a check of every mistake in the sample says more than
  a proof from assumptions about well-formed files;
- `LoadsSound` of `Queries`: that a pinned slice is the one a binding means, or that a forced filter
  meets no other, rests on what the YAML files say and no check enforces, so that a theorem
  would have the matter in its assumptions.

## 6. Where the code and what it says differ

Met while modelling and proving. The properties of the runs are stated so that they
hold of the code as it is, and name their exceptions; five cases have a configuration that
shows them (section 3) and come first.

*Datasets, at midnight* (`DatasetsMidnight.cfg`). A relative range is resolved before the
parts are loaded (`app/query_planner.py:1002`) and again after (`app/dataset_builder.py:163`).
There, yesterday is asked at the last tick of day 1, so the load is of day 0; the day turns
before the load is answered, the table is made for day 1, and as the view by now holds data of
day 2 its mark is the end of day 1. The cell of day 1, which nobody loaded, is 0, though an event
of it had landed. The builder says "0 is a real zero" (`app/dataset_builder.py:254`; also `:12`).
The failed step of the proof of `ZeroHolds` showed it; resolving the range once and handing it
on would remove the exception from `CellsHonest` and `RowsInRange`.

*One bad call ends the turn* (`AnalystBatch.cfg`). "`_run_tool` never raises (it returns a JSON
error string), so one bad call can't cancel the batch" (`gateway/analyst.py:577-579`). But
`inject_scope` calls `dict(args)` on what the model wrote (`:139`), and `scratchpad_write` normalises
a key that need not be text (`llm/agent_core.py:38`) outside the `try` of `:421-422`; `_step_label` may
raise too (`:287`). The calls are appended before (`:558`) and never answered. The
client is told: the route sends an error event for whatever leaves the turn (`:707-710`,
`:754-756`), so that "exactly one terminal event" holds of the stream, not of `_run_turn`.

*A filter that lands nowhere* (`CatalogueFilters.cfg`). "Fail fast on internal inconsistencies (bad
refs between YAML files)" (`catalogue_service/loader.py:812`). Of a concept alias the concept and the
axes are checked (`:997-1007`), its own filter is not: on a dimension that does not exist, or that
the metric's view does not carry, it passes, and `resolve_concept` answers with it
(`service.py:633-660`), though it refuses such a filter of an axis (`:663-671`). No shipped alias
has one. An unknown ratio component passes as well (`loader.py:474-478`), is asked of Cube as it
is written, and is caught by the drift check alone (`RatiosHold`).

*Coverage of another brand* (`QueriesCoverage.cfg`). `_attribution_coverage` reports "for the same
brand and period" (`app/query_planner.py:1161-1162`), the brand being the values of the first equals
filter as typed, or else the default (`:1172-1173`). Beside an answer for all brands but the default
(notEquals) stands the default's coverage; a brand given by name is looked for by that name, and
the coverage goes missing without a note.

*The default brand is not probed* (`GatewayBrand.cfg`). "Scoping the probe by the query's brand means a
fresh brand cannot mask a stale pipeline for the brand actually being queried"
(`gateway/server.py:243-245`). A query without a brand filter is answered for the default brand, which
the planner adds later (`app/query_planner.py:1011-1021`), and is probed over all.

*Actions and ads.*

- **A used token is not always reported as used.** `commit` tests expiry before single
  use (`actions/broker.py:315`), so a replay after the token's lifetime rewrites an
  EXECUTED row to EXPIRED and clears its response. Nothing is dispatched again.
- DUPLICATE is answered with "already executed" (`actions/broker.py:345`) while the other
  request is in flight, or was lost with its process: the key is taken before the
  dispatch (`CommitDuplicate`).
- A commit whose executor timed out is FAILED and its key free, while the platform may
  still apply it; a second request with the same payload then takes effect as well.
- **A retry may create twice.** The idempotency row is written after the platform call
  (`ads/envelope.py:320`): a call that timed out, was cancelled or died after it took
  effect leaves no row. Two calls with one key that overlap both act as well; the row
  that stays is the one stored last.
- `execute_write` says it looks the key up before validate_only (`ads/envelope.py:197-199`);
  the code validates first, so a preview never replays a stored result. An answered
  lookup (a replay) leaves no row in `ads_operations`.

*Models and analyst.*

- **A hard block may be shortened.** `penalize` does an unlocked read-modify-write of
  `_blocked_until` (`llm/rate_limit.py:183`).
- `drain` sets a balance to zero (`llm/rate_limit.py:85`), also one below zero: the
  penalty then forgives a debt (`forgiven` in `TokenRate`). A completion without usage
  is reconciled against 0 and refunds its whole estimate.
- A streamed turn whose client leaves while tools run, like one that an exception leaves, leaves
  tool calls without results in the session; `sanitize_history` does not repair that, and later
  turns of the session are refused until it is evicted (`GivenUp` in `CallsAnswered`).
- `inject_scope` says it ignores anything the model set, but keeps a `brand_id` filter the
  model wrote (`gateway/analyst.py:129-133`).

*Values.*

- **A value may be reported missing though it occurs.** Probes go only to dimensions the
  snapshot has values of, and their exceptions are dropped
  (`catalogue_service/value_index.py:468`, `:504`); `ClaimHonest` excepts those dimensions.
- `by_norm` may return `None` when a probe clears the index between its store and its
  return (`Return`, verdict "failed"); it takes two callers on one snapshot.
- What a probe merges goes to the snapshot its caller holds: a rebuild or a restart
  forgets it.
- A longer phrase that resembles a value claims it from the words inside the phrase even
  when its own list is full, and the value is proposed nowhere (the "unless a list was
  full" of `ValuesHeard`).

*Catalogue.*

- `lookup_metric` of a retired id whose replacement the pinned database hides raises
  KeyError (`MetricDefinition`, "failed"). `get_metric` defines the replacement of a
  retired id that the planner refuses.
- Metrics "reachable by id only" (`catalogue_service/service.py:816`) are found by the
  dimension and glossary tiers of search and listed by the v2 ontology.
- Suggestions for an unknown id are searched without the caller's module, and
  `related_metrics` names neighbours outside the module and drafts; suggestions and the
  replacement in a retired term may name hidden metrics. `GateHolds` speaks of answers.
- A question that names two values of one axis is a comparison to `question_axes`, but
  `_fill_axes` takes the first hint it finds. Of two caller keys that both fit one axis
  the second is dropped without a word.

*Planner, datasets, gateway.*

- **A declared dimension cannot be reached.** `payment_type` (`catalogue/dimensions/core.yaml:1462`)
  is among the words that `resolve_dimension` reads as `payment_bucket`
  (`catalogue_service/service.py:1720`), and every check of a part reads the stored id once more; its
  one view has no `payment_bucket`, so a breakdown by it, or a filter on it, is refused, by
  whatever name it was asked.
- A drill "may only narrow", but the default brand is not in the stored request, so a
  `brand_id` filter added by a drill takes the child to another brand (`ByDefault` in
  `ChildNarrows`).
- A notEquals filter on the brand lifts the default brand; a metric valid
  for some values is neither refused nor scoped when the filter is not an equals test
  (`KeptWithin`).
- A binding resets the time dimension that the event date had chosen: a switchable metric with
  a binding would be loaded on another clock than its siblings, and none is shipped. No shipped
  metric is on a view that `_guard_breakdown` guards. The comparison window of 29 February is
  365 days earlier.
- "0 is a real zero" (`app/dataset_builder.py`) is not so when rows land between the load
  and the probe of the newest date, when the last bucket had landed in part, and when the
  brand filter is notEquals (the probe then asks for other rows), besides at midnight.
  `CellsHonest` excepts these three (`LandedSince`, `UnderWay`), and both it and
  `RowsInRange` a turned day. A number summed over brands may miss what a slower brand's
  pipeline had not landed (`OneBrand`). `brand_key` says it reads the equals filter and reads any,
  and keeps the brand as it was typed: "heads" and "20" have a share each.
- `this_month` on the first of a month is the partial current day, which presets are said
  to exclude (`app/query_planner.py:62`, `:80`).
- A failed probe is cached as unknown, which lets
  calls through for as long as the entry lives. A measure named by a term, when the
  planner resolves it and no module is set, is checked neither for scope nor for freshness
  (`gateway/server.py:416-417`; the exception of `RightsHeld`). Where the filters leave several
  brands the probe reads the newest of them, and one that is late passes with the others. Refused calls count toward the rate. When Cube
  cannot be reached a schema of any age serves (`SchemaFails`).

## 7. What is not modelled

`PROJECT.json` lists every component with its status.

- *Insight engine*: arithmetic on floats over stored rows; it keeps no state.
- *OAuth and bearer authentication*: codes live in a dict and are popped in the turn of
  the event loop that checks them, tokens are signed and kept nowhere. No two steps
  interleave; what is left is the checking of strings and signatures.
- *Credential resolvers*: one read and one write of a cache per call. What a resolver
  returns is an input of `AdsWrites`, which does not tell one credential from another.
- *Prompts, semantic inventory, dataset contracts, scripts, configuration*: text,
  offline reports, advice, tools and settings. The settings that matter are CONSTANTS.
- In modelled components: the verdicts of business rules (any verdict), HMAC and hashing
  (abstract), error texts and argument schemas, read-only ads tools, log lines; letters
  within words (similarity is taken over words); the OpenMetadata context and the
  ontology of a v1 catalogue; of the planner, the SQL lineage, limits and the naming of
  result columns; of the datasets, statistics and pages, which read only; of semantic
  SQL, the text of a statement (the model knows whether it is a SELECT or an EXPLAIN, what it
  reads and what of that the check can place).

## 8. Plan

Done, in this order: the broker and its abstract lease; the ads writes; the limiter; the
router; the value index; the analyst; the catalogue and value matching; the planner and the
result store; datasets; the gateway; the proofs (section 5).
To do:

1. Compositions: the router over real `ModelLimiter`s in place of `open`; `Gateway` over
   `Queries`, with the marking of missing filter values by `ValueIndex`.
2. Value index with two brands and two callers.
3. The date windows and the comparison windows of the planner as operators with a
   reference definition, on a real calendar.
