# agent-retrieval-bench in TLA+

The program is a benchmark. It generates a synthetic retail business as a
stream of events, serves that stream to an agent in two ways (variant A: six
sources, each with its own lag and cache; variant B: three joined views), asks
the agent questions, and grades the answers against a snapshot of the business.
What the numbers mean depends on a few things that unit tests hardly reach: what
exactly a lagging and caching store may answer, whether the stream says the same
as the state it was emitted from, and whether the scenario that the questions
are about leaves a consistent trace. This directory states those things, checks
them with TLC and proves the most important ones with TLAPS.

Paths below are relative to `src/src/arb/` of the repository.

## 1. Inventory

| Component | State | Operations | Correct when |
|---|---|---|---|
| Serving store (`serving/store.py`) | event list, index of the last applied event, last cutoff, view, cache | `ingest`, `get`, `view` | each event is projected once and in order; no read is newer than the lag or older than lag + TTL allows; no read goes back |
| Projectors (`serving/projectors.py`) | the view they mutate | one function per topic | they keep the highest version, the latest time (ties to the later arrival), or everything |
| World generator (`world/generator.py`) | `WorldState`, random streams | `bootstrap`, `tick`, `run` | the stream is causal and replays to the state |
| World state (`world/state.py`) | dicts of entities, counters | `next_id`, `check_invariants` | references never dangle, stock never below zero |
| Scenarios (`world/scenarios.py`) | `fired` | `maybe_fire` | fires once, is not missed, leaves one consistent trace |
| Source server (`mcp/server_base.py`, `auth.py`, `faults.py`) | tokens, fault profile, its random generator | `call`: auth, fault, clock, tool body | errors are structured; a refused or failed call leaves the store alone |
| Variant A (`mcp/servers/builder.py`, `mcp/tools/`) | eight stores | `feed`, the tools | joins over sources are explained by the sources' lags |
| Variant B (`context/`, `sql/views/`) | external views | `get_view` | the views say what the stream says |
| Tasks and graders (`eval/tasks.py`, `grading.py`), snapshot (`snapshot.py`) | a frozen snapshot | pickers, graders | an honest agent is graded correct, whatever has changed elsewhere since |
| Agents and tokens (`eval/agents.py`, `mcp/auth.py`) | tokens and scopes | tool wrappers, `check` | a variant's token opens its own tools and nothing else |
| Runner (`eval/runner.py`), analysis (`analysis/`) | rows, the results file | `make_row`, `emit_results`, `summarise`, metrics, taxonomy, classifier, charts | all of them say the same about the same rows |
| Kafka sink (`kafka/producer.py`) | the client library's queue | `emit`, `flush` | no change is skipped silently, a run is cut at its end only, and the run ends |
| Command line (`cli.py`) | files it writes | `generate`, `snapshot`, `eval` | |
| Random streams, models, observability | none of their own | | |

How they interact: the generator mutates the state and emits to a sink, either
the in-memory one or Kafka. Stores ingest the events of one topic each, in
arrival order; nothing else moves between the two sides. A tool call goes
through its source server, which checks the token, may inject a delay or an
error, reads the clock and calls `get` or `view` of one store. Both the
generator and a server run in one thread. The generator's event times come from
the configuration and the readers' clock from the operating system, so either
may run ahead of the other.

Hard behaviours, by place: laziness (events become visible when a read finds
them old enough, not when they arrive), a clock that may step back, a cache that
holds not-founds and live lists, several events of one entity in one
millisecond, a scenario that retries, windows over the last orders. The whole
list with source lines is `hazards` in `PROJECT.json`. To these come a producer whose
queue is bounded and whose delivery reports nobody reads, a results file that is
written again by every run, and one metric that is computed in three places.

## 2. Modules

| Module | Models | Kind |
|---|---|---|
| `Projectors` | the projection rules, and what they should keep said directly (`Wins`, `Kept`) | operators |
| `BoundedStaleness` | what a store promises its readers | abstract specification |
| `ServingStore` | one store with its clock | detailed specification |
| `World` | generator, state, scenarios and the in-memory sink | specification |
| `VariantA` | two of variant A's stores behind their source servers, with conditions and tools | specification |
| `VariantAStores` | what the stores of `VariantA` hold, as stores of `ServingStore` | refinement mapping |
| `Evaluation` | snapshot, tasks, graders, the three views and how both variants answer, over `World` | operators and properties of `World` |
| `KafkaSink` | a generator run into Kafka, with the client library and the broker | specification |
| `Harness` | cells, tool calls and tokens, rows, the results file and what reads it | specification |
| `MC_...` of each specification | values for the constants | instances for TLC |
| `Folding`, `ProjectorProofs` | what a fold computes, and what the projectors keep of any log | theorems about operators |
| `ServingStoreProofs`, `WorldProofs`, `EvaluationProofs`, `VariantAProofs`, `KafkaSinkProofs`, `HarnessProofs` | | proofs |

### ServingStore

A variable has the name of the field it models. `lastAppliedIdx` counts applied
events, so it is the field plus one. A method is one step, because a store runs
in one thread, and every read includes `ApplyVisible` (`_apply_visible`) as its
first part:

- `Ingest(e)`: one turn of the loop of `ingest`. Any event may arrive at any
  time, late and out of order, because the store reads arrival order only.
- `GetCached(k)`, `GetFromView(k)`: the two returns of `get`.
- `View`: `view`.
- `AdvanceClock`, `StepBack`: the operating system's clock. `StepBack` is on
  only in the instances that say so.

`ApplyVisible` names the prefix the scan reaches by `Frontier`, a predicate,
where the code has a loop with a `break`. The appending projectors mutate the
list they handed out, so a cached list is the live one: `Live` says when that
happens, and an answer from such an entry is as of now. A cached `None` is
`<<>>` and is not live.

Four variables are history: `reply`, `arrived`, `servedAsOf`, `viewAsOf`. They
record which prefix of the log an answer stands for and when events arrived. No
guard reads them.

`BoundedStaleness` has a log, a clock and reads, and no index, cutoff, view or
cache. It lets a read answer from any prefix that is not too new (each event at
least `Lag` old), not too old (an event that had arrived and was `Lag` old more
than `Ttl` ago is in the prefix, unless an earlier arrival holds it back), and
not before the prefix of the previous get of the key. `ServingStore` implements
it under the mapping `log <- events`, `floor <- servedAsOf`, `scanFloor <-
viewAsOf`. That the answer is what that prefix makes of the key is the invariant
`AnswersAreConsistent`.

"Had arrived" is strict in `Owed`: an event ingested at the very clock reading
of a read may stay invisible until the clock moves, because `_apply_visible`
returns early when the cutoff has not risen. The specification states this
limit instead of hiding it.

### World

A step is one iteration of one of the generator's loops, `phase` is the loop and
`cursor` its position. `_create_order` is several steps, because it takes stock
item by item before the order exists. Random draws are choices: how many orders
and tickets, which items, which order is returned, paid, refunded or advanced.
Entities are numbered in the order their dicts hold them. A `(sku, warehouse)`
pair is a row. `Now` is the outbox's time in ticks, so all messages of one tick
carry the same time, as in the code.

`stream` is the sink. A message keeps its topic, key, time, version and the
fields readers compare. Prices, names and texts are left out; so are the
statuses that nothing sets (cancelled orders, received returns).

`InventorySnapshots` uses `tick % SnapshotEvery = 0` for the code's
`(tick * tick_sec) % interval == 0`; the two agree when the interval is a
multiple of the tick, as in both configurations of the repository.

`Projectors` is the joint between the two: `ReplayMatchesState` folds the topics
of the stream with the same operators that the stores use.

### VariantA

`VariantA` composes stores. A store's content follows from how far it has read its
topic, so here a store is a few positions in one `stream` of all topics
(`applied`, `cachedAsOf`) and the times that decide about them (`visibleAt`,
`cachedAt`). `VariantAStores` has `Store(s)`, which rebuilds the variables of
`ServingStore` from those positions and the transcript, and `ImplementsStores` says that each store is then a
`ServingStore`; the view it rebuilds is `Kept`, what the projector should keep.

- `Feed`: `VariantABundle.feed` of one batch about one key.
- `Refuse` and `Admit`: `SourceServer.call` up to the token check. Its three errors
  are one outcome, `auth_error`.
- `Inject`, `AnswerGet`, `AnswerView`: the rest of the call, after the delay. Only
  the clock moves while a call sleeps, because a server has one thread. The clock is
  read after the delay, and a failing source may fail (the error rate is 5 %). A call
  that is refused or fails reads no clock, so its entry has none.
- `AdvanceClock` and `SetClock`: the same `time.time()` as in `ServingStore`. Time that
  passes takes from the delay of the pending call; setting the clock, in either
  direction, does not. So readings of the clock may step back at any point, and each
  store is a `ServingStore` with `ClockMayStepBack`.
- `faults` is chosen once, by `Conditioned`, as `apply_condition` does before a task.

A tool is the store it reads and how: `get` of a key, or `view`. What a list tool
selects, sorts and cuts off is left out. `transcript` is what the agent was told.

### Evaluation

`Evaluation` extends `World` and adds no state: tasks are built from, and graded
against, a snapshot, and both variants read the stream. `Snapshot` is the state of
now; `SnapshotAt(k)` is the one that `arb snapshot --at-tick k` would have written,
rebuilt from what had been emitted by the end of tick `k`. `at[t]` says how
far topic `t` has been read, so that caught-up, lagging and unevenly lagging readers
are choices of `at`. Variant A reads with the projectors of its stores (`Get`), and
with the list tools (`OrdersOf`, `TicketsOf`, `ReturnsOf`), which filter the kept
records (`Listed`) and are modelled as the set of records they draw on, because no property
tells their order or their limit apart; variant B reads rows of `Customer360`, `OrderState` and `ReturnsEligibility`, which
are translated from `sql/views/`, through `GetView`. `AnswerA` and `AnswerB` are what
an honest agent would say; `Grade` is the grader. An answer is an id and a value.
`LAST_VALUE` has no `ORDER BY` in these queries, so it is the last event to arrive, as the
views' engine sees one partition per key. Where the queries do sort, they sort by
`occurred_at_ms`, and leave open the order of events of one millisecond; there are such
events, since one tick stamps an order's creation and its payment alike
(`generator.py:369,448`). So an aggregated column is modelled as the set of its rows, and
`recent_orders`, which is sorted descending and cut off at 20 (`customer_360.sql:32-34`), as
every set of rows that the sorting and the limit may leave (`Recent`). An order's
status is not affected, because it is a `LAST_VALUE`, and neither is variant A's record,
because the projector gives a tie to the later arrival.
The honest agents are the project's own: the repository leaves the agent to a model.
Sorting the ids of customers and orders gives the order in which they were made,
because the ids are padded; of the scenarios' returns the first one made comes first.

### KafkaSink

The generator works in operations. `Change(op)` is what one does to the state before it emits
anything: `_create_order` takes the stock item by item, which nothing tells, and registers the
order with its items; an advance or a customer's downgrade changes one entity; a snapshot
changes none and tells a row. Then it emits its messages one by one, a step each, with the
values the state has then. What operations there are is a constant, of which
`OperationsAssumption` asks that one tells every entity it makes or changes, but for
the stock, and none twice; a firing of a scenario, which changes and emits in turn, is several of
them. `Emit` is `produce` and `poll(0)`; `EmitFull`
is the `BufferError` of `produce`, and `SchemaRefused` the serializer's error at the
first message of a topic. Both leave the operation after any number of its messages and
`run()` in the middle of a tick, past its flush,
since nothing catches them. `Flush` returns whether the queue is empty or not, because
the result of `flush(10)` is not looked at. `Exit` is the end of the process. A registry
that does not answer at all is not modelled: the HTTP call of the serializer blocks for as
long as its client lets it, and `RunEnds` takes it to return or to raise.

The client library and the broker are external (`Deliver`, `DeliverUnacked`, `GiveUp`).
They are modelled from the way the sink uses them: a producer with default settings,
so not idempotent and with any number of requests in flight, and without a delivery
callback. So a message may arrive late, twice or never, and holds its slot of the queue
until its report has been polled. `Projectors` folds what the broker has stored, as the
stores that ingest the topics would. `backlog` is history.

### Harness

The repository prepares the parts of an evaluation run and leaves the loop over the
matrix and the model calls (`--execute`) to a later phase; its tests put the parts
together with a stub. So cells are run in any order, and the agent calls any of its
tools and answers anything. A cell may have been given any token, its variant's own,
the other one's, an unknown one or none. `StoreOf` is the wiring of `agents.py`, `ScopeOf`
that of `builder.py`, `Granted` that of the two configuration files.

`GradeResult` is the outcome of `Evaluation`'s graders as far as a row shows it.
`EmitResults` writes the file. `EmitKilled(n)` is killed when `n` rows have left the
buffer and perhaps a part of the next one, whose line is then `torn`: `load_runs` raises on
such a file, so the analysis (`Loads`) has no numbers of it; `DryRun` is `arb eval` as it runs by default, which empties the file it is
given. The operators after `Spec` are `summarise`, the metrics (their point values), the
histogram, the classifier and the cost chart, applied to the rows of the file. A
quotient is a pair, and `Nan` is the float. `no` and `run` of a row are history.

## 3. What the runs check

| Run | Question | Properties |
|---|---|---|
| `ServingStore_records` | records under lag and cache | `TypeOK`, `ViewIsProjection`, `AnswersAreConsistent`, `ReadsSeeOnlyLagged`, `ReadInv`, `ImplementsBoundedStaleness` |
| `ServingStore_clock_steps` | lists that the cache shares with the view, under a clock that steps back; versions on the same arrivals | `ViewIsProjection`, `KindsKeepTheirOrder`, `AnswersAreConsistent`, `ReadsNeverRegress` |
| `ServingStore_early_read` | the class doc under such a clock | `ReadsSeeOnlyLagged` is violated |
| `World_tick` | orders, stock, payments, tickets and advances within a tick, and several scenarios | `TypeOK`, `ReferentialIntegrity`, `ReplayMatchesState`, `ScenarioTrace`, `ScenariosAreNotMissed` |
| `World_paid` | the comment on the order a scenario picks | `ChargedOrderWasPaid` is violated |
| `VariantA_chargeback` | what a join over two sources can miss, with refusals, delays, errors and a clock that is set back | `TypeOK`, `SourcesAreCausal`, `ImplementsStores` |
| `VariantA_latency` | the slow source of the degraded condition, as the runner builds it | `SlowSourceIsDelayed` is violated |
| `Evaluation_tasks` | life of orders over four ticks; whether an honest agent of either variant is graded correct, now and against an older snapshot; whether the variants agree | `StreamIsCausal`, `ReplayMatchesState`, `LifecycleIsPaid`, `HonestAgentsScore`, `FreezingIsFair`, `VariantsAgree`, `MultiHopIsNeverStale`, `ViewsAreCoherent` |
| `Evaluation_rule` | the rule of the multi-hop question, for every return | `RuleIsGraded` is violated |
| `KafkaSink` | what a full queue, a refused schema and a bad broker do to a run and to its consumers | `TypeOK`, `NothingVanishes`, `ReplicasConverge`, `OnlyBacklogStopsRuns`, `RunEnds` |
| `Harness` | tokens, rows, a file written repeatedly, and the numbers made of it | `TypeOK`, `FileIsOneRun`, `TaxonomyAddsUp`, `SummariesAgree`, `AuthIsExact` |
| `Harness_cost` | one metric, three places, no correct answer | `CostIsStandardised` is violated |

`SourcesAreCausal` is the rule for joining two sources: to see in `b` what had
preceded what an answer of `a` showed, read `b` unfiltered, at a reading of the clock that
makes up for the difference of the lags, and later than `b`'s own reads before that answer.
Reading `b` at the very same reading is not enough, because a store that has already been
read at it does not look for events fed since. The difference of the lags counts from
all the readings at which `a` has been read, and not from the last: when the clock has
stepped back, `a`'s answer still shows what a higher reading let in, and a read of `b` that
is late enough by the last reading alone misses what preceded it. With a clock that never steps
back the last reading is the highest, and the rule is the plain one.

`FreezingIsFair` says what grading against a frozen snapshot may cost: an answer read
later is graded wrong only when the entity asked about has had an event since, and the
multi-hop answer never is. `VariantsAgree` compares what the tools of variant A and the
rows of variant B hold of the same point of the stream, with different operations on
each side (kept records that are filtered; events that are filtered and
grouped). For `recent_orders`, which lists an order once per order event, `RecentAgrees` says
what holds of every outcome of the sorting: no row of an order is later than its record, and
the record is among the rows unless the limit has cut it off for rows that are no older.
That the first row of an order is its record is not true, because the order's creation and
its payment may carry one time.

`MultiHopIsNeverStale` gives an order of reading under which the multi-hop answer is safe, and
`ViewsAreCoherent` reads all topics up to one position. Neither catches that the views' topics
are consumed independently: a view that has a return before its chargeback or its order shows
it as eligible, or does not validate, and the code does nothing about it.

`NothingVanishes` says how a run that stops is cut: with whole operations, up to one, of
which the first messages are there. What the broker then loses is another matter: nobody promises
delivery, and no property asks for it.

`ReplicasConverge` says what the projectors absorb once all messages of a key have
arrived: any order and any duplicates for records by version, the same for records by
time if the latest message is alone in its tick, and nothing lost from a list. A list
may show a duplicated message twice; and the views' `LAST_VALUE` takes the last arrival.

What the five violations show:

- *Early reads.* `store.py` says that a read at time T sees only events that are
  `replication_lag_ms` older than T. The view is never taken back, so when
  `time.time()` steps back, reads see events that are newer. Answers still never
  go back to an older prefix, which `ServingStore_clock_steps` checks and a
  theorem proves.
- *Unpaid chargebacks.* A comment in `scenarios.py` asks for a PAID, SHIPPED or
  DELIVERED order. The loop looks only at the customer's tier.
- *Eligibility by reason.* The question and the view go by the order's chargebacks, the
  grader by the return's reason. They agree on the return that the task asks about, and
  not on a customer's own return of the same order, which the grader grades as well when
  an answer names it.

- *No latency.* `conditions.py` promises a slow source in the degraded condition. The
  runner builds its bundle with `inject_sleep=False`, so nothing sleeps.
- *Cost of nothing.* `methodology.md` calls `cost_per_correct` standardised across the
  harness and the notebook. Without a correct answer `summarise` reports the total cost,
  the metrics NaN, and the chart a bar of height 0. With one they agree
  (`SummariesAgree`).

Seen while reading, and too plain for a run: `get` caches a not-found for the whole TTL
while `view` already lists the record; `methodology.md` counts auth errors as
`auth_denied` in the failure taxonomy, but no grader returns that category, so the
sentinel cannot fire (`AuthIsExact` checks that no token is misconfigured).

Bounds. Three events are enough for a tie, for a late arrival, and for one event
held back by another; two keys tell a per-key cache from a shared one (runs whose
question does not involve two keys have one); `Times` 0..1 with lag 1, TTL 1 and a
clock up to 3 leaves time for an entry to be taken, served at its boundary, expire
and be refreshed. In `World_tick` a stock of 2 with two orders of two items reaches the
floor. Four ticks are the least in which an order placed at bootstrap is paid, shipped,
delivered and returned, so `Evaluation_tasks` has four, with a second order that pushes
the first out of a lifecycle window of 1, one scenario, two returns, a ticket, and a
limit of 4 recent order events that some runs reach and some do not. The run's constraint
`TicketBound` lets the ticket open in the first two ticks, for either customer and about no
order: nothing selects tickets by their order, and `World_tick` draws those that name one. Its readers stand at
the positions of the tick that is running, as earlier ones were looked at when they were
current. Bounds of the generator that the code does not have (`MaxOrders`, `MaxReturns`,
`MaxPayments`, `MaxTickets`) stand in for the random rates and only cut draws off;
`MaxReturns` counts the scenarios' returns as well, and stops a customer's only. In `World_tick`
no order is delivered, as two ticks do not suffice, so a customer's return is drawn in the
runs of `Evaluation`. Three
calls of `VariantA` are enough for a source that is read, read again after the clock has
stepped back, and joined with another, or for a fault before or
after an answer; two feeds are enough for an event that arrives between two reads, and
`MaxInputs` lets the run have three calls with one feed or two of each. The clock goes as far as the
slower source needs to catch up. In
`KafkaSink` an order with an item, its advances and snapshots of its row make up to four
messages, which fill a queue of two in the middle of an operation and between two, and five
places in the broker's log leave room for a duplicate. In `Harness` three cells give a correct and a failed row, clean
and degraded, of both variants in one file, and two runs write it in turn.

Deadlock is checked in all runs but those of `VariantA`, whose calls, feeds and clock
end: a store can always be read, and generators, sinks and harness stutter explicitly or
can write their file again.

Fairness. `World` assumes weak fairness of `Next`, because the generator's loops run
on without waiting for anybody; `ScenariosAreNotMissed` depends on it. `KafkaSink`
assumes it of the generator's own steps only, so `RunEnds` holds with a broker that
never answers. Nothing obliges anyone to read a store or to ingest into it, so the
stores have no liveness property: the code makes no such promise, and an event that
nobody reads for is never projected.

## 4. What is proved

Every theorem holds for all values of the constants that the modules' named
assumptions admit: lag, TTL, times, bounds and sizes are naturals, versions are
integers, initial tiers are tiers, quantities are naturals.

`Folding` is about the operator that the models fold sequences with, for any
operator, base and sequence: `FoldEmpty`, `FoldSnoc` (one more element, one more
application) and `FoldConcat`. The induction is on sets, not on formulas: `AllNats`
and `AllSeqs` say that a set with the first number (or sequence) and with each one
the next has all of them, so a proof by induction defines the set of those for which
its claim holds. The operator is a CONSTANT, so a module that folds with an operator
of its own takes these theorems with `INSTANCE Folding WITH op <- ...`.

`ProjectorProofs` rests on it. `ProjectorsKeep`: a projector called on the events of
any log in turn keeps for each key what `Kept` says directly, which is the highest
version, the latest time (ties to the later arrival), or all events in order. The
versions need no order and the events may arrive in any order.

`ServingStoreProofs`, for any keys, times, projector, lag, TTL and bounds:

- `TypeCorrect`: types, and the index never passes the log.
- `NeverRegress`: `ReadsNeverRegress`, with either kind of clock.
- `LaggedReads`: `ReadsSeeOnlyLagged`, assuming `~ClockMayStepBack`.
- `ReadInvariant` and `Refinement`: the store implements `BoundedStaleness`,
  assuming `~ClockMayStepBack`.
- `ViewProjects`, `AnswersConsistent`: `ViewIsProjection` and `AnswersAreConsistent`.
- `KindsKeep`: `KindsKeepTheirOrder`, the third kind of projector included.

The argument about times. The promise "not too old" is not inductive: it speaks of an answer
at its time, and a cached answer was computed earlier. `ReadInv` adds what the
state must remember. `Reached`: no prefix answered from goes past the view's.
`LaggedInv`: everything in the view was visible at the last cutoff, and that
cutoff was not in the future. `FreshInv`: the view misses nothing owed at the
last cutoff, and a cache entry misses nothing owed when it was filled. A read
that applies events restores the second for the present; a cache hit then
follows from the entry's age, which is at most the TTL. `Frontier` carries the
step: the scan stops at an event that is too new, and whatever lies after it is
not owed, because what is owed is closed under earlier arrivals.

The argument about values is `ValueInv`: the view is the projection of the applied
prefix, and every cache entry is either live, hence the view's value whatever is
appended to it, or what the prefix it was taken from makes of its key
(`CopiesAreConsistent`). The projector of records may not change a value in place for
this, and the one of lists may not replace it; both follow from `Project`.

`WorldProofs`, for any number of customers, rows, ticks, orders and scenarios:

- `TypeCorrect`: types, with stock never below zero and tiers on the ladder.
- `IntegrityHolds`: `WorldState.check_invariants` has nothing to report at any
  point, the middle of a tick and of an order included. It needs `References`
  beside the types: returns and tickets name orders that exist, which lasts
  because orders are only added.
- `StreamCausal`: `StreamIsCausal`. That every message comes after its causes is not
  inductive: the state, not the stream, is what the generator reads before it emits.
  `StreamInv` therefore adds `StateIsEmitted`: every customer has been emitted, and
  every order with each status it has been through. A draw from the state then refers
  to something already in the stream, and a step that emits several messages
  (an order with its items, a payment's status with its capture, a scenario) is
  checked message by message.
- `LifecyclePays`: `LifecycleIsPaid`. `LifecycleInv` says what a step needs to know:
  events and payments are about orders that exist (so a new order has no capture),
  an order has a capture exactly when it has left CREATED, and an order whose turn in
  this tick's loop is still ahead has no event of this tick but its creation. The last
  is why an order cannot advance twice at one time although nothing in the loop
  remembers which orders have advanced.
- `ReplayMatches`: `ReplayMatchesState`. `View` is what a store of one topic, with room
  for any key, holds after reading a sequence of messages; a step of the generator
  extends the stream, and `ViewOneMore` says what its messages make of the view.
  `ReplayInv` says that the views hold the state (`CustomersTold`, `BodiesTold` of orders,
  returns and tickets, `ItemsTold`), and of the stock at least what the state has
  (`StockTold`), because nothing is emitted when an order takes from it. The lemma
  `EmissionTells` states once which emissions keep the relation.
- `ScenariosLeaveTraces`: `ScenarioTrace`. What fired is only a mark in the state, so
  `ScenarioInv` ties marks, state and stream together. `FiringsAreMarked` counts: there are
  as many chargebacks and rejected returns as scenarios that have fired, and as many of
  the one as of the other for each order. `HistoriesMatch` says of each customer that its tier changes
  chain downwards, end at its tier, and are as many as its rejected returns and its version
  less one. `MarksKnown` says that they are about customers and orders that exist, so that
  a new order has none. An emission without tier changes and chargebacks keeps all of
  it (`QuietTrace`), which leaves the firing itself.

`EvaluationProofs`, for any number of customers, rows, ticks, orders and scenarios and any
limits, at any points of the stream that the properties quantify over:

- `MultiHopNeverStale`: `MultiHopIsNeverStale`.
- `HonestAgentsAlwaysScore`: `HonestAgentsScore`.
- `FreezingFair`: `FreezingIsFair`.
- `ViewsCohere`: `ViewsAreCoherent`.
- `VariantsAlwaysAgree`: `VariantsAgree`.

The argument has two halves. The first is about reading and not about this benchmark: the
messages that a set of positions selects are read exactly and in the order of the stream
(`ReadingGathers`), so the last row of a group is the last message of its
entity, a store of lists holds what the view groups (`GetList`), and a store of records
holds the same last message (`GetIsLast`). The last of these is not true of any stream: the
projectors keep the highest version and the latest time, the views the last arrival. It
needs `TimesInOrder`, and `VersionsIn`: the versions of a customer never go back.

The second is what the stream remembers of the state, `ToldInv`. `StreamInv` and
`LifecycleInv` are those of `WorldProofs`; neither is enough, since they say what has been
emitted and not what is the last of its kind. `CustomerInv` pairs each tier change with
the event of the customer that follows it, which is why a reader between the two still
sees one of the two tiers. `ReturnInv` says that the one body a return is ever told with is
the state's, and that it is rejected exactly when a scenario left it; that the chargeback
of its order is told before is part of `StreamInv`, so the multi-hop answer depends on
nothing that may still change. `OrderInv` says that the last event of an order tells its
status, that a delivery is the last event of its order, and that an event past the creation is preceded
by the items and one past the payment by the capture. `OnceInv` says that returns and tickets have one
event each and are numbered in order of arrival, so that the last open return is the
one with the highest number; it holds because the generator never tells of a return or a
ticket again. `StockInv` says that the stock of an item's row was told before the item. For an
older snapshot, `TickEndIs` says that the events of the ended ticks are a prefix of the
stream, so that what is read later differs from it only by events after that prefix.

`VariantAProofs`, for any stores, lags, TTLs, tokens, conditions and batches:

- `TypeCorrect`, where a call that is pending has room in the transcript.
- `SourcesCausal`: `SourcesAreCausal`, with any clock. Each answer of the transcript stands for a
  prefix of the stream. `CausalInv` says where a store's position comes from: a call that is
  in the transcript, whose reading was the store's last cutoff (`MadeBy`), at which everything in the
  prefix was old enough (`Past`) and nothing is missing that was old enough and lies
  within what any answer had shown by then (`Complete`). The store may since have been read at lower readings, which moved nothing. So
  an answer of `a` is as of one of the readings up to it, whichever that was, and a view of `b` at a
  reading above all earlier ones applies what is due then; the lags join the two.

`KafkaSinkProofs`, for any entities, ticks, messages and queue size, with any broker:

- `TypeCorrect`, and `NothingIsForgotten`: `NothingVanishes`. The invariant behind it, `Progress`,
  says what of the state has been told: all of it but the last version of the entities that the
  operation in hand has still to tell. A failing emit is the only step that leaves it there, and it
  leaves the phase in which operations begin.
- `BacklogStopsRuns`: `OnlyBacklogStopsRuns`. The invariant behind it is `Slots`: the
  slots in use are at most the backlog of the last emit, because between two emits
  messages move from the queue to the reports and none is added.
- `ReplicasMeet`: `ReplicasConverge`, from `ProjectorsKeep`: the broker stores only
  what was sent, so a message that is alone the newest of its entity, or the latest, is what the
  projector keeps, whatever the order of arrival and the duplicates.

`HarnessProofs`, for all categories, conditions and costs and any number of cells:

- `TypeCorrect`: among others, a row has a failure of the taxonomy exactly when it is
  not correct.
- `TokensFit`: `AuthIsExact`, from the lemma that the scopes of a variant's tools are
  granted by its token.
- `ResultsAreOneRun`: `FileIsOneRun`, which needs that the rows in memory are numbered
  and of the current run.
- `TaxonomyIsComplete` and `PublishedNumbers`: `TaxonomyAddsUp` and `SummariesAgree`. Both
  hold of any file whose rows are such as `make_row` builds (`GradedRows`, for which
  `FileIsGraded` is the invariant). The filters and sums of the analysis are folds, so
  that the counts and costs of a file with one more row are those of the file and of
  the row; the categories add up because each row that is not correct adds to one of them.

Only model-checked, and why:

- `ScenariosAreNotMissed` and `RunEnds`, which are liveness properties, and the five runs
  that expect a violation.
- `ImplementsStores` of `VariantAStores`. It is a refinement of each store
  of a set, under an instance with a parameter (`Store(s)`), which tlapm does not accept, and its
  mapping selects from the transcript with `SelectSeq`, about which the provers know nothing
  (hence the folds in the definitions that proofs are about). It also speaks of feeds that
  bring a store one event at most, as those of the run do; a feed of several is as many
  `Ingest` steps. What the store's promise means for the answers of variant A is
  proved directly, by `CausalInv`.

## 5. Plan

1. Done: `Projectors`, `BoundedStaleness`, `ServingStore`, `World` with the proofs
   above; `VariantA`, the source servers, conditions and stores over one stream;
   `Evaluation`, `KafkaSink` and `Harness`, all with their proofs. Every safety property
   that a passing run checks is a theorem, but for `ImplementsStores`.
2. Left: `VariantA` fed from `World`'s messages instead of batches, so that
   `SourcesAreCausal` speaks of the causes that `StreamIsCausal` states.
3. Proofs left: `ImplementsStores`, once the stores are an instance without a parameter
   and their mapping selects with a fold.

## 6. Not modelled

Random streams (draws are choices, so equal seeds giving equal streams is not
stated), the text of files, Avro encoding, bootstrap intervals and percentiles, drawing,
option parsing, prompts, price tables, HTTP, and the stubs of the DuckDB engine,
observability and model invocation.
