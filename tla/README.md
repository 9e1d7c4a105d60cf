# Verification of the real-time quick-commerce lakehouse

TLA+ models of the pipeline in this repository, checked with TLC on small
instances, with the central properties proved for every instance with TLAPS.
Paths are relative to the repository root.

## 1. The system

Events flow producer -> Kafka (Redpanda) -> bronze -> silver -> gold as Delta
tables; a nightly batch job rewrites a day of silver from bronze; gold is copied
to BigQuery and silver is turned into ML features. Nothing here implements
storage or streaming: the code configures Spark Structured Streaming, Delta,
Airflow and BigQuery, and its correctness is the correctness of the protocols
those options add up to. That is what is modelled.

| Component | State it keeps | Operations | Talks to | Hard behaviour | What makes it correct |
|---|---|---|---|---|---|
| producer (`producer/order_stream.py`) | open orders, stock levels, the client's buffer | next order / inventory update / delivery stage, produce, flush | Kafka | surges, failed deliveries after `produce`, a full buffer | deliveries tell of placed orders, in order; a published level never understates the stock |
| broker (`docker-compose.yml`) | a log per partition | publish, expire (7 days) | producer, bronze | retention overtakes a stopped consumer | - |
| bronze (`streaming/bronze_ingest.py`) | per topic: checkpoint (offset log, commit log), Delta table with (query, batch) markers | start, plan, append, commit | broker, silver | crash between any two writes, three queries in one process, deleted checkpoints, expiry | each record exactly once; no silent loss; bounded batches |
| silver (`streaming/silver_clean.py`) | per topic: two checkpoints, watermark, dedup state, silver and dead-letter tables | validate, deduplicate, append, evict | bronze, gold | late and repeated rows, batch cuts, no-data batches, replay | one row per event within the window; nothing on time dropped; every reject quarantined; bounded state |
| gold (`streaming/gold_aggregates.py`) | window state, aggregate table, inventory table | close a window, MERGE a batch, OPTIMIZE, detect stockouts | silver, DAG | at-least-once `foreachBatch`, commit conflicts, a second watermark | a window is reported once and completely; levels never go back |
| backfill (`batch/nightly_backfill.py`, `batch/scala`) | none of its own | read a date of bronze, overwrite that date of silver | bronze, silver | reruns, ties, rows that arrive meanwhile, a second writer with another layout | a date holds the newest copy of each event; no event is lost |
| nightly DAG (`airflow/dags`, `quality/expectations`) | task states, tries | gate, backfill, gate, load, clear | gold, silver, BigQuery | retries of what was done, clear-and-rerun, timeouts, gates over an empty day | an outage is stopped; runs end |
| BigQuery load (`gcp/bigquery_load.py`, `gcp/dataproc_submit.sh`) | a partitioned table; an ephemeral cluster | load a day, append all, create and delete a cluster | gold | a reload, two callers, superseded files, a hard kill | a reload touches its day only and doubles nothing; no cluster leaks |
| features (`ml_handoff/feature_table.py`) | a feature table | rebuild | silver | gaps in the days, corrections | a feature of day D depends on days < D only; null means unknown |

How they interact: every arrow is a Delta table or a Kafka topic, read by
position. A stage never calls another; it finds more rows. All the coordination
there is lies in checkpoints (offset log and commit log of each query), in the
(query, batch) markers and the optimistic commits of the Delta log, and in the
order of the DAG's tasks. The queries of one stage share a driver process, and
`awaitAnyTermination` makes the failure of one the end of all of them.

The hazards this design is exposed to are listed, each at its line, in
`PROJECT.json`; the properties below are what they were turned into.

## 2. Modules

| Module | Models |
|---|---|
| `ExactlyOnceLog` | what bronze promises: records of a topic reach the table once per life of a checkpoint, in order, with no silent hole |
| `BronzeIngest` | the three Kafka->Delta queries: offset log, Delta commit, commit log, crash, restart, retention, checkpoint reset; refines `ExactlyOnceLog` |
| `SilverClean` | the two queries of a silver topic over one bronze table: validation, watermark, dedup state, dead letters |
| `SilverValidation` | extends `SilverClean` with the columns of each record, from JSON through `from_json` and SQL's three-valued logic to the reason it is rejected for |
| `ZoneWindows` | the zone query of gold: whether Spark starts it, window state, append-mode output, batches without data |
| `OrdersPath` | cleaner and zone query joined by `silver_orders`: extends `ZoneWindows`, instantiates `SilverClean`, and shows that the latter keeps what the former assumes |
| `GoldInventory` | the foreachBatch MERGE of gold against its own replays and against OPTIMIZE, in a process that starts the zone query first |
| `StockoutDetector` | velocity, join and projection in double precision |
| `OrderStream` | the event factory, a tick with its surge, and the Kafka client it produces with |
| `Backfill` | `silver_orders` and its two writers: the stream, which appends, and the nightly rewrite of a date |
| `FeatureTable` | the feature table over the silver of `Backfill`, which it extends |
| `QualitySuites` | the gate's metrics and checks as operators on the rows of gold |
| `BigQueryLoad` | the served table, the loads of both callers, the Dataproc script and its cluster |
| `BackfillDag` | the DAG: extends `QualitySuites` and `BigQueryLoad`, adds tasks, retries and clearing |
| `MC...` | instances for TLC: records with their ids, times and columns |
| `..._proofs` | the theorems of a module; `OrdersPath_proofs` also those of `ZoneWindows`, `Nightly_proofs` those of `BackfillDag` and of `FeatureTable` with the `Backfill` it extends |
| `AggregateTheorems` | maxima and sums over finite sets, for the proofs that count |

### State and code

A streaming query is the same loop everywhere: a range of the source and the
watermarks go to the offset log, the range is processed and committed to Delta,
and the batch is marked in the commit log. The code only *configures* the loop
(`writeStream ... start()`), so the variables stand for what Spark keeps on the
code's behalf.

* `BronzeIngest`: `kept, run, batch, start, end, committed` are a checkpoint;
  `txn` and `copies` the Delta log and table; `phase` is where a running query
  stands. `Launch` is `ingest()` (`startingOffsets` counts only without a
  checkpoint), `PlanBatch` the trigger with `maxOffsetsPerTrigger`, `AppendBatch`
  the Delta commit, `SkipBatch` the replay that finds its marker, `CommitBatch`
  the commit log, `FailOnDataLoss` the option of that name, `Die` the end of the
  process; `ResetCheckpoint` is the recovery of `runbooks/consumer_lag_high.md`.
* `SilverClean`: `pos, stop, stage` are the silver query's open batch and how
  much of it is durable; `lateMark` and `mark` are the two watermarks a batch
  has in Spark (the one its late rows are dropped by is that of the batch
  before), `nextMark` the one it leaves behind; `seen` is the state store. `ran`
  says whether the process has executed the last batch: a replay that finds its
  rows in the table leaves no statistics, and a process that has executed none
  plans no batch without data. A row of bronze is a record; records with one
  `EventId` are the same event published again, with an `event_time` of their
  own. `Sink` is `clean_topic` and the writer; `DeadSink` validates the same rows
  a second time.
* `SilverValidation`: a column of a published record is good, absent, of the
  wrong type, or out of the range a validator names; `Rules` are the branches of
  the `F.when` chains in order, `DeadLetterReason` the first that hits, and
  `Rejected` the records `SilverClean` has as `Malformed`.
* `ZoneWindows`: the same as `SilverClean`, with `open` for the orders in windows
  not yet reported and a gold row modelled as the set of orders it counts. Silver
  is a sequence of commits, since a gold batch reads whole commits. `PlanAccepted`
  is Spark's verdict on the plan at `start()`, without which `Start` never happens.
* `OrdersPath`: the zone query has the variables of `ZoneWindows`, the cleaner
  `cleanerPos`, `cleanerStop` and so on. What `SilverClean` has as `silver` is
  counted from the commits (`InSilver`); `CleanerSink` adds the fresh rows of a
  batch as one commit. The dead-letter query is left idle.
* `GoldInventory`: `row` is the table, an inventory row being the event it was
  written from; `merge` and `optimize` are running transactions with the rows
  they read and whether another commit has overtaken them. There is no marker,
  so a replayed batch is really merged again. `Launch` needs `PlanAccepted`, as
  `main()` starts this query second.
* `StockoutDetector`: time is counted in windows of 5 minutes, so the horizon is
  3; `units` is the velocity of one store/SKU, `level` its row of the inventory
  table. `ExceedsHorizon` says when the two divisions round a quotient of
  exactly 15 upwards, from the binary exponent of `u / 5.0` and the part of its
  last bit that was cut.
* `OrderStream`: `level` and `open` are `_inventory` and `_open_orders`, `phase`
  and `extras` where `iter_events` is, `out` what it has returned and `stream` has
  not produced yet, `queue` what librdkafka holds for a topic and key. The
  factory's random choices are all choices. `lost` remembers which topic and key
  failed a delivery, which the code only prints.
* `Backfill`: a row is one copy of an event in bronze. `layout` is what Delta has
  fixed when the table was created; `job` and `read` are an attempt between its
  read and its commit. `DedupeFull` is a set of results, because equal
  `ingest_time`s leave the choice to Spark. The Scala twin has the same steps.
* `FeatureTable`: `features` has a row or Null for each date and pair; a rolling
  average is the pair of its sum and count, and a pair sold in lines of quantity
  0 only has a row of no units. `Rebuild` is `main()`.
* `BigQueryLoad`: `files` counts, for each gold row, the parquet files that hold
  it, the ones OPTIMIZE has superseded included; `served` the copies BigQuery has;
  `script` is the line of `dataproc_submit.sh`, `clusters` what is billed.
* `BackfillDag`: `task[d]` has the states of date d's four tasks. `Fail` is
  Airflow's retry; the loads of a failed task may have been done. A run of a date
  is made at most once and repeated by `Clear`, one run at a time
  (`max_active_runs=1`).

An operator with the comment `mutant` is not used by a specification. It is a
plausible wrong version of the definition after it, kept to show that the
properties can tell the two apart.

## 3. Runs

| Run | Instance | Shows |
|---|---|---|
| `bronze` | 2 topics in one process, one of 2 partitions, 4 records, batches of 1, 2 checkpoints (208,000 states) | `ExactlyOnce`, `NoSilentLoss`, `RestartContract`, `BoundedBatch` under crashes, expiry and checkpoint resets; the three-write protocol implements `ExactlyOnceLog` (`ImplementsLog`); `EveryRecordArrives` unless retention overtakes a query |
| `silver` | any 3 rows of 6 records, 3 of them of one event, 2 rejected (562,000) | `NoDuplicates` within the window, `OnTimeKept`, `MalformedQuarantined`, `StateBounded`, `WatermarkJustified`, on which the others rest, `ReasonIsTrue`, `OnlyValidInSilver`, and `EveryRowSettled` |
| `path` | any 3 rows of 5 records, 2 of them of one order, through both processes (640,000) | `SilverFeedsGold` (the path implements `ZoneWindows`), `WindowReportedOnce`, `OnTimeCounted`, `RowsComplete`, and with respect to bronze `OnTimeReachesGold`, `RowsFinal`, `NoOrderTwice`; `WindowsClose` |
| `gold_start` | the same with 2 rows and the plan as it is | *violated*: `EveryOrderCounted` |
| `inventory` | 4 events of 2 pairs, two of equal time (16,000) | `InventoryCurrent`, `NeverBackInTime`, `EveryLevelArrives` |
| `alerts` | 3 windows, up to 8 units, levels around the horizon and NULL | *violated*: `AlertsAsDocumented` |
| `features` | 7 rows of 6 events on 4 dates (131,000) | `RewrittenDays` and `NoEventLost` of the backfill; `PointInTime` and `NullIsUnknown` of the features built on it |
| `backfill_shared` | 1 row | *violated*: `SameTable` |
| `nightly` | runs of one date over 3 days, a retry, a clearing, OPTIMIZE, a Dataproc run (93,000) | `RetriesDoNotDouble`, `ReloadIsScoped`, `EveryRunEnds`, `NoClusterLeaks` |
| `reload` | one date, a clearing, OPTIMIZE | *violated*: `ReloadsConverge` |
| `outage` | one date, a day of no rows after days of 1 and 3 orders | *violated*: `OutageStopped` |
| `producer` | 2 stores, one in a surge, 3 orders, a buffer of 2 (1.4 million) | `DeliveriesCoherent` and `NeverUnderstated`, unless a message was lost |

The violated ones state what a document or comment of the repository says, and
their counterexamples are in section 5.

### Bounds

Each is a constant or a set in a `.cfg`. In `bronze` a partition with two records
beside one with one makes the rate limit of one record share a batch, skew it
and round it up; two checkpoints give one reset; two topics give the failure that
kills a neighbour. In `silver` with a delay of 2 the records `a` (1), `edge` (3)
and `b` (4) are of one event: `edge` is exactly as far from `a` as dedup reaches,
`b` is beyond. After `c` (5) `edge` is exactly at the watermark, `b` is on time
and `a` is forgotten, so both `b` passing and `edge` and `a` not passing occur.
Three rows allow an original, an event that moves the watermark, and the later
record. One rejected record lacks its event_id, the other has two faults, one of
them in a column that has lost its type, and `b` has lost a column that no rule
requires. The records of `path` put both watermarks exactly on a window's end
(`edge`) and make the cleaner forget `a` (`past`), of which `a2` is another
record in the same window. `inventory` needs no numeric bound: every event
arrives once. In `alerts` `MaxUnits = 8` contains 7, the smallest number of units
for which the division at the horizon rounds upwards; the closed form of the
rounding agrees with IEEE double division for all unit counts up to 300000; three
windows give an old one. The theorems of section 4 remove the bounds for all
safety properties they cover.

In `producer` three orders let one store be in a surge and another not, with a
level of 1 below a basket of 2; `LastStage = 2` keeps a stage in the middle, and
a buffer of 2 is full in every surge. In `features` a week of 2 and a fortnight
of 3 days put dates inside, at the edge of and outside both windows, with a day
of no sales and a line of quantity 0; one event is corrected to a cancelled one,
one has two copies of equal time of which one is invalid, one row has no date.
Stream and backfill exclude each other on the one table there, as Delta refuses
whichever comes second; that they write the same table is what `backfill_shared`
refutes, and their rows only meet through bronze. `nightly` has a day of two ticks
and runs of one date, as runs of different dates never overlap, and the theorems
are for any number of them, and of Dataproc runs. Two days of 3 and 4 orders are
the least history with a spread; in `outage` they are 1 and 3, the swing of
`suites.py:36-37`. One retry and one clearing allow each task to be repeated in
either way once.

The type invariants of `SilverClean`, `ZoneWindows`, `GoldInventory` and
`Backfill` are in no run: they are proved (`TypeCorrect`), and the proofs of the
other theorems use them.

Deadlock is not checked where a system really stops: the producer's process
ends, and the instances of the DAG have used up their clock, clearings and
submissions. No run uses symmetry, as most of them check liveness.

### Fairness

Triggers are timers (`processingTime`), so a step of a query that is possible is
taken: weak fairness on each query's steps. The recovery of the runbook is to
restart a dead job, hence weak fairness on `Launch`/`Start`. Crashes that come
from outside are assumed to stop sometime, without which nothing need ever
finish; a process that ends because of an error of its own is *not* assumed to
stop ending. In `BronzeIngest` that is
`<>[][Crash => \E t : FailOnDataLoss(t)]_vars`: `failOnDataLoss` may end the
process after every restart, and `EveryRecordArrives` has to except data loss for
that reason. In `GoldInventory` it is `<>[][Crash => MergeConflict]_vars`: a MERGE
may lose against OPTIMIZE again and again, so strong fairness on `Merge` is
needed. OPTIMIZE could in principle overtake every attempt, and what rules that
out is that it is a periodic job and not inline in the stream
(`gold_aggregates.py:224-226`). `SilverClean` and `ZoneWindows` have no error of
their own, and all their crashes stop.

Without new data a query still runs a batch when the watermark moved (`Ends`),
and the mutant without it violates `WindowsClose`; after a restart it does so only
once it has executed a batch. `WindowsClose` therefore excepts a process that was
started again and has had nothing to read since (`Waiting`). `path`, `inventory`
and their liveness are about the queries once Spark starts them, that is, with the
two distinct counts of the zone query replaced (`PlanAccepted = TRUE`);
`gold_start` is about the code as it is.

In `BackfillDag` the scheduler takes the tasks' steps, Dataproc's idle timer
fires, and a shell that is not killed goes on; nothing is assumed of operators,
of the clock, of failures or of `dagrun_timeout`, so `EveryRunEnds` is due to
the retries being finite, and `NoClusterLeaks` holds although traps are killed
and their deletes fail.

## 4. Proofs

Proved with TLAPS for every value of the constants, from the named assumptions
of the modules only (`BronzeAssumption`, `SilverAssumption`,
`ValidationAssumption`, `WindowAssumption`, `PathAssumption`,
`InventoryAssumption`, `BackfillAssumption`, `FeatureAssumption`,
`LoadAssumption`, `SuiteAssumption`, `DagAssumption`, `StreamAssumption`). They
type the constants and say no more than the code and its input give: a topic has
finitely many partitions, `Null` is no number and no pair, a fortnight is no
shorter than a week. No theorem has a hypothesis beyond them. Every safety
property a passing run checks is the statement of a theorem.

**Bronze** (`BronzeIngest_proofs`). `TypeCorrect`; `IInv` = types, the restart
contract, exactly-once and no silent loss together. `ExactlyOnce` alone is not
inductive: that a replay does not append twice rests on the marker being the
open batch's or the one before, on ranges that follow each other, and on no
record past the frontier having a row of the current run. From it
`BronzeExactlyOnce`, `BronzeLosesNothing`, `RestartIsSafe`, and
`BronzeImplementsLog`: under the map `cursor <- Frontier` an append or a launch
is a step of `ExactlyOnceLog` and everything else stutters. `BatchesAreBounded`
is about a sum over any number of partitions: a partition's share of a batch is
at most proportional to its backlog, or one record (`ShareBounded`), a bound that
is linear in the backlog and may therefore be summed (`SumLinear`); since what
rounds up is less than one each, the batch stays below the limit by less than a
record per partition (`SharesAddUp`).

**Silver** (`SilverClean_proofs`). State store and watermark are each unable to
prevent duplicates; `Remembered` says that what one has forgotten the other
drops, `WatermarkJustified` that a watermark never outruns the rows before the
batch it is used in (`SilverWatermarkJustified`). `SilverNoDuplicates` holds for
any redelivery and any records of an event: no record is in silver twice, and two
of one event only if their times are more than the delay apart, which is as much
as a dedup by `event_id` within a watermark can give. `SilverKeepsOnTimeRows`
assumes nothing of event times; on time is relative to every clean row before, so
it says nothing of the rows after one that is dated ahead (section 5).
`DeadLettersComplete` counts copies. `StateIsBounded` needs to know which
watermark the store was last trimmed by (`Trimmed`): not that of a batch that is
planned and has not run.

**Validation** (`SilverValidation_proofs`). A silver row or dead letter is one of
a record, so both theorems are about the rules: the reason is the first rule that
hits (`FirstHit`), and a record no rule hits has every required column. With
`MalformedQuarantined` and the cleaner's invariant, `ReasonsAreTrue` and
`SilverIsValid` for any records.

**Gold windows** (`OrdersPath_proofs`, first part). The watermark by which a
batch closes windows is the one by which the next batch drops late orders, so
reported and open windows never meet (`Separated`), and no watermark outruns the
orders before its batch (`Justified`), so only an order that is late by its
position in silver can be missing from a row. Then `NoWindowTwice`,
`OnTimeOrdersCount` and `RowsAreFinal`.

**From bronze to gold** (`OrdersPath_proofs`, second part). Every step of the path
is a step or a stutter of the cleaner, whose proofs are instantiated, so the
cleaner's invariant holds on it; that no record is twice in silver after a commit
is the premise of `ZoneWindows`' `Arrive`, so `PathFeedsGold`, and with it every
theorem of the first part (`PathReportsOnce`). Two records of one order may both
be in silver; `PathCountsOnce` is that they are never in one row, since they are
further apart than `WatermarkDelay` and a window is no longer than that. What
neither proof has is how positions in bronze and in silver relate: `Linked` says
that silver holds rows the cleaner is done with, and `OnTimeForBoth` that an order
on time by its place in bronze is on time by its commit in silver. Its step needs
`OnTimeKept`, by which an on-time row before the open batch is in silver already,
itself or superseded. Then `PathCountsOnTime` and `PathRowsFinal`. They rest on
`WATERMARK_DELAY` not exceeding `WATERMARK` (`PathAssumption`; both are 10
minutes, in two files).

**Gold inventory** (`GoldInventory_proofs`). The invariant adds to
`InventoryCurrent` where a batch stands: a merged batch that is not yet
committed is reflected already, so its replay finds nothing newer; a transaction
nothing has overtaken still holds the table, so a MERGE works on the present
rows and OPTIMIZE changes none. Then `LevelsAreCurrent` and `LevelsNeverGoBack`.

**Backfill** (`Nightly_proofs`). `RewrittenDays` alone does not show that a
rerun loses nothing: that rests on bronze growing only, so that what an attempt
has read includes what the last overwrite of its date had read (`Rereads`).
`DedupeCorrects` says that any choice among equal copies is a correct result.
Then `DaysAreRewritten` and `NothingIsLost`.

**Nightly DAG** (`Nightly_proofs`). Two halves that do not depend on each
other. `Loads`: what the dashboard shows is in some file, and a row is in at most
one file more for each OPTIMIZE (`Shown`); a load of the DAG brings a row to the
number of its files, so as long as OPTIMIZE has not run and Dataproc has not
appended, whatever is retried or repeated, `LoadsDoNotDouble`; and
`ReloadsAreScoped` without these conditions. `Tasks`: what is left of a run is a
stretch of the chain of which only the first task has been tried (`Orderly`),
without which a cleared task could start with the tries of another; then
`TypeCorrect`, which bounds the attempts of every task.

**Features** (`Nightly_proofs`). `NoLeakage`: the units sold, the lag and
the rolling figures of a date are the same when all orders of that date and
later ones are taken away, for any gaps between days and any window length. It
follows from the definitions alone, operator by operator, and needs no invariant.
`NullsAreUnknown` does: that the latest of finitely many earlier days exists, and
that units summed are positive exactly if a row has some (what decides a trend,
lines of quantity 0 included), needs bronze, and with it the silver cleaned from
it, to be finite (`FiniteBronze`).

**Producer** (`OrderStream_proofs`). What a store's `delivery_status` has been
told is the topic, then the client's queue, then the tick's last event if it is
one (`AllTold`). `DeliveriesCoherent` speaks of the topic only and is not
inductive: that the next stage follows the last one told needs the queue, and
that no open order is behind or ahead of what was told (`Coherent`, `Gapless`).
`Gapless` is given up where a message was lost, and an abandoned process keeps a
prefix, so `DeliveriesAreCoherent` holds for every order of failures.

`LevelsNotUnderstated` follows the same plan for `inventory_updates`, where the
one update of a tick may stand anywhere among its events (`OneInTick`,
`WaitingIn`). `UInv` says of all that was told what `NeverUnderstated` says of the
topic, without its exceptions: each update starts at or below where the SKU's one
before it ended, and the stock is at or below the last one (`Drained`). An order
only drains (`OrderLevels`), an update starts where the level is (`UpdateLevels`).
The topic is a first part of it (`FirstPart`), so what contradicts its last level
is still on its way, in the client or the tick.

**Sums and maxima** (`AggregateTheorems`). The community modules fold with
`CHOOSE` and give no theorems. A sum is a recursive function on the subsets of a
finite set; that it exists and is unique is shown for a smallest subset on which it
would not (`Smallest`, from the library's ordering of finite subsets), which takes
the place of an induction theorem the provers cannot instantiate. The rest follows
from taking out one element (`SumRemove`).

Model-checked only: the liveness properties (`EveryRecordArrives`,
`EveryRowSettled`, `EveryLevelArrives`, `WindowsClose`, `EveryRunEnds`,
`NoClusterLeaks`), since fairness and ENABLED are out of the prover's reach.
That the closed form of `ExceedsHorizon` is what IEEE division does is neither:
it was compared with the arithmetic of Python (section 3).

## 5. Disagreements found

Five are runs that TLC ends with a counterexample:

* `gold_start`: `orders_by_zone_window` counts distinct stores and customers
  (`streaming/gold_aggregates.py:56-57`), a distinct aggregation, which Spark
  refuses on a stream: `start()` at line 255 raises, `main` never reaches the
  inventory query at 259, and neither gold table is ever written. Two
  approximate counts would do.
* `alerts`: the velocity (`gold_aggregates.py:72-87`) has a row for every window
  there ever was and the join takes them all, so a pair is alerted for because of
  an order two windows old, although lines 73 and 125-127 say recent orders only.
  The other way round, 21 in stock and 7 sold in 5 minutes come out as
  15.000000000000002 and do not alert, although `test_gold_aggregates.py:101`
  and `README.md:57-58` say the 15.0-minute boundary does.
* `backfill_shared`: the backfill writes `silver_orders` partitioned by a column
  `event_date` (`batch/nightly_backfill.py:79-82`), the stream with neither
  column nor partitioning, and neither sets `overwriteSchema`. Delta refuses
  whichever comes second, although `nightly_backfill.py:9` and `README.md:123`
  say both write the same tables.
* `reload`: a load of the DAG takes the whole `*.parquet` glob
  (`batch_backfill_dag.py:193`), in which nothing (no VACUUM) removes the files
  OPTIMIZE has superseded. Loaded, optimized, cleared and loaded again, a day has
  every row twice, although lines 21-25 say a cleared task converges to the same
  state.
* `outage`: with no row of today the age is 0 and the freshness check passes
  (`batch_backfill_dag.py:122`). The volume check then has to stop an outage, but
  after days that swing by a factor of 3, as `suites.py:36-38` says they do, 0 lies
  within three deviations of the mean, and both gates pass.

The rest was noted while modelling and has no run. In the streaming half:

* `streaming/bronze_ingest.py:16` says there is no state with the data committed
  and the offset lost. There is one, between `AppendBatch` and `CommitBatch`;
  what saves the table is the marker in the Delta log.
* `runbooks/consumer_lag_high.md:69-70` says the silver validators bound event
  times. They do not, and one event dated ahead makes silver drop all rows after
  it until the clock catches up. `OnTimeKept` does not exclude this: such rows are
  not on time by the only clock the code has.
* dedup is by `event_id` within the watermark only. A producer run again with the
  default seed (`order_stream.py:98`) publishes the same event_ids with other
  event times, and what is more than 10 minutes from the first one is a second row
  of silver, and counted in another window of gold. `silver_clean.py:101-104` says
  so; lines 13-15, by which the tested batch `dropDuplicates` does the same
  (`test_silver_clean.py:119-121`), do not. `NoDuplicates` and `NoOrderTwice` have
  the exact extent.
* of two records of an order within the window the first one read stays. It may
  be one that is too late for the zone query, in the place of one that would have
  been on time (`Superseded`).
* `streaming/tests/test_bronze_ingest.py:108-109` says silver's range checks
  catch a mistyped value. It becomes NULL, and a comparison with NULL rejects
  nothing: in `silver` record `b` is such a row. `OnlyValidInSilver` is about the
  columns a rule requires. A NULL level goes on to silence the detector for that
  pair.
* `gold_aggregates.py:41-42` says a window is written once the watermark has
  passed. After a restart between the two, and with no further order, it is not
  (`Waiting`).
* silver's streaming dedup differs from a batch `dropDuplicates` on rows behind
  the watermark (`silver_clean.py:13-15`); an old event_time does not hold a
  watermark back (`runbooks/consumer_lag_high.md:62`), since a watermark is a
  maximum.

In the batch half:

* both gates read the gold rows of the current date (`batch_backfill_dag.py:104`)
  and not bronze, nor the silver or the day the backfill wrote, which is what
  lines 10-15 say they check.
* under a partition decorator BigQuery accepts rows of that day only, so the load
  of a day fails once gold has other days (`Accepted`); and it misses the columns
  Delta keeps in directory names.
* `gcp/dataproc_submit.sh:90-94` loads without `--replace-partition`, so each
  submission of a date appends it, although `gcp/README.md:96-98` says a rerun on
  either cloud does not double the dashboard's counts. `RetriesDoNotDouble` is
  about a table to which it has not appended.
* of copies with equal `ingest_time` a rerun may keep another one: the second
  sort key is the partition key (`nightly_backfill.py:39-44`).
* an event whose correction moves it to another date stays on both; the
  backfill does not validate, so a date it has rewritten has rows silver rejects.
* `run_backfill` counts and writes in two reads of bronze, so the count it
  prints may be short.
* lags count rows of a pair and not days (`feature_table.py:85-86`): after a gap
  `units_lag_7d` is older than a week. No task of the DAG builds the features,
  although `feature_table.py:12` says it does.
* the extra orders of a surge come from random stores (`order_stream.py:246-248`)
  and not from the zone that has it.

## 6. Plan

1. Done: every component above, with the runs of section 3, and a theorem for
   each safety property that holds (section 4).
2. Compositions: the detector over the levels of `GoldInventory`.
3. A larger `nightly`, with two dates and two retries.

## 7. Not modelled

Columns and aggregates that no property distinguishes (a gold row is a function
of the set of orders it counts), formatting and ranking of alerts, the HTTP
console of the broker, Terraform and CI, which have no behaviour of their own.
`enforce_schema_with_evolution` adds a null column and only tests call it.
Times, prices and names of the producer's events, the revenue and calendar
columns of the features, and the wording of the quality results are left out.
The composition of the whole pipeline is too large for TLC: each module has its
input arrive in every order its source can produce.

## 8. Trusted

The behaviour of Spark, Kafka and Delta that the options select is modelled from
their documented semantics at the pinned versions (`requirements.txt`): offset
log before batch, commit log after, idempotent Delta sink by (query, batch), a
watermark per batch that never decreases and is restored from the commit log,
optimistic concurrency on files. Two rules of
Spark 3.5 matter to several properties. A streaming plan with a distinct
aggregation is refused when the query is started (`PlanAccepted = FALSE`). And a
batch without data is planned from what the last batch of this process has left
(`ran`), so not directly after a restart.

For the batch half: Airflow's task states, retries and clearing with
`max_active_runs=1`; Delta's rule that a write must have the table's
partitioning, and dynamic partition overwrite; BigQuery's atomic load jobs and
partition decorators; Dataproc's idle timer. A librdkafka producer with
idempotence keeps the order of what it does deliver for a topic and key.
