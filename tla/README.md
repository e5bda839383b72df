# Formal models of the NordBank data platform

This directory holds TLA+ models of the platform and of the simulated bank it
reads, the TLC configurations that check them on small instances, and proofs,
checked by the TLA+ proof system, of the properties that matter most for every
instance. Paths such as `phases.py` are under `src/airflow/plugins/nordbank_ops/`
unless they say otherwise; `PROJECT.json` maps every definition to the lines it
stands for.

Contents: [1 the system](#1-the-system) ·
[2 modules and how they correspond to the code](#2-modules-and-the-code) ·
[3 runs, bounds and fairness](#3-runs) · [4 what is proved](#4-proofs) ·
[5 disagreements found](#5-disagreements) · [6 boundaries](#6-boundaries) ·
[7 what is not modelled](#7-not-modelled) · [8 plan](#8-plan) ·
[9 running it](#9-running-it)

## 1 The system

A simulated bank (PostgreSQL) is advanced one business day at a time. Airflow
DAGs extract each day into objects in a lake and account for every extraction as
a *batch* in `ops.batch_registry` (DuckDB). dbt reads only the objects of
*registered* batches and builds bronze, silver and gold from them. Third-party
files and APIs (card settlements, FX rates, a sanctions list, macro series)
arrive beside it and use the same registry.

    ticks --> source tables --+                        +--> bronze / silver / gold
    sender --> inbound prefix +--> open > extract* > register > gate   (dbt, on asset
    publishers --> HTTP ------+        |        |         |             events)
                                registry rows  lake   one warehouse
                                   (open)     objects  transaction

### 1.1 Inventory

| Component | State | Operations | Correct when |
|---|---|---|---|
| Batch registry (`registry.py`) | `ops.batch_registry` by batch id, `ops.extract_watermark` by entity | `choose_sequence`, `allocate`, `mark_written`, `mark_registered`, `mark_failed`, `advance_watermark` | a registered row is final; a batch moves open, written, registered or failed and never back; the watermark is something bronze holds |
| Relational ingestion (`phases.py`, `ingest.py`) | task states and XComs of one DAG run per logical date | `open_batches`, mapped `extract`, `register` on all_done, `gate`; trigger, clear, retry | every committed row lands; an interval registers an entity once; a green run registered everything |
| Window extraction (`extract.py`, `lake.py`, `physical.py`) | one object per batch id in the lake | read window, observe the maximum, put or overwrite the object, refuse breaking drift | object and report describe the same read |
| Register transaction (`register.py`) | `meta.pii_vault`, `dq.quarantine_log`, drift log | re-read identifiers, index quarantine, mark rows, move watermarks, commit once | all or nothing; identifiers in bronze resolve |
| Contract versions (`contracts.py`) | `meta.contract_version` | `sync`, `select` by business day | a batch is judged by one version throughout; a recorded version is not edited |
| Feed deliveries (`feeds/phases.py`, `identity.py`, `register.py`, `sensor.py`, `dags.py`) | `ops.ingested_file`, `ops.file_sighting`, inbound prefix | sense, discover, admit, park, allocate siblings, extract, register, gate | a content lands once, whatever its name; a verdict is reached once per contract; siblings never part |
| FX feed (`feeds/fx.py`) and fetch policy (`feeds/fetch.py`) | `ops.feed_request` | dates to fetch, one request each, bounded retries | no rate is landed for a date the ECB did not publish; an interval is all or nothing |
| Feed parsers and landing (`clearing.py`, `sanctions.py`, `fred.py`, `land.py`) | none | parse, cast, split off quarantined records | every byte of a file lands or is quarantined |
| Warehouse access (`warehouse.py`) | the file lock, the `warehouse_access` pool | open with bounded retries | one process at a time; openers give up, never hang |
| Assets and transforms (`assets.py`, `transform.py`, `transform_bronze.py`) | queued asset events, DAG paused flag | emit per registered batch, coalesced build | every registered batch is eventually built |
| Backfill (`scripts/backfill.py`, `ingest_state.py`, `feed_state.py`) | one Airflow Variable; the rest is derived from registry and simulation state | hold transforms, load FX history, tick, deliver, run DAGs, judge, skip, halt, resume, release, build once | a day is ticked once and read before the next tick; the operator's pause comes back; a window reported complete is built |
| Simulation state and tick (`generator/mutation/state.py`, `tick.py`, `snapshot.py`) | `platform.simulation_state`, `tick_log`, `drift_log` | `require` under a row lock, phases over a snapshot, advance, reconcile | dates advance by one day, one log row each, an event once |
| Mutation phases, guard, reconcile (`generator/mutation/`) | the bank's tables | account and card sweeps, lending funnel and servicing, onboarding, clearing cycle, the day's movements, dirt, deletes, drift | balances are what is posted; the ledger mirrors it; a loan's money moves once; counts in the log match the rows |
| Validation, schema drift, tokenise | none | classify a table's shape, check records | breaking is refused, additive accepted |
| Historisation, silver (`dbt/macros`) | tables rebuilt from bronze | versions from overlapping batches, FX carry forward, late files | one current version per key; no version lost to the overlap |
| Reconciliation views (`00_ops.sql`) | views | the covering batch of a source day | a day's landing is neither double counted nor short |
| Integrity and acceptance scripts | none | queries | they see what they say they see |
| Seeding and reset (`generator/writer.py`, `mutation/reset.py`) | the dropped-constraints journal, the foreign keys in force | reset, repair, drop keys, copy in chunks, restore | no key is forgotten; what the drift log records is in the schema |
| Book generation (`generator/entities/`, `realism/`, `invariants.py`) | the history of the bank | open, lend, close, draw months, fold, check | the finished book passes its own checks |
| Clearing files (`generator/settlement/`) | what is sent on a day, and in which layout | draw, build, deliver, hold back, correct, cut, send again | every date's file lands, and is off the ledger by its break alone |
| Sanctions list (`generator/sanctions/`, `ingest_sanctions_list.py`) | objects by version, `latest/index.json` | publish each day, read on Mondays | a version is one list; no week passes without its list |
| Code generators, containers | files | one-shot | out of scope, see section 7 |

Components meet in five places: XComs between the tasks of a run (a retry drops
the XCom of its own task only); the registry, shared by every run; the lake
object under a batch id, written outside any transaction; the live source, read
without a snapshot by extract and again by register; and the inbound prefix,
read by the sensor (names), discovery (bytes), extract (bytes) and register (bytes).

### 1.2 What is hard

* Runs of different dates interleave at task level. The ingestion DAGs have no
  schedule and set no `max_active_runs`; the backfill waits for each run, an
  operator who triggers or clears runs by hand need not. The models let runs
  overlap; transactions of open and register are single steps because the
  warehouse file has one holder and the pool one slot.
* A task may die after its commit and before Airflow records success
  (`LateDeaths`); its retry then meets its own effects.
* XComs of an earlier try survive in places: a mapped extract that a new try
  does not expand leaves its report behind, and a feed run whose discovery fails
  leaves the allocation of the try before.
* The source commits during and between reads, with stamps that may lie behind
  those already read (a transaction that started earlier and committed later).
* A contract is published between open and register, or between two tries.
* Names, contents and declared dates of feed files are three different keys.
* A tick decides against a snapshot read at its start and then runs a dozen
  handlers in order. A row that one handler changes is seen stale by the next.
* Facts of one phase are finished by another, days later: a card purchase is
  cleared, a payment moves through its stages, an installment marked paid is
  collected, while accounts close and cards expire underneath.
* The backfill, the source and the runs in Airflow fail independently. A killed
  loop leaves runs going, a pause in force and a source one day further.
* A load takes the foreign keys off a database in which ticks go on, and may die
  with only a journal, perhaps half written, to say what to put back.
* The clearing processor and the sanctions publisher recompute what they sent
  earlier from a seed, under a layout or an anchor that may have changed since.

`PROJECT.json` lists the hazards with their lines and the property for each.

## 2 Modules and the code

| Module | Models | Extends |
|---|---|---|
| `BatchRegistry` | a registry row and what each function of `registry.py` does to it | Integers |
| `PublishedBronze` | the abstract promise to readers of bronze | |
| `RelationalIngest` | the relational DAG, the source under it, the vault and the watermark | BatchRegistry |
| `FeedDelivery` | the card settlement feed from sensor to gate | BatchRegistry |
| `SanctionsList` | the list as it is published and as it is ingested, under the daily loop | BatchRegistry |
| `ClearingFiles` | the card processor's files, and which of them the platform lands | |
| `DailyLoop` | the backfill over the runs, the FX feed, the builds and the source | |
| `SimulatedSource` | ticks, the drift timeline, reset and load of the source | |
| `BankMoney` | what a tick does to accounts, movements, loans and the ledger | |
| `BankRegister` | what a tick does to customers, addresses, cards and alerts | |
| `BookHistory` | the generator of the book the bank starts from | |
| `MC…` | an instance of each for TLC | the module of the name |
| `RelationalIngestProofs` | section 4.1 | RelationalIngest |
| `FeedDeliveryProofs` | section 4.4 | FeedDelivery |
| `DailyLoopProofs`, `SanctionsListProofs`, `BankRegisterProofs`, `BankMoneyProofs`, `BookHistoryProofs` | sections 4.3, 4.5, 4.6, 4.7, 4.8 | the module of the name |
| `SimulatedSourceProofs` | sections 4.2 and 4.9 | SimulatedSource, ClearingFiles |

How they fit together: `BookHistory` makes the state that `SimulatedSource`
loads; inside the single step `CommitTick` of `SimulatedSource` the handlers of
`BankMoney` and `BankRegister` run; `DailyLoop` decides when a tick and a run
happen, and takes of a relational run only how it ends, which is what
`RelationalIngest` is about; `ClearingFiles` and `SanctionsList` make what
`FeedDelivery` and the sanctions run find in the bucket. The seams are kept
narrow on purpose: each module is free in what its neighbour would decide.

`NONE` is SQL null, a missing XCom and a missing file in the ingestion modules.

### 2.1 BatchRegistry

Rows are records (status, contract version, window, rows landed, run, reason);
`absent` is a batch id no insert has used. `ChosenSequence(rows, allowed, n)` is
`choose_sequence` as a relation: reuse the greatest unregistered sequence the
caller may reuse, or take the one after the greatest. `AllocatedRow`,
`WrittenRow`, `RegisteredRow`, `FailedRow` are the four updates; `CanRegister` is
the condition under which `mark_registered` does not raise; `AdvancedMark` is
`advance_watermark`, which assigns whatever it holds.

### 2.2 RelationalIngest

| Variable | Code |
|---|---|
| `source`, `newest` | `updated_at` of each row, and the newest one visible |
| `shape`, `inForce` | the live table's shape; `in_force_from` of contract version 2 |
| `registry`, `watermark`, `vault` | the three warehouse tables, changed only inside a transaction |
| `lake` | the row versions of the object under each batch id |
| `phase` | where a run stands: none, open, extract, gate, success, failed |
| `allocated`, `report`, `summary` | the XComs of open, of each extract, of register |
| `queued` | mapped extracts that have not ended |

| Action | Code |
|---|---|
| `Commit`, `Purge`, `Drift` | what ticks do to a table: a write becoming visible, the one physical delete, a scripted breaking change |
| `Bump` | a person publishes contract version 2 |
| `Trigger`, `Clear` | an operator or the backfill starts a run, or starts it again |
| `OpenBatches` | `open_phase`: skip what is registered, choose and allocate, one transaction; acknowledged or killed after the commit |
| `Extract` | `extract_phase`: breaking drift is reported and writes nothing; otherwise read, put, report, or die before reporting |
| `Register` | `register_phase`: current reports, silent batches, vault, watermark, in one transaction that `Refused` rolls back whole; acknowledged or killed after it |
| `Gate` | the gate task: needs the allocation and an empty list of failures |
| `…GivesUp` | every try of that task failed before its effect |

Abstractions. A row is its key and its stamp. A window is read in one step: what
matters of a longer read is which rows it saw, and rows committed during it have
the same stamps as rows committed before or after. `PutObject` and the report
are one step or, when the task dies between them, a step without the report. A
task that dies before its effect and is tried again changes nothing. Counts
other than `rows_landed`, tokens and Parquet are left out. A row's content is
its version, so "the vault resolves it" means it holds that version.

### 2.3 FeedDelivery

A delivery is its content (the code's checksum); names are `Keys`, in sorted
order because discovery lists them sorted. Constants give each content its
settlement date, its declaration (sequence and revision), the contract version
whose layout reads it, whether it is a whole file and whether some of its
records are quarantined. A batch id is entity, interval, sequence; the two
entities of a file share interval and sequence.

| Variable | Code |
|---|---|
| `inbox` | the inbound prefix, name to content |
| `files` | `ops.ingested_file`: the batch a content landed as |
| `sighted`, `attempt` | `ops.file_sighting`: all batches allocated to a content, and the latest |
| `indexed` | how often the quarantine object of a batch was loaded into `dq.quarantine_log` |
| `found`, `seen`, `units`, `report`, `summary` | XComs of the sensor, discovery, open, extracts, register |
| `registry`, `lake`, `phase`, `queued`, `inForce` | as above |

| Action | Code |
|---|---|
| `Deliver` | the sender puts a content under a new or an old name |
| `Start` | a run is triggered or cleared |
| `Sense`, `Discover`, `UpstreamFails` | the sensor's answer or timeout, discovery's listing, and the failure of either |
| `OpenBatches` | `settlement_open`: `Admitted` (neither landed, parked nor a copy), refusals, empty day, batches for both entities, sightings |
| `Extract` | `settlement_extract`: refused, changed since discovery, or read; one entity that fails its contract takes its sibling with it (`Together`) |
| `Register` | `feeds/register.py`: stranded batches, reports in order, `record_ingested`, quarantine index, second read of the file; `Refused` rolls all of it back |
| `Gate` | the gate of `feeds/dags.py` |

Abstractions. Every content has a header with a readable date. The totals entity
has one contract version, the records entity two. `rows_landed` is 1 for a batch
with a file and 0 for an empty day. Two settlement days are enough for the
interplay the code has (a file of one day found by the run of another). A cleared
run keeps the XComs of tasks its new try has not started, which is what Airflow
does and what `current_reports` was written against.

### 2.4 PublishedBronze

One partition per entity and day, absent at first. `Publish(d, es)` makes the
partitions of some entities of a day readable, whole, together, and each
entity's watermark may only move in that step and only to the stamp of a row in
the partition. Nothing changes a partition afterwards. `RelationalIngest`
implements it with `published <- Published` (the objects of registered batches)
and `mark <- watermark`. So bronze readers need to know nothing of tries,
sequences, failed batches or half-written objects.

### 2.5 SimulatedSource

| Variable | Code |
|---|---|
| `sim`, `tickLog`, `driftLog`, `classified` | `platform.simulation_state`, `tick_log`, `drift_log`, `column_classifications` |
| `schema`, `keys` | the DDL of fired events and the foreign keys in force in `core` |
| `parts`, `orphans` | how much of the new book is loaded; whether a customer with dependents is gone from it |
| `journal` | `dropped-constraints.json`: absent, torn, or a set of keys |
| `tick`, `seed` | where each process stands |

| Action | Code |
|---|---|
| `CallTick`, `Require` | the command and `state.require`, which takes the row lock and decides |
| `ReadDriftLog`, `CommitTick`, `TickFails` | the last phase's read, the commit of everything together, the rollback |
| `Reconcile` | the comparison after the commit, in a read of its own; then the next day of `--to` |
| `CallSeed`, `ClearLogs`, `PointAtAnchor`, `BreakDeadlock` | `mutation/reset.py`: fired events read first, the logs emptied, the state row written; PostgreSQL aborts one of two that wait for each other |
| `Repair` … `RestoreFails` | `writer.py`: put back what a dead load took off, journal, truncate, drop, copy in chunks, restore |
| `KillTick`, `KillSeed` | either process dies anywhere |

A tick's transaction is one step at its end; its row lock is what the model keeps
of its length. DDL statements wait for open ticks (`RowIsFree`). What the phases
do to the book is in the next two modules, except that the purge trusts the
catalogue for what depends on a customer, which `orphans` keeps.

### 2.6 BankMoney

The handlers of a tick in their order, one action each: `BeginTick` (snapshot),
`SweepAccounts`, `DecideApplications`, `DisburseApproved`,
`CollectInstallments`, `Onboard`, `Apply`, `PostDeferred`,
`AdvancePayments`, `ClearLateArrivals`, `ReverseRecentPostings`,
`CollectLoanCash`, `EmitDay`, `WriteFold`, `VoidTransactions`,
`ClearApplications`, the guard and `Commit`. Rows are sequences in the order
identities are given. `snap` is the snapshot, `fold` the running balances, `cash`
what the lifecycle phase leaves for the movement phase, `log` the report.
Random draws are free choices, limited by `Budget`. All accounts are current
accounts in one currency; a movement is a transaction or a payment of a signed
amount; the ledger has one batch per posted event with its two or three legs.

### 2.7 BankRegister

The same tick seen from the registers: account closing, card expiry, issue and
replacement, restamped customers, moved addresses, onboarding, card purchases
(today's and late ones), alerts and their disposition, planted dirt and
duplicates, the purge, the log. `held` and `open` are the snapshot. Two modules
and not one because no handler relates money to a register other than through
the life of an account, which both have.

### 2.8 BookHistory

`OpenAccount`, `Lend`, `Attrition`, `DrawMonth`, `Emit` and `Check`, account by
account and month by month: `entities/deposits.py`, `lending.py`, `movements.py`,
`ledger.py`, `risk.py` and, for `Check`, `invariants.py`. Days are numbers,
instants are days times `Slots`. A month draws opening deposit, salary,
mandates, fees, payments, free movements and bursts, joins the loan cash,
and folds all of it in order of time; the fold declines what an account cannot pay.
`Schedule` is the annuity with its rounding, `Contra` the other legs of a posting.

### 2.9 ClearingFiles

`Draw` fixes for a settlement date whether its file is late, broken, corrected,
damaged; `Deliver` puts a day's files in the bucket (`DueOn`, `Corrections`, the
cut-off file with its resend and retry); `Read` gives the platform's verdict in
the order of the code (whole, layout, conflict); `Publish` and `Reattempt` are the
contract that a new layout needs and what was parked for it; `DayEnds` goes on to
the next day. The layout is that of the day a file is first produced, the
contract that of the day it arrives. The bands of a break's size are in
ten-thousandths of the total, as the profile's four decimals are. The behaviour is
named `ProcessorInit`, `ProcessorNext` and `ProcessorSpec`, so that a module may
extend this one together with `SimulatedSource`, the rest of the simulation.

### 2.10 SanctionsList

The loop's day (`Decide`, `PutEntities`, `PointLatest`, `Ingest`, `Judge`) with
`Kill`, `Restart` and `Reseed`, and the run (`ReadIndex`, `ReadEntities`,
`OpenSnapshot`, `ExtractSnapshot`, `GiveUp`, `RegisterSnapshot`), started by the
loop or cleared by an operator. `EntitiesOn` is the list of a day, computed anew
from the anchor each time as the code does. A version is its day because the seed
is fixed; that is why a second seeding gives the same name to another list.

### 2.11 DailyLoop

| Variable | Code |
|---|---|
| `loop` | where the driver stands (window, day, what is pending, exit code) |
| `run`, `batches` | the Airflow run of a DAG and day, and what the registry says of it |
| `sim`, `readAt` | the source's date, and its date when a run read it (a history variable) |
| `rates`, `watermark`, `fetching` | the rates landed, the FX watermark, the FX task |
| `paused`, `record`, `wanted` | the pause of `transform_bronze`, the Variable, the operator's choice (history) |
| `bronze`, `silver` | queued, running, how the last build ended, what it holds |

| Action | Code |
|---|---|
| `Invoke`, `RecordPause`, `Pause`, `Unpause`, `ForgetRecord` | `main`, `hold_transforms`, `release_transforms` |
| `LoadHistory`, `HistoryLoaded` | `load_fx_history` |
| `BeginDay`, `TickDay`, `RunRelational`, `RunFeeds`, `EndDay`, `EndDays` | `ingest_days`, `tick_needed`, `trigger_and_wait`, `judge_feed` |
| `BuildOnce`, `ReportWindow`, `ReportFailure`, `Return` | `build_once`, `settle_transforms`, `settle_silver` |
| `WaitTimesOut`, `Kill` | `RUN_TIMEOUT_SECONDS`; the process dies and restores nothing |
| `EndRelational`, `EndSettlement`, `FxOpen` … `FxDies` | how a run ends; the FX run request by request, with bounded retries |
| `StartBronze`, `EndBronze`, `StartSilver`, `EndSilver` | the transform DAGs, one process at a time |
| `ChoosePause`, `TickByHand` | the operator between loops |

A run that a dead loop leaves behind goes on. One loop runs at a time, and no run
of a day before the window is active when a loop is invoked; both are assumptions
about the operator that the code does not enforce (section 6).

## 3 Runs

| Run | Instance | Shows |
|---|---|---|
| `ingest_overlap` | 1 entity, 2 days, 2 keys, 3 instants, 1 sequence, source commits at any time and up to 1 instant late, open may die late | `TypeOK`, `NoRowIsLost`, `SuccessMeansRegistered`, `ObjectHoldsWhatIsClaimed` and the refinement `PublishesBronze`, with runs overlapping each other and the source |
| `ingest_drift` | 2 entities, 1 day, 1 key, 2 instants, 2 sequences, both late deaths, drift and bump of one entity, purge, source quiet while a run is under way | `OneBatchPerInterval`, `VaultResolvesBronze`, `RegisteredIsFinal`, and that every run ends (`RunsEnd`) |
| `feed_delivery` | one day, 2 contents with one declaration under either of 2 names, one dirty and one with the new layout, both late deaths, restarts without end; or 2 days whose runs overlap, one file of day 1 on time, late or never, contract changed from day 2, day 1 cleared | `BatchHasOneOwner`, `SiblingsInStep`, `LandsOnce`, `DeclarationIsOnce`, `SuccessMeansLanded`, `DayIsAccountedFor` |
| `bank_money` | 2 customers with an account each, one of which opens on the way; 5 starting books; 3 ticks, 2 draws, 2 applications, loans of one installment | `BalanceIsPosted`, `PostedIsLedgered`, `NoMovementOutsideLife`, `LoanMoneyMovesOnce`, `LoanHasAnAccount` |
| `bank_register` | a holder with a card in mid-life and an old alert, one that expires, or one that is blocked; days to 4, 3 draws | `CardSpendsAreValid`, `AlertsAreWorked`, `OnlyPurgesDisagree` |
| `source_seeded` | 2 tickers, 2 profiles, 2 anchors, 2 events, 2 foreign keys, 2 parts of a load; days to 3, 2 ticks, 2 seeds, 1 death | `TickedDayByDay`, `DriftOnTime`, `LogIsInTheSchema`, `KeysAreKept` |
| `daily_loop` | 3 days, the loop started twice, 2 faults, 1 intervention, 2 attempts of a request, publications on three days of five | `DayIsReadInTime`, `PauseComesBack`, `RatesAreWhole`, `WindowIsBuilt` |
| `book_history` | 1 customer, days 1 to 4 in months of 2, one draw, loans of 8 over 1 or 2 months at a third | `ChecksPass`, `LedgerHoldsTheBooks`, `ScheduleRepays` |
| `clearing_files` | 3 settlement dates: corrected on arrival; cut off, sent again and retried; late into a new layout; every break and damage the seed may draw | `BreaksAreTheProcessors`, `CopiesAreRecognised`, and that every date arrives (`EveryDateArrives`) |
| `sanctions_list` | 4 days of which 3 are Mondays, 2 entities, one leaves and one joins, the source seeded twice, 2 faults | `VersionIsOneList`, `LeftForGood`, `MondayHasItsList` |

These show a statement of the repository violated (section 5).

| Run | Instance | Violates |
|---|---|---|
| `daily_loop_incomplete` | 2 days, one loop, one run that ends with nothing registered | `NeverPastIncomplete` |
| `bank_register_exact` | the holders of `bank_register`, 2 ticks, 2 draws | `LogReconciles` |

**Why the bounds are enough.** The relational steps of a run touch one interval
and read the watermark of each entity on its own, so two runs and one entity
exercise every interference through the watermark, and two entities exercise
every interference inside a run (one fails, one registers). Three instants give a
row below, inside and above an overlap of one; a commit may be one instant late,
which is the most the overlap covers. `MaxSequence` 2 allows a failed batch and
its successor, and 1 is used where a failed interval's second attempt is not the
question (the action is disabled when sequences run out). For what does not
depend on size at all there are the proofs. Two contents and two names give
copies, overwrites and conflicts of declaration; three names would add a third
copy, which `Admitted` treats as the second. `MCFeedDelivery` chooses one of two
scenarios at the start and otherwise takes the module's own steps: two contents and
late deaths with one day, or two overlapping days with one content; both at once are
more than TLC finishes, and are in the theorems that hold of them (section 4).
`MaxUnits` 2 is a bound on `OpenBatches` only, reached by no other action. `MaxIndexed` saturates a counter
whose interesting values are 0, 1 and more.

In the bank the starting books stand for what earlier days leave: a movement in
flight, an application in the funnel, a loan with an installment due and one long
overdue. From there three ticks are enough for every fact that spans ticks: made,
cleared one or two days later, looked back at. Two accounts are needed for an
account opened by the tick itself, whose rows no snapshot has. In the source two
tickers and a seed are all the roles there are, and three days put one event
before and one after a reset to either anchor. Three days of the loop give a day
skipped, a day resumed and a day not begun, and two invocations a loop that meets
what a dead one left; publications have a hole on the third day and on the day
before the anchor, where the history snaps back. Months of two days in the book
put a closing, an installment and a late posting on both sides of a month's end.
The clearing script has one date for each scripted event of the code; its
constants keep the cut-off and the held-back date apart, as the code's do
(`Scripts`). Four days with the Mondays 1, 2 and 4 make a week of one
day, which is the shortest, and one with a day on which nothing is read.

`CHECK_DEADLOCK FALSE` everywhere: stamps, sequences, days, budgets and faults
run out under their bounds, and the real system too stops when nobody calls it.

**Symmetry** is over keys in `ingest_overlap` and over tickers in `source_seeded`,
whose definitions never order them; none is used with a liveness property.

**Fairness.** `ingest_drift` assumes weak fairness of giving up (`OpenGivesUp`,
`ExtractGivesUp`, `RegisterGivesUp`) and of `Gate`: no task runs or is retried for
ever, because the DAGs set `retries=2` (0 for the gate: `ingest.py:167`,
`ingest.py:209`), and Airflow schedules a task whose trigger rule is satisfied.
Success of a task is never assumed fair, so `RunsEnd` says that a run ends
whatever dies, which is the reason for register's all_done rule.
`clearing_files` assumes weak fairness of the daily delivery (the loop delivers
before it goes on), of the platform's reading of what is in the bucket, of the
person who publishes a contract once a file is parked for its layout, and of the
attempt that follows. `EveryDateArrives` needs no more: nothing forces the
processor to send a correct file except its own plan. The other modules assume
no fairness and have no liveness property.

**Mutants.** Next to an operator there may be a variant named in a comment as its
mutant: the operator with a bug somebody could have written (a lost filter, a
wrong trigger rule, a window without its overlap). Each property of a passing run
has one, and TLC finds the property violated when it replaces the original.

## 4 Proofs

From the named assumptions on the constants only, for any number of entities,
days, keys, tickers, events and so on. The bounds of TLC's runs are constants
here, so the theorems hold whatever they are.

### 4.1 RelationalIngest

For any late deaths, from `ConstantsAssumption` and `NoneAssumption` (null is no
value).

1. **`IngestInvariant`**: `Spec => []IngestInv`. The safety properties are not
   inductive alone. `OneBatchPerInterval`, say, could be broken by a run that
   still holds an open batch of an interval that another batch registered.
   The strengthening adds `AllocationInv` (an allocation names
   batches of its own day, one per entity, and lasts from open to the gate; a
   report names a batch of its own entity and day) and `CommitInv`: while a run
   holds an allocation, either all its batches are open and nothing of their
   entities is registered for the interval (`AllOpen`), or register has committed
   and all are final (`AllFinal`). Register's single transaction is what takes a
   run from one to the other, and is why no third case exists.
   Each part has a lemma per kind of step (`AllocationOpen`, `CommitRegister`, …),
   `IngestStep` joins them.
2. From it `TypeCorrect`, `OneBatchCorrect`, `WatermarkCorrect`,
   `RefusalCorrect` (a refusal by `mark_registered` means an earlier try
   committed) and `RegisteredFinalCorrect` (an action property: object writes go
   to open batches only, registry writes to unregistered rows only).
3. **`NoLossCorrect`**: `CommitDelay <= Lag /\ Spec => []NoRowIsLost`. The premise
   is the deployment assumption behind `EXTRACT_LAG`; without it the property is
   false. The invariant adds `StampInv` (marks, reports and windows lie behind the
   newest visible stamp, windows by the overlap) and `WindowInv`: what a queued
   extract has still to read, with what bronze holds, covers the source; and what
   a finished one read, with bronze, covers all that is older than the mark it
   would set. A commit keeps both because it can be at most `CommitDelay` below
   the newest stamp; another run's register keeps both because bronze only grows.
   The watermark may move back in this argument.
4. **`ReportCorrect`** and **`IngestPublishesBronze`**: the refinement. Initial
   states map to initial states; `Register` maps to `Publish(d, Wrote(d))` and all
   else to a stutter. That a published partition never changes uses
   `RegisteredKept`, that it was absent before uses `AllOpen`, and that the
   watermark is the stamp of a row in it uses `ReportDescribesObject`.
5. **`SuccessMeansRegisteredCorrect`**, if no register step dies after its commit
   (`"register" \notin LateDeaths`; section 5 has the run that needs it). `GateInv`
   says at each phase what the gate will find: before register, that every
   entity of the interval is registered or in the allocation; after it, that
   the failures register reported are exactly those not registered. A death of open
   after its commit and overlapping runs are included.
6. **`ClaimsCorrect`** and **`VaultResolvesCorrect`**, on the behaviours in which no
   purge takes the newest row of a table (`NewestStands`). Without that, an
   extract puts an object, register gives up, the only row is purged, the cleared
   run finds its window empty and so leaves the object, and register claims 0 rows
   for it; TLC shows this in 14 steps when an identified entity may be purged.
   `ReadInv` says an object is read from a table that held rows, so that with
   `NewestStands` a window that was not empty does not become so; `CountInv` that a report
   counts the rows of its object; `ReadAgainInv` that the window register reads
   again covers the object, which needs a source that is quiet under a run
   (`QuietSource`). `NewestStandsUnpurged` shows the condition holds wherever
   `Purgeable` is empty: it is every table but the customers.

### 4.2 SimulatedSource

`SourceInvariant` is `Spec => []SourceInv`, with four parts.

1. `SourceTypes`: types, and that a command under way still has days to tick.
2. `RowInv`: only a seeded source is ticked; at most one tick is in its
   transaction, and its day is the one after the simulated date. `TickedDayByDay` is
   not inductive without it: two ticks past their check would both commit the day.
   It is kept because `Require` waits for the row, and `PointAtAnchor`, the only
   other step that writes the row, waits for it as well.
3. `LogInv`: `TickedDayByDay`, `DriftOnTime` and `LogIsInTheSchema`, which are
   inductive together with `RowInv`. A reset sets the date to the anchor,
   where no event is due yet, and empties the log; so `DriftOnTime` holds across it,
   and the schema may have more than the log, never less.
4. `LoadInv`: by phase of the load, what is off is in the journal. A load is only
   past its repair when all keys are in force, and writes the journal before it
   drops anything.

`TickedDayByDayCorrect`, `DriftOnTimeCorrect`, `LogIsInTheSchemaCorrect` and
`KeysAreKeptCorrect` follow. The proof uses facts about sequences (appending a
row, the set of a sequence's elements) proved in the same module, and
`IsFiniteSet(Events)` for the count of the drift log.

### 4.3 DailyLoop

`DriverInvariant` is `Spec => []DriverInv`.

1. `LoopTypes`, as far as the argument needs them.
2. `WalkInv`: a relational run of a day is active only while the source is at that
   day; while the loop walks, no run of an earlier day is active; a day is being
   ticked from the day before it. With it `DayIsReadInTime`: `EndRelational`
   records `sim`, which is the run's day. `Kill`, `WaitTimesOut` and a halt keep
   it because they move neither source nor runs; `TickDay` keeps it because
   `BeginDay` waited for the runs of the day; `TickByHand` because nothing runs.
3. `HoldInv`: while a loop holds the transforms, the Variable and the loop both
   have the operator's choice. With it `PauseComesBack`. The step that matters is
   `RecordPause` of a loop that finds the record of a dead one, and takes it.

`DayIsReadInTimeCorrect` and `PauseComesBackCorrect` follow.

`WindowInvariant` is `Spec => []WindowInv`, on top of it. `QuietInv`: no run of a
day of the window goes on once the loop is through with the day, because `EndDay` waited
for each and a halted loop builds nothing. Hence what the window
registered does not grow under the build. `SilverFollows`: a silver that is not
queued holds what bronze holds, or its last build failed. `BuildInv`: the build
the loop asked for, or one queued behind it, takes in the window, also when the
runs of an earlier loop queue others. `WindowIsBuiltCorrect` follows.

`RatesInvariant` is `Spec => []RatesInv`. `FetchingInv`: what the run has got and
what it still asks for is, unless it failed, all that was published of the dates it owes;
`OwedInv`: no run goes on for a day that has its batch; `RatesWhole`: the rates
from the first daily batch to the watermark are landed, the history is whole, and
no rate is later than the days that are done. The watermark moves back when an
older day registers later; the property survives because the dates in between are owed
and fetched again. `RatesAreWholeCorrect` follows.

### 4.4 FeedDelivery

`FeedInv`, from `FeedAssumption` alone, for runs of several days at once and any
late deaths. The two properties are not inductive: a report left by an earlier
try may name a batch that a later open gave away, and register would then settle
one sibling by it, or register an empty day's batch that is a delivery's. So the
invariant speaks of every unit and report there is, stale ones included.

1. `TypeOK` and `QueueInv`: an extract under way has a unit of its own, and open
   has the listing of discovery.
2. `SightInv`: a content is sighted only on batches of its own day that some open
   inserted.
3. `UnitInv`: a unit names one stem for both entities, an inserted one, and the
   unit of an empty day one that no content is sighted on; a report speaks for both
   entities alike (`Together`).

`open` is the hard step. `PicksAlike` shows by the least slot that would differ that
both entities choose the same sequence, because `ChosenSequence` has one answer and looks only
at statuses, which siblings share (`ChosenIsOne`). `PicksAreFree` shows that what
is chosen is the asker's already or was never inserted (`ChosenIsFree`), also after
the slots before it in the same transaction, and `NewSightings` that a content
therefore gains only batches that were absent: none that is another's, and none a
stale unit names. `NothingArrived` keeps the empty day apart from the deliveries
of its own run. For `register`, `NamedAlike` gives both siblings the same reports
with the same verdict, and `SettledRows` says what those make of a row; a batch newly
registered with no file comes from the unit of an empty day, by `Refused`.

`FeedTypesAreRight`, `BatchesHaveOneOwner` and `SiblingsStayInStep` follow.

What is landed goes on from there, again with runs of several days at once.

1. `LandInv`: an object is of a content its batch was allocated to (`ObjectInv`);
   what is recorded as landed is registered, with both objects holding it
   (`FileInv`); a registered batch of a delivery is the recorded one (`OwnInv`), and
   a delivery has at most one unfinished batch (`OneOpenInv`); units and reports,
   stale ones too, name batches allocated to their content and a report of success
   speaks of objects that are there (`ClaimInv`). `LandsOnceCorrect` is from this, and
   `RegisteredIsFinalCorrect`: no step changes a registered row or its object.
2. `DayInv`: whoever has an allocation has accounted for its day. What the sensor
   found for a day is still in the listing, under a name of that day, and is
   admitted unless it has a batch already. `DayIsAccountedForCorrect` assumes
   `NamesTellTheDate`: a file that is named for a day declares that day. The code
   looks for names and files batches by the header's date (section 5).
3. `TurnInv` and `SummaryInv`: one run is under way; the allocation it uses is of its own
   try; every batch it took is finished before its gate.
   `SuccessMeansLandedCorrect` assumes `OneByOne`: runs take turns, and are not
   cleared or are of one day. The counterexamples without it are in section 6.
4. `DeclaredInv`, for `DeclarationIsOnceCorrect`, which assumes `InTurns`: runs take
   turns and none is cleared. A declaration is asked of `ops.ingested_file` by open
   and recorded by register, so something must hold in between. `DistinctInv` is that:
   while a run extracts, a unit whose file may be read declares what no landed
   file and no other such unit of its allocation declares. `SpokenInv` says a report
   is about a unit of the one allocation its run made, and claims a file only where open
   did not refuse it; clearing is what breaks that. Of two files that register
   records in one step neither therefore conflicts with the other, nor with an earlier one.
   The proof needs null to be no refusal (`NoneAssumption`).

### 4.5 SanctionsList

From `SanctionsAssumption`, any number of seedings, versions and faults.

1. `ListTypesCorrect`.
2. `VersionIsOneListCorrect`. `OneListInv` adds that a run whose unit is not
   refused, and one whose report is good, has a version of which nothing has
   landed. That holds because one run goes on at a time: from open, which
   refuses a declaration that conflicts, to register nobody else lands anything.
3. `MondayHasItsListCorrect`. While the source is seeded once the list under a
   version can only be that day's (`PublishedInv`), so a run that read the index
   and then the entities read one list (`RunReads`), no batch ever failed for
   another list (`BatchesRead`), and the run the loop waits for reads the day's
   version (`WaitInv`).
4. `LeftForGoodCorrect`. `EntitiesOn` is a recursion over the days since the anchor, in which
   each Monday takes some entities off and gives the next serials to others.
   `ListsExist` proves that the recursion has a solution, by well-founded
   induction, and the list of a day is then its value. Each Monday's serials begin after those
   of the Mondays before it (`SerialsGrow`), so a serial is given once
   (`SerialsAreGivenOnce`); whoever a day lists is listed the day before or joins that
   day (`ListedBefore`); hence a list holds whoever an earlier and a later one both hold
   (`ListedBetween`), and an entity is the same in each (`ListedAlike`).
   `AheadInv` puts every version that bronze can hold after the anchor.

### 4.6 BankRegister

From `RegisterAssumption` and `HistoryAssumption`: every history TLC or the reader
puts in is a register as the source's own checks ask for (`Seeded`: no stamp after the
anchor, holders and accounts that exist, cards issued in the life of their
accounts, verdicts after their alerts). TLC evaluates both on the instance's
histories.

1. `RegisterTypesCorrect`. The work is in `Listed`, which chooses an order of a
   finite set (`ListedNamesAll`), and in identities: `LastIdIsLargest` proves that
   `Max` of a finite set of keys is its largest, from a bound by well-founded
   induction on sizes (`FiniteIsBounded`).
2. `CardSpendsCorrect`, from `CardInv`. The property speaks of the tables, and the
   handlers decide by the snapshot, which is out of date as soon as the tick begins.
   `HeldInv` says what of it stays true: the account, issue and expiry
   of a card, and that a card it has as active is not in the table as issued. `OpenInv`:
   an account the snapshot has as open is open. `IdInv`: identities go on from
   above all keys, so whoever joins takes nobody's card or account with the key.
   `Dated`: nothing is dated after the day.
3. `AlertsAreWorkedCorrect`, from `WorkInv`: from the dispositions of a day to its
   commit nothing is due.
4. `OnlyPurgesDisagreeCorrect`, from `LogInv`: the log of a tick is exactly its window, of
   every table and on every day, unless the tick purged a customer it had updated. On such a
   day `LogReconciles`, the identity `reconcile.py` states, is false (section 5).
   `Books` says, table by table, that what is stamped today is what was made today and,
   apart from it, what the report lists as updated and not purged (`Recorded`), and that the report counts what was made.
   It holds from the tick's opening (nothing is stamped today yet: `Dated`) through every handler.
   No row is counted twice because a handler updates either before any handler
   can have made a row of its table (the tick's order), or only rows that were there
   (`Existing`, `Due`). `RecordBalances` turns it into the two cardinalities that
   `reconcile` compares, which differ by the rows updated and purged.

### 4.7 BankMoney

From `MoneyAssumption` (finitely many accounts, natural numbers where the code has
counts and days, the draws of an application's streams typed) and `HistoryAssumption`: the book a tick
starts from is `Seeded`, that is, made of rows of the tables, with its movements in the
life of accounts that are not still to be opened (check 1 of `invariants.py`), nothing
lent or paid after the anchor (check 11), an account for every borrower and one
loan of an application. Days count from the anchor, where the history is gathered.
TLC evaluates both on the instance's books.

1. *Sums.* A balance is a sum over a set of rows (`Total`), which the library computes
   by a recursion that takes the members in an order of its own choosing. The
   induction theorems of the prover's library need a predicate as a parameter, so
   `FiniteInduction` is proved for a set of subsets instead, from well-founded
   induction on sizes. With it: the recursion has exactly one solution (`SumsExist`,
   `SumsAgree`), `Total` is it whatever larger set it is read from
   (`TotalSolves`), any member may be taken out first (`TotalTakesAny`), and sums of
   disjoint sets add (`TotalJoins`). `InOrderLists` and `ListedLists` do the same for the
   two operators that put a set in order.
2. `Held` is what one table holds for an account. `HeldMoves` and `HeldGrows` say what
   becomes of it when rows reach a posted status and when rows are appended; every
   handler does one of the two, or neither. `Reach` is the condition under
   which an update is the first: no row leaves a posted status, and settling a
   booked payment enters none.
3. `MoneyInvariant` has five parts. `MoneyTypes`. `SnapInv`: what is in the snapshot is
   open, opened when the row says, and has the balance of the row until the fold is
   written; the handlers decide by it and the properties speak of the tables.
   `LifeInv`: open accounts have not closed, absent ones never moved, no movement lies
   ahead. `BalanceInv`: what is posted on an account is in its stored balance or, from the
   clearing cycle to the write of the fold, in the fold. `LoanHasAnAccount`
   itself, which is inductive with the others: the sweep spares `Collecting` and a
   loan is made only for an open account. Each handler has a lemma for what it does to the
   rows (`LateDoes`, `OnboardDoes`, …) and one for what it keeps (`…Keep`).
4. `BalanceIsPostedCorrect`, `NoMovementOutsideLifeCorrect` and
   `LoanHasAnAccountCorrect` follow.
5. `PostedIsLedgeredCorrect`, from `LedgerKept`: no two batches stand for one event, a batch
   for a row stands for a posted one and mirrors it, and each posted row has one.
   `Enters` says of the batches a handler appends that they stand for the rows
   that become posted and no others; `LedgerGrows` that the ledger is then kept.
   A collection's batch has three legs (`LoanBatchStandsFor`).

6. `LoanMoneyMovesOnceCorrect`, on the behaviours in which a borrower has one open account
   (`OneOpenAccount`; section 5 has the case without). A collection is told first by
   a cash event of the lifecycle phase and later, by another phase, as a transaction. `TellsOnce`:
   each loan fact of the ticks is told by exactly one row or one event, never by both,
   and whatever is told has happened. `CashInv`: the events are of accounts the tick
   decides against, and are gone before the day's own movements begin. `OneLoanEach`:
   a disbursement finds one loan. `OneOpenAccount` turns a join over accounts
   into a choice of one, so that a phase makes no second event of a fact.

### 4.8 BookHistory

From the module's assumption on its constants, for any number of customers, months
and draws.

1. *Recursions.* The annuity multiplies its base month by month and the schedule pays it
   off installment by installment; both are recursive functions, solved once
   each by well-founded induction (`Compounded`, `Schedule`). `PaymentCoversInterest`
   is the arithmetic that makes a schedule sound: the level payment is never less than
   the first month's rounded interest. So what is open never grows and never turns
   negative, and the last installment, which takes what is left, closes it:
   `ScheduleRepaysCorrect`.
2. `BookTypesCorrect`.
3. `LedgerHoldsTheBooksCorrect`, from `LedgerInv`, which has the sums of section 4.7
   over sets of rows and postings instead of sequences (`SumsExist`, `SumTakesAny`,
   `TotalGrows`). `BooksHeld`: the ledger's loans are what was lent less what was repaid, its
   interest is what installments cost beyond that, and its deposits of an account
   are the balance. `BooksAdd`: the balance is the sum of what was posted and every
   posted row has a posting. `LedgerTypes`: identities are no greater than the number
   of rows, so each new row is new to the ledger.
4. `ChecksPassCorrect`: no check of `invariants.py` that the module has fails
   on a finished book without a late burst (section 5). `CheckInv` follows five things from pass
   to pass: an account closes only after the last of its loan cash and its cooling-off
   (`AccountsStay`, `LoansLast`), a card's use lies in its account's life and its
   own validity (`CardsCome`), rows and the instants they carry are in time (`RowsInTime`),
   alerts follow card rows (`AlertsFollow`). Check 5 is each posting's balance, added up.
   The theorem asks three things of the settings, and TLC evaluates them on the
   instance (`ChecksAssumption`). `CardsComeInTime`: a card is issued before its account
   can close (the code: within 10 days, and 30). `EarlyWithinAMonth`: no installment is
   paid a month early (the code: 2 days). `InterestAddsUp`: the interest that a plan's
   months round to stays within one unit of the bound of check 7. That is not so for
   every principal: one cent at one half over ten months costs more. The loans of the code
   are thousands of units, and the bound has their whole amortisation as room.

### 4.9 ClearingFiles

For any ledger, dates and layouts. `Settings` says what a profile must keep: the
band of warnings below the threshold and the band of errors above it,
with room for rounding and for the sign (the code: 1 to 8 and 50 to 500
ten-thousandths around a threshold of 10). `Scripts` is the condition of section 5.

1. A file's total is a recursive function of its amounts; `RunningSumExists` solves it,
   and `TotalMoves` says that a delta on one amount is a delta on the total
   (`FileIsOffByItsBreak`).
2. `ProcessorInvariant`. The processor remakes a file every time it sends it, and the
   platform judges copies by comparing. `Genuine`: every file in the bucket, landed or
   parked, is the one file made for its date and revision on one particular day
   (`MadeOn`), and is cut short only in the script. `PlanIsGenuine` shows it of all that is sent on a day: the
   resend and the retry are made under the first production's layout. `DrawnInv` keeps
   what was drawn for a date as it was drawn. Two genuine files of one date and
   revision are then equal when both are whole (`WholeIsOne`), so nothing can be refused for a conflict.
3. `BreaksAreTheProcessorsCorrect`. The break that is planned is asked of the ledger's total and
   the severity of the file's, so a warning taken off a total could turn into an error
   (`WarnIsWarn`, `ErrorIsError`). For errors `Settings` is enough. For warnings the theorem
   assumes `WarningsStayWarnings`, which TLC evaluates on the instance, and
   `CentsLeaveRoom` proves it for the bands of the code's profiles wherever amounts are whole
   cents, which is how the ledger has them. In finer amounts it would fail.
4. `CopiesAreRecognisedCorrect`.

### 4.10 Only model-checked

`RunsEnd` and `EveryDateArrives`: liveness under fairness, which the prover does not do.
Every other property of a passing run is a theorem, under the conditions
named above: `CommitDelay <= Lag`, no late death of register, `NewestStands`, `QuietSource`,
`NamesTellTheDate`, `OneByOne`, `InTurns`, `OneOpenAccount` and the settings of 4.8 and 4.9.
`IngestInv`, `WatermarkWasRegistered`, `RefusalMeansCommitted` and
`ReportDescribesObject` are proved and in no run's configuration, and so are
`TypeOK` and `RegisteredIsFinal` of `FeedDelivery` and `BookTypes` of `BookHistory`.

## 5 Disagreements

Two runs each show a statement of the repository violated:

* `daily_loop_incomplete`: `ingest_days` asks after the relational runs only which
  batches failed (`backfill.py:801`). A run that ends before it allocated
  anything, or gives up and leaves batches open, has none, so the loop runs the
  feeds, counts the day as processed and ticks the source past it. The module says
  that a run state is consulted "to catch a run that failed before allocating
  anything" and that "an incomplete relational day the source has moved past
  halts" (`backfill.py:32-34`, `:40`); here the loop itself moves it.
* `bank_register_exact`: a duplicate that dirt updated and the same tick purged stays
  counted as updated (`report.py:100-103`) and is in no window, where
  `reconcile.py:14` says that "the reconciliation is exact at the tick".
  `assert_agrees` then raises after the commit (`reconcile.py:133`,
  `mutation/__main__.py:152`): the day is ticked and the command fails, which is how
  `SimulatedSource` and `DailyLoop` have it. `OnlyPurgesDisagree` says that
  nothing else makes log and window differ.

What follows was found while modelling and is noted where a property had to make
room for it: the property's run and theorem then leave that case out.

*Ingestion.*

* Runs that register in the other order than they read move the watermark back,
  contrary to "the highest" (`registry.py:343`); harmless for `NoRowIsLost`. Running
  an older FX day again does the same, and the dates after it are fetched again.
* No extract reports, register commits all batches as failed and dies; its retry
  finds nothing unregistered (`phases.py:251`) and the gate passes a run that
  registered nothing, although it is there to "fail the run if any batch of it
  failed" (`phases.py:304`). `SuccessMeansRegistered` is therefore checked with
  register dying only before its commit.
* A retry whose window has become empty leaves the earlier try's object under a
  batch registered with no rows (`extract.py:187`), where the specification says it
  "overwrites its own objects"
  (`docs/specs/005-extraction-and-bronze-landing.md:166-167`). For
  `ObjectHoldsWhatIsClaimed` no purge takes the newest row of a table.
* The vault's second read misses a row updated after the extract, contrary to "the
  same rows it did and no others" (`register.py:60-61`, `:66`). For
  `VaultResolvesBronze` the source is quiet while a run is under way.
* A cut-off file and its complete re-send in one run: the good file is refused for
  conflicting with the bad one, and parked (`feeds/phases.py:567`).
* A file under the day's name that declares another date is neither that day's
  delivery nor its empty batch, and the day succeeds with no batch
  (`feeds/phases.py:592`), where `docs/specs/006-external-feeds.md:233-236` says that a
  day with no file for its own date registers empty batches. For `DayIsAccountedFor`
  files are named for the date they declare.

*Backfill.*

* Core banking is run although reference data failed; the registry is asked once
  after both.
* Two loops at once find each other's record; the second to end deletes an Airflow
  Variable that is gone.
* `judge_feed` excuses a run that failed in itself when an earlier try left a failed
  batch whose delivery has landed since. And a sanctions run reads `latest`
  whatever its logical date, so a run of an old Monday reads today's list.
  `MondayHasItsList` is stated for a source seeded once and with operators who
  clear other days than the loop's.

*Ticks.*

* Applications already withdrawn or expired are judged again
  (`lifecycle.py:630`), which `seed/40_status_domains.sql:128-129` calls final.
* A card blocked by the sweep of a day still makes purchases that day, and the
  snapshot does not see a limit lowered in it (`phases/movements.py:1464-1475`).
  `CardSpendsAreValid` asks for the state of issue and expiry, which do not change.
* `LoanMoneyMovesOnce` is false for a borrower with two open primary accounts: the
  joins of `phases/lifecycle.py:495-551` find both and debit each for one
  installment, contrary to `lifecycle.py:19-22` and `:486`. Each customer has one.
* `Snapshot.take_id` (`snapshot.py:109-113`) counts on from the highest identity there
  is. After the newest customer was purged its key is given again, to another
  customer, where `phases/deletes.py:31-34` promises "no key in that table that silver
  still holds" and `scripts/tick_acceptance.py:385-393` takes deleted keys to be gone.
* The events a reset reverts are read before the transaction that empties their log
  (`mutation/reset.py:70`). An event that a tick fires in between stays in the schema,
  with no row in the log, a state the module calls incoherent (`reset.py:7-8`).
  `LogIsInTheSchema` is the inclusion that holds, and the DDL that fires it again is
  written to find it there.

*Seeding.*

* A load killed with its foreign keys off, and a tick that then purges: the purge asks
  the catalogue what depends on a customer (`phases/deletes.py:59-87`) and finds
  nothing, so the rows left behind keep the key from ever being restored
  (`writer.py:202-215`). A journal cut off while it is written stops every later
  load as well. In both cases the keys are still named, which is `KeysAreKept`, and
  a person has to look.

*The book.*

* A velocity burst that starts late runs past midnight
  (`entities/movements.py:652-711`, and the same in the tick), to a day on which the
  account may be closed or the card expired, and the posting's day is not the
  movement's: checks 1, 2, 9a and 11 of `invariants.py` then fail. `ChecksPass`
  excepts such a book.
* An account that goes dormant in the month it opens never gets its opening deposit.
* An installment is paid by the schedule while its debit may be declined by the fold
  (`entities/movements.py:834-846`), contrary to `entities/lending.py:3-5`.
  `LedgerHoldsTheBooks` counts what was posted.
* The fold orders payments by when they are initiated although they are booked 17
  minutes later.

*Clearing.* The scripts cut a date's file off on the date itself, send it again a day
later and retry it after that (`settlement/timeline.py`). A seed that draws that date
as late (`settlement/__main__.py:113-115`) has its resend come before the file. The
instances take a seed that does not, and `Scripts` keeps the two scripted dates apart.

## 6 Boundaries

What the passing properties do not say, learned from counterexamples on the way:

* `SuccessMeansLanded` excepts a batch whose extract never reported, which is the
  feed's form of the silent retry above, and is for runs that take turns (`OneByOne`).
  When a second run takes over an open batch of a delivery (it may: the delivery is
  its own), the first run's register sees neither a report nor a stranded batch
  and can end in success although its extract gave up. Two days that never overlap do
  the same when one is cleared: its try starts with the units its last one pushed.
* `ObjectHoldsWhatIsClaimed` and `VaultResolvesBronze` are for sources whose newest row of a
  table is never the one purged (section 4.1, 6).
* `MondayHasItsList` excepts a Monday whose own run was cleared while `latest` named
  another version and failed on it: once that other list has landed, the registry calls the
  Monday complete (section 5).
* `DayIsAccountedFor` is for files named for the date they declare. One that is not
  is found by the sensor of the name's day and filed under the header's.
* A verdict is not reached once per contract when two days lie on either side of a
  bump and their runs are cleared alternately: each time the version in force for a
  parked content is another one, and it is attempted again. ADR 0016 speaks of one
  more attempt.
* `DeclarationIsOnce` is proved for runs that take turns and are not cleared, and
  checked with one day that is cleared. A conflicting declaration is read from
  `ops.ingested_file` by open and not asked again by register, so two overlapping
  runs could each land one of two conflicting files, and so can two serial days of
  which one is cleared, or one day cleared with three names and four contents, by a unit
  an earlier try left behind.
* A register step whose batches all failed and that is tried again after its commit
  inserts their quarantine rows a second time (`register.py:186`), where a run with a
  registered batch would be refused.
* A report left behind under a higher map index by a try that expanded more
  units can name a batch the new try allocated again under a lower index. Two
  reports then name one batch and register refuses every time; the run fails, as
  the model's `Refused` says.
* Spec 005 (lines 111-112) says a failed register leaves batches `written`; in the
  code the transaction that writes them is the one that rolls back, so they stay
  `open`. Nothing depends on the difference.
* `DailyLoop` has one loop at a time, an operator who ticks by hand only when nothing
  runs, and no run of a day left out of the window active when a loop starts. The
  code checks none of the three. Without the last, a run left behind by a dead loop
  could read the source on a later day, and `DayIsReadInTime` would be false.
* `WindowIsBuilt` is about a loop that found the transforms unpaused: with the
  operator's pause in force nothing is built, and nothing is reported.
* `RatesAreWhole` is about daily runs from the first one that registered; the dates
  before it are the history's.
* The severity of a break is asked of the file's total where the planned one is asked of
  the ledger's. In amounts finer than cents a planned warning could be reported as an error
  (`WarningsStayWarnings`); amounts are cents.
* Check 7 allows the interest of a loan one unit beyond its simple interest. Plans of very small
  principals over many months round to more (`InterestAddsUp`).
* `VersionIsOneList` says bronze keeps one list under a version after a second
  seeding, by refusing the other one. That other list never lands.

## 7 Not modelled

* **Contract sync, record checks, tokenisation, shape classification**: functions of
  one file or one record; their verdicts are inputs of the models.
* **Historisation, silver and gold models, reconciliation views**: SQL over what
  bronze holds, generated per model, with no state of their own. What they read
  is the promise of `PublishedBronze`.
* **The macro series**: the same registry and register step as the sanctions list,
  with a request instead of a file.
* **Warehouse lock waits**: who holds the file is in the atomicity of the steps; how
  long an opener waits, and that it gives up, is not.
* **Merchants, agents, devices, sessions, customers' attributes, currencies, the
  shapes of random draws**: data without control.
* **Acceptance and integrity scripts**: queries over the state, several of which are
  properties here. **Code generators, linters, containers, health probes**: text
  and I/O. **The deferral demonstration and the reports of the backfill**.

Components in `PROJECT.json` marked partly modelled say there what is left out.

## 8 Plan

Done: everything in the table of section 2, and a theorem for each safety property.
Left, most important first:

| What | Why | How |
|---|---|---|
| Contract `sync` and `select` | an edited version must be refused | operators, bounded inputs |
| Historisation, reconciliation | versions out of overlapping batches, the covering batch of a source day | recursive functions against a reference definition |

## 9 Running it

    tlc -workers 2 -config IngestOverlap.cfg MCRelationalIngest
    tlc -workers 2 -config DailyLoop.cfg     MCDailyLoop
    tlapm RelationalIngestProofs.tla
    tlapm FeedDeliveryProofs.tla
    tlapm SimulatedSourceProofs.tla
    tlapm BankRegisterProofs.tla
    tlapm BankMoneyProofs.tla
    tlapm BookHistoryProofs.tla

Each run's module and configuration are in `PROJECT.json`. Every run ends within
five minutes on two cores, most within one. `tlapm` on any of the eight modules of
proofs checks all of its theorems.
