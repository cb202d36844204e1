# Verification of transit-lakehouse

TLA+ models of the 511/GTFS-Realtime lakehouse, TLC runs that check them on
small instances, and theorems about them that TLAPS proves for all values of
the constants. Every definition is translated from the code; `PROJECT.json`
maps each to its lines and lists the runs, the hazards, the mutants (a way to
break the code that the property would notice) and the disagreements between
the code and what it says of itself.

    tlc -workers 2 -config RateBudget.cfg MCRateBudget      # one run
    tlapm RateBudgetProofs.tla                              # one module's proofs

## 1. The system and its parts

Data moves one way: 511 → poller → raw archive → bronze → silver → gold →
on-time performance → marts → API. Beside it, a replay producer, an arrival
resolver and a prediction aggregator do the same over Kafka. The parts share no
memory; they meet in files, Delta tables and topics, so what is hard is what
one finds there of another: half written, twice, late, in another order, or
from a life before the crash.

| part | state it keeps | operations | what makes it correct |
|---|---|---|---|
| poller, `ingest/poller/poller.py` | deque of call times, stop flag, per-feed headers | fetch with one retry, archive, decode, quarantine, pace | never more than the budget in any window; stops when asked; the bytes are on disk before they are parsed |
| supervisor, `scripts/run_poller.sh` | lock file, backoff | start, restart, `--stop`, `--status` | one poller; a failure is restarted, a stop is not |
| static fetch, `ingest/static/fetch_static.py` | zips and meta files by hash and day, extracted directories | fetch, archive, extract | an unchanged feed is a no-op; a directory is whole |
| bronze, `spark/bronze.py`, `spark/bronze_stream.py` | two Delta tables, processed-files table, checkpoint | list, decode, append, record | every file ends up in bronze; copies come from crashes only |
| silver, `spark/silver.py` | one overwritten table | rebuild and deduplicate | drops copies and nothing else |
| gold, `spark/gold.py` | `fct_stop_arrival` | resolve, MERGE | the first sighting, whatever order it came in |
| schedule, `spark/stage_gtfs.py`, `dbt/snapshots`, `spark/dim_schedule.py` | staging table, versions | stage, snapshot, upsert | one current version, windows that do not overlap |
| OTP, `spark/fct_otp.py` | `fct_stop_otp` | as-of join, rebuild | the join multiplies nothing; past answers stay |
| decoder and contracts, `ingest/poller/decode.py`, `streaming/contracts.py` | none | decode, validate, key | absent is not 0; a trip keeps to one key |
| producer, `streaming/producer.py` | statistics, the client's queue | merge polls, publish, dead-letter, flush | what is invalid goes to the dead letters, the rest is sent once and in order; the exit code says so |
| resolver, `streaming/consumer.py` | stops already announced, offset | consume, announce, commit | an arrival is announced before its offset is committed |
| aggregator, `streaming/aggregator.py` | latest predictions and arrivals by key | fold, join | replays converge |
| orchestration, `orchestration/definitions.py` | the status of each asset of a run | one daily asset graph, asset checks | a job reads what its predecessor finished |
| serving, `serving/` | SQLite file | export, read-only API | an answer that says how fresh it is says so of all its rows |
| ML, `ml/` | feature table, artifact, report | build, train, correct | features know nothing of the future; a model that lost is not served |

Hard behaviour, part by part, is listed under "hazards" in `PROJECT.json`, each
at the line where it bites.

## 2. Modules

| module | models | extends |
|---|---|---|
| `RateBudget` | `RateBudget`, `Poller.fetch`, `run_forever`, signals, crash and restart | |
| `RateBudgetProofs` | theorems about it | `RateBudget`, `TLAPS` |
| `RawArchive` | `poll_once` of pollers that share an archive: names, tiers, deaths | |
| `Bronze` | the archive, as its readers see it, and both loaders | |
| `ArrivalFacts` | the abstract arrival table: a fact is the earliest sighting offered so far | |
| `Medallion` | silver and gold on top of `Bronze`; implements `ArrivalFacts` | `Bronze` |
| `Resolver` | a consumer group of resolvers over one partition | |
| `Decode` | payloads to rows, rows to events: presence, validators, keys (no state) | |
| `Replay` | the replay producer, the client's queue and the topics | `Decode` |
| `Aggregator` | the prediction aggregator, reading what `Resolver` announces | `Resolver` |
| `Schedule` | static fetch, staging, both schedule dimensions, the OTP join | |
| `Supervisor` | the supervisor script's processes and its lock | |
| `ServiceDay` | scheduled times, delays and the on-time window (no state) | |
| `Serving` | the export, statement by statement, and the API's requests (actions, no specification) | |
| `Refresh` | the daily asset graph, its runs and their failures, on top of `Serving` | `Serving` |
| `Correction` | feature table, training, artifact and report, corrector | |
| `CorrectionProofs`, `RefreshProofs`, `ReplayProofs`, `ResolverProofs` | theorems about the module they are named after | that module, `TLAPS` |
| `PollerProofs` | theorems about `Supervisor` and `RawArchive` | `Supervisor`, `RawArchive`, `TLAPS` |
| `ScheduleProofs` | theorems about `Schedule` and `ServiceDay` | `Schedule`, `ServiceDay`, `TLAPS` |
| `MedallionProofs` | theorems about `Bronze` and `Medallion`, the refinement among them | `Medallion`, `TLAPS` |
| `MC*` | values of the constants for TLC | |

Conventions. One action is one step that another process can come between: a
commit, a file write, one command of a shell script, one turn of a consume
loop. Variables marked *History* are read by properties only. Constants named
`Max…`, and `Horizon`, are bounds; they stand in guards. A definition whose
comment begins with "Broken:" is a plausible mistake in the definition that
follows it; no specification uses it, it says what the properties would catch.

### RateBudget

Half-second ticks. `calls[head..]` is the deque; entries are kept after they are
pruned so that `CountedBudget` can speak of all of them. `pc` walks through
`fetch` (budget sleep, request, retry) and the pacing loop; `Signal` may come at
any time, `Crash` too, and `Start` empties the deque. `BrokenBody` is a response
that breaks off while its body is read: the exception is not one of those that
`fetch` records. `BudgetAssumption` is the cadence check of `main`.

### Bronze

A file is the number of its poll. `BeginArchive`/`FinishArchive` are the two
ends of `write_bytes` under the final name; with `TornReads` a loader may come
between them, or the poller may die there. `Decode`, `AppendRows`, `Record` are
the job's commits, in the code's order; the batch job forgets its plan in a
crash, the streaming job finds its plan in the checkpoint and runs it again.
`StreamStart` is the look for the table, `Bootstrap` the overwrite with an empty
one that follows if there was none (bronze_stream.py:141-169). What the batch job
appends in between is `erased`, and its books keep the paths.
`target` turns true with the first commit. The directory may be there a little
earlier, and then the start creates nothing, which comes to the same as a
`Bootstrap` that finds nothing to overwrite. An overwrite that Delta refuses,
because the table came about since it read the log, is a crash. A run with
`--once` that ends and is started again finds its table, and is left out.
Taken from the code's use of Spark: an append is atomic, the file source takes
the oldest files first. With `--limit-files` the code evaluates `limit()` twice;
the model takes both evaluations to agree.

### Medallion and ArrivalFacts

Tables are functions of the set of files they were built from, so silver is
`silverOf` and a bronze row is a (file, vehicle) pair. A payload is a header
timestamp and, for each vehicle, at most one sighting at a stop visit; a visit
stands for the gold grain. `Resolved` is a set, because `row_number` orders by
the report time alone and ties are the engine's. `Merge` is the MERGE clause.
`AF` maps the gold table to the abstract `fact`, the history `offered` to the
abstract `offered`.

### Resolver

One partition (the key is the vehicle, and a vehicle's state never leaves its
partition), a log read by offset, two instances. `Consume` is one turn of the
loop: process, produce into the local buffer, commit every `CommitEvery` events
(asynchronously: it may get nowhere). `Exit` commits once more, synchronously, and
that may fail too, which is swallowed (consumer.py:298-300). `Deliver` and `GiveUp` are the producer's
thread. `Assign` moves the partition; an instance that gets it back has the
memory it had.

### Decode and Replay

A payload is a sequence of entities, a submessage a sequence of at most one
record, a field that was not sent is `Absent`. `Decode` gives the rows of a
payload, says which `Conforms`, and what event and key are made of one; the
departure columns, which repeat those of the arrival, are left out.

In `Replay` a message is known by its place: run, poll, row. It sits in the
client's queue until a `poll()` or `flush()` serves its delivery report, so a
full queue may be full of messages that are long sent. `Send` and `GiveUp` are
the client's thread; a message given up may have arrived, only its
acknowledgement lost. `Drain` is the code's answer to a full queue: `poll(1.0)`,
one retry, and the end of the process if that does not fit either. Two more ways
to end it are modelled as the code has them, though its comments say otherwise:
a file cut short (`decompress` is outside the `try`, against "Record it and move
on", producer.py:172) and a dead letter that finds the queue full (its
`produce()` has no handler, against the docstring of `_dead_letter`, lines
140-144). A run may follow another, over the same archive.
Taken from the code's configuration of the client: idempotence keeps the
messages of a partition in order and free of copies, and a key has one partition.

### RawArchive

A poller goes through its feeds; a fetch takes any time, the wait for the budget
and the retry included (they are `RateBudget`'s). `stage` is also the tier it
writes to next, `Open` and `Close` are write_bytes: the file is truncated, then
filled. `Die` is a kill or an OSError, which nothing catches; the supervisor
starts the process again after its backoff. Time is in ticks, `Second` of them to
a second, since names are rounded to seconds and naps are not. Names leave out the
date, which the second determines, and take eight digits of the hash for the
payload. When two pollers have one file open, the first to close leaves it whole
or with a hole. The lock of `Supervisor` is not assumed.

### Aggregator

The other end of `Resolver`: an arrival is the offset of the event it was made
of, which times `Tick` is its time. `AddPrediction` and `AddArrival` are a turn
of the loop each, the two topics in any interleaving; `AggFinish` is the idle
timeout, which may come too early, with the join. `pairs` are occurrences, one
for each prediction and sighting that were joined, and `Summarize` counts them by
lead time. An aggregator is fresh whenever it starts, since it never commits.

### Schedule

Feeds are numbers in the order of their hashes. The fetcher's phases are its
file writes; trips.txt is extracted last and may be read half written, which
shows as trips without a route (the left join). `Stage` and `Upsert` take the last
directory, or another one given by `--extracted`. `Snapshot` is dbt's merge as
the repository configures it: strategy check, hard deletes invalidated. `dbt` and
`dim_schedule` are alternatives that share only the directories, so a
behaviour has one `keeper`. `--observed-at` is a testing option and left out.

### Supervisor

Every shell command that reads or writes the lock, or signals, is a step. A trap
that is due while bash waits for a foreground command runs when the command ends;
it is two commands itself (`Trap`, `TrapPkill`). Between the creation of the lock
and `trap` a SIGTERM ends the script and leaves the lock (`"written"`). `--stop` is
an invocation of its own, with the pid it read: `StopRead`, `StopKill`,
`StopPkill`, `StopRemove`, any of which may find the lock in other hands by then.

### ServiceDay

Instants are seconds UTC, dates are numbered, the zone is an operator
`UtcOffset`. A service day begins twelve hours before the instant of noon, by
subtraction of instants (the code converts to UTC first, which is the point).
What may be NULL is a set of at most one element. `MCSchedule` evaluates the
arithmetic against the wall clock over five dates with both clock changes, at
every half hour up to 36:00. `scheduled_utc` and the columns of `fct_otp` are
one definition here; the code writes the regular expression twice, and only
the Python one tolerates blanks around the time.

### Serving and Refresh

A file is its inode, the position in `files`, so a connection stays on the file
it opened when the path is unlinked. The steps of the export are SQLite's
commits: `to_sql` creates a table and fills it in two transactions, and
`CREATE TABLE meta` is committed before its rows. `exists()` and `unlink()` are
one step; that another export unlinked the file in between, and this one ends
with FileNotFoundError, is a case of it. An endpoint's SELECTs are
transactions of their own, in the order of the code: `agencies` reads its rows
before the window, the others after it, which is why it alone may pair a window
with a table that was just created (`FreshAnswersAreWhole` says so). A table's
content is the version of `fct_stop_otp` behind it.

`Refresh` runs the nine assets: `Start` reads what the asset's function reads
first, `Materialise` commits its table, `BuildMart` is dbt's one table at a
time, `ExportStep` the export. `Upstream` is the `deps` of the decorators. An
asset fails before or after its commit (`Fault`); what is below it never
starts. `dbt build` runs the snapshot too, so `dbt_marts` commits `dim` again.
Tables carry what they came from: a number of polls, the name of a feed's
directory; what the assets compute is the business of `Bronze`, `Medallion` and
`Schedule`. Staging takes the last directory by name whatever was fetched
(see the claims below), so `RefreshCoversItsStart` compares names, not dates. The
embedded metastore lets only one dbt run at a time work on the warehouse; a
second one then fails, a case of `Fault`, and the runs in which it does not are
more than the code has. A failed export has removed the file of the day before:
until the next run the API answers 503 or 500, "always-on" (definitions.py:242)
notwithstanding.

### Correction

A row of the feature table is a forecast with its label; the estimator is a
verdict, `won`, chosen freely. A payload that does not decode is quarantined by
the poller but archived before, and `build_features` catches nothing: from then
on no table is built, and the last one is what is trained on
(`ArchiveUndecodable`). The table is truncated and filled row by row
(that a flush may end inside a line is left out), and the trainer may read it
meanwhile: only the least number of rows stands in the way. `artifact` and `report` hold the number of the
training that wrote them, or `Torn`. A missing report, or one that does not
parse, enables the model (predict.py:116, 125), and the artifact is dumped
before the report is written, so a corrector that loads in between, or after a
trainer died there, may serve a model that lost: the fallback "enforced in
code" (predict.py:20) is so only for a reader that finds both files at rest and
of one training, which is what `CalmlyLoadedModelWon` says.
Either file is truncated as it is opened, and each process writes at its own
offset, so two trainers that have it open leave a mixture: `inReport` and
`inArtifact` are the trainings in a file, `Found` is what a reader may make of
one that is open, `Left` what is there afterwards, and only a training that was
`Alone` in a file from end to end left it whole. A report that is a mixture may not
parse, which enables the model; an artifact that is one may not load, and one
that loads counts as one of the trainings'. `calm` asks that the last to write
each file was alone in it. `pd.read_csv` (train.py:117) is one instant: it reads a
table that is being written, not one that is truncated under it. Labels may be
observed after the instant of the split; the code asks that forecasts be issued
before it, no more. `build_features` builds its rows itself, not with the helper
that predict.py:25 says is shared.

## 3. Runs

| run | bounds | what it shows |
|---|---|---|
| `rate_budget` | 2 feeds, 2 requests per window of 2 ticks, horizon 4, two lives, one broken body | the counted budget holds in every window, of each life no window holds more than the budget, bodies that broke off aside, at most two requests follow a stop, an admitted cadence is never slowed down, and a stop ends the process, asleep or not |
| `raw_archive` | 2 pollers, 2 feeds, 3 polls, 2 payloads, 2 ticks to a second, 1 death | what is decoded has its bytes archived, what is archived is decided, and punctual polls have names of their own |
| `bronze` | both loaders, no table at first, torn reads, crashes | what counts as consumed is in bronze or in the failures, but for what the other loader's start erased; copies are bounded by loaders and crashes, every file is consumed |
| `medallion` | 2 polls of 9 payloads, the batch job, 1 crash | gold implements `ArrivalFacts`; where headers tell payloads apart silver keeps every sighting, gold is the first sighting of the files behind it, and every archived sighting becomes a fact |
| `resolver` | 2 instances, few events, one crash | no arrival below a committed offset is unannounced unless something crashed or was given up; copies are bounded by lives; nothing is skipped; everything is announced |
| `resolver_lost` | one crash | **violated**: a commit covers an arrival still in the local buffer |
| `replay` | 5 archives of up to 3 files, a queue of 2, 2 runs, 1 delivery given up in each | an exit with 0 means that every row arrived; order and single copies on the topics; events say what the payload says |
| `aggregator` | 1 resolver, restarted once, 2 positions, 2 updates | the tables are those of the distinct events; a restart makes a visit weigh at most once more |
| `schedule` | 2 feeds, 2 keys, 4 instants, one odd event | the join is conserved, past answers are final, the hand-rolled windows tile in ordinary use, the last feed is staged |
| `supervisor` | 3 invocations, 2 failures, 1 stop, 1 kill | the lock excludes while starts do not overlap, failures are restarted, stops are honoured |
| `refresh` | 2 feeds, 2 marts, 2 runs, the second launched at rest or beside the export, 1 change, 1 fault, 1 client | whole answers, final files, a window that is the rows', a run that covers its start, and an export in place when a run has come to rest |
| `correction` | 2 visits, 4 forecasts, 4 polls, 2 trainers that may overlap, 2 trainings, 1 death, 1 corrector | a row is a forecast older than its label, the holdout follows all of the past it should, even in a half-written table, and a corrector that loads in calm serves a winner |

Some claims of the code fail in ways that have no run of their own, because a
passing property says exactly how far they hold:

- The request budget is "a hard budget" (poller.py:9) for each life of the process
  and not across a restart, which forgets the deque, nor for a body that breaks
  off, which is not recorded: `HardBudgetOfALife`.
- "Append-only raw + decoded storage" (poller.py:87): a cycle that overran its
  interval is followed by the next at once, so two polls of a feed may fall into
  one second, and an unchanged payload truncates and rewrites the file that was
  whole. Punctual polls never do: `PunctualPollsAreApart`.
- "the schedule as of the latest fetch" (stage_gtfs.py:4): the job takes the last
  directory in name order, and names are hashes. A newer feed whose hash sorts
  before an older one's is never staged; what is staged in the end is the last by
  name: `LatestFeedIsStaged`.
- "Bronze is append-only, so re-running must not re-append" (bronze.py:125):
  the streaming job's start overwrites. Where both loaders begin in an empty lake,
  what the batch job appends and books between the streaming job's look for the
  table and its `mode("overwrite")` (bronze_stream.py:141, 165) is erased, and the
  batch job never loads it again; the streaming job does, its own books being
  empty then. `ConsumedIsAccountedFor` excepts these files for the batch job, and
  says that no start ever erases what the streaming job consumed.
- A streaming batch "cannot lose or duplicate a poll" (bronze_stream.py:187)
  except once for each crash between the append and the checkpoint:
  `DuplicatesBounded`.
- "Enforce single-instance MECHANICALLY" (run_poller.sh:13): check, removal and
  creation of the lock are three commands, and a poller may outlive its
  supervisor. Two starts that overlap run two pollers; when none overlap, nobody
  uses `--stop` and no supervisor is killed, there is one: `LockExcludes`.
- "replays and duplicate deliveries converge to the same table" (gold.py:125):
  true of the arrival and its lineage (`GoldImplementsFacts`,
  `GoldIsFirstSighting`), not of dwell, last stop time and observation count,
  which stay what they were when the row was first merged.
- "the model failed to beat its best baseline at training time" is a case of the
  fallback (predict.py:14): for a corrector that loads in calm,
  `CalmlyLoadedModelWon`; see Correction above.

The bounds are small because the interesting cases are: two polls suffice for
any order, repetition or tie of two sightings; two files for a crash between
any two commits; two instances for a rebalance there and back; a queue of two
for one that is full of what is sent, of what waits, or of both; two feeds and
four instants for a retiming, a drop and a return of a key; two runs for one beside another, two marts for one read before the window and one after it; two trainings for a report older than its artifact. Deadlock checking
is off throughout: every system may stop (a bound is reached, a loader has
nothing to do, a script has ended).

Fairness is weak, and only on what runs by itself: the process's own steps once
it is started, loaders and builders that make or the daily schedule start again,
the consumer group and the producer's thread, the script's own commands. No
fairness on crashes, signals, polls, published feeds, `--extracted` or
`CutShort`.

## 4. Proofs

Each theorem holds for all values of the constants that the module's named
assumption allows. The properties are seldom inductive; what makes them so is
below, under the name it has in the proof module.

| module | theorems | inductive invariant |
|---|---|---|
| `RateBudgetProofs` | `TypeCorrect`; `BudgetHolds`: calls `MaxRequests` apart are more than a window apart; `StopHolds`: at most two requests follow a stop; `HardBudgetHolds`: the budget of each life, as the server counts it; `CadenceHolds`: an admitted cadence is never slowed down | the deque holds exactly the calls of the last window (times ascend, everything left of `head` has expired), and while a request sleeps or is on its way the deque has room for it by the time it is sent; `ServerInv`: what the server's window has of this life are distinct sends of it (`Embeds`), which ties what the deque knows of calls to what the server counts, and what it has of a past life stays within the budget; `CadenceInv`: calls lie as many intervals apart as cycles (`CyclesApart`), so a full deque has always expired |
| `MedallionProofs`, on `Bronze` | `BronzeTypeCorrect`; `ConsumedHolds`: what counts as consumed is accounted for; `DuplicatesHold`: duplicates are the crashes' | `JobOK`: between decode and append the run knows of each planned file whether it is good (`Found`), between append and record each is `Accounted`, and so is what is in the books; `BootOK`: the streaming job consumes nothing before there is a table, and starts no overwrite once it has, so a `Bootstrap` erases the batch job's rows only; `RowsOK`: what is in bronze exists and decodes; `LedgerOK`: every row or failure of a file is paid for, by a loader that is still charged with it or has it in its books (`Charged`), or by a crash |
| `MedallionProofs`, on `Medallion` | `MedallionTypeCorrect`; `GoldRefinesFacts`: `MedallionSpec` implements `ArrivalFacts`; `SightingsKept`, `FirstSightingHolds`: the dedup loses no sighting, an arrival is the first one | `GoldInv`, on top of `BronzeInv`: silver is built from files in bronze, a pending merge holds the earliest of what silver had, gold the earliest of all that was merged. `MergeRow` is the MERGE clause's part. `FirstInv`: what was offered is all sightings of the files that were merged |
| `CorrectionProofs` | `CorrectionTypeCorrect`; `RowsHold`: a row is a forecast older than its label; `HoldoutHolds`: the holdout follows the past; `CalmHolds`: a corrector that loads in calm serves a winner | `BuildInv`: labels are first sightings, and stay so as the archive grows; `TrainInv`: a report that a training wrote alone is that training's, and nobody has it open, until the next begins; `ServeInv`: what was enabled in calm has won; `HoldoutInv`: what a half-written table lacks is not older than what it has, and the cut falls on an instant of the table (`CutIsInstant`) |
| `RefreshProofs` | `RefreshTypeCorrect`; `WholeHolds`, `FinalHolds`: whatever overlaps, an answer with a window is whole and a file with one is final; `JoinCheckSound`, `WindowMatches`, `StartCovered`: what a run that overlaps no other promises; `RestServes`: a latest run that met no failure and no other run has its export in place when it comes to rest | `ServingInv`: an export past its connect owns its file until meta is there, tables are made in order, a request's reads are still true; `RunInv`: assets of a run follow its edges, at most one lone run is active, no asset of a finished run; `LoneProgress`: what a lone run has done so far covers its start; `FileInv`: each file is one run's, and says what that run's tables said; `RestInv`: runs are launched in order, and from its `connect()` on the file of the latest run is the one at the path (`LatestServes`) |
| `ReplayProofs` | `ReplayTypeCorrect`; `ExitHolds`: an exit with 0 is to be trusted; `CopiesHold`: one copy per run; `OrderHolds`: the observations of a trip in order; `EventsHold`: what an event says is in the payload it came from | `ReplayInv`: a message of this run is what its place says and its row has been passed (`RunKept`); what waits is new to its topic and comes after what is there of its key (`QueueKept`), so lanes stay in order (`LanesKept`); a row passed is on its topic, in the queue, or counted as failed (`RowsKept`). `RowsReal`: a message is of a row its file has; `RowsSay`: what the decoder's rows say, from what a flattened sequence is made of (`FlattenElements`) |
| `ResolverProofs`, on `Resolver` | `ResolverTypeCorrect`; `NothingIsSkipped`; `CommittedHolds`: without loss, no commit runs ahead of an arrival; `OneArrivalHolds`: copies of an arrival are bounded by lives | `FetchedSoFar`: below the holder's position and below the commit everything was fetched; `AnnouncedInv`: the same for announced first sightings, and whoever remembers a stop, the dead included, has its first sighting announced by somebody; `OccurrenceInv`: copies announced or waiting, and processes that may still announce (`Silent`), are together no more than lives |
| `ResolverProofs`, on `Aggregator` | `AggTypeCorrect`; `AccuracyIsOfDistinctEvents`: the tables are those of the distinct events read; `WeightIsBounded`: a restart of the resolver makes a visit weigh at most once more | `KeptInv`: the memory is what was read, each event once (`PredictionsKept`, `SightingsKept`), and the tables are made of its join; the bound then is `OccurrenceInv`'s |
| `ScheduleProofs` | `TypeCorrect`; `JoinHolds`; `OtpFinal`; `ChangeDetected`; `CurrentIsOne`; `WindowsTile`: in ordinary use the hand-rolled windows of a key leave no gap and do not meet; `WallShowsSchedule`, `DaysAreAsLong`: scheduled times for any zone, from the assumption that noon is unambiguous | `Windows`: windows are over or open, not empty, and those of a key do not meet, so the first version of a key is the only one that backdating touches (`WindowsJoin`); `Joined`: what an arrival was joined to is still in force on its day (`AsOfKept`); `DimCurrent`; `Ordinary`: where no fetch was cut short and no job given a directory, directories are whole (`FetchInv`), no window was stamped later than any fetch of the last directory unless that one is in the dimension already (`DimFollows`), and so a window that is over ends where another of its key begins (`TileInv`) |
| `PollerProofs`, on `Supervisor` | `SupervisorTypeCorrect`; `LockHolds` | `LockKept`: at most one invocation between check and lock, and only when none is past it; the lock names whoever is; only he who waits has a poller; and, as long as nobody stops or kills, no `--stop` is under way (`NoStop`) |
| `PollerProofs`, on `RawArchive` | `ArchiveTypeCorrect`; `BytesKept`, `DecisionHolds`: archive first, then decided, for any number of pollers; `PunctualHolds`: names of their own | `DiskInv`: a file that is not whole is open or deserted (`NotTorn`), no file of a poll comes before its raw file, and a raw file stands alone only while a poller is at it (`FileOK`); `CycleInv`: a feed's stamp says when it was polled in this cycle, or the interval of an earlier one or a backoff has passed since |

The type invariants of all modules are theorems and are not run again. So are
three further invariants: `VersionsDiffer` by `ChangeDetected`,
`OneCurrentVersion` by `CurrentIsOne`, and `JoinCheckHolds` by `JoinCheckSound`.
With them every safety property that a passing run checks is proved.

The library's induction theorems take an operator and are out of the provers'
reach. `LeastNatural` does instead: a set of naturals that is not empty has a
least element, by the library's theorem that `<` is well-founded, which takes
none. It gives an oldest file, a first row, a least counterexample, and so what
`FlattenSeq`, a recursive function, makes of sequences of any length. `Correction`
states the cut of the split by counting rows; `MCCorrection` assumes, and TLC
evaluates, that this is the row at the code's index in the sorted table.

Left to TLC is liveness: `StopHonoured`, `EverythingConsumed`,
`SightingsBecomeFacts`, `EveryArrivalAnnounced`, `LatestFeedIsStaged`,
`FailureIsRestarted` and `StopIsHonoured`. Fairness rests on
ENABLED, which the provers do not support.

## 5. Not modelled

The poller's statistics and its flag for a stale feed, which are logged and read
by nothing. The estimator, its baselines, its metrics and the encoding of
features: numeric. The dbt models behind the marts: one SELECT each over
`fct_stop_otp`, for which `Refresh` has the version they were built from. Evaluation, profiling, slides and deployment
files: read-only, over finished tables, or declarative. Of what is modelled, left
out: pacing and `--max-polls` of the replay; medians and files of the
aggregator; `STALE_AFTER_HOURS`, limits and filters of the API.

## 6. What could follow

1. A refresh with as many runs as days, composed with `Schedule`, so that
   "latest" is a date there too.
2. A proof, not an evaluation, that the cut by counting is the row at the code's
   index in the sorted table.
