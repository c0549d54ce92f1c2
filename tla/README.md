# GenPM: a TLA+ model of the system around its modeling runs

GenPM generates synthetic performance-management data.  A user uploads a data set
through the browser, starts *preprocessing*, *modeling* or *generate* runs of it, and
looks at what came out.  The runs are Airflow DAG runs, each of one Spark job.  Between
the browser and Airflow stands a FastAPI backend with a PostgreSQL database and S3
storage.  None of the numerical work is the backend's; its job, and the browser's, is to
know what happens elsewhere: which runs exist, how they ended, what they wrote, what
their logs say.  That knowledge is put together from polls, caches, tokens and two-step
commits, and it is what this project models.

## 1. Inventory

### Backend (`src/apps/backend/app`)

| Component | State | Operations | What is hard | What makes it correct |
|---|---|---|---|---|
| Process runs (`services/runs/poller.py`, launch endpoints of `api/v1/modeling.py`) | table `process_runs`, table `datasets`, the locals of the poller's coroutine | trigger, record, poll tick, register output, link, mark failed | two commits per finished run; deletions in worker threads between them; a tick that an exception aborts; a restart at any point; answers that are old when they are used | links never dangle; a verdict is one Airflow gave; an announced output is registered and a deleted one stays deleted; no row stays RUNNING for ever |
| Airflow client (`services/airflow/client.py`, `auth.py`) | the cached token, an `asyncio.Lock` with its waiters | get_token, invalidate, request with retries | many coroutines, a lock held across an HTTP exchange, 401 against a token that has been replaced, a retried POST that already took effect | one exchange serves all; nobody presents a refused token twice; every call ends |
| Airflow service (`services/airflow/service.py`, `mapper.py`) | four TTL caches | list, get, trigger, stop, clear, logs | a cache fill that began before an invalidation ends after it; terminal states cached for an hour | a decision is not made on a state that was never true |
| Live log (`api/v1/dags.py`, `event_stream`) | one generator per SSE connection, its continuation token | page, check the task, end | the token is the only position; the end is decided on a cached state | no line is left out; the stream ends after the task |
| Dataset catalogue (`services/s3/service.py`, `api/v1/s3.py`) | table `datasets`, S3 objects, multipart uploads | initiate, sign, complete, confirm, register, abort, delete, preview | storage and database change one after the other, at the request of a browser that gives requests up and repeats them | a COMPLETED row has its whole object; an upload is visualized once |
| Dataset visualization (`services/s3/visualization.py`) | `summary.json`, `summary_error.json`, the DAG runs | trigger, status | the status combines three sources that change one after the other; two datasets may share the folder of the artifacts | a summary on display belongs to the data set |
| Trained models (`api/v1/modeling.py`) | table `trained_models`, three objects per row | create, initiate an upload, patch, delete with or without the weights, generate from a model | synchronous handlers in worker threads: what one has looked up another deletes; a patch that fails after its first field | a row's references hold; a patch is whole or nothing |
| Pipeline runs (`services/pipeline.py`) | table `pipeline_runs` | create, delete | the row is committed before Airflow is asked and completed after | a DAG run Airflow accepted is in a row, unless a failure or a user lost it |
| Authorization (`core/auth.py`, `core/storage_access.py`) | cached JWKS | verify, check a role | none of it spans two steps | a function of the request |
| LLM autofill (`services/llm/autofill.py`) | none | suggest | none of it spans two steps | the answer is validated |

### Browser (`src/apps/frontend/src`)

| Component | State | Operations | What is hard | What makes it correct |
|---|---|---|---|---|
| Log viewer (`features/dags/components/LogViewer.vue`) | the window, the badge, one `AbortController` | startStream, select a try, refresh, SSE events | `startStream` is a coroutine nobody cancels; history and stream overlap | the window is the beginning of the log; "end of log" means all of it |
| Run monitor (`features/modeling/services/modelingRunMonitor.js`) | the list of runs, timers, `localStorage` | track, poll, resume | polls overlap and their answers are applied in any order; reloads | the user is told once of every end |
| Visualization poll (`features/storage/composables/useDatasetVisualizationPoll.js`) | a timer, counters, the status shown | start, poll, retry | an answer for the data set shown before | what is shown belongs to the data set |
| Lists, forms, `api.js`, `keycloak.js`, DAG graph | form state | upload, browse | a timeout racing a late answer | - |

### Jobs (`src/apps/airflow/dags`, `src/apps/generator`)

Airflow DAGs of one Spark task each; preprocessing, training, generation, similarity and
raw visualization.  To the rest of the system a job is what it writes and in which
order: its parquet, then, for preprocessing, `pm_metadata.json`.

| Component | State | Operations | What is hard | What makes it correct |
|---|---|---|---|---|
| Preprocessing (`preprocessing/run.py`, `logic/simple_logic.py`, `logic/kpi_coverage.py`, `logic/imputing.py`) | the raw tables, the long table, the good windows, the order of the KPIs, the tables written | merge versions, join configurations, fill gaps, gate, impute, find windows, order KPIs, cut the order, join, index, slice | every stage relies on what the one before left; nulls in keys; boundaries everywhere: strides, edges of series, ties, floors, empty tables | a measurement has the configuration that was in force; the windows found are the whole ones; the selection keeps its floor; what is announced is a full tensor |
| Training (`modelling/train.py`, `core/training.py`, `core/artifacts.py`, `core/data.py`, the networks) | the run directory, the fit | load, hold cells out, fit with its callbacks, save | files written one after the other into a directory that an earlier training may have filled; rounding; an annealed loss that is low before it counts | arch_params.json stands for a whole training; held-out cells are unseen |
| Generation (`modelling/generate_s3.py`, `core/generation.py`, `generate_spark_dag.py`) | the model's objects, the run's objects | read the arguments, rebuild the network, generate cell by cell, write the metadata | a network is rebuilt from what another function wrote down; columns are named by position; the task is retried over what it stored | the network is the one trained; metadata and columns tell the truth |
| Similarity (`data_similarity`) | `summary.json` | compare columns | columns that are all gaps, gaps at an edge | the summary is honest |

### How they interact

    browser --REST--> endpoints --AirflowClient--> Airflow --> Spark jobs --> S3
       |                  |                           ^                       |
       | SSE              v                           |                       |
       +----------> event_stream ---------------------+                       |
                          |                                                   |
                    PostgreSQL <---- ProcessRunPoller (every tick) <----------+

The endpoints, the poller and the streams share one event loop, one AirflowService (and
its caches) and one token.  Synchronous endpoints, DELETE among them, run in worker
threads and share only the database.

## 2. Plan

Written, in this order, the most important behaviour first:

1. `ProcessRuns`, with the abstract `RunLedger`: the heart of the backend; `ProcessRunsProofs`
   for every safety property of its run but one.
2. `AirflowCalls`: the token, the lock, the retries under every call.
3. `LogStream`, and `LogViewer` composed with it: the two halves of the live log.
4. `RunMonitor`: what the user is told of a run, for one tab.
5. `DatasetUpload`: the multipart upload, from both sides, its resumption and cancellation;
   `DatasetUploadProofs`.
6. `Visualization`, and `VisualizationPoll` composed with it: the job's artifacts, the status
   put together from them, and the page that asks for it; `VisualizationProofs`.
7. `KpiWindows`, `KpiSelection` composed with it, and `RawTables` before both: the
   preprocessing job from its raw tables to its announcement; `KpiSelectionProofs`.
8. `Catalogue`: trained models, pipeline runs and the start of generation, each handler as the
   list of calls it has still to make; `CatalogueProofs`.
9. `TrainingData`, `Networks`, `Training`, `Generation`, `Similarity`: the generator, from the data
   set of windows to the report on what was generated, each module on top of those before.
10. `AirflowCallsProofs`, `BrowserProofs` (the log viewer and the run monitor) and `GeneratorProofs`.

Left, in this order:

11. `RunCache`: a fill of the caches of `service.py` that an invalidation overtakes (`ProcessRuns`
    lets a cache entry be any earlier truth, which covers it for the poller, not for the user's pages).
12. `DagGraph`, the mapping of Airflow's tasks to a graph (`mapper.py`).
13. A second tab for `RunMonitor`; a second data set in the folder of the artifacts; a second file
    in the one slot of `DatasetUpload`.
14. Scaling: which rows belong to a scaler's group, and what happens to a group it never saw.

Abstract specification worth stating beside `RunLedger`: a prefix-growing log under `LogStream`, and the
theorem that the stream implements it.

## 3. The modules and the code

### ProcessRuns (refines RunLedger)

`trig` is the endpoint's coroutine between its awaits; `status`, `link` are the columns of
`process_runs`; `output`, `nextId` are `datasets` and its id sequence; `pc`, `todo`, `cur`,
`reply`, `ds` are the locals of `_poll_once` and `_finalize`; `cache` is
`AirflowService._run_cache`.  `airflow`, `wrote`, `store`, `files` are external: the DAG run, the
job, object storage and what a listing of it shows.  `seen` and `gone` are history.

- *Interleaving.* The event loop changes hands only at an await, so the endpoints carry
  `LoopFree`; `Delete` does not, because it runs in a worker thread, and it may fall between
  any two of `Register` (first commit), `Refresh`, `Link` (second commit), `FindExisting` and
  `Relink`.
- *Errors.* `IntegrityError` comes from the unique key (`AlreadyRegistered`) or from the
  foreign key (`LinkRefused`) and both go to the same handler; `RefreshFails` and
  `RelinkRefused` are the exceptions `_finalize` does not catch, which end the tick.
- *Restart* loses `cache`, `trig` and the poller's locals and keeps the tables.

`RunLedger` is what this promises: runs closed at most once and on a verdict Airflow gave,
and a catalogue in which an output stands at most once.  The refinement maps `status` to
`phase`, `seen` to `verdicts` and the set of rows to `catalog`; the two commits of a
successful run become `Publish` and `Complete`.

### AirflowCalls

`cached`, `lock` and `queue` are `AirflowAuth`; per caller `pc`, `tok`, `tries`, `reply`,
`result` are the frame of `_request`.  Tokens are numbers in the order of their minting;
`aged` are those within the 60 s of leeway, `dead` those Airflow refuses.  `Expire` does not
overtake a request that was sent while its token had the leeway: the leeway exceeds the
HTTP timeout (15 s).  The call modelled is the POST of a DAG run with a fresh id, since a
repetition of that one shows (409).

### LogStream and LogViewer

A log line is its number, a page is what lies behind the token, and Airflow gives a token as
long as the try runs; no token and the start of the log are the same to the next request, as
in the code.  `event_stream` is `SendPage`, then `Carry`, `CarryBlindly` or `SendEnd` by what
`get_task_instance` knows; it ends there, at its limit of time, by an error or a broken connection (`Break`), or
because the server stops and cancels it (`Cancel`).  In that last case its `end`, user_disconnect, may still
arrive, and the viewer says "Done" (`OnCancelled`), or the body ends without a word, and the badge stays as it
is (`OnSilence`); `cut` remembers which.  `LogStream` is the server's half and has no specification of its own;
`LogViewer` EXTENDS it with the component that opens its streams: each startStream is a
slot of `starts`, `CloseStream` aborts what `controller` names, and the two watchers, the
parent's query, the try selector and the SSE events are actions.  The window is the set of its lines, with
`again` for those that were appended a second time; the order of lines is that of their numbers, since a reader
takes pages in order and `NoHole` forbids a gap.

### RunMonitor

`runs` and `stored` are the reactive list and its copy in `localStorage`, `timers` the
intervals, `poll` the requests under way with the answer they will deliver.  An answer is
fixed when the backend gives it (`Answer`) and applied when it arrives (`OnStatus`, ...), so
that answers arrive in any order.  `Track` takes the timers of the process's older runs away,
as `startPolling` does.  `told` counts the toasts of a run and `said` is what the last one told; both are history.

### DatasetUpload

A row of `datasets`, its multipart upload and object in storage, and the browser: the list of
uploads on the page, the slot in `localStorage`, and the loops of `processUploadLoop`, one of which
may go on behind a page that was left while a second resumes the same upload.  A request of the
browser is answered, refused, or lost: the browser gives it up (30 s) and the server may carry it out
later: `stray` holds such requests and `Late` carries one out.  `parts` are the parts in storage and
`saved.list` those that the slot of `localStorage` says are there.
`CompletedIsWhole` relates the two ends: a row says COMPLETED only if its object has every part.

### Visualization and VisualizationPoll

On the server, `runs` are the DAG runs of one RAW data set, `summary` and `errorFile` the two
artifacts that decide an answer; a status request lists the runs, reads the summary, and perhaps
the error, one after the other, while jobs end and users retry.  `VisualizationPoll` EXTENDS it with
the composable (interval, two counters, the status) and what the widget makes of them.
`HonestVerdict` says that "failed" is not said of a data set that had an active run when the
runs were listed, nor of one whose summary stood; `NoDeadEnd` that the page always has
something to show, to wait for, or to press.

### RawTables, KpiWindows and KpiSelection

The preprocessing job as a pipeline: one action per stage of `run_preprocessing`, `stage` the last
one that has ended.  `RawTables` holds the stages on the raw measurements and reports (`pm`,
`reports`, `definitions`), in which values and nulls matter because rows are matched by them; its last
stage, `JoinConfigs`, gives every measurement the group it will stay in and leaves the long table
`series`, in which a value is there or not.  `PreprocessingSpec` starts either with raw tables or with
any long table of the instance, because a handful of raw rows leads to few of these.
`_greedy_order` is one action per pick, since Spark's collect leaves ties open.  `failed` is reached
where the code raises or where an empty table makes `dump_metadata_json` raise; `announced` is the
state in which `pm_metadata.json` exists, the condition under which the poller of `ProcessRuns`
registers the output.  `InForce`, `WholeWindows` and `Common` are the reference definitions: what
configuration, good window and joint window mean, said without `lead`, exploded rows or a running
intersection.

### Catalogue

`models`, `pipes` and `procs` are the tables, `bucket` the objects, `type` the column of a data set's
row ("gone" once it is deleted).  A request is `req[r]`: what its handler has still to do, as a list of
steps, each of them one call to the database, to storage or to Airflow.  A question looks and either
goes on (`Check`) or ends the request with an error (`Refuse`); a commit changes a table under its
constraints (foreign keys, uniqueness, NOT NULL) or fails.  Steps of synchronous handlers, which run in
worker threads, interleave freely; the two coroutines (pipeline runs, generation) hold the event loop
except at the await of `trigger`.  `loaded` and `dirty` are what SQLAlchemy's session holds of the row
being patched.  `Restart` ends every request and keeps tables, objects and DAG runs.  `excused` is
history: the DAG runs that a failure or a user lost, which `AcceptedIsKnown` allows, and nothing else.

### TrainingData, Networks, Training, Generation and Similarity

`TrainingData` is the loader: which windows of the data set are complete, which KPIs stay, the
conditioning with its cell index and calendar, and the cells held out.  `Networks` gives for each of the
four families what a weights file tells (the shapes of its arrays, layer by layer) and what it does not
(activations, dilations, the noise schedule), as functions of the hyper-parameters.  `Training` is a
training process: epochs with early stopping and checkpoints, by family, then `SaveNext`, one artifact at
a time into `dir`, which the next training finds.  A loss is the best so far or not, whichever may be.
`Generation` publishes the directory into `bucket` and runs the DAG's first task: arguments (`PrepareConf`,
`Main`, or a call of the function by a script), `Fetch`, which rebuilds the network from
`arch_params.json` and the loader's defaults, `GenerateCell` for each cell and `WriteMetadata`, with a
retry after any failure.  `Similarity` is the second task, on columns of readings with gaps.

Each of these modules EXTENDS the ones before, and the one run goes through all of them, so that a
property of generation rests on what training did rather than on an assumption about its files.

## 4. Runs

TLC checks each run completely, with no state constraint: the bounds are constants in the guards.

| Run | Asks | Bounds, and why they are enough |
|---|---|---|
| `runs_one` | is every link, row and verdict right, and do the tables implement the ledger | one preprocessing run, 4 ids (upload, output, output again after a deletion, registration by hand), one clear, one restart: each hazard listed needs one of each; the theorems cover several runs and shared prefixes |
| `runs_live` | is a tracked run finished at last, and does one run's exception not starve the other | two runs, because one tick must hold both; a restart, stale entries, and two deletions with four ids, so that an output can be deleted and inserted again twice and no insert ever waits for an id |
| `calls` | is a refused token never presented again, is a conflict the caller's own, does every call end | two callers with two calls each, two tokens, one loss of Airflow's secret: a caller can meet a dead token, replace it and meet another |
| `viewer_shows` | does the window show the log, does "done" mean all of it, does the badge leave "live" (the two ends the server's stop gives apart), does the stream close after the task | one startStream at a time, two streams that share the cache, two tries, so that a cached terminal state can be old, two lines, two pages |
| `viewer_aborts` | are old streams aborted, as the component's header says | refuted: a startStream that outlives the component opens a stream out of reach |
| `monitor_one` | one toast, a timer until then, the user told at last | one run, three overlapping requests, one clear, one reload; the theorems cover several runs of a process, of which the second takes the first one's timer |
| `upload` | is a COMPLETED object whole, is the slot never ahead of storage, does a cancellation hold, is the visualization started once | one data set (the properties speak of each one alone, and the theorems hold for any number), two parts, one lost request, two loops |
| `page` | is the verdict honest, has the page no dead end, does the polling end | two overlapping requests, two runs (a retry beside the first), and both counters of the page cut to two |
| `kpis` | has each hour its configuration, are the good windows the whole ones, does the selection keep its floor, is the tensor full | raw tables of one cell with three versions of a KPI, one constant KPI, configurations reported at any of four hours, repeated or changed, and null keys; long tables of four KPIs, the fewest with two second differences, in three groups, one of them with a null; five hours, for windows of 1 to 4 with strides that divide, do not divide and exceed them; the percentages of the prefilter are raised so that few cells suffice to drop a KPI |
| `kpis_elbow` | do the KPIs that the elbow chooses have windows in common | refuted: one group, windows of an hour |
| `catalogue` | do references hold, is no accepted run lost, is a patch whole | two requests at a time, since every race of the handlers is one of two; two models, one data set of either type that may go, one DAG run, two weights and one other file |
| `generator` | is a finished directory whole, are held-out cells unseen, are the best weights of an annealed epoch, is the network the one trained, do metadata, columns, calendar and summary tell the truth | one training of each family, with every hyper-parameter off the loader's default, and a VAE that is over before its best weights are kept; two of these into one directory; one VAE's schedule has two cycles, and epochs enough for the second's ramp; a day of one hour, windows of a week, days off at the end of a week; four cells of three configurations, of which one is incomplete, one may be held out and two share the name of an object; gaps at both ends of a column; one retry |

Deadlock is not checked in these runs: bounds on ids, clears, lines and reloads let the
system come to rest, and a finished run is a rest of the real system too.

The modules of the backend and of the browser state a type invariant each; where there is a proof
module it is proved, and the runs spend their time on the properties that relate actors to each other.

## 5. Fairness

- `ProcessRuns`: the poller's loop is an endless task that catches what a tick raises, so
  `WF(Poll)`; cache entries have a TTL, so `WF(Expire)`; storage shows what it holds.  Airflow
  does not refuse for ever to answer about one run, nor does storage always fail on one output:
  strong fairness of `Answer` and of the insert, as a retry every tick meets them again and
  again.  Nothing is assumed of jobs, admins or users.
- `AirflowCalls`: every await ends, by httpx's timeout if by nothing else.
- `LogViewer`: the generator's loop on the server goes on and the TTL of an entry passes; Airflow
  answers the question for the task's state now and then (`SF(OnEnd)`); REST requests end, and the
  parent's query is repeated by its interval, held up only by the bound on `Starts` (`SF(Refresh)`).
- `RunMonitor`: intervals fire, requests end, and Airflow's answer gets through now and then.
- `VisualizationPoll`: an interval that is set fires, a request ends (the client's timeout) and its
  answer is applied; nothing is assumed of jobs or users.
- `DatasetUpload`, `RawTables`, `Catalogue` and `Similarity` have safety properties only, and no fairness.

## 6. Proofs

Each of the eight proof modules has an inductive invariant, one lemma per action or group of actions, one
step per action of `Next`, and temporal theorems that follow by PTL.

`ProcessRunsProofs` proves, for every set of runs and prefixes, every kind and input, and
every bound: `TypeCorrect`, `LinksAreSound`, `VerdictsAreEarned`,
`NoOutputIsLost`, `RegisteredIsWhole`, `FinalIsFinal`, `DeletionIsFinal` and `ImplementsLedger`.  They rest on the
assumptions of `ProcessRuns` (types of the constants, the null values lie apart from real
ones, and a generation run has its prefix to itself, because the endpoint puts the run id into
it), which TLC evaluates on every run.

None of the invariants is inductive.  `LinkSound` needs to know what the poller is about to
link: at `link` the id it holds, if its row still exists, is a row of `Out(cur)`; at `finish` it
is such a row or NULL.  `VerdictEarned` needs the provenance of `reply` and `cache`: what they
say was once Airflow's state and is in `seen` if it is final.  `CompletedHasOutput` needs
that ids below `nextId` are spent, so that a deleted row's id does not come back as another
row, and that whoever reaches the handler of `IntegrityError` has either a row of its output in
the table or its output in `gone`.  `IInv` is the conjunction of these and of the fact that the
run the poller holds is RUNNING.  That an output has one row is the unique key itself (`UniqueKey`), a
part of `IInv` and no property.  The refinement is a step lemma that maps every action to a step
of the ledger or to a stutter, with `IInv` for the guards.  `RegisteredIsWhole` has an invariant of its
own, `WholeInv`: at a run's first attempt the metadata is there only if the job wrote it, which it does
last, and a listing shows it only beside the data.

`DatasetUploadProofs` proves the type invariant and the four safety properties for any number of
data sets, parts, loops and lost requests.  `IInv` adds to `ListedIsStored` who may know a data set
(`KnownInv`: nobody before its row exists, only the loop that initiates before its upload does)
and what the bucket has done with it (`ObjectInv`: a row COMPLETED had its upload done; a loop or a
lost request that asks for the completion has the list of all parts, one that asks for the
confirmation does so after the completion).  That at most one of the loops and lost requests asks
for the confirmation of a data set is what keeps its visualization from being started twice, and it
holds because only one completion succeeds.

`VisualizationProofs` proves `TypeCorrect`, `HonestVerdictHolds` and `NoDeadEndHolds` for any number of
requests, runs and polls.  `IInv` relates each request to the moment at which it listed the runs:
if the run it picked was over, none was active then, which needs that the newest run is the
one picked when none is active (the lemma `GreatestRun`, by the least number principle); and it
relates the page's flags to the interval.

`AirflowCallsProofs` proves `TypeCorrect`, `NoTokenTwice` and `ConflictsAreOwn` for any number of
coroutines, tries, tokens, calls and losses of Airflow's secret.  `NeverTwice` is about a coroutine and the
token it meets again; what makes it inductive is that a token on its way from Airflow is new to everybody
(`MintedInv`), that the cache holds a token refused to a coroutine only while that coroutine is about to
discard it (`CacheInv`), and that every token in hand was minted (`KnownInv`).  `ConflictIsOwn` rests on
`AttemptInv`: only a later try of the same call can find its DAG run in place.

`OneExchangeServesAll` is what the double look at the cache in `get_token` is for: credentials are exchanged
only when every token given so far is spent, that is near its end, discarded or never arrived.  The action
property, `SingleFlight`, stands in the proof module with what makes it inductive.  `LockInv`: whoever
exchanges holds the lock, and while somebody holds it nothing comes into the cache that would do.
`KeptInv`: a token that is not spent is in the cache or on its way there.  No run checks it as its own
property; the history variable `lost` of `AirflowCalls` serves to state it.

`BrowserProofs` proves, for the log viewer with the streams behind it, `ViewerTypeCorrect`, `NoHoleHolds` and
`EndOfLogHolds`, for any number of tries, lines, pages, streams and concurrent calls of startStream.
`NoHole` speaks of the window alone, and what fills it is spread over the system.  `ViewerInv` says that
whoever was told that the task runs, the cache or the page, was told of a try that has begun (`PastInv`), as is
the try that a stream follows, which is over once the stream asks for the task's state (`FollowInv`); that, as
long as no two calls of startStream overlapped, one thing at a time fills the window, a call or the stream
`controller` names, and reads the selected try (`OneReaderInv`); and that the window is then the log of that try
up to a line behind which no reader begins (`WindowInv`).  For the run monitor it proves `MonitorTypeCorrect`, `ToldOnceHolds` and `KeepsPollingHolds`
for any runs, process types, overlapping requests, clears and reloads.  `MonitorInv` says of each run that its
entry is marked as notified exactly if there was a toast, and is so whenever its status is final (`EntryInv`),
that the copy in `localStorage` is the list, and that a run's number among the entries is new when it starts.

`CatalogueProofs` proves `TypeCorrect`, `ReferencesAlwaysHold`, `AcceptedRunsAreKnown` and `PatchesAreWhole` for
any number of requests, data sets, objects, models and runs.  `IInv` says what a handler may still have to
do (`Course`: its list of steps is the rest of one of eight lists), that the data set it will write was
PREPROCESSED when it looked (`ModelInv`), that it holds a DAG run exactly between Airflow's answer and its
last commit (`RunInv`), and that ids not given out have no row and no two requests complete the same one
(`FreshInv`).

`KpiSelectionProofs` proves `TypeCorrect`, `FloorHolds` and `TensorHolds` of the whole job, from the raw tables
on, for any cells, KPIs, tables, arguments and number of hours.  `IInv` follows what each stage hands to the
next: a good window has a value in each of its hours (`SoundInv`, from the count of the distinct hours,
`WindowIsFull`), no KPI is picked twice and each count of the order is that of the windows its KPIs share
(`OrderInv`), the cut is a prefix of the order (`SelectedInv`, by `FirstPlaces`), a joint window is one that
every selected KPI has (`JointInv`), and the index holds exactly the rows inside of these (`IndexInv`).  That
the rows sliced out of it again are the joint windows, whole, is then a fact about the index alone
(`IndexOf`, `MarkedOf`).

`GoodWindowsHold` is the arithmetic under `SoundInv`, in both directions: what passes for good has a value in
each of its hours, and every window that has passes, if the stride divides the window or exceeds it; for every
length, stride and place of a series' ends.  `ConfigHolds` is about the stages before the long table: that
a measurement joins exactly one configuration, and which one.  `RawInv` carries to it that after the pivot there
is one report of a cell and an hour (`ReportsOk`), so that the report in force, the latest, is unique
(`LatestIs`), and that measurements have lost null cells and hours by then.  `RawTablesAssumption` says of the
arbitrary raw tables what Spark's typed columns and the two dictionaries of KPIs give.

`GeneratorProofs` proves `FinishedHolds`, `FairHolds` and `MetadataHolds` for any trainings, data sets,
percentages, DAG runs and numbers of retries.  For the run directory, `IInv` follows the training from what it
may have written (`FitInv`: weights alone, while it fits; `SaveInv`: the artifacts up to where it is) to what
lies there after it (`DirInv`: beside arch_params.json are the other artifacts, of the same training or a later
one; `WholeInv`: as long as no later training has written, they are its own, with the cells it held out;
`KeptInv`: a training that got to an epoch it compares has weights, since the first one compared is the best yet),
because the process may die in any state and another begin.  That a held-out cell leaves one of its
configuration behind is the arithmetic of the rounded fraction, capped below the number of cells
(`HoldoutLeavesOne`), and a fact of cardinalities (`TwinsRemain`).  For generation, `LoopInv` says that what a
retried attempt has listed is stored under its name, by itself or by another that is listed, and `StoreInv` that
nothing is stored but under names of cells of the published map, and no metadata before the loop has ended.  The assumptions (`TrainingAssumption`, `GenerationAssumption`) are
that a training has an epoch and a family, that VAE trainings hold nothing out (their configurations have no
such field), that data sets have finitely many groups, each anchored at an hour, that a snapshot has no
artifact's name, and that no cell's object is called "metadata".

The theorems on networks, columns and days speak of what is put together from several files.  `HonestInv` says of the directory and of
the bucket alike that weights are those of a training, and a VAE's of an epoch at which the best were kept
already (`WeightsInv`), and that what lies beside weights of the same training tells the truth about the
network they are of (`SaidInv`).  `Honest` of the directory is not implied by `DirInv`: that one is about
which files there are, this one about what they say when files of two trainings are mixed, which is what
`OfOneTraining` guards against.  `FetchedInv` adds that the task has the bucket's files but for optional ones, and
`StoredInv` that what is stored is labelled by the task's own columns, selection and calendar.

- `ReloadableHolds` then needs that `Build` reads of its hyper-parameters only what the loader passes
  (`BuildReads`, layer by layer for the four families) and that what was saved is read back, past the loader's
  defaults (`ParamsReadBack`).  `ParamsAssumption` is that a training's configuration has the fields of its family.
- `ColumnsHold` follows from `StoredInv` and `SaidInv`, for any list the user sends (`SelectionOf`), as long as the
  task had `kpi_columns.npy` of the training its weights are of.
- `CalendarHolds` is about days.  Weekday, weekend, holiday and eve are told by the day alone (`DayTells`); of long
  runs a table that ends three days after the last window shows what the endless calendar shows, for every day
  but one whose run of days off began before the table (`SpanTells`), and only there may the two tables differ.
  Holidays are compared for trainings with those of the US, the country that generation takes for granted.
  Its minimum and maximum exist because the anchors are finitely many (`FirstAndLast`, by
  well-founded induction).
- `BestHolds` says of the very epoch the best weights are of that beta was at its target in it, or that it lies in
  the ramp of a later cycle (see 7).  It has a condition of its own, `RampEnds`: that the first ramp of a delayed cyclical schedule is
  shorter than its cycle, or that no other cycle follows it.  An attempt without it failed for a reason: with
  `cycle_ratio` such that the ramp rounds up to the whole cycle, beta is back at 0 when the monitor starts and no
  epoch of the first cycle was at the target.
  `RampIsOver` proves the condition exact.  Nothing in the code checks it (the default, 0.5, satisfies it), so it
  is a hypothesis of the theorem and not an assumption on the constants.  `KlSchedules`, which is one, asks
  for a ramp and a cycle of at least one epoch, since the code divides by them.

`SummaryHolds` is about columns, of any length.  Up to any reading, one gap more has begun than ended if the
reading is missing, and as many otherwise (`Balance`), so that the k-th start and the k-th end, which the code
zips, are those of one gap (`Matched`), and every gap is met.  That the lengths add up to the missing readings
(`GapsAddUp`) needs what a recursive function computes; the library's theorems on these take an operator, so
the proof exhibits the function that fits the recursion and shows by the least number principle (`LeastNat`) that
there is no other (`TotalIs`).  `SimilarityAssumption` is that a column is a sequence.

Model-checked only: all liveness (`NoRunStuck`, `CallsEnd`, `LiveEnds`, `StreamCloses`, `EndIsTold`,
`PollingEnds`), since fairness is beyond the prover, and the counterexamples to `Aborts` and
`ElbowIsHealthy`, which the code does not have.  Every safety property of the passing runs is stated by
a theorem.

## 7. Where documents and code differ

Met while modelling.  The first two are findings with a run each; the others were read in the code and are
part of the model as the code has them.

Backend and browser:

- `startStream` is not cancelled by `closeStream` (`viewer_aborts`), against `LogViewer.vue:9`.
- `find_elbow` cannot see a cliff at the first step (`kpis_elbow`), against `kpi_coverage.py:709`.
- A 401 ends the call; the message of `client.py:275` and `dag-management.md:347` say that it is retried.
- A DAG run that was seen failed, then cleared, then succeeded, is never registered; the docstring of
  `ProcessRun` (`schemas.py:107`) says of success in general that it is.
- Without a continuation token the log starts over (`dag-management.md:290` speaks of new lines), the
  stream repeats the history (`LogViewer.vue:255`), a queued task is not shown (`LogViewer.vue:5`), and
  nothing reconnects (`dag-management.md:293`).
- The status of a visualization asks for the task `run_pm_visualization` (`services/s3/visualization.py:32`);
  the DAG's only task is `run_dataset_visualization_spark` (`lib/spark_dag.py:82`).
- `initiate_model_upload` inserts a row without `encoder_s3_key` and `config_s3_key`, which `schemas.py:140`
  declares NOT NULL: the request always ends in an IntegrityError.
- When the server stops, a stream's last event is `end` with reason user_disconnect (`dags.py:241`), and the viewer
  shows "Done" while the task runs (`LogViewer.vue:282`); a body that ends without an event leaves "Live"
  (`dagsApi.js:149`), for ever if another try was queued just then.
- The stream starts at the beginning of the log after the history has been shown, so that lines appear twice
  (`dags.py:185`, `LogViewer.vue:293`); `EndOfLog` asks for single lines of the history alone.
- The monitor has one toast per run: once it has said that the session is over (which it says of a refusal by
  Airflow, `AIRFLOW_AUTH_FAILED`, too), or told an end that a clear takes back, the user is told of no other end.
- Two concurrent PATCHes of a model, each whole, may leave the weights of one beside the encoder of the other.
- A pipeline run stays PENDING for ever when Airflow refuses it, or when the backend dies meanwhile.
- `_record_process_run` fails, and its failure is swallowed, when the comparison data set was deleted while
  Airflow was asked: the run is then in no table.
- Generation takes encoder and configuration from the request, not from the model's row.
- `get_dag_details` calls `map_dag_graph` without `dag_id`, so that the fallback to a local file in
  `mapper.py` is never taken.

Preprocessing:

- The number of anchors of a row (`kpi_coverage.py:382`) agrees with the formula above it only if the
  stride divides the window; otherwise, unless the stride is the longer, no window is ever good.
- `categorize_kpi_with_definitions` passes its keyword lists to other parameters of `classify_kpis` than
  those named for them (`imputing.py:32`, `kpi_grouping_defs.py:14`).
- `start_time <= config_end` is null for the last interval (`simple_logic.py:53`): what a cell measured after
  its last change of configuration is given its *first* one (62-78).  The condition `ChangeFollows` in
  `ConfigInForce` stands for this; without it TLC shows the difference.
- `coalesce_kpi_version` compares a version with its predecessor only: of X, Xa (changed) and Xb (defined as
  Xa), X and Xb are merged, against "same base KPI and unchanged definition".
- A group with a null among its columns loses all its rows, because `fill_internal_gaps`, the gate and the
  joins compare with `=`, although `_prepare_simple_reports` says that it "handles null configs".
- When a cell goes from one configuration to another and back, the hours between are imputed in the first
  one's group.

Generator:

- The parser of `modelling/__main__.py` knows no `--conf-json` and requires six flags the DAG does not pass
  (`generate_spark_dag.py:34`), so that the DAG's first task ends in argparse; `Main` is this, and the runs
  that generate are those that call the function.
- The defaults of the command line override what a training saved, against `__main__.py:14`.
- Without a delay the best weights are tracked from the first epoch, with a cyclical ramp of 100 % beta never
  reaches its target: both against the docstring of `train_cvae` (`training.py:180`).  `BestIsAnnealed`
  speaks of trainings with a delay.  In these a later cycle begins at beta 0 again, and its low losses are compared
  with the rest: the best weights may be of such an epoch, against the comment at `training.py:219`.
- The calendar's table begins at the first anchor's day (`data.py:156`), so that a window that begins inside
  a run of days off is told of a shorter one, against `data.py:144`.
- Generation uses the country "US" whatever `calendar_country` says.
- A failed download of `kpi_columns.npy`, for whatever reason, makes the user's list the names of the columns.
- `heldout_cells.json` of an earlier training stays beside a later one that holds nothing out; a training
  that dies after its first checkpoint leaves new weights beside old parameters; one that dies after
  `arch_params.json` has the history of an earlier one beside it.
- A VAE training that is over before its monitored epochs begin writes no best weights, only the last ones, under
  another name: the weights of an earlier training stay beside its parameters (`Unmonitored`).
- Cells `a/b` and `a_b` are stored under one key (`generate_s3.py:153`): the later one's windows replace the
  earlier one's, and the metadata lists both.  `MetadataNamesOutputs` allows for these twins and for nothing else.
- `acf_distance` counts lag 0 and the correlation of pairs its diagonal: both are 0.0, "no distance", when
  there is nothing to compare.

## 8. Not modelled

- Authorization, LLM autofill, formatting, logging, layout: no state that spans two steps.
- The text of log lines, filters and colours: a line is its number.
- The values of losses, samples and statistics, and scaling: floating point over tensors.  A loss is taken for a
  number: one that is NaN from the first epoch on would never be the best.  Their control,
  which epoch counts, which column is which, when a number is none, is modelled.
- Notebooks, EDA and one-off scripts of the generator: they run by hand and nothing depends on them.
- `mapper.py`'s graph of a DAG, lists, previews and pagination: they read.
- `DatasetUpload`: the contents of a part (the code recognizes a file by name and size), the register
  mode of the form, types other than RAW, a second tab.
- `Visualization`: GENERATED and PREPROCESSED data sets, the check of the schema, `kpi_analysis.json`; a
  queued and a running run are one, and so are a run that succeeded and one that failed without an
  artifact, because the page treats them alike.
- `KpiSelection`: forced and explicit KPIs, which no argument of the DAG run sets.
- `Catalogue`: the upload of a model's files after its initiation (which fails, see 7), preprocessing's and
  modeling's launch, which are in `ProcessRuns`.
- Time: timeouts, TTLs and intervals are events that may happen at any moment, except where
  the order of two of them matters (the leeway of tokens).
- Airflow, Keycloak, PostgreSQL and S3 are external and appear by what they answer.  The database is
  taken to serialize its commits.
- One backend process: the deployment starts one, and its caches and poller are in memory.

Hazards of this code that no property covers:

- A run seen FAILED is final (`poller.py:93`), although it can be cleared and succeed.
- After Airflow accepted a DAG run, an exception or the insert of its row may fail (`modeling.py:924`): the
  run is untracked.  For pipeline runs and generation `AcceptedIsKnown` allows it by `excused`.
- An answer given before a run's end and applied after it sets its status back to running
  (`modelingRunMonitor.js:85`); two tabs overwrite each other's list (170); a new run of a process ends
  the timers of the others (38).
- A POST whose first answer was lost is answered with a conflict, although its run exists (`client.py:225`);
  `ConflictIsOwn` says only that it is the caller's own.
- An output's windows at a run of days off that began before the calendar's table, and any holiday for a country
  other than US (see 7).
- One slot holds the state of every upload (`S3.vue:256`).
- A late "running" replaces "success" (`useDatasetVisualizationPoll.js:84`).
- A fill of the run cache ends after its invalidation (`service.py:99`): `ProcessRuns` lets entries be that
  old, the pages that read them are not modelled.
- The keyword lists that change places (`imputing.py:32`), `find_elbow` with fewer than three KPIs
  (`kpi_coverage.py:702`: the job fails), and two runs that are given one output prefix
  (`spark_dag_conf.py:28`): the model has them as the code does, and no property says they are right.
