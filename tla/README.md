# testcase-forge: a TLA+ model of the service

testcase-forge is one Node process. It turns uploaded documents into test cases
with a model API (jobs), turns those into a Playwright suite (codegen) and runs the
suite in a container (runs). All jobs live in memory; what outlives the process is
files. There are no threads: concurrency is what the event loop interleaves between
two `await`s, and what the model API, the file system, the child processes and the
clients do meanwhile.

## Inventory

| Component | Source | State | Operations | Interacts with |
|---|---|---|---|---|
| Generation jobs | `src/src/jobs/{service,pool,persist}.ts` | the job record, its abort signal, the pool's cursor, artifact files | submit, process (first pass, repair passes, verdict, flush), cancel | store, generator, planner, disk |
| Test case generator | `src/src/llm/generator.ts` | the cases of one unit | generateUnit: first call and repair rounds | model client |
| Planner | `src/src/ingest/planner.ts` | none | group, slice, order the units | jobs |
| Coverage | `src/src/coverage/*.ts` | none | covered and missing ids, the report | generator, jobs |
| Model client | `src/src/llm/novita.ts` | breaker; per call attempt, mode, timers | complete, with retries, downgrade, back-off, cancellation | generator, codegen, the upstream |
| Test runs | `src/src/runner/*.ts` | the run record, child, event file and offset, workspace | submit, process, drain, cancel, time out, clean up | run store, executor, live viewers, disk |
| Codegen jobs | `src/src/codegen/*.ts` | the job record, file tasks, trace | submit, process, cancel | artifacts of jobs, model client, disk |
| Stores | `src/src/{jobs,codegen,runner}/store.ts` | maps of records | create under caps, evict, tenant-scoped get | the services |
| Ingestion | `src/src/ingest` | the collector: one item per fact | drop duplicate documents, cut into sections, state facts, merge them, plan units | jobs |
| Answers and cases | `src/src/llm/{parse,schema}.ts`, `coverage/normalize.ts`, `domain/testcase.ts`, `codegen/planner.ts` | none | parse, validate, normalize, report; load, select, plan files | generator, codegen |
| HTTP API, settings, metrics, process | `src/src/api`, `config`, `observability`, `index.ts` | connections | validate, route, shut down | the services |

The hard parts are all of one kind. A decision is taken, something is awaited, and the
decision is carried out although a cancellation, a timeout, a late answer or a crash
came in between. `PROJECT.json` lists them line by line under `hazards`. What makes the
components correct:

- jobs: no unit lost, no work thrown away for one failure, an honest verdict, the
  artifacts on disk before the verdict is visible, no call after a cancellation, an end;
- runs: events in order and none after the last, status and manifest in agreement, the
  slot held while the container lives, an end with the secrets wiped;
- model client: bounded requests, a breaker that late results do not confuse, an end;
- codegen: as jobs, with the per-tenant cap;
- ingestion: every detail of a document is told, each fact is one item, the units cut the
  items up; answers: every complete object is salvaged, a case that keeps to the schema
  reaches code generation, the suite tests what the report calls covered;
- the service as a whole: caps hold for what is at work, slots come free again, and a stage
  that was seen done feeds the next one, through evictions and restarts.

## Modules

| Module | What it is |
|---|---|
| `JobService` | one generation job in detail |
| `JobLifecycle` | what a job promises its client; `JobService` implements it |
| `JobService_proofs` | the theorems about a generation job, and that its steps implement its life cycle |
| `RunnerService` | one test run |
| `RunLifecycle` | what a run promises its client and its viewers; `RunnerService` implements it |
| `NovitaClient` | the breaker and the calls that share it |
| `CodegenService` | the code generation jobs and the store that admits them |
| `SuiteLifecycle` | what the code generation jobs promise their clients; `CodegenService` implements it |
| `Positions` | what a filter keeps of a sequence: elements in their order |
| `Markdown` | what the parsers find in a section, and the facts made of it |
| `Ingestion` | from the upload to the items and units; extends `Markdown` |
| `RunnerService_proofs`, `NovitaClient_proofs`, `CodegenService_proofs`, `Service_proofs`, `Ingestion_proofs`, `CaseFlow_proofs` | the theorems about these modules |
| `Positions_proofs` | the lemmas on positions, finite sets and division that the last two share |
| `ModelOutput` | reading a model's answer |
| `CaseFlow` | from the answer to the spec files; extends `ModelOutput` |
| `Service` | requests, stores, artifacts and restart, over all three kinds of jobs |
| `MCJobService`, `MCRunnerService`, `MCNovitaClient`, `MCCodegenService`, `MCIngestion`, `MCCaseFlow`, `MCService` | the values TLC takes |

An operator `X_Fault` (`X_Drift`, `X_Hangs`, `X_AnyTime`) is operator `X` with one
plausible coding error. No
specification uses one; substituted for `X`, it makes the property named in its comment
fail, which shows that the property does say something about the code.

### JobService

A step is what runs between two awaits: one answer of the model API with everything it
resolves, one file write, one cancellation. So `Reply(r)` contains the end of the unit,
the runner's next unit and its first call, and, for the last runner, the check of the
coverage and either the start of the next repair pass or the verdict and the start of the
flush. That is what the code runs without yielding.

| Variables | Code |
|---|---|
| `status`, `error`, `aborted`, `cases`, `report` | `job.status`, `job.error`, the signal, `job.cases`, `job.coverage` |
| `pending`, `unit`, `round`, `got` | the pool's cursor, and each runner's unit, round of `generateUnit` and cases so far |
| `phase`, `pass`, `final` | where `process()` stands, the repair pass, `finalStatus` |
| `writing`, `disk`, `flushFailed` | the writes of `persist()` in flight, what each file holds, the warning of `persistSafely` |

An item is a number, numbered in the planner's order (priority, id); `Priority` and
`Group` stand for its classification. A unit's cases are the set of items they claim.
Which subset an answer covers is arbitrary, for the model may answer anything that
`normalizeTestCase` reduces to ids of the unit. All failures of a call are one action,
since the code treats them alike. A crash keeps what clients last saw.

`phase = "over"` means `process()` has returned. A rejected pool returns while other
runners still work, so steps of runners go on after it.

### JobLifecycle

Cases are delivered; then a verdict that they alone decide becomes visible together with
its artifacts or with the excuse that storing them failed. A cancellation is visible at
once and does not exclude a later verdict (see the findings). The refinement maps
`analyzing` and `generating` to `running`, and "stored" to "every file holds the verdict".

### RunnerService

The reporter writes lines of `LineLen` characters one character at a time, so that a read
may end anywhere in a line. A poll remembers the length of the file when its read started
and returns any length from there on; two polls may overlap. `NextOffset` is the code's
arithmetic on the split lines. The child is the suite as a whole: that `docker kill` ends
the container, and that nothing survives its client, is assumed. The final read of an
existing file succeeds. `phase` names the await at which `process()` stands; `"catching"`
is the collection and persisting in its catch block.

### RunLifecycle

The suite is started once, its results are shown in their order while the run is open, and the
run ends once. With its evidence (`Conclude`) it needs a suite that is over and the verdict
that the exit, the time and the requests for cancellation deserve; without (`GiveUp`) it is failed or
cancelled. In both cases the suite does not execute any more, a run that a cancellation stopped
is cancelled, and the evidence, if there is any, says what clients see. After the end nothing
is told. It leaves open whether a line that was written is shown (finding 2) and whether a
cancellation stops the suite (finding 3). The refinement maps the three active statuses to
`active`, a child that is killed but not closed to a suite that runs, and the log to the stream.

### NovitaClient

Time is one bit: the reset time has passed since the breaker opened. An answer is one of
success, downgrade, retryable failure (a timeout, a network error and an unusable body
are that, too) or refusal. Callers call again and again, each call with a fresh signal.
`exchanges` and `trial` are history variables, read by properties only; `exchanges` stops
one above the bound it is checked against.

### CodegenService

All jobs of all tenants, each with the await it stands at (`phase`), its file tasks, the
calls in flight and its directory. The write of a manifest (`ManifestWritten`, `FailureWritten`) and the
status that the code assigns after the await (`Conclude`) are two steps. `Submit` contains the store's eviction and caps:
which finished jobs have expired is arbitrary, and a rejected submission leaves no trace
and is no step. `SourceLoaded` assigns the status as the code does, over a cancellation.
The failures of the source (missing, no valid case, nothing selected) are one action. A
rejected pool leaves tasks at `generating` and calls to end after `process()` has.

### SuiteLifecycle

A job plans its files, tries each of them once, and publishes what it generated with a verdict
that follows from the tries; what is published is final. It gives up only before it has a plan,
after it has tried everything, or when it was cancelled before it tried anything: one failed file
is no reason. The suite is there (`Store`) before its verdict is (`Publish`), and so is the
manifest of a failure, if it can be written. A suite that cannot be written is given up before anyone
sees it. A plan makes a cancelled job look active again (finding 5), and a suite that is being
written when its job is cancelled still appears. The refinement maps the three active
statuses to `running` and the task statuses to the sets of planned, generated and failed
files.

### Markdown and Ingestion

| Variables | Code |
|---|---|
| `uploads`, `docs` | the request's documents, and `dedupeDocuments`' result |
| `doc`, `line`, `stack`, `body` | the loop of `parseSections` (or over the entries of a JSON document), its stack and its buffer |
| `queue` | the facts the section just closed states, on their way to `ItemCollector.add` |
| `items`, `units` | the collector's items in the order of their ids, and the planned units |
| `told` | history: the facts that were added, with their documents |

A line is a record of what the patterns ask of it: the level of a heading, a bullet, fence or
blank mark, a pipe, a separator, a length, and what it says. The vocabulary of `inferKind`,
`detectPriority` and `classify` is three constants that say which words hint at what; the
order in which the code tries its patterns is in the model (`Precedence`, `ThemeOrder`).
`Roles`, `Fenced`, `IsParagraph` are what the parsers of tables, fences and paragraphs do to
a body. A text has a length, and `Excerpt` is what `slice` leaves of the lines of a paragraph: those
that end within the limit and the opening (`Opening`) of the one that is cut; texts with one opening
begin alike. So a paragraph's title, key and detail are three different cuts of it, and a fact's
`detail` is the set of texts it says. A key says what it is made of, since the code puts a row's id, a
record's title and a hash in different places of the joined key, where they never meet. A path
is the titles of the headings, or `(preamble)`; a JSON document's is `$.key`. The provenance of an item
is text joined by separators, to which `includes()` is asked: `PartOfPath` says when one path's text is
found in another's, given which titles are found in, begin or end which. No title is taken to hold
a separator itself. A step is one line, one JSON entry or one fact; the code reads a document to its end
before it analyses the first section, which reaches the collector in the same order. The
properties are stated on the lines of the upload (`Outline`, `RowOfTable`, `Paragraph`),
without the parsers' operators.

### ModelOutput and CaseFlow

An answer is a sequence of tokens, those the scan of `salvageObjects` tells apart, and may end
after any of them. `Scanned` is one turn of its loop; `ParseBatch` tries the whole document,
the array after the key, and the whole text. `CompleteObjects`, the reference, counts on the
answer as it was put together, before it was flattened.

`CaseFlow` follows the objects of one answer: `Parse`, `Normalize` (which rejects the batch or
coerces field by field), `Finish` (report and storing), `Load` (the stored cases that fit the
schema), `Select`, `Plan`, `Generate`. A text is empty, blank, without a readable character, or
readable; an absent field has its default, which for the suggested file is another than the code
generation planner's own. `Valid` has all texts that the schema demands to be non-empty and that the
normalization may leave empty. `phase`, `cases`, `report` are the job's, `source`,
`selected`, `plans`, `files` the code generation job's local variables of these names.

### Service

| Variables | Code |
|---|---|
| `stored`, `tenantId`, `status` | the three stores' maps and two fields of their records |
| `aborted`, `phase`, `outcome` | the signal of a job at work, where its `process()` stands, the status it has decided on |
| `disk` | what the job's directory gives the next stage |
| `children`, `orphans` | the suites this process runs, and those a lost process left running |
| `gauge` | `tcf_active_jobs` |
| `promised`, `crashes` | history: sources seen done with their artifacts; the number of restarts |

A job is reduced to what the detailed modules show of it: it reads its source, works, flushes
and ends, and what the outcome depends on is arbitrary. `Submit...` is the route with the
store's `create`: eviction first (any finished job may have expired), then the caps; `Refused`
is a submission over a cap. `Feeds` is the lookup of the source on disk, under the reader's
tenant. `Restart` loses the stores and all that was at work, and keeps the disk.

### How they fit together

The fairness of `JobService` and `CodegenService` is `NovitaClient`'s `CallEnds`; that of
`Service` is `JobEnds`, `JobEnds` and `RunEnds` of the three services. `RunnerService` starts
by reading what `CodegenService` persisted; it relies on the manifest part of that module's
`FlushedBeforeVisible`. `Service` relies on the flush of `JobService` and `CodegenService`, and
shows (`PipelineHolds`) that the result of one stage is there for the next. `JobService` takes
its items and their priorities as `Ingestion` makes them, and the items a case covers as
`CaseFlow`'s `Covers` leaves them. The pool, `mapWithConcurrency`, is modelled in both
services, in `JobService` with a unit per runner, in `CodegenService` with the set in flight.

## Runs

| Run | Bounds | Shows |
|---|---|---|
| `job` | 4 items in 2 groups with 3 priorities, 2 runners, units of 2 items, 2 repair rounds, 2 repair passes, 2 files | the properties below; passes, about 340 000 states |
| `runner` | 2 lines of 3 characters, 2 polls, 2 cancellations | passes, about 440 000 states |
| `novita` | 3 callers, 1 retry, threshold 3 | passes, about 80 000 states |
| `codegen` | 2 jobs of 1 tenant with a cap of 1, up to 3 and 1 files, 2 runners | passes, about 146 000 states |
| `ingest` | all texts of up to 4 lines of 8 kinds, pairs of texts of up to 2, JSON documents of up to 3 entries, some longer texts; keys of 80 and details of 150 characters, units of 2 items | passes, about 85 000 states |
| `caseflow` | answers of up to 2 objects of 6 shapes (or 3 plain ones) in 3 forms, 4 kinds of prose, cut anywhere; the first object's texts off in up to 2 fields, the others' in one | passes, about 190 000 states |
| `service` | a job, a suite, 2 runs; 2 tenants; 1 suite and 1 run per tenant, 2 in all; 1 restart | passes, about 207 000 states |
| `job_cancelled_is_final` | as `job` | finding |
| `runner_events`, `runner_cancel` | 3 lines, 2 polls, 2 cancellations | findings |
| `novita_probe` | as `novita` | finding |
| `codegen_cap` | as `codegen` | finding |

Why the bounds are enough to meet the interesting cases. Four items in groups of three and
one, cut into units of two, give a first pass of three units, more than the runners, so
that a runner goes on to a second unit while the other works; the group order is against
the severity order; a repair pass may need one, two or three units; two passes give a
first, a middle and a last check. Two files are enough for one to fail while the other is
in flight. Two lines let one be cut by the other's end; two polls are enough to overlap
and to outlive the run. Three callers let one ladder outlive the opening of the breaker
while a second probes it and a third follows. Three files on two runners leave one pending
while two are in flight; two jobs are enough to exceed a cap of one. Four lines let a table
stand under a heading with a row, a fence close after a line, a heading return to an outer
level; two documents let a fact be restated under another severity, name and section. Limits of 50, 80
and 150 characters against texts of 60 and 90 let a paragraph's second line be whole in the detail
and cut in the key, its third be cut in the detail, and two paragraphs differ behind the same
opening; "API", "errors" and "API errors" are titles of which one is part of another. Two
objects let one be truncated or broken while the other is whole; two fields off let one
coercion meet another. In `service` the second run is another tenant's or the same one's: the
tenant's cap binds in the latter case, and the first run cancelled or failing frees it while
the suite still runs. The cap on generation jobs does not bind with one job; `ActiveJobs`
is there for the gauge. One restart is enough to come between any two stages.
`MaxLines`, `Polls`, `MaxCancels`, `Jobs`, `Suites`, `Runs`, `KeysOf`, `MaxFiles`,
`MaxCrashes`, `Uploads`, `Answers`, `Raws` and `Limits` are the only bounds that the code does
not have.

Properties of `job`: `VerdictIsHonest`, `FlushedBeforeVisible`,
`GivesUpOnlyAtTheLimit`, `UnitsAccountedFor`, `SevereFirst`, `NoCallAfterAbort`,
`OutcomeIsFrozen`, `JobEnds`, `ImplementsLifecycle`. Of `runner`: `LinesInOrder`,
`StatusIsTrue`, `SlotHeldByChild`, `ImplementsLifecycle`, `RunEnds`. Of `novita`:
`ExchangesBounded`, `CancelledCallsStop`, `CallEnds`. Of `codegen`: `VerdictIsHonest`,
`FlushedBeforeVisible`, `NoCallAfterAbort`, `JobEnds`, `ImplementsLifecycle`. Of `ingest`: `StackIsOutline`,
`ItemsTellTheFacts`, `EveryDetailIsTold`, `UnitsAreACut`. Of `caseflow`: `NothingCompleteIsLost`,
`ObedientCasesSurvive`, `SuiteHasTheSelected`, `CoverageReachesTheSuite`. Of `service`:
`CapsHold`, `PipelineHolds`, `SlotsComeFree`. All have `TypeOK`, too; that of `NovitaClient`
includes that the gauge agrees with the breaker, that of `Service` that the process knows the
suites it has started. Each is stated in words where it is defined.

Five of them hold only within what they say, and what they leave out is worth knowing:

- `EveryDetailIsTold` is about bullets, rows, and paragraphs of plain lines outside of closed
  fences. A line that continues a bullet, prose glued to a bullet or holding a pipe, what
  follows an unclosed fence, and JSON below the twelfth level are in no fact. Of a paragraph it
  demands the first 200 characters without condition. What lies between 200 and 1200 it demands
  unless another text with the same first 200 characters was told with another detail, for then only
  one of the two is kept. What lies beyond 1200 the code drops and the property leaves out. An
  item is found by a section whose text contains the section's own and by a document whose name
  contains the document's.
- `ItemsTellTheFacts` demands provenance up to substrings only, as the code keeps it: a fact
  stated under "API errors" and then under "API" names the first section alone.
- `NothingCompleteIsLost` excludes answers that wrap the array under another key behind prose
  with a bracket: the bracket is taken for the array's, and what the scan then finds may
  be anything. Three back-ticks inside a string, which end the fenced part, are not modelled.
- `NovitaClient`'s `TypeOK` bounds the failures the breaker counts, with room for the two that the code
  records of one refused request (`llm/novita.ts:239`): that it is two and not one is in the model,
  and no property objects to it.
- `CoverageReachesTheSuite` is about suites without two files of one path. Paths do collide:
  `a.part2.spec.ts` may be a file of its own and the second part of `a.spec.ts`, and a path of
  more than 180 characters loses its suffix.

In all modules deadlock is checked; `Rest` is the step of a job or run that is over.

### Fairness

- `JobService`: a model call, a mkdir and a file write settle, one way or the other. For a
  model call this is what `NovitaClient` shows as `CallEnds`: each attempt has a timeout,
  the attempts and the back-off are bounded. Which way it settles is never fair.
- `RunnerService`: the awaits of `process()` return, the timer fires while it is armed, a
  killed child closes, a started read returns. A suite that is left alone may run for
  ever; the timeout is what ends it, and dropping it breaks `RunEnds`.
- `CodegenService`: per job, whatever it awaits settles; with several calls in flight that is
  enough, for each one that settles brings the job nearer to its end.
- `SuiteLifecycle` and `RunLifecycle` promise no progress; that is `JobEnds` and `RunEnds`.
- `Service`: what each job at work awaits settles, one way or the other; this is what the
  liveness properties of the three services show. Nobody has to submit, cancel or restart.
- `Ingestion` and `CaseFlow` have no liveness; their steps are sequential code.
- `NovitaClient`: an attempt is answered or times out, a timer fires. Nobody has to call.

## Findings

1. A cancelled job may turn to completed or failed later (`jobs/service.ts:242`): the
   verdict is assigned after an await without another look at the signal. The same happens
   when the cancelled calls were all in a repair round, whose errors the generator keeps.
2. The live view loses the line after a read that ends at a line end
   (`runner/service.ts:176`). If the lost lines are the only results, a suite with failing
   tests is reported as an infrastructure failure.
3. A run cancelled while its executor starts runs on to its end or timeout
   (`runner/service.ts:219`).
4. The half-open breaker lets every call through (`llm/novita.ts:94`).
5. A codegen job cancelled while it reads its source becomes active again, over the tenant's
   cap, and ends as failed (`codegen/service.ts:184`).

Disagreements that reading shows and that need no run:

- a cancelled job is never flushed, while `README.md:31` says that terminal jobs are;
- `options.maxRepairRounds` of a job is stored and read by nobody: the generator's own setting
  bounds the rounds (`llm/generator.ts:88`);
- a workspace that fails to materialize half way is left behind: only the finished one is
  remembered for the cleanup (`runner/workspace.ts:28`, `runner/service.ts:191`; `RunEnds` leaves
  it out), while `runner/service.ts:289` says that a workspace never outlives the run;
- paragraphs are cut at 1200 characters, and of two that begin with the same 200 characters one is
  dropped with its text (`ingest/analyzer.ts:269-272`), while the comment on the coverage item
  speaks of "covers every detail" as of a checkable property (`domain/spec.ts:17-21`): what is
  cut is in no item, and no coverage report can miss it. `EveryDetailIsTold` leaves it out;
- `normalizeTestCase` returns what its comment calls a validated case
  (`coverage/normalize.ts:119`) and validates nothing: a blank title, no assertion with a
  target, or a suite of which no tag can be made give a case that is counted as coverage and
  then dropped by code generation (`codegen/service.ts:123-126`).

## Proofs

Every theorem holds for every value of the constants that satisfies the named assumption of
its module. The assumptions say what the code does to its inputs and settings: `JobConstants`
(finite items ordered by severity, at least one runner and one file, units of at least one
item), `RunConstants` (lines longer than two characters; any number of lines and
cancellations), `NovitaConstants` (finitely many callers, any number of retries, a threshold
of at least one), `CodegenConstants` and `ServiceConstants` (finite sets of jobs, suites and
runs, no two kinds alike, a key for every tenant, caps of at least one), `MarkdownConstants` and
`IngestionConstants` (a vocabulary that says something of every word, uploads that are
sequences of documents, units of at least one item; any texts, titles, names and limits), `CaseFlowConstants` (readable texts are neither
empty nor blank, a priority for every item, at least one step and one case to a file, the
model asked for no more steps than the schema allows, raw objects whose lists are sequences).
For `CaseFlow` any answers, selections and batches of any length are meant.

| Module | Invariants proved | Step properties proved |
|---|---|---|
| `JobService_proofs` | `TypeOK`, `VerdictIsHonest`, `FlushedBeforeVisible`, `GivesUpOnlyAtTheLimit`, `UnitsAccountedFor`, `SevereFirst` | `OutcomeIsFrozen`, `NoCallAfterAbort`, `LifecycleSteps` |
| `RunnerService_proofs` | `TypeOK`, `LinesInOrder`, `StatusIsTrue`, `SlotHeldByChild` | `ImplementsLifecycle` |
| `NovitaClient_proofs` | `TypeOK`, `ExchangesBounded` | `CancelledCallsStop` |
| `CodegenService_proofs` | `TypeOK`, `VerdictIsHonest`, `FlushedBeforeVisible` | `NoCallAfterAbort`, `ImplementsLifecycle` |
| `Service_proofs` | `TypeOK`, `CapsHold`, `PipelineHolds` | |
| `Ingestion_proofs` | `TypeOK`, `StackIsOutline`, `ItemsTellTheFacts`, `EveryDetailIsTold`, `UnitsAreACut` | |
| `CaseFlow_proofs` | `TypeOK`, `ObedientCasesSurvive`, `SuiteHasTheSelected`, `CoverageReachesTheSuite` | |

Each module states one inductive invariant `Inv` (in `JobService_proofs` also `PoolInv`, which
adds the counting), proves that it holds initially and that every action keeps it, one lemma
or step per action, and derives the properties. Each `Inv` was checked by TLC on the run of its
module before it was proved. The last step of every theorem is temporal. None of the
properties is inductive by itself; what has to be added is the reason why it holds:

**A generation job.** That a completed job's report tells the truth when the status appears
depends on nothing having touched the cases since the report was made, several steps before.
The inductive invariant is a conjunction by phase:

- `Fresh`: before submission nothing exists;
- `Working`: while the pool works no verdict is visible and nothing is written;
- `Flushing`: from the verdict to its appearance the verdict is hidden, all runners are
  idle, `final`, `report` and `cases` agree (`Decided`), no repair pass is left unless the
  job is aborted or fully covered (`Exhausted`), and the files not in flight hold `final`;
- `Concluded`: a visible verdict is the decided one, still agrees with the cases, all
  runners are idle, and every file holds it unless the flush failed.

That all runners are idle whenever a verdict is in sight is the part that carries the
proof: runners do outlive a rejected pool (`jobs/pool.ts:19`), but only in a job that was
cancelled and returns from its catch without a verdict. For the counters, `Counted` says that
the units completed, in play and to come are the total: with equality while the pass works,
as an inequality after a runner's loss. It needs the units of a plan to be finitely many,
non-empty sets, which is proved from the cut by severity. `SevereFirst` needs no more than
that a runner takes its units from the front of what is left.

The end of `JobService_proofs` maps the states and steps of a job to states and steps, or
stutters, of `JobLifecycle`. It uses the same invariant, and two lemmas on what the mapped `stored` is.

**A run.** The stream is in order and ends because of the offset. `Streamed` says that the log
holds only lines before `FirstLine`, the line at which the next read goes on; a read appends
lines from there and moves it, never back, so of two reads that overlap the later one to return
adds only what the first has not. After the final drain no whole line of the file lies
behind `FirstLine` and the child writes no more; so a poll that was still reading when the run
ended finds nothing to append. `Running` ties the child to the phase (which is why it cannot
outlive its slot), `Told` the status to the manifest and a cancellation's kill to the verdict.
What lines lie before an offset is division by the length of a line; the lemmas on it are
arithmetic.

That each step is one of `RunLifecycle` or a stutter needs `Decided`: the verdict is decided of a
closed child before the evidence is persisted, and is as true when it becomes visible, since
only a cancellation, or a poll that has nothing to add, comes in between.

**The breaker.** `TypeOK` bounds the failures the breaker counts although it never refuses a
call that it has let in. The argument is an account: `Budget` is what a call may still report,
one for each attempt and two for a last one that is refused; the failures and all the
budgets together never exceed the threshold and what all callers could report at once, since a
failure is paid out of a budget and a new budget is given only below the threshold. Budgets are
added up as the cardinality of a set of pairs (`Owed`).

**A code generation job.** A visible suite is whole and honest because in the pool the calls in
flight are those of the tasks being generated (`Calling`), and the pool ends when there are
none left. Calls that outlive a rejected pool belong to cancelled jobs, and these never reach
a suite. Between the verdict and its appearance (`Decided`) nothing is in flight.

That each step is one of `SuiteLifecycle` or a stutter takes one thing more, `Reasons`: a job that
is about to fail has no plan, has nothing left to try, or was cancelled before it tried
anything. `OneJobChanges` reduces what the abstract jobs see of a step to the job it is about;
then there is one lemma for each abstract action.

**The stores.** `Service`'s caps count jobs that are stored and active, but what they are for is
the work. `Slotted` says that a run whose `process()` is at work is stored and active, whatever
was evicted or restarted meanwhile, so the suites that run are among those the caps count
(`Counted`). `Handed` and `Fed` say that what was seen completed is on disk for good and that
a stage at work reads what its own tenant owns. The lemmas count active records when one
comes, goes, or changes its status.

**Ingestion.** Uploads, sections and items are of any number and length, so what the theorems
rest on are lemmas about the sequences the code builds.

- `StackIsOutline`: `HeadingCloses` shows that popping the open headings of a heading's level or
  below and pushing it leaves the headings that enclose the next line. It needs that an outline's
  levels increase, so what is popped is the end of the stack.
- `ItemsTellTheFacts` is inductive once the facts are known to be typed: `MergeTells` shows that
  an item which tells what was said of its fact still does when one more mention is merged into
  it, `CollectTells` that the others are untouched and that keys stay distinct. That the facts of
  a section are typed (`FactsTyped`) says that each row has a header, each paragraph an end and
  each text a priority, so no `CHOOSE` of the model is over nothing; it needs the path, hence
  that the open headings are headings.
- `UnitsAreACut`: the order of items is strict and total (`BeforeOrder`), so how many of its
  group come before an item tells it from the others (`Ranked`); a unit is the items with one
  quotient of that rank, and the lemmas on division give its size, that it skips none, and how
  many there are (`UnitShape`, `FewUnits`). The invariant adds that units exist only when nothing
  is left to be read or collected, since a later item would belong to none.
- `EveryDetailIsTold` compares two readings of a document: the property's, which looks from a line
  to the lines around it, and the parsers', which go through the section line by line with a
  state. `Complete` ties them together while the document is read: the lines since the last
  heading are the `body`, and all lines above them are told (`PartTold`). When a section ends,
  `SectionTells` shows that each of its lines is told: rows because the roles of the lines
  from a header on are forced (`RowsTold`), bullets because all of a section are taken, wherever
  they stand (`BulletsTold`), prose because the run of lines around it is a paragraph no shorter than
  the line (`ParagraphsTold`): no line of it is fenced, for the property asks for an even number
  of fences before it and in all, and `Fenced` is a parity. A line within the first n characters of
  its paragraph is in the excerpt of n characters (`Reach` grows along the lines). The first 200
  are in the key, so whichever statement of a fact comes first has them in its detail; beyond, the
  item's detail is the line's own or another's with the same key. `SectionAlone` says that what the property asks of a line depends on its
  section only. Recursive functions over the lines are handled by `Recursion` (the function exists)
  and by the least position where a claim fails, in place of an induction theorem.

`InOrder(S)` lists positions in their order; the lemmas `InOrderSorts` and `InOrderUnique` say
that it is such a list and the only one, which replaces an induction over the sequence.

**Test cases.** `CaseFlow` has no loop between its phases, so its invariant says for each phase
what the variables are as functions of earlier ones: the cases of their raw objects
(`RawsInv`), the report of the cases (`ReportInv`), what is loaded of the cases (`SourceInv`),
the selection of the source (`SelectedInv`), the plans of the selection (`PlansInv`). It needs
that the ids of a job's cases are their positions (`CasesInv`), since the order of severity is
linear only among cases with different ids. The rest is about the functions:

- `ObedientIsValid` goes through the schema's demands one by one, and `ObedientSteps` and `Kept`
  through what the filters leave of an obedient object's lists;
- `BySeveritySorts` and `Filtered` say that the sorted selection lists each chosen case once,
  and that what lies behind the limit is nowhere more severe;
- `OnePart` (by division) and `PartOfGroup` say that the slices of a group cut it up, so that
  `Planned` finds each case in one plan: of the group of its path the slice of its position;
- for `CoverageReachesTheSuite`, files and plans are matched by counting: as many paths as plans
  leave no plan that was overwritten.

Only model-checked: all liveness (`JobEnds`, `RunEnds`, `CallEnds`, `SlotsComeFree`, the
fairness of `JobLifecycle`), which with `ENABLED` is out of the prover's reach; of
`CaseFlow`, `NothingCompleteIsLost`, which compares a
fold over the tokens of an answer with the objects it was put together from: it needs an
argument about every prefix of every answer, and a constraint on the shape of the objects and the
prose in `Answers` that the module does not assume.

## Not modelled

- HTTP: validation of requests, listings, downloads, rate limiting and the framing of the event
  stream have no state that another component reads. What a request changes is `Service`'s.
- Text extraction's rejections (binary, empty or unsupported files): what is uploaded in
  `Ingestion` is what was accepted.
- Prompts, scaffold, the checks of generated code, `globalContext`, enumerations and numbers of
  a case: texts and total coercions without control that a property depends on.
- Usage, warnings, timestamps, logs, traces, metrics (but for the two gauges).
- Live viewers: the stream they get is the run's log. The process tree below a child and
  the docker daemon. In `RunnerService`, the loss of the process (it is in `Service`).

## Plan

1. `JobService`, `JobLifecycle`, proofs; `RunnerService`; `NovitaClient`;
   `CodegenService`: done.
2. `Markdown`, `Ingestion`; `ModelOutput`, `CaseFlow`; `Service`: done.
3. Proofs of `Service`, `RunnerService`, `NovitaClient` and `CodegenService`, and of
   `UnitsAccountedFor` and `SevereFirst` of `JobService`: done.
4. Proofs of `Ingestion`: done.
5. Proofs of `CaseFlow`: done but for `NothingCompleteIsLost`.
6. `SuiteLifecycle` and `RunLifecycle`, with the proofs that `CodegenService` and
   `RunnerService` implement them: done.
