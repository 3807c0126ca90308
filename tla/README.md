# TLA+ models of understudy-agent-tools

This directory holds TLA+ models of the stateful parts of `understudy-agent-tools`,
the TLC configurations that check them on small instances, and TLAPS proofs of what
holds of them on every instance. Paths such as `src/src/run-executor.ts` are relative
to the checkout that contains both `src/` and this directory. `PROJECT.json` lists the
components, the runs, the correspondence of every definition with the lines it
models, the hazards each property is aimed at, one breaking change per property, the
disagreements found between code and documents, and the theorems.

Run a configuration with `tlc -workers 2 -config RunQueueRestart.cfg MCRunQueue.tla`,
and check a proof with `tlapm RunQueueProofs.tla`.

## 1. The system and its parts

The program is a CLI, with a web hub and an MCP server beside it, for building
benchmarks out of captured LLM traffic, evaluating models on them, and turning the
results into local or trained replacements. Nearly all of its state is files; the
processes share them without a database. What is hard about it follows from that:
read-modify-write of a JSON file by several processes, processes killed between two
writes, directories resumed by a later process, and JavaScript workers that
interleave at every `await`.

| Component | State it keeps | Operations | Interacts with |
| --- | --- | --- | --- |
| **Run queue** (`run-executor.ts`, `commands/runs.ts`) | one JSON file per run request: status, claim, progress, live rollout; JSONL rows per executor | create, cancel, list, claim (write, read back, compare nonce), start, publish progress, finish, watch daemon | the hub and the CLI create and cancel by writing the same files; executors claim them |
| **Arm execution** (`run-executor.ts`, `local-serving.ts`) | arms, a queue of (task, rollout) items, workers, spend, child server process, `fallback` set | stand a server up, reuse one, fall back to the gateway, take an item, race it with a timeout, append a row, add spend, tear down | called by a claimed run; reads the run's status for cancellations; writes progress |
| **Eval builds** (`commands/evals.ts`, `evals/build-state.ts`, `workload-trace-export.ts`, `eval-project.ts`) | lock directory with owner file; staging directory with window binding, raw captures, index, skipped index, summary, manifest; output directory | lock, resume or bind a window, list pages, download or adopt captures, publish markers, rename to the output, unlock | the hosted gateway lists and serves captures; the operator removes stale locks |
| **Eval checks and publication** (`evals/check.ts`, `materialize.ts`, `publish.ts`, `source-index.ts`, `module-sandbox.ts`) | check report and approval beside the artifacts; a release id derived from content | check, preview, upload | a coding agent edits the artifacts, the owner writes the approval; the release service |
| **Conversation sidecar** (`runtime/conversation/lifecycle.ts`, `sidecar.ts`) | state file (pid, URL), two token files, the process; registry of runs inside it | start, stop, repair, doctor; run, cancel, shut down | desktop and CLI start it; runtimes stream events through it |
| **Conversation runtimes** (`runtime/conversation/contract.ts`, `vercel-runtime.ts`, `pi-runtime.ts`, `conformance.ts`) | turn, pending tool calls | the ordered event contract | the sidecar, model providers |
| **Distributed rollout jobs** (`apps/distributed-training/convex/jobs.ts`) | jobs with counters, claims, submissions | create, claim, release, submit, remove (each a transaction) | volunteers' workers |
| **Regrading and versions** (`regrade.ts`, `benchmark-staleness.ts`, `benchmark-upgrade.ts`) | regrade run ids, version entries | allocate an id, regrade rows, decide which rows are stale | row files of the executor |
| **Hub ledgers** (`benchmark-hub-core.ts`, `benchmark-artifacts.ts`, `benchmarks-mcp.ts`, `prompt-evolution.ts`) | append-only JSONL: reviews, flags, experiments, artifacts | append, fold with latest-wins | hub UI and MCP clients |
| **Prime benchmarks** (`prime-benchmark-*.ts`) | reviews, frozen manifest | append a review, freeze, compare, import | none |
| **Experiments** (`experiments.ts`, `experiment-executor.ts`) | experiment records | create, execute, record | run executor |
| **Local classifier** (`local-classifier/registry.ts`, `lifecycle.ts`) | run manifests, lifecycle records | list, rename, archive | Python training code |
| **Runtime installation, desktop probe** (`runtime/mlx-vlm/lifecycle.ts`, `internal/daemon.ts`) | installed environment | install, probe | `uv`, the desktop daemon |
| **Outcome executors** (`outcome-executors/index.ts`) | none | pure functions of a trace | verifiers |
| **Capture import, foundry** (`capture-import.ts`, `trace-foundry.ts`, `trace-author.ts`) | none between runs | batch conversion | eval projects |
| **Optimizer and training recipes** (`optimize-workload*`, `local-sft`, `tinker-sft`) | generated Python, training state | generate, train | Python |
| **CLI, configuration, HTTP client** (`index.ts`, `internal/http.ts`, `config/*`) | credentials, trust budget | parse, read, request | every command |
| **Viewers** (`apps/benchmark-hub`, `apps/moraine-viewer`) | none of their own | show files; queue and cancel runs | run queue |
| **Release scripts** (`scripts/`, `install.sh`) | none | git and package managers | none |

### What is hard, and what makes each part correct

* **Run queue.** Several executors, hubs and CLIs write one file without a lock. Correct
  means: one executor per run, no cancellation lost, the progress shown was done, a
  run that is done is complete, a run whose executor dies is not run twice and does not
  stay open for ever, the advertised state machine is kept.
* **Arm execution.** Workers share a queue, counters and a server across awaits; any of
  them can throw, time out, or find the run cancelled or the spend used up. Correct
  means: one row per work item, bounded spend, a server for as long as it is needed and
  no longer, an end in every case.
* **Eval builds.** A build can be killed between any two file operations and is resumed
  by a later one, days later, with another rolling window. Correct means: one build at a
  time, an output that appears once and whole, no interruption that blocks later builds,
  nothing downloaded twice, the lock gone after every way out. A build that waits for the
  operator's answer, or for the listing before it, is not out: it holds its lock for as long.
* **Conversation runs.** Callbacks of an agent library, a promise chain of events, a
  supervisor's answer and the user's abort meet in one run, and the runtimes write to the
  stream past the chain. Correct means: a trace cites only what came before, two verdicts
  never share a marker, the teacher continues exactly what the client saw, the client learns how
  its answer ended, a cancelled run ends.
* **Sidecar.** Two starts, or a start and a stop, race over state and token files; a start
  that gives up after eight seconds leaves its child coming up; a sidecar told to stop keeps
  its runs for a while. Correct means: no orphan, tokens that belong to the sidecar that
  runs, no session in use twice, an end of every command.
* **Distributed jobs.** Legal sequences of transactions: counters that match the claims, a
  status that follows from them, jobs that are over and stay so, whatever numbers the forms of the
  hub and the workers send.
* **Regrading.** Rows and a ledger that executors, upgrades and regrades append to without a
  lock. Correct means: no rollout counts twice on the leaderboard, distinct run ids, and
  a row that the ledger retired retired for good.
* **Ledgers, classifier registry.** Records rewritten without a lock: no lost record.
* **Publication.** Artifacts are hashed, parsed, executed and bundled from different reads of
  files that nothing locks, while they are edited and approved. Correct means: what is uploaded
  once was the whole project, passed its fixtures, was previewed and is approved as it is.

## 2. What is modelled

| Module | Role |
| --- | --- |
| `RunLifecycle` | abstract specification: what a run request promises to a reader of its file |
| `RunQueue` | the queue on files: creators, cancellers, executors, the watch daemon, kills |
| `RunQueueProofs` | theorems about `RunQueue` |
| `MCRunQueue` | its instances for TLC |
| `ArmPool` | one execution: arm loop, local server, workers, spend, timeouts, exceptions |
| `ArmPoolProofs`, `MCArmPool` | its theorems and its instance |
| `EvalDelivery` | abstract specification: what `evals build` promises of an output directory |
| `EvalBuild` | lease, staging, export, publication, kills and resumption |
| `EvalBuildProofs`, `MCEvalBuild` | its theorems, with the proof that it implements `EvalDelivery`; its instances |
| `RuntimeTrace` | the event contract: events, and a reader that validates them |
| `PiSession` | a client's stream, the abort signal, the adapter and its chain of events |
| `PiRun`, `SupervisedRun`, `VercelRun` | the three runtimes |
| `ConversationRun`, `MCConversationRun` | one `POST /v1/runs`, composed of the five before; its instance |
| `ConversationProofs` | the theorems of `ConversationRun` |
| `Sidecar`, `MCSidecar` | start, stop and repair commands and the sidecars they deal with; its instance |
| `SidecarProofs` | the theorems of `Sidecar` |
| `EvalPublish`, `MCEvalPublish`, `EvalPublishProofs` | checks, previews and uploads of one eval project; their instance and theorems |
| `DistributedJobs`, `MCDistributedJobs`, `DistributedJobsProofs` | the transactions of the rollout hub, their instance and theorems |
| `Regrade`, `MCRegrade`, `RegradeProofs` | rows, regrades, version ledger and staleness gate, their instance and theorems |

`RunQueue` and `ArmPool` describe the same function, `executeRunRequest`, at two grains.
`RunQueue` has many processes and keeps, of the execution, exactly its reads and writes
of the request file, for one worker on one arm. `ArmPool` has one process and opens it
up: many arms, many workers, the server and the money; its file is a status that
anybody may flip to cancelled.

### RunQueue

`file[r]` is the request file of `r`; `copy[e]` is the object that executor `e` last
read from it. Every action is one read or one write of the file, because nothing in the
code prevents another process from acting between the two. `pc[e]` names the place in
the code: `claimRead`, `claimWrite`, `claimVerify` are the three steps of
`claimRunRequest`; `start` is the status write at the head of `executeRunRequest`;
`check`, `liveRead`, `liveWrite`, `rollout`, `progressRead`, `progressWrite` are one turn of
its worker; `final` and the six places after it are the end of the run; `idle`, `list` and
`initialRead` belong to `executeQueuedRuns` and the daemon around it. `Kill` may happen
anywhere. `note` is the unsupported-capability note that an old build writes;
`PrepareThrows` is the manifest or artifact that cannot be read after the claim.
`landed` is a history variable: the cancellations that were written at a moment when no
executor's next write was bound to overwrite them.

Simplifications, each with its reason: `writeRunRequest` (write to a temporary name,
rename) is one step; nonces are fresh (they are random in the code); process ids are not
reused; a listing is atomic (a request that appears or vanishes meanwhile is seen by the
next poll); rows are counted, not described. A `runs execute <id>` that ends after one
request is a watcher that is killed while idle.

### ArmPool

`stage` is the place of the arm loop, `at[w]` that of worker `w`, `queue` the items nobody
took, `up` the arms whose server runs, `fallback` those moved to the gateway. The event
loop gives one worker at a time the right to run: an action is what happens between two
awaits, and the part of a worker's turn that reads and rewrites the request file
synchronously is one step. `Timeout` is the race of a rollout with its deadline;
`Settle` is a runner's promise that settles in time. With `CanThrow`, appends and writes
may throw before the rollout, before the row or after it; `LoopThrows` is an exception of the
arm loop itself, `SpawnError` the child process error that has no listener. Resolution of
an artifact and the memory estimate decide between `Serve`, `PredictedOom` and
`GatewayArm`; here that is a choice. The spend warning, a server that crashes in the
middle of an arm, and calibration are left out.

### EvalBuild

A builder is one process that runs the command once. `lock` is the lock directory and the
owner in its file; `staging` and `output` are what the directories hold: the window that is
bound, the raw captures (`traces`), `index`, `skipped`, `summary`, and the manifest
(`project`). A window is the set of captures that fall into it. `export[b]` are the local
variables of `exportWorkloadTraceWindow`: the listing that is left, the page at hand, the
downloads in flight, rows, missing captures, and the flag of `runWithConcurrency`. Every
removal and every rename of a marker file is a step of its own, so that a kill can fall
between any two of them; `Fail` is an exception at any of the places listed in `FailTo`, and
goes through the same `finally` blocks as in the code. Outside the program are `Ingest` (a
capture is listed late), `Expire` (a raw object is lost, its URL answers 404) and
`RemoveLock`.

Simplifications: the operator removes a lock only when its owner is dead, or, if it
names nobody, when no build runs (the error message asks for the first; a hasty removal of a
living builder's lock would let two builders in); captures are never withdrawn from a
listing; one workload and one identity (another one is refused in `bindExportWindow`, which is
an instance of `Fail`); temporary and partial files are not part of the state.

### EvalPublish

`file[f]` is the version of artifact `f`; a hash is the version, so an edit always gives a hash
that was never seen before. `report` and `approval` are `checks/report.json` and
`approval.json`. A command runs from `read` (each artifact in turn is hashed, `Hash`, and read again for
its contents, `Parse`; a module tree is read once, `ReadOnce`) over the replay, the report
(`Compare`, `Write`) and the approval (`Binds`) to its end, or for a publication to the second look
at the approval, the snapshot (`Collect`) and `Preview` or `Upload`. Artifact 1 stands for
profile and metric, to which the intent is bound. `Throw` is every exception and every kill.
`replayed` is a history variable: contents that passed the fixtures while they were those of
the files.

Simplifications: an edit that is taken back between two reads is not modelled; it can pair the
hash of one version with the replay of another, and only edits without return exclude that. The
hashes of a report stand for the whole report but its time; the owner approves a report for the
intent it was made with; a hash that differs in the snapshot is an exception at once, where the
code compares after it has read everything. Left out: draft checks, which nothing is published
from; the checks of sources, coverage and splits, which only throw; the manifest, which is
compared before and after like the approval; the answer of the release service.

### RuntimeTrace, PiSession, PiRun, SupervisedRun, VercelRun, ConversationRun

`RuntimeTrace` has no state of its own: events as records, and `Read`, which takes the state
of a reader to the next as `validateRuntimeTrace` does, but collects the faults it meets
instead of throwing at the first. The stream `out` keeps that reader and a few counters, not
the events. Sequence numbers and event ids are counted where an event is written, so they
cannot differ and are left out.

`PiSession` is what the Pi runtimes share. `queue` is the promise chain of
`attachCanonicalAdapter`: a callback of the agent session appends to it, `Drain` writes its
head, and the runtimes also write past it (`Put`). `signal` is the abort signal, `listening`
whether its listener was added, `aborting` that the session was told to abort. The session
itself is the Pi library; its actions (`OnDelta`, `OnMessageEnd`, `OnToolStart`,
`OnToolEnd`, `NextMessage`, `OnCompaction`, `PromptSettles`) are what the adapter handles, in
the orders in which the code relies on them: tools that start end, a prompt settles, a message
ends as aborted only after an abort.

`PiRun` is the plain run: compaction, prompt, up to `MaxContinuations` continuations after a cut
answer, the catch block, the flush. `SupervisedRun` has `run`, the locals of
`runPiSupervisedConversation`, and `segment`, those of one student segment: a check in flight
(`judging`), what was checked, the decision, whether the abort was planned. `CheckResolves` may
come at any time until the segment waits for it, also after the prompt has settled; the final
check is a second way to judge; a nudge starts another segment, an interruption hands over to
a teacher with a session of its own. `VercelRun` reads a stream part by part, with the three
collections of tool calls that `flushPendingToolFailures` compares.

`ConversationRun` is the handler: it picks one backend, adds requests that are refused,
`Cancel` (DELETE and shutdown) and `Disconnect` (the response closes early), and reports what a
runtime throws.

Left out: the tools themselves, image and reasoning parts, the contents of messages, prompts and
verdicts, the size of a history (whether to compact is a choice), and `conformance.ts`,
which replays fixtures.

### Sidecar

`state`, `token` and `toolToken` are the files; `at[c]` and `view[c]` are the place of a command
and the process it deals with; `phase[s]` is a process from its spawn to its end, `secret` and
`toolSecret` what it was started with. A step of a command is one access of the state file,
the writing or removal of the two tokens, or what it learns of a process (`Health`, `Gone`,
`PollSucceeds`). `Health` may fail although the sidecar listens: it may be slow or of another
version. `Boot` writes the state file when the sidecar listens, `Exit` removes it whoever
wrote it. `active[s]` is the registry of runs; `PostRun` is a client that goes by the files.
`disturbed` is a history variable: two commands were under way at once, or a start gave up
(or was killed) while its child was alive. Then orphans do occur, since nothing locks the files; what
is stated is what the code keeps otherwise, whatever the sidecars do.

Left out: `doctor` and `status`, which change nothing, and a token file that is half written.

### DistributedJobs

One action per mutation, each a transaction. `completedBy` is a history variable: claims that
were active when their target was met; `jobs.ts` does not count those out. Claims may be named in
a submission to another job and after their release, as in the code. A job's
status is recomputed by `releaseClaim` even when the job was removed.

`v.number()` checks neither sign nor bounds, and the number inputs of `app/page.tsx` have no
minimum: targets and counts are any integers. Two consequences are stated where they occur. A job
created with nothing to do (`Target[j] <= 0`) is open, since neither `create` nor `claim` looks
at its counts (`Current`); a submission of a negative count takes rollouts back and may open a
complete job again (`TakenBack`). Fractions and NaN are left out.

### Regrade

`def[t]` are the contents of the environment and of the verifier of a task as its files have them,
and the major.minor prefix of its semver; `noted[t]` what it was at the last `benchmarks upgrade`,
`bump[t]` the ledger as the staleness gate folds it: the newest `created_at` of a breaking bump.
An edit puts any other contents there, also those of before, since the gate compares hashes.
`Verdict` is `stampStaleness`: hashes where the task has them (`Stamped`), else versions
(`Versioned`), else none; `Stale` is `isRowStale`. `Superseded` are the rows that the ledger
retired. Rows in `Legacy` were written by an older build, without a time and without a stamp.
`Load` and `Rollout` are an executor as far as rows go. A regrade (`regrader[g]`) takes its stamp
in `Begin`, reads definitions and rows in `ReadAll`, then for one run after another takes an id and
scores (`Judge`) and appends (`Write`), and at last appends its entry (`Enter`), dated to its stamp.
`raced` is a history variable: two regrades overlapped, or a row carries a time not before the stamp
of a regrade that read it. `unsettled` holds the tasks of which a killed regrade left rows without
an entry. A regrade that is asked for a regraded run by name skips every row, since no trace is
retained under that id.

A task keeps or lacks its hashes and its semver throughout, so that a row with hashes of a task
that later has only a version does not occur, and a row without a time has no stamp: an executor
or a regrade that stamps a row also dates it.

Left out: the scores, semver arithmetic and the work plan of an upgrade, and several models or
rollouts of one task in one run (each has its own rows, which nothing relates).

## 3. Runs

| Run | Question | Result | Bounds, and why they suffice |
| --- | --- | --- | --- |
| `RunQueueRestart` | does one watcher at a time keep its word, through kills, restarts and an old build? | `TypeOK`, `ProgressBacked`, `ReadsAgree`, `FlipHonoured`, `NotRunTwice` and the refinement `Implements` hold; `Settles` under fairness | two executors of which one lives at a time, the second of a build that lacks a capability request 2 needs; two requests of two items; one is empty and one unreadable, so that both ways to fail before the start occur; one cancellation; three claims, one more than a kill can waste. Two writers suffice for a stale copy and a later write; the theorems lift the bounds for any number of racing executors |
| `ArmPool` | is an execution correct whatever its workers do? | five safety properties hold, `Ends` under fairness | two workers; a spawned, a reused and a gateway arm with 4, 2 and 1 items, so that both workers are busy, take turns and run dry; stop-loss 1 with costs up to 2, so that the limit is crossed in flight |
| `EvalBuild` | do killed and resumed builds deliver? | six safety properties hold, `EndsUnlocked` under fairness | three builders: two rolling ones a day apart and one by date, enough for a lock holder, a waiter and a dead owner; three captures on two pages with two downloads at a time; one capture listed late, another one lost |
| `ConversationRun` | what does a client get, whichever runtime and however it ends? | five safety properties hold, `CancelledRunEnds` under fairness | every backend; two calls of a Vercel stream, one announced and one not; one tool call and two text parts of a Pi prompt, enough for a check that is answered before, between and after deltas; one nudge, so that the budget runs out; two continuations; one message's events in the chain at a time (`MaxBacklog` 0: callbacks wait for an empty chain, but a message end still queues up to two events and a verdict two more) |
| `Sidecar` | do commands in any order lose a sidecar? | four safety properties hold, `CommandsEnd` under fairness | a start with a token of its own, a repair, a stop, in every order and overlap; two sidecars, so that an old and a new one exist at once; two runs of one session |
| `EvalPublish` | is what is uploaded what was checked, previewed and approved? | two properties hold | a slot for checks and one for publications, which run command after command and overlap; two artifacts, one read twice and one read once, each edited once, so that an edit falls between any two reads; the first version of one fails its fixtures; one tick, so that a report is older than, as old as and newer than an approval or another check |
| `DistributedJobs` | do counters and statuses survive every order of calls? | three properties hold | three jobs, two of one slug; two claims of one or two rollouts against targets of two, two and zero, so that a claim is met below, at and above the target, and submissions of minus one; three submissions, so that one comes late |
| `Regrade` | does the leaderboard count a rollout once? | four properties hold | one run of two tasks, one with a semver that gets edited, one with hashes, whose verifier gets edited and whose first row has no time: every branch of the gate; edits between two contents, so that one is taken back; two regrades, the second of one task, so that one is killed and done again, or overlaps; two instants, before which the row without a time lies, so that there is a before, at and after a stamp |
| `RunQueueDoubleRun` | do two claimants exclude each other? | violated | smallest instance |
| `RunQueueLostCancel` | does progress keep a cancellation? | violated | smallest instance |
| `ConversationTerminal` | does nothing follow a terminal event? | violated | a supervised run with one delta |
| `RegradeEnvironment` | was a counted row produced in its task's environment? | violated | one task whose environment is edited, one regrade |

The properties, by what they protect:

* `ProgressBacked`: the progress on a file never exceeds the rows that some executor
  appended, although every write carries a copy of an older file.
* `ReadsAgree`: the worker stops on one read of the status, and another read chooses between
  cancelled and done; the two must agree, so that done means complete, and an execution stops
  early only for a cancellation.
* `FlipHonoured`: a cancellation that was not overtaken (see `landed`) is never undone by
  the executor's many later writes.
* `NotRunTwice`: the takeover of a dead claim happens only before the first row.
* `Settles`: every request gets to its end, with kills, restarts, unreadable manifests and a
  daemon that exits with an exception, except for those that the code gives up:
  `Abandoned` runs (running, their claimant dead) and those that no living executor can honour.
* `Implements` (run queue): a request that nobody asks to cancel follows `RunLifecycle`, through
  kills, takeovers and an old build: its statuses follow the advertised machine, its progress never
  runs backwards and it is done only when it is complete.
* `OneRowPerItem`, `SpendBounded`, `Ends`: see section 1;
  `SpendBounded` gives the bound that the code really keeps: twice the stop-loss, plus one
  rollout for each worker.
* `ReportHonest`: a run reported done is complete, unless the stop-loss ended it
  (`DoneIsCompleteOrStopped`), and the progress it advertises never exceeds the rows and is
  their number once it is done (`ProgressCountsRows`), although a worker appends, counts and
  publishes in three steps between those of the others.
* `ServerLifetime`: a worker has its server as long as no other worker of its arm has thrown, and
  a server that was started is stopped when the execution is over, a reused one never.
* `LeaseSound`: the lease excludes, for kills anywhere in it and in its two-step removal
  (`OneBuilder`), and a lock that is there belongs to a builder at work or to one that was killed
  (`LockAccounted`); `EndsUnlocked`: a build gets to the question or to its end; past the question
  it ends; and a lock goes away unless somebody waits at the question or was killed.
* `PublishedWhole`, `NeverStuck`: the output is a verified export with its manifest, and no
  kill between two marker files leaves a directory that `readCompletedExport` takes for
  complete and rejects.
* `DownloadedOnce`: a resumed staging directory adopts what is there.
* `Implements` (eval build): the output accounts for every capture that was listed when the
  window was bound, as a row or as a skipped reference, and never changes.
* `TracesAccepted`: `validateRuntimeTrace` finds nothing wrong with a Vercel trace but calls
  that were never announced; and with a Pi trace nothing but events after a terminal one: every
  result answers a call, every interruption cites a verdict, every continuation an interruption.
* `MarkersStable`: verdicts get their markers from two counters that live in different functions
  and advance at different times; no two share one.
* `TeacherSeesAnswer`: the partial answer handed to the teacher is what the client got of the
  student, though it grows in a callback whose event waits in the chain.
* `EndReported`: a student run that was stopped, or failed unjudged, ends with a terminal event;
  a Pi answer cut at the output limit comes with an error, also when the continuation failed.
* `CancelledRunEnds`: a cancelled run ends although its supervisor may never answer.
* `NoOrphan`, `TokensMatch`, `SessionExclusive`, `CommandsEnd`: see `disturbed` in section 2.
* `UploadsAreSound`: what a preview shows was once the whole project and passed the fixtures
  then (`PreviewedWasReplayed`), under an approval of exactly these artifacts and this report,
  given after the report (`PreviewedWasApproved`); only what was previewed is uploaded
  (`UploadedWasPreviewed`).
* `JobsAgree`: the count of active claims is off by the claims that were met while active, and
  by nothing else (`ActiveCounted`; that these are never counted out is what the code does); a
  listed job takes workers just as long as rollouts are missing, except for one created with
  nothing to do until something is submitted to it (`StatusCurrent`). `EndsHold`: only an active
  claim brings a removed job back (`RemovedForGood`, which excepts what `releaseClaim` does), and a
  job that has its rollouts takes no more workers and stays complete or removed, unless a negative
  count takes rollouts back (`OverUnlessTakenBack`).
* `RowsApart`: no rollout counts both as first graded and as regraded, after any sequence of
  runs, edits, upgrades, and regrades that were killed and done again (`NoDoubleCount`), and no
  two regrades write under one run id (`RunIdsDistinct`); `EntrySupersedes`: the
  entry retires what was rescored and nothing of what was written; `StaleUnlessRestored`: a row
  that the ledger retired never counts again, although entries are appended out of the order of
  their times; one that only its stamps retired counts again only through the edit that restores
  what it was judged by.

Each property has a mutant in `PROJECT.json`: a variant of one action, written next to it
in the module, that makes the change a plausible bug would make and breaks the property.

### Fairness

* `RunQueue`: weak fairness of the steps of each executor that lives; a process that runs
  its event loop gets on. Neither `Launch`, `Cancel` nor `Kill` is fair.
* `ArmPool`: weak fairness of the arm loop and of each worker's next step, where a rollout is
  left by `Timeout` only: the code arms a timer, and does not rely on the runner to settle.
  The start and the stop of a server have deadlines in `local-serving.ts`.
* `EvalBuild`: weak fairness of each builder's steps but `Confirm`: page requests and downloads have
  a deadline and a bounded number of retries. The requests of `resolveContext` and the question
  to the operator have none, so a build may stay there for ever, with the lock. Kills, the
  operator and the gateway are not fair.
* `ConversationRun`: weak fairness of each runtime's own steps, of the chain and of the handler's
  end; a model stream goes on or is aborted. The supervisor's answer is not fair: its fetch has
  no deadline.
* `Sidecar`: weak fairness of each command's steps, which all have deadlines, of the exit of a
  stopping sidecar, and of the end of a run, which `CancelledRunEnds` grants to the runs of a
  stopping sidecar.
* `DistributedJobs`, `Regrade`, `EvalPublish`: none; they have no liveness property, since nobody
  has to claim, to regrade or to approve.

## 4. Disagreements between code and documents

Four runs show that a comment or the code's own validator says more than the code does. Each is
stated as a property in the words of that text, and TLC prints the interleaving.

1. `RunQueueDoubleRun`: `claimRunRequest` verifies its nonce immediately after the write; an
   executor that read earlier may write later, and both proceed.
2. `RunQueueLostCancel`: `persistProgress` reads before it writes, but a cancellation in
   between is lost.
3. `ConversationTerminal`: a student message that ends with an error is reported as a terminal
   error by the adapter, while the prompt resolves; the supervisor is asked once more, and its
   verdict and usage follow the terminal event, which `validateRuntimeTrace` rejects.
4. `RegradeEnvironment`: a regrade stamps its rows with the hashes a task has now, that of
   the environment included, though the rollout ran in an older one; the row counts as fresh.

The models show more that no document contradicts: a run killed while running stays running
(`Abandoned`); the daemon exits with the exception when a request of its listing is gone (the
place `exited` in `RunQueue`); `Promise.all` rejects with the first worker that throws and
the server is stopped under the others (the condition of `ServerLifetime`); a Vercel call that
was never announced stays unanswered when the stream fails; a prompt rejected after an
unavailable supervisor counted as a decision is reported to nobody (the condition of
`EndReported`); overlapping commands orphan a sidecar, and overlapping regrades take one run
id (`disturbed`, `raced`); a build that nobody answers keeps its lock (`Waits`); a job with nothing
to do is open, and a negative submission opens a complete job again (`Current`, `TakenBack`);
an edit that is taken back makes rows that only their stamps retired count again
(`StaleUnlessRestored`). `hosted-workload-eval.md` says that a repeated check must not
alter a matching report: one that started earlier and ends later replaces it by a report with the
earlier time (`Compare` in `EvalPublish`), which leaves the approval stale until another check.

## 5. Proofs

For every value of the constants, under the named assumptions `RunQueueAssumption`,
`ArmPoolAssumption`, `EvalBuildAssumption`, `DistributedJobsAssumption`, `RegradeAssumption`,
`SidecarAssumption`, `EvalPublishAssumption`, and for conversation runs `SessionAssumption`, `PiRunAssumption`,
`SupervisedAssumption`, `VercelAssumption`, `BackendAssumption`. TLC evaluates every one of them
in the runs.

* **`RunQueueProofs`**: `TypeCorrect`, `ProgressIsBacked`, `RunningHasClaim`, for any number of
  racing executors. None of them is inductive: the file alone says nothing about the copies that will be written
  over it. The invariant is `TypeInv /\ CopiesInv`: `CopiesBacked` says that progress is
  backed in the file *and in every copy somebody may still write* and that an executor's own
  counter is backed by its rows; `CopiesClaimed` says the same of running and claimed, with
  what is known at `start` and `claimVerify`. Each write then copies a sound record with a
  sound change (`UpdatesAreSound`, `StartIsSound`, `CountIsSound`).
  `LooksAgree`, `FlipsStay`, `RunOnce` and `QueueImplements` hold where one watcher lives at a
  time, from `WatcherInv`: dead executors are nowhere (`Alone`), a file that is queued has no rows
  (`FileKnown`), and at each of its places the one living executor knows how its copy, its counter
  and its rows relate to the file (`KnownBefore` the start, `KnownDuring` the run). Others write
  the file too: creators and cancellers. `KnownUnasked` therefore says what holds of a request
  nobody asks to cancel, for which the copy is the file; that is all the refinement needs, since a
  request that somebody asks to cancel is `withdrawn` in `RunLifecycle` from then on.
* **`ArmPoolProofs`**: `PoolTypeCorrect`, `RowsAreUnique`, `SpendIsBounded`, `DoneIsComplete`,
  `ReportsAreHonest`, `ServersLiveWithArms`. `RowsAreUnique`
  needs `Accounted`: an item in the queue or in a worker's hand has no row, two workers never
  hold the same item, later arms have no rows, and no worker is active while the loop
  is between arms. `SpendIsBounded` needs `SpendInFlight`: what is recorded plus what the
  rollouts in flight can add stays below the bound; a worker that starts a rollout has just
  seen the spend below twice the stop-loss. `DoneIsComplete` needs that arms behind the loop are
  complete and that, until a worker throws or stops, every item of the arm at hand waits, is in
  hand or has its row. `ReportsAreHonest` adds `Counting`: what is published is at most what is
  counted, and that at most the rows; between append and count only a worker that throws loses
  one, and after a throw the run is never reported done. `ServersLiveWithArms` needs that only the arm at hand has a server of its
  own, and knows at each stage of the loop whether it is up.
* **`EvalBuildProofs`**: `BuildersExclude`, from `LeaseInv`: whoever is in the lease
  has the directory, the owner file names nobody else, and there is only one. Kills keep it
  because they remove a holder and leave the lock; a removal of the lock keeps it because it
  needs a dead owner, or no holder.
  `LocksAreAccounted`, from `LockInv`, which adds what the builder in the lease knows: that the
  owner file names it from its write to its removal (`OwnerKnown`), so that the comparison before the
  release never fails. `LeaseIsSound` joins the two.
  `TypeCorrect`, from `LeaseInv /\ TypeOK /\ Bound`: types alone are not inductive, since the
  summary records the window of the staging directory and only `Bound` (a builder past
  binding works on a bound directory) says that there is one.
  `NeverBlocked`, `PublishesWhole`, `DownloadsOnce` and `KeepsToItsWindow`, together from
  `DirsInv`. None of them is inductive: that a leftover directory is never half complete
  depends on the order in which markers are removed and written, so `KnownAt` says which
  markers are absent, and what the export has collected, at each place of the one builder in
  the lease (`OneBuilder` is why nobody else can falsify it); `Kept` says that a downloaded
  capture is still there or the output is; `Fresh` that an export starts with nothing. A kill
  forgets `KnownAt` and keeps the rest, which is all the next builder relies on.
  `DeliversAsPromised` is `Spec => Implements`, the refinement of `EvalDelivery`, step by step. Binding
  maps to `EvalDelivery!Bind`, the rename to `Deliver`, everything else to `Ingest` or a
  stutter. That `Deliver` leaves nothing out needs `Accounted`: until a download fails, every
  capture listed at binding is a row, missing, in flight, on the page or on a later page;
  and an export that looks complete accounts for all of them.
* **`EvalPublishProofs`**: `TypeCorrect` and `UploadsStaySound`, from `TypeInv /\ ReplayInv /\
  ApprovalInv`. Nothing locks the project, so what a command knows is only about order.
  `ReplayInv`: artifacts get newer and never older, so what was hashed is at most as new as what was
  used, and that at most as new as the artifact (`Older`); once the fixtures have run, either
  the hashed state was the project's when they ran, or some artifact is newer than its hash
  (`Edited`), and the snapshot, which compares each artifact with its hash, will not get past it.
  `ApprovalInv`: a final approval carries the time at which it was given, so a later one has a later
  time or the same; the one in force after the check, which must be the one read before it,
  is therefore at least as late as the one that the check has bound to its report (`Sees`).
* **`DistributedJobsProofs`**: `TypeCorrect`, `JobsStayRight`, `RemovedStays`, `OverStaysOver`,
  `EndsStay`, together from `TypeOK /\ ActiveCounted /\ StatusCurrent`, for any integers as targets and
  counts. That the count of active claims is never negative is not a fact of types: a release
  subtracts one, and only `ActiveCounted` says that there is one to subtract. Without the history
  `completedBy` the count could not be stated: a claim that was released and then met never leaves
  the count twice. `RemovedStays` needs the type of claims: a release that could revive a job is one
  of an active claim of that job. `OverStaysOver` rests on `StatusCurrent`: a job with its
  rollouts is listed as complete or removed, hence does not accept a claim, and `SubmittedMoves`
  and `JobMoves` say that only a submission with a negative count takes a rollout away.
* **`RegradeProofs`**: `TypeCorrect`, `RowsStayApart`, `StaleReturnsOnlyRestored`, `EntryRetires`,
  from `RowsInv`. That a rollout counts once depends on what a regrade knows at each of its places
  (`KnownTo`): what it read is older than its stamp, what it writes is not, and nobody else has
  written a regrade since; `OneAtATime` is what `~raced` gives. Staleness itself is not inductive,
  since an edit that is taken back ends it; `Settled` therefore says that of two rows of one rollout
  the *ledger* has retired one, which nothing undoes (`SupersededStays`, from `BumpsGrow`).
* **`SidecarProofs`**: `TypeCorrect`, `NoneOrphaned`, `TokensAreIts`, `SessionsExclude`. That the
  state file and the processes agree is not inductive: the invariant says that a command that
  looks at, waits for or polls a process deals with the only one alive, that none is alive from
  the removal of the state file to the spawn, and that the token files are those of whoever
  lives; a session is in use only while the sidecar of its run lives.
* **`ConversationProofs`**: `TypeCorrect`, `TracesCited`, `VerdictsDistinct`, `TeacherSeesAll`,
  `EndsTold`, for any number of tool calls, deltas, nudges, continuations and queued events. The
  difficulty is the chain: what a trace cites may still be queued behind other events when the
  runtime writes past it. `BaseInv` says where a session, a chain and a check in flight can
  exist. On top of it one invariant for each theorem speaks of what is written *or queued*:
  `CallsCited` (a call is queued or written once, before its result, and a call without a queued
  result runs), `MarkerCited` (the verdict a segment was stopped for is on its way) and
  `StreamCited` (the three collections of the Vercel runtime against the reader's pending
  calls); `MarkersInv` (every queued or written marker is below its counter, in use or not,
  and queued markers are distinct); `AnswerInv` (student deltas written plus those queued
  are what run and segment count); `NudgesInv`; `EndInv` (what the adapter said is told or
  queued). Most steps touch none of these: `StepKinds`, `CallsMoved` and `SaidMoved` sort the
  steps by what they do to the chain and the stream, so that each invariant is proved for six
  kinds of steps instead of forty actions.

Only model-checked: liveness (`Settles`, `Ends`, `EndsUnlocked`, `CancelledRunEnds`,
`CommandsEnd`), which with `ENABLED` is outside what the prover supports. Of
`EndsUnlocked` the safety half is proved (`LocksAreAccounted`): who ends has left no lock. Every invariant, action
property and refinement that a passing run checks is also a theorem. `RunningHasClaim` and
`KeepsToItsWindow` are theorems that no run repeats.

## 6. Plan

The order follows the weight of the behaviour and the number of actors in it. Done: the run
queue, arm execution, eval builds, conversation runs, the sidecar, distributed jobs,
regrading, checks and publication. Next:

1. **Ledgers, prime freeze, classifier registry**: latest-wins folds, freeze that never
   overwrites, read-modify-write of lifecycle records.
2. **Pure algorithms**: merging of calibration floors, scores and Pareto fronts, against
   reference definitions on bounded inputs.

A component that joins shares the runs there are: two small ones can be composed in one
instance, and a violated run can give its place when its disagreement is settled in the code.

## 7. Not modelled, and why

Validation and formatting (request inputs, HTTP and MCP handlers, CLI parsing); the content of
rows, captures and manifests beyond what the properties tell apart; generated Python and
numerical training (out of reach of a model checker); capture import and the trace foundry (one
process, batch conversion); shell scripts; viewers without state. These are most of the
repository's lines: what is modelled is the part in which processes, callbacks or calls
interleave, or may be cut short.

Listed as hazards with the reason why no property covers them, because nothing of the kind is
modelled: the temporary name that every writer of a request shares, the abandoned attempt of a
timed-out rollout, the merge of calibration floors by two executors, and the lifecycle records of the
classifier registry. And because the code does it, so that the properties except it: overlapping
commands that orphan a sidecar, overlapping regrades that take one run id, the release that revives
a removed job and the claim that is never counted out, targets and counts without a sign check, the
lock that is held while the operator is asked, and the report that an older check replaces.
`EndReported` excepts the prompt rejected after an unavailable supervisor, and says nothing of the
teacher's part; an abort during `createPiRuntimeSession`, before the listener is added, is missed by
the code, and such a run ends only through its provider. The repeated upload of a publication, the
partial file of a killed download and a model server orphaned by a killed executor are outside the
models as well.
