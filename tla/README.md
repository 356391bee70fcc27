# Verification of capSanp

TLA+ models, TLC runs and TLAPS proofs kept beside the Go code of the screenshot
service. Paths are relative to the repository (`internal/…`, `cmd/…`,
`migrations/…`). `PROJECT.json` maps every definition to the lines it stands for
and lists the runs, the mutants that each property must catch, the hazards, the
findings and the theorems.

## 1. The system

A client uploads a screenshot. The handler stores the file, inserts the
`screenshots` row, inserts an `agent_runs` row and enqueues an `agent_tasks` row.
A worker embedded in the API process leases tasks and executes the run as a list
of steps (OCR, insight, save, embedding); each step calls a tool, and the tools
write the row and the point in the vector store. Search reads both.

| Component | State | Operations | What is hard | What makes it correct |
|---|---|---|---|---|
| **Task queue** — `agent/worker.go`, queue methods of `store/store.go`, `cmd/api` | `agent_tasks` (status, attempts, scheduled_at, locked_at), `agent_runs.status`, the goroutines' locals, the process | enqueue, dequeue (`FOR UPDATE SKIP LOCKED`), complete, retry with backoff, mark dead, release stale leases, stop, crash, restart | several goroutines and a cleaner; statements by id only; discarded errors; leases against long runs; crashes between two writes | no two goroutines on one task; settled is final; attempts accounted for; accepted tasks settle; the run agrees with its task |
| **Agent runner** — `agent/runner.go`, `pipeline.go`, `trace.go`, `screenshot_organize.go` | `RunContext` (outputs, degraded), the run row, the trace rows `agent_steps`, `tool_calls`, `llm_calls` | Execute, executeStep with timeout and retries, handleStepFailure, recordStepTrace | mixtures of policies; inputs read unchecked; trace rows refused; execution repeated after a crash | the final status is earned by the steps; inputs exist; the trace tells what happened; a run fits in its lease |
| **Screenshots and index** — `tools/*.go`, `cmd/backfill`, handlers of `httpapi/server.go` | the `screenshots` row, its point in the vector store, run inputs, backfill's page | upload, create run, retry-agent, the four tools, backfill's pages | several runs and backfill on one row; a failed write that was applied; paging over a table that grows | insight belongs to its text; index agrees with row; text is not lost; backfill misses nothing |
| **Search** — `httpapi/search.go` | one request: two goroutines' results, ranks, scores | keyword, semantic, hybrid, `rrfMerge`, degradation | either half fails; cut before and after the fusion | degradation equals keyword search; fusion respects agreed order |
| **Start** — `ApplyMigration`, `openRepository`, `openVectorStore`, `cmd/migrate` | the schema, the vector collection | statements of three files, sent one by one; ask for the collection, create it | several programs, crashes, repeated starts | a program that is up has a complete schema, and a collection if it has vectors |
| **In-memory store** — `store/memory.go` (`DATABASE_DSN=memory`) | maps and slices under one mutex | the same interface | delay ignored, no lease expiry, cancelled contexts ignored | a second implementation of the queue; attempts kept; a stop ends |
| **Statistics and run detail** — `httpapi/stats.go`, `GetStats`, `GetAgentRunDetail` | none of its own | six and five queries in no transaction | the tables change between them | parts that are compared belong together |
| Vector clients, providers | the points | Upsert, Search; one call, one answer | — | seen through their callers |
| HTTP plumbing, configuration, files, page | none that outlives a call | I/O | — | — |

The components meet in these places. Handlers write `agent_runs` and
`agent_tasks`, without a transaction; the worker calls `Execute` and then writes
the task; `Execute` calls the tools; the tools write `screenshots` and the vector
store, which search and backfill read; `app.New` migrates and opens the vector
store before anything else. Statistics and run detail read what handlers, worker
and tools write, at any moment.

## 2. The modules

| Module | Models | Actions (code) |
|---|---|---|
| `LeasedQueue` | what a leased queue promises: phases of an item and its tries | Put, Lease, Done, Bury, Return |
| `TaskQueue` | the queue on MySQL, one action per SQL statement | CreateAgentRun, EnqueueTask, EnqueueFails (the handlers); SelectTask, CommitDequeue, RollbackOnStop, DequeueFails (DequeueTask's transaction); StartRun, FinishRun, AbortRun (Execute's writes to the run); CompleteTask, RetryTask, MarkTaskDead, BuryRun; StatementFails (the discarded errors); ReleaseStaleLockedTasks; ExitLoop, Stop, Halt, Crash, Restart; Tick |
| `MemoryQueue` | the worker on the in-memory store, one action per call under the mutex | CreateScreenshot, CreateAgentRun, EnqueueTask (the handlers); Poll, DequeueTask, FindNothing, ExitLoop; StartRun, GetScreenshot, SaveMemory, FinishRun, AbortRun (Execute); CompleteTask, RetryTask, MarkTaskDead, BuryRun; Stop, Halt, Crash |
| `Readers` | `TaskQueue` with what the runs write besides, and two requests that read it | GetStats, GetAgentRunDetail, Query, QueryFails; UploadScreenshot, CreateRun, StartWork, AddLLMCall, SaveMemory, FinishWork, AbortWork, LoseStatement, QueueStep, Environment, ProcessEnds |
| `Pipeline` | `AgentRunner.Execute` for a step list, one round per call; the step list of `screenshot_organize` | Start, ToolSucceeds, ToolFailsAndRetries, RetryDelay, ToolFailsForGood, ToolMissing, AddStep, AddStepFails, AddToolCall, AddLLMCall, NextStep, AbortExecution, FinishExecution, Crash |
| `Screenshots` | row and point of each screenshot under runs, requests and backfill | UploadScreenshot, CreateAgentRun, RetryAgent, Enqueue; ReadShot, Recognize, GenerateInsight, SaveMemory, SaveFails, Embed, Settle; StartBackfill, ListOrganizedScreenshots, BackfillShot; Crash |
| `Search` | one `GET /v1/search` | SearchScreenshots, SemanticSearch, KeywordHits, SemanticHits, FailHybrid, DegradeHybrid, MergeHybrid, GetScreenshotsByIDs |
| `Migrations` | programs that apply the files to one database and open one vector collection | Start, Send, ConnectionError, Finish; CollectionExists, CreateCollection, OpenFails; Crash |
| `*Proofs` | the inductive invariants and the theorems about each of the seven modules (section 5); `ReadersProofs` extends `TaskQueueProofs` | — |
| `MC*` | constants, step lists, migration files, and the documents' claims that the code does not keep | — |

`TaskQueue` is shown to implement `LeasedQueue` under the mapping phase = `status`,
tries = `attempts`; `MemoryQueue` implements the same specification, its phases and
tries read off the slice of tasks. `Readers` extends `TaskQueue` and lets every
action of it happen between any two queries, but for a graceful stop, which ends a
request as a crash does: the statements that write `screenshots` and `llm_calls`
fall inside the queue's `executing`. `Pipeline` is what happens inside `TaskQueue`'s
`executing` location, of which the queue sees three outcomes; its `FitsTheLease`
supplies the assumption that the queue's proofs make (section 5). `Screenshots`
takes from `TaskQueue` that executions of one run do not overlap and from `Pipeline`
the order of the steps and their policies.

What state stands for: time in `TaskQueue` is relative to `NOW()` (`due` is
`scheduled_at - NOW()`, `age` is `NOW() - locked_at`), because the code only ever
compares. Ages beyond the timeout are not told apart. A task and its run share one
identity (`uk_tasks_run`). A dequeue is three steps (SELECT with row lock, UPDATE,
COMMIT; the last two are one action because nothing between them is visible), and
its COMMIT may take effect although the caller sees an error. In `Pipeline` an
output is its origin (own, fallback, empty, absent), and `FinishAgentRun` is an
UPDATE that is applied or lost, since `Execute` discards its error
(`runner.go:43,60,71`); `written` records whether the last one was applied. In
`Screenshots` a content is the origin of the text, the text the insight was made
from and the execution that made it; an embedding and its upsert are one step, which
fails or succeeds. Two history variables say why a point may differ from its row:
`crowded` holds the screenshots that several activities (runs under way, backfill's
page) shared since a run last saved them alone, `behind` those where a fault met a
run between row and point since a run last saved them. No guard reads either. In
`MemoryQueue` there is no time, since nothing there waits for any. In `Readers` the
answer of a query is the set of rows that it counts or returns. In `Search` scores
are exact fractions and the two rankings are chosen freely. In `Migrations` a
segment is what it creates, what it needs and whether it says `IF NOT EXISTS`.

Each module with properties also holds a few deliberately wrong variants of its
definitions, marked as such and used by no specification. Every property of a
passing run is violated by one of them.

## 3. The runs

| Run | Instance | What it shows |
|---|---|---|
| `task_queue` | 2 tasks, 2 goroutines, 2 attempts, lease 2 ticks, run ≤ 2 ticks, 2 crashes, 1 failing statement, 1 stop; symmetry on tasks and goroutines | `LeaseExclusive`, `AttemptsWithinFaults`, `OrphanedOnlyByFault`, `RunAgreesWithTask`, `SettledIsFinal`, and the refinement of `LeasedQueue` |
| `task_queue_live` | the same with ticks of 1 and 1 crash, no symmetry, fairness | `AcceptedIsSettled` |
| `attempts_within_max` | 1 task, 2 goroutines, 1 crash | **violated**: finding 1 |
| `stop_answers_requests` | 1 task, 2 goroutines, 1 stop, no fault, fairness | **violated**: finding 2 |
| `memory_queue` | 2 runs, 2 screenshots, 2 goroutines, 2 attempts, a stop and a crash, fairness | `OneHolder`, `AttemptsWithinMax`, `TakenInOrder`, `OneTaskAfterStop`, `StatsAddUp`, `AcceptedIsSettled`, `StopEnds`, and the refinement of `LeasedQueue` |
| `readers` | 2 tasks, 1 goroutine, 2 screenshots, 1 attempt, lease and run of 1 tick, 1 crash, 1 failing statement; symmetry on tasks and screenshots | `StatsAddUp`, `P95IsFound`, `DetailIsComplete` |
| `pipeline` | every list of three steps of six kinds of which at most one has no registered tool, and the four real steps with their seconds, with and without a vector store; two rounds, a crash anywhere, any UPDATE of the run row lost, one refused trace row | `OutcomeIsEarned`, `InputsArePresent`, `TraceMatchesResults`, `TraceIsRooted`, `FitsTheLease` |
| `screenshots` | 2 screenshots uploaded a second apart, 2 runs of 2 executions, the first screenshot with and without a client's text and the second with, backfill with pages of 1, 2 faults (save_memory failing twice counts as one); symmetry on runs | `InsightFitsText`, `IndexIsCurrent`, `PointsWereSaved`, `RecognizedTextStays`, `BackfillCovers` |
| `backfill_same_second` | 2 screenshots of one second, pages of 1 | **violated**: finding 3 |
| `search` | every pair of rankings of subsets of 4 screenshots, limits 1 and 2, every failure, either order of the goroutines | `DegradesToKeyword`, `FusionKeepsAgreedOrder` |
| `migrations` | the three files (10 statements and the blank tails), a server with `AUTO_MIGRATE`, one without and `cmd/migrate`, two starts each, 2 faults | `UpMeansMigrated`, `FirstMigrationCompletes`, `VectorsFollowCollection` |
| `starts_are_repeatable` | the migrating server and `cmd/migrate`, one start each, no fault | **violated**: finding 4 |

Each passing run but `task_queue_live` also checks its module's type invariant.

Why the bounds are enough for the cases that matter. *Queue*: two goroutines and two
tasks give every pair (two on one row, one on the row another's transaction has
locked, one row older than the other). Two attempts give a first, a last and, after
a crash, an extra one. `LockTimeout = MaxExec` is the tightest case the assumption
allows: a lease of exactly the age of the timeout. The delay is longer than the
lease, so that a row can be waiting while another expires. `MaxOverdue` keeps a
longer-overdue row from being told apart; it only affects the order in which due
rows are taken. *Pipeline*: three steps give a first, a middle and a last one, two
neighbours of each policy on either side, with and without retry and LLM result, and
a missing tool anywhere. Two rounds give a repetition over the first one's rows and
over a run row that the first one did or did not write; the second may follow a
success, as when the process died before it settled the task. For
`FitsTheLease` a call takes either no time or all of its timeout: the budget is a
sum, so the extremes decide it. *Screenshots*: two runs of two executions give an
overlap, a retry and a repetition after a crash; two faults allow a save that
fails for good in both executions, or a crash and a failure; two rows over pages of one give full pages,
an empty one, and a row that is organized while the other is being paged. *Memory*:
two goroutines and two tasks as for the queue; a run may be about a screenshot that
nobody uploaded, which is what fails there. *Readers*: one goroutine is enough,
since the readers tell rows apart and not who writes them; one attempt, because what
takes a success back is a second execution after a crash or a lost statement, which
the cleaner grants whatever the maximum is. *Search*: with `MinFetch = 3` and four
screenshots a ranking may be cut by the fetch limit (3 or 4) and by the limit (1 or
2); `K` is the code's 60. *Migrations*: two programs race for the schema and two for
the collection, and each may come back after the other.

`CHECK_DEADLOCK FALSE` stands where the system ends: an execution after its rounds,
a request that was answered, a backfill that is done, a process whose memory is gone,
programs that are started no more.

## 4. Fairness

Used by four runs. `TaskQueue!FairSpec` (`task_queue_live`; in
`stop_answers_requests` it makes sure that the cut-off request is not one that the
scheduler merely forgot): a handler that made its first write makes or fails its
second; a goroutine that has a step takes it (Go's scheduler; MySQL answers or
fails); the cleaner's ticker ticks; time passes; a stopping process ends (`wg.Wait`
returns, and with `Shutdown` called `ListenAndServe` does); something starts the
process again (the operator or the container's restart policy: the code takes it for
granted when it leases rows instead of deleting them). Nothing makes a client send,
a statement fail, or the process crash or stop, and each of these happens a bounded
number of times: with a crash in every attempt no queue would settle anything. Weak
fairness of a goroutine's `Step` does not choose which due row it takes; `ORDER BY
scheduled_at` does. `MemoryQueue!FairSpec`: handlers and goroutines are scheduled, a
stopping process ends; nothing has to stop or crash. No fairness chooses the task
there either, the first queued one is taken; and because `Poll` needs a process that
was not told to stop, `StopEnds` shows that a queue which clients keep filling does
not keep a goroutine. `Migrations!FairSpec`: a program is started and, once started,
sends its statements and opens the vector store.

## 5. What is proved

For every module, each invariant, action property and refinement that a passing run
checks is also a theorem, for every value of the constants that meets the module's
assumptions. Only the liveness properties are checked on the runs' instances alone.

| Module | Theorems that state a run's property | Inductive invariants | Assumed besides the module's |
|---|---|---|---|
| `TaskQueueProofs` | `TypeCorrect`, `LeaseExclusion`, `AttemptsAreWithinFaults`, `StopOrphansNothing`, `RunAgreement`, `Refinement`, `SettledStays` | `LeaseInv`, `AttemptsInv`, `RunInv` | `MaxExec <= LockTimeout`, but for types |
| `MemoryQueueProofs` | `TypeCorrect`, `OneHolderHolds`, `AttemptsStayWithinMax`, `FirstStartsInOrder`, `AtMostOneTaskAfterStop`, `Refinement`, `StatsAlwaysAddUp` | `HoldInv`, `RunInv`, `ShotInv` | finite `Runs` and `Shots` for the statistics, which count them |
| `PipelineProofs` | `TypeCorrect`, `StatusIsEarned`, `InputsAreThere`, `TraceTellsTheRound`, `TraceRowsAreRooted`, `OrganizeFitsTheLease`; and `SpentWithinBudget` | `RoundInv`, `TraceInv`, `SpentInv` | for `OrganizeFitsTheLease` the step list of `screenshot_organize` and a lease of at least 203 s |
| `ScreenshotsProofs` | `TypeCorrect`, `InsightsFitTexts`, `PointsAreSaved`, `IndexStaysCurrent`, `TextStays`, `BackfillReachesAll` | `FitInv`, `SavedInv`, `CurrentInv`, `TextInv`, `CoverInv` | for `BackfillReachesAll` no two screenshots of one second |
| `ReadersProofs` | `ReadersTypeCorrect`, `StatisticsAddUp`, `DetailComplete`, `P95IsAlwaysFound` | `TablesInv`, `PageInv`, `ShownInv`, `P95Inv` | for `P95IsAlwaysFound` finitely many tasks and `MaxExec <= LockTimeout` |
| `MigrationsProofs` | `TypeCorrect`, `UpIsMigrated`, `VectorsAreBacked` | `MigrationInv` | — |
| `SearchProofs` | `TypeCorrect`, `Degradation`, `FusionOrder` | `SearchInv` | — |

The theorems are about `Spec` (`ReadersSpec`); the runs that assume fairness check
the same properties of a subset of its behaviours.

**The assumptions.** `MaxExec <= LockTimeout`: a goroutine is done with a task before
the lease can expire. This is a fact about configuration and not about the queue's
code, which never renews a lease and names rows by id only. With
`LockTimeout < MaxExec`, TLC finds `LeaseExclusive` and `SettledIsFinal` violated; the
mutant that releases a lease *at* the timeout instead of after it shows how close the
two are. `SpentWithinBudget` shows, for any list of steps, that tools and retries take
no longer than the timeouts and delays of the list add up to, and
`OrganizeFitsTheLease` that this is 203 s for the real list, against the
default 300 s of `WORKER_LOCK_TIMEOUT`; the remaining 97 s are what the statements
between the steps, which have no timeout of their own, may take. The two modules meet
only in this argument: no theorem composes them. *No two screenshots of one second*
is what finding 3 is about: the run `backfill_same_second` violates the property
without it. Finite sets are those of a table that can be counted.

**Task queue.** `LeaseExclusive` is not inductive: nothing in it keeps the cleaner, or
another dequeue, from taking a row that is being worked on. `LeaseInv` adds what
does. `JobInv`: a claimed row is queued, an owned row is running, the goroutine's
`Attempts` is the row's, and the lease is no older than the work
(`age <= elapsed <= MaxExec`), so no owned row is `Stale`. `HeldOnce`: a row is
claimed or worked on by one goroutine, which SKIP LOCKED preserves at the SELECT and
`JobInv` at every other step. `RequestInv`: nothing is in the table before it was
accepted, so `EnqueueTask` cannot hit an owned row. `DownInv`: no goroutine runs in
a process that is gone. `AttemptsInv` says where a spare attempt is owed: a queued
row has one, and a running row that nobody owns has one once each fault is granted
one; the step that orphans a row is the step that counts a fault. `RunInv` relates
a goroutine's place to the status its run has by then.

**In-memory queue.** The same promises need no assumption about time, because nothing
in memory expires: `HoldInv` says that a busy goroutine's task is running with the
attempts that the goroutine saw, and that a queued task has an attempt to spare.
`RunInv` and `ShotInv` then give each run and each screenshot the status that follows
from its task and from how far its goroutine has come, and `StatsAddUp` is counting:
distinct tasks have distinct runs, and an organized screenshot has a run that
succeeded or is about to.

**Pipeline.** `RoundInv`: result and output of each step that has run tell one story
(its policy, its own output or a fallback), nothing is known of the steps ahead, a
failed step is the last, and the last UPDATE of the run row is still ahead while
`Execute` runs. `OutcomeIsEarned` and `TraceMatchesResults` are about what `Execute`
hands over; what the row shows is claimed only if that UPDATE was applied, in which
case it holds the status and the outputs of this round alone. `TraceInv`: while no row was refused, each of the three
sequences holds, in order and once, the steps that called their tool, but for the row
that the program is about to write; rows of earlier rounds lie before. `SpentInv`:
what is spent is within the cost of the steps that ended, plus the attempts of the
current one.

**Screenshots.** `FitInv`: whoever holds an insight (a row, a point, a run, the
backfill's page) holds the text it was made from. `SavedInv`: on a row that is not
`crowded`, a run that embeds has saved what it holds, and backfill holds what the row
says. `CurrentInv`: an organized row has its point, or the run that will write it is
about to, or the row is `crowded` or `behind`. So `IndexIsCurrent` covers faults and
overlaps too: it does not say that they leave no stale point (an upsert that failed,
a crash before it, two runs whose saves and upserts cross do leave one), but that the
next run which saves alone and embeds undisturbed repairs whatever they left. The
step that matters is that run's save: `CrowdsAreNoted` counts every other activity,
so none that holds an older content can write after it without making a new crowd,
and `RetriesAreNoted` has a run that is between two attempts to save on record.
`TextInv`: a run that has nothing but the file name found no text in the row.
`CoverInv`, for the backfill: a row is behind the offset, on the page, or has its
point; the offset is compared with the row's rank by `created_at`, which may only grow
when rows are organized meanwhile.

**Readers.** The queries of one page are answered at different moments, so the
argument is about what no writer ever takes back (`Persist`: rows stay, calls stay, an
organized screenshot stays organized). `ShownInv` says of each later query that it
will find what an earlier one showed. `DetailIsComplete` needs no bound on time;
`P95IsFound` does, because its success must still be one when the next query looks
for the row, and a second execution would take it back (`KeptInv`). That is also
what the property leaves out: it excludes faults, and after a crash or a lost
statement a run that had succeeded may be executed again and be `running` when the
offset is used, so the page shows a P95 of 0 although it counts successes. The code
does not prevent it.

**Start.** `MigrationInv`: a program that is past a statement finds what every
statement so far makes, which holds because nothing is ever dropped. **Search.**
Degradation follows from what each half knows of the other. For the fusion: the
comparison of two sums of fractions is a strict total order (ties broken by id), so
that a hit's place in the answer is the number of hits before it; a smaller rank
earns a larger share; hence a hit that is behind in neither ranking and ahead in one
comes first, and neither of the two limits can cut it and keep the other.

**Induction.** Each invariant is proved by one step per action. Three results
need an induction over numbers, which the library's theorems would ask for a predicate
as a parameter: the sum of the costs of a step list exists, the recursive definition
of the budget computes it, and it grows with the list. `PipelineProofs` proves `EveryNumber` instead (a set
that contains 0 and is closed under successors contains every number), from a
well-founded order on finite sets, and applies it to the set of the numbers for which
the claim holds.

**Form.** Some definitions have the form they have so that they can be
reasoned about: a hit's place in `RRFMerge` is the number of hits ahead of it (the
code sorts), `Budget` is a recursive function, and the properties of the trace speak
of sets of positions and not of filtered sequences.

**Only model-checked**: `AcceptedIsSettled` (of both queues), `StopEnds` and
`FirstMigrationCompletes`. They are liveness under fairness, which is out of the
prover's reach. The findings of section 6 are counterexamples and hold as they
stand.

## 6. Findings

1. **A task can be started more than `max_attempts` times** (`attempts_within_max`).
   `ReleaseStaleLockedTasks` requeues an expired lease whatever `attempts` is, and
   `DequeueTask` does not look either, so a crash during the last attempt gives the
   task another one. `docs/需求分析-企业级Agent运行时.md:38-39` allows at most three
   and says that a task over its retries is dead. What the code does keep is
   `AttemptsWithinFaults`: one extra start per fault.
2. **A graceful stop cuts requests off** (`stop_answers_requests`). `Shutdown` is
   called by the signal's goroutine (`cmd/api/main.go:40-55`) and waits for open
   handlers for up to 10 s, but `ListenAndServe` returns when `Shutdown` *begins*,
   and `main` with it. A handler between `CreateAgentRun` and `EnqueueTask` leaves a
   run that stays `running` and that no task executes. `main.go:39` and
   `docs/设计文档-企业级Agent运行时.md:405` call this a graceful stop; `main` would have
   to wait for the goroutine. The worker's half of the promise holds
   (`OrphanedOnlyByFault`, `OneTaskAfterStop`, `StopEnds`).
3. **Backfill can miss a screenshot** (`backfill_same_second`). Pages are ordered by
   `created_at` alone, in whole seconds; rows of one second may come in another
   order on the next page. When the order is total, as in `screenshots` with different
   seconds, `BackfillCovers` holds; a second sort key would make it so.
4. **A second migration fails** (`starts_are_repeatable`). `003_request_id.sql` has
   no `IF NOT EXISTS` and nothing records what was applied: `make migrate` followed
   by `make dev` with `AUTO_MIGRATE=true`, as in the quick start, ends at
   `ALTER TABLE`.

Other differences between documents and code, seen while reading and not run:

- A failed run goes back to `running` when its task is retried (`runner.go:43`),
  where the document lists a one-way lifecycle (`需求分析-企业级Agent运行时.md:31`); and a
  run is created `running`, never `queued` (`store.go:241`).
- A run whose task was never enqueued stays `running` (`server.go:127-134`).
- A run with a skipped step is `completed`, where the document asks that all steps
  succeed (`需求分析-企业级Agent运行时.md:74`).
- Attempts of a step are not recorded one by one (`:86`), and a step whose tool is
  not registered leaves no trace row (`:109`, `runner.go:76-78`).
- `screenshots.status` is never `partial` (`memory_tool.go:45`).
- Backfill embeds screenshots that already have a point.
- `GetStats` takes `device_id` and ignores it (`store.go:291`,
  `需求分析-统计API与链路追踪.md:22`).
- The cost per run is left at 0 on MySQL when every success is a `partial_success`
  (`store.go:348` asks for `Completed > 0`); the in-memory store divides by all
  successes (`memory.go:317`), as the document says (`需求分析-统计API与链路追踪.md:37`).
- In memory mode a retry does not wait, and `POST /v1/agent-runs` accepts a screenshot
  that does not exist, which a foreign key refuses on MySQL.
- A server that loses the race to create the vector collection comes up without
  vectors, although the collection is there, until it is restarted
  (`qdrant.go:32-45`, `app.go:63-67`).
- `QDRANT_ENABLED=false` gives in-memory vectors and not keyword search only
  (`app.go:108`).

## 7. What is not modelled

- **The in-memory store's** trace rows, model calls, lists, search and run detail:
  appended to or read under the mutex, by one call each.
- **Statistics**: time ranges other than `all`, the averages and rates computed from
  the counts, and the numbers of the queue, which nothing is compared with.
- **The socket.** Requests arrive while the process runs or drains, and are cut off
  when it ends; connections and timeouts are not there. In `Readers` a process ends
  by a crash only.
- **The device of a point.** A point written with a device taken from the body of
  `POST /v1/agent-runs` need not be the row's device; rows are loaded by id and not
  filtered by device. No document says what a caller may send.
- **A statement applied after its caller gave up**, later than its own failure. A
  failed write is applied at once or not at all in `Screenshots`; in `TaskQueue` only
  the dequeue's COMMIT may be applied although it failed.
- **The order of a second in keyword search.** `SearchScreenshots` orders by
  `created_at` alone (`store.go:151`). A request makes one keyword query, so its order
  is chosen once in `Search`; `DegradesToKeyword` says that the degraded answer is one
  that `mode=keyword` may give, not that two requests order the rows of a second alike.
- **Float ties.** Two different sums of shares that are equal as fractions may
  differ as `float64`; the models use fractions.
- **In-memory vectors emptied by a restart**; `-dry-run` of backfill, which writes
  nothing.
- **What providers send and parse**, embeddings, prompts and cost; **HTTP plumbing,
  configuration, file storage, ids, pages**: I/O whose outcome, success or failure, is
  what the models choose.

## 8. Plan

The queue, the runner, screenshots, search, start, the in-memory store, statistics
and run detail are modelled, and their safety is proved. What is left:

1. Composition: a module in which `TaskQueue`'s `MaxExec` is `Pipeline`'s budget, so
   that the assumption of the queue's theorems is a theorem about the step list.
2. Weaker hypotheses: `BackfillReachesAll` asks for distinct seconds, where it would be
   enough that MySQL orders the rows of one second alike on all pages.
3. The abstract specification of a start and of the index: what a program that is up,
   and a row that is organized, promise, refined by `Migrations` and `Screenshots`.
