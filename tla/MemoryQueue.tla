------------------------------ MODULE MemoryQueue ------------------------------
(***************************************************************************)
(* The preview mode, DATABASE_DSN=memory: the Worker on store.Memory        *)
(* (internal/store/memory.go).  Every method of the store holds one mutex   *)
(* from its first line to its return and ignores its context, so a call is  *)
(* one step that cannot fail for want of a connection.  Nothing survives    *)
(* the process, no lease expires (ReleaseStaleLockedTasks returns 0), and   *)
(* RetryTask ignores its delay.  Time therefore plays no part.               *)
(*                                                                         *)
(* A task's id is its position in the slice: tasks are only appended.       *)
(***************************************************************************)
EXTENDS Integers, Sequences, FiniteSets, SequencesExt

CONSTANTS Runs,         (* the runs that requests create                      *)
          Shots,        (* the screenshots they may name                      *)
          NoShot,       (* what an unused run is about                        *)
          Workers,      (* the poll goroutines                                *)
          MaxAttempts   (* max_attempts of every task                         *)

ASSUME MemoryAssumption == NoShot \notin Shots /\ MaxAttempts \in Nat \ {0}

VARIABLES
    screenshots, \* Memory.screenshots: status, "none" without an entry
    runs,        \* Memory.runs: status, "none" without an entry
    tasks,       \* Memory.tasks: [run, status, attempts], in order of EnqueueTask
    about,       \* a run's screenshot_id
    request,     \* the handler that submits the run
    pc,          \* where each goroutine is
    held,        \* its *store.Task: the id (0: none) ...
    seen,        \* ... and Attempts
    life,        \* the process
    late         \* history: tasks a goroutine took after SIGTERM

storeVars  == <<screenshots, runs, tasks>>
workerVars == <<pc, held, seen, late>>
vars == <<storeVars, about, request, workerVars, life>>

Location == {"top", "polling", "dequeued", "executing", "missing", "saving",
             "finishing", "succeeded", "failing", "burying", "exited"}

Busy == Location \ {"top", "polling", "exited"}

TaskType == [run : Runs, status : {"queued", "running", "completed", "dead"}, attempts : Nat]

TypeOK ==
    /\ screenshots \in [Shots -> {"none", "uploaded", "organized"}]
    /\ runs \in [Runs -> {"none", "running", "completed", "partial_success", "failed"}]
    /\ tasks \in Seq(TaskType)
    /\ IsInjective([i \in DOMAIN tasks |-> tasks[i].run])
    /\ about \in [Runs -> Shots \cup {NoShot}]
    /\ request \in [Runs -> {"new", "uploaded", "created", "accepted", "lost"}]
    /\ pc \in [Workers -> Location]
    /\ held \in [Workers -> 0..Len(tasks)]
    /\ seen \in [Workers -> Nat]
    /\ life \in {"up", "draining", "down"}
    /\ late \in [Workers -> Nat]

Init ==
    /\ screenshots = [s \in Shots |-> "none"]
    /\ runs = [r \in Runs |-> "none"]
    /\ tasks = <<>>
    /\ about = [r \in Runs |-> NoShot]
    /\ request = [r \in Runs |-> "new"]
    /\ pc = [w \in Workers |-> "top"]
    /\ held = [w \in Workers |-> 0]
    /\ seen = [w \in Workers |-> 0]
    /\ life = "up"
    /\ late = [w \in Workers |-> 0]

-----------------------------------------------------------------------------
Goto(w, loc) == pc' = [pc EXCEPT ![w] = loc] /\ UNCHANGED <<held, seen, late>>

Run(w) == tasks[held[w]].run

SetTask(w, s) == tasks' = [tasks EXCEPT ![held[w]].status = s]

(* FinishAgentRun. *)
SetRun(w, s) == runs' = [runs EXCEPT ![Run(w)] = s]

Release(w) ==
    /\ pc' = [pc EXCEPT ![w] = "top"]
    /\ held' = [held EXCEPT ![w] = 0]
    /\ seen' = [seen EXCEPT ![w] = 0]
    /\ UNCHANGED late

-----------------------------------------------------------------------------
(* Deliberately wrong variants of definitions below; none is part of Spec.  *)

(* Any task that is not settled is taken.                                   *)
DequeuableUnsettled(i) == tasks[i].status \in {"queued", "running"}

(* The newest task first.                                                   *)
TakesNewest(i) ==
    tasks[i].status = "queued" /\ \A j \in DOMAIN tasks : tasks[j].status = "queued" => j <= i

(* attempts > max_attempts for attempts >= max_attempts.                    *)
ExhaustedOneLate(w) == seen[w] > MaxAttempts

(* pollLoop looks at its context only while it sleeps.                      *)
PollRegardless(w) ==
    /\ pc[w] = "top" /\ life # "down"
    /\ Goto(w, "polling")
    /\ UNCHANGED <<storeVars, about, request, life>>

(* A retry keeps the row "running", for a cleaner that does not exist here. *)
RetryTaskByLease(w) ==
    /\ pc[w] = "failing" /\ seen[w] < MaxAttempts
    /\ SetTask(w, "running")
    /\ Release(w)
    /\ UNCHANGED <<screenshots, runs, about, request, life>>

(* The pipeline's failure is not written to the run.                        *)
AbortRunUnrecorded(w) ==
    /\ pc[w] = "missing"
    /\ Goto(w, "failing")
    /\ UNCHANGED <<storeVars, about, request, life>>

(* The dequeue copies the task before it increments Attempts.               *)
TakenUncounted(i) == [tasks EXCEPT ![i].status = "running"]

(* The status 'failed' that the design lists for a task.                    *)
MarkTaskFailed(w) ==
    /\ pc[w] = "failing" /\ seen[w] >= MaxAttempts
    /\ SetTask(w, "failed")
    /\ Goto(w, "burying")
    /\ UNCHANGED <<screenshots, runs, about, request, life>>

-----------------------------------------------------------------------------
(* The handlers.  POST /v1/agent-runs names any screenshot: the store, which*)
(* has no foreign keys, takes one that does not exist.                      *)

CreateScreenshot(r, s) ==
    /\ life # "down"
    /\ request[r] = "new" /\ screenshots[s] = "none"
    /\ screenshots' = [screenshots EXCEPT ![s] = "uploaded"]
    /\ about' = [about EXCEPT ![r] = s]
    /\ request' = [request EXCEPT ![r] = "uploaded"]
    /\ UNCHANGED <<runs, tasks, workerVars, life>>

CreateAgentRun(r) ==
    /\ life # "down"
    /\ \/ request[r] = "uploaded" /\ UNCHANGED about
       \/ request[r] = "new" /\ \E s \in Shots : about' = [about EXCEPT ![r] = s]
    /\ runs' = [runs EXCEPT ![r] = "running"]
    /\ request' = [request EXCEPT ![r] = "created"]
    /\ UNCHANGED <<screenshots, tasks, workerVars, life>>

EnqueueTask(r) ==
    /\ life # "down"
    /\ request[r] = "created"
    /\ tasks' = Append(tasks, [run |-> r, status |-> "queued", attempts |-> 0])
    /\ request' = [request EXCEPT ![r] = "accepted"]
    /\ UNCHANGED <<screenshots, runs, about, workerVars, life>>

-----------------------------------------------------------------------------
(* A poll goroutine. *)

(* pollLoop looks at its context, and only then calls processOne.           *)
Poll(w) ==
    /\ pc[w] = "top" /\ life = "up"
    /\ Goto(w, "polling")
    /\ UNCHANGED <<storeVars, about, request, life>>

(* The first queued task of the slice.                                      *)
Dequeuable(i) ==
    tasks[i].status = "queued" /\ \A j \in 1..i - 1 : tasks[j].status # "queued"

Taken(i) == [tasks EXCEPT ![i].status = "running", ![i].attempts = @ + 1]

DequeueTask(w) ==
    /\ pc[w] = "polling"
    /\ \E i \in DOMAIN tasks :
        /\ Dequeuable(i)
        /\ tasks' = Taken(i)
        /\ held' = [held EXCEPT ![w] = i]
        /\ seen' = [seen EXCEPT ![w] = tasks'[i].attempts]
    /\ pc' = [pc EXCEPT ![w] = "dequeued"]
    /\ late' = [late EXCEPT ![w] = IF life = "up" THEN @ ELSE @ + 1]
    /\ UNCHANGED <<screenshots, runs, about, request, life>>

(* ErrNoRows: the goroutine sleeps for the poll interval.                   *)
FindNothing(w) ==
    /\ pc[w] = "polling"
    /\ ~ \E i \in DOMAIN tasks : tasks[i].status = "queued"
    /\ Goto(w, "top")
    /\ UNCHANGED <<storeVars, about, request, life>>

(* ctx.Done(), at the top of the loop or asleep.                            *)
ExitLoop(w) ==
    /\ pc[w] = "top" /\ life = "draining"
    /\ Goto(w, "exited")
    /\ UNCHANGED <<storeVars, about, request, life>>

(* GetAgentRun finds the run, which was created first; Execute's first write. *)
StartRun(w) ==
    /\ pc[w] = "dequeued"
    /\ SetRun(w, "running")
    /\ Goto(w, "executing")
    /\ UNCHANGED <<screenshots, tasks, about, request, life>>

(* The ocr tool's GetScreenshot.  It is the one thing that can abort a run  *)
(* here: ocr has a fallback, llm_insight degrades and embedding is skipped. *)
GetScreenshot(w) ==
    /\ pc[w] = "executing"
    /\ Goto(w, IF screenshots[about[Run(w)]] = "none" THEN "missing" ELSE "saving")
    /\ UNCHANGED <<storeVars, about, request, life>>

(* UpdateScreenshotInsight: the entry exists, since nothing removes one.    *)
SaveMemory(w) ==
    /\ pc[w] = "saving"
    /\ screenshots' = [screenshots EXCEPT ![about[Run(w)]] = "organized"]
    /\ Goto(w, "finishing")
    /\ UNCHANGED <<runs, tasks, about, request, life>>

FinishRun(w) ==
    /\ pc[w] = "finishing"
    /\ \E s \in {"completed", "partial_success"} : SetRun(w, s)
    /\ Goto(w, "succeeded")
    /\ UNCHANGED <<screenshots, tasks, about, request, life>>

AbortRun(w) ==
    /\ pc[w] = "missing"
    /\ SetRun(w, "failed")
    /\ Goto(w, "failing")
    /\ UNCHANGED <<screenshots, tasks, about, request, life>>

CompleteTask(w) ==
    /\ pc[w] = "succeeded"
    /\ SetTask(w, "completed")
    /\ Release(w)
    /\ UNCHANGED <<screenshots, runs, about, request, life>>

Exhausted(w) == seen[w] >= MaxAttempts

RetryTask(w) ==
    /\ pc[w] = "failing" /\ ~Exhausted(w)
    /\ SetTask(w, "queued")
    /\ Release(w)
    /\ UNCHANGED <<screenshots, runs, about, request, life>>

MarkTaskDead(w) ==
    /\ pc[w] = "failing" /\ Exhausted(w)
    /\ SetTask(w, "dead")
    /\ Goto(w, "burying")
    /\ UNCHANGED <<screenshots, runs, about, request, life>>

BuryRun(w) ==
    /\ pc[w] = "burying"
    /\ SetRun(w, "failed")
    /\ Release(w)
    /\ UNCHANGED <<screenshots, tasks, about, request, life>>

Step(w) ==
    \/ Poll(w) \/ DequeueTask(w) \/ FindNothing(w) \/ ExitLoop(w)
    \/ StartRun(w) \/ GetScreenshot(w) \/ SaveMemory(w) \/ FinishRun(w) \/ AbortRun(w)
    \/ CompleteTask(w) \/ RetryTask(w) \/ MarkTaskDead(w) \/ BuryRun(w)

-----------------------------------------------------------------------------
(* main: SIGTERM; the return once the goroutines are gone; a crash.  The    *)
(* store goes with the process, and the next one starts at Init.             *)

Stop ==
    /\ life = "up"
    /\ life' = "draining"
    /\ UNCHANGED <<storeVars, about, request, workerVars>>

ProcessGone ==
    /\ life' = "down"
    /\ request' = [r \in Runs |-> IF request[r] \in {"uploaded", "created"} THEN "lost"
                                  ELSE request[r]]
    /\ UNCHANGED <<storeVars, about, workerVars>>

Halt == life = "draining" /\ (\A w \in Workers : pc[w] = "exited") /\ ProcessGone

Crash == life # "down" /\ ProcessGone

-----------------------------------------------------------------------------
Submit(r) == CreateAgentRun(r) \/ EnqueueTask(r) \/ \E s \in Shots : CreateScreenshot(r, s)

Running == life # "down" /\ \E w \in Workers : Step(w)

Next == (\E r \in Runs : Submit(r)) \/ Running \/ Stop \/ Halt \/ Crash

Spec == Init /\ [][Next]_vars

(* Handlers and goroutines are scheduled and a process that stops ends; no  *)
(* client has to send, and nothing has to stop or crash.                    *)
Fairness ==
    /\ \A r \in Runs : WF_vars(request[r] # "new" /\ Submit(r))
    /\ \A w \in Workers : WF_vars(life # "down" /\ Step(w))
    /\ WF_vars(Halt)

FairSpec == Spec /\ Fairness

-----------------------------------------------------------------------------
(* GetStats over the whole history: under the mutex, one moment of the maps.*)

With(f, S) == Cardinality({x \in DOMAIN f : f[x] \in S})
TasksWith(st) == With([i \in DOMAIN tasks |-> tasks[i].status], {st})

GetStats ==
    [total     |-> With(runs, {"running", "completed", "partial_success", "failed"}),
     succeeded |-> With(runs, {"completed", "partial_success"}),
     failed    |-> With(runs, {"failed"}),
     queued    |-> TasksWith("queued"),
     running   |-> TasksWith("running"),
     dead      |-> TasksWith("dead"),
     organized |-> With(screenshots, {"organized"})]

-----------------------------------------------------------------------------
(* Two goroutines never hold one task.  No lease expires here, so this needs*)
(* no assumption on how long a run takes.                                   *)
OneHolder ==
    \A v, w \in Workers : v # w /\ pc[v] \in Busy /\ pc[w] \in Busy => held[v] # held[w]

(* max_attempts is kept exactly: there is no cleaner to start a task again. *)
AttemptsWithinMax == \A i \in DOMAIN tasks : tasks[i].attempts <= MaxAttempts

(* Tasks are first started in the order in which they were accepted, though *)
(* a retry goes before younger tasks (it keeps its place in the slice).     *)
TakenInOrder ==
    \A i, j \in DOMAIN tasks :
        i < j /\ tasks[j].attempts > 0 => tasks[i].attempts > 0

(* After SIGTERM a goroutine takes at most the one task it had already      *)
(* looked for: DequeueTask ignores the cancelled context.                   *)
OneTaskAfterStop == \A w \in Workers : late[w] <= 1

(* Whatever the goroutines are in the middle of, the page of statistics adds*)
(* up: a dead task's run is counted as failed, a success is neither queued  *)
(* nor dead, and an organized screenshot is some success or a run at work.  *)
StatsAddUp ==
    LET g == GetStats
    IN  /\ g.dead <= g.failed
        /\ g.succeeded + g.queued + g.dead <= g.total
        /\ g.organized <= g.succeeded + g.running
        /\ g.succeeded > 0 => g.organized > 0

(* A task that was accepted is settled, unless the process is told to stop  *)
(* or crashes, and then all is lost.                                        *)
Phase(r) == IF \E i \in DOMAIN tasks : tasks[i].run = r
            THEN tasks[CHOOSE i \in DOMAIN tasks : tasks[i].run = r].status
            ELSE "absent"

AcceptedIsSettled ==
    \A r \in Runs :
        request[r] = "accepted" ~> (Phase(r) \in {"completed", "dead"} \/ life # "up")

(* SIGTERM ends the process, although requests still fill the queue.        *)
StopEnds == life = "draining" ~> life = "down"

(* The slice implements the leased queue that agent_tasks implements.       *)
Attempts(r) == IF \E i \in DOMAIN tasks : tasks[i].run = r
               THEN tasks[CHOOSE i \in DOMAIN tasks : tasks[i].run = r].attempts
               ELSE 0

Abstract == INSTANCE LeasedQueue
                WITH Items <- Runs, MaxTries <- MaxAttempts,
                     phase <- [r \in Runs |-> Phase(r)],
                     tries <- [r \in Runs |-> Attempts(r)]
ImplementsLeasedQueue == Abstract!Spec
=============================================================================
