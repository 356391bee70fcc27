------------------------------ MODULE TaskQueue ------------------------------
(***************************************************************************)
(* The agent_tasks table and the embedded Worker that consumes it          *)
(* (internal/agent/worker.go, the queue methods of internal/store/store.go *)
(* and the two HTTP writes that put a run on the queue).                    *)
(*                                                                         *)
(* One process runs Concurrency poll goroutines and one cleaner.  Every     *)
(* statement sent to MySQL is a step of its own, so that the goroutines,    *)
(* the cleaner, a request handler, a crash or a stop can come between any   *)
(* two of them.  A row's columns are functions of the task; time is kept    *)
(* relative to NOW(): `due` is scheduled_at - NOW() and `age` is            *)
(* NOW() - locked_at.  uk_tasks_run makes run_id unique, so a task and its  *)
(* run share one identity.                                                  *)
(***************************************************************************)
EXTENDS Integers, FiniteSets

CONSTANTS Tasks,        (* the runs that clients may submit, one task each    *)
          Workers,      (* the poll goroutines (WorkerOptions.Concurrency)    *)
          NoTask,       (* what an idle goroutine holds                       *)
          MaxAttempts,  (* max_attempts of every task                         *)
          LockTimeout,  (* WorkerOptions.LockTimeout, in ticks                *)
          MaxExec,      (* longest time from dequeue to processOne's last write *)
          MaxDelay,     (* cap of the retry backoff (300 s in the code)       *)
          MaxOverdue,   (* bound: an older scheduled_at is no longer told apart *)
          MaxCrashes,   (* bound: crashes of the process                      *)
          MaxDBFaults,  (* bound: statements that MySQL fails                 *)
          MaxStops      (* bound: graceful stops                              *)

ASSUME ConstantsAssumption ==
    /\ NoTask \notin Tasks
    /\ MaxAttempts \in Nat \ {0}
    /\ LockTimeout \in Nat \ {0}
    /\ MaxExec \in Nat \ {0}
    /\ MaxDelay \in Nat \ {0}
    /\ MaxOverdue \in Nat
    /\ MaxCrashes \in Nat
    /\ MaxDBFaults \in Nat
    /\ MaxStops \in Nat

VARIABLES
    request,   \* the HTTP handler that submits the task
    status,    \* agent_tasks.status ("absent": no such row)
    attempts,  \* agent_tasks.attempts
    due,       \* agent_tasks.scheduled_at - NOW()
    age,       \* NOW() - agent_tasks.locked_at (0 when locked_at is NULL)
    run,       \* agent_runs.status
    pc,        \* where each goroutine is
    task,      \* the goroutine's local *store.Task ...
    seen,      \* ... and its Attempts field
    elapsed,   \* time since the goroutine's dequeue
    life,      \* the process
    crashes, dbFaults, stops

rowVars   == <<status, attempts, due, age>>
localVars == <<pc, task, seen, elapsed>>
faultVars == <<crashes, dbFaults, stops>>
vars == <<request, rowVars, run, localVars, life, faultVars>>

RequestState == {"new", "created", "accepted", "abandoned"}
TaskStatus   == {"absent", "queued", "running", "completed", "dead"}
RunStatus    == {"none", "running", "completed", "partial_success", "failed"}
Location     == {"idle", "claimed", "dequeued", "executing", "succeeded",
                 "failing", "burying", "exited"}

(* From its dequeue to its last write to the row a goroutine owns the task. *)
Owning == {"dequeued", "executing", "succeeded", "failing"}

Owner(w, t) == pc[w] \in Owning /\ task[w] = t

(* It works for the task one write longer, to bury the run of a dead task.  *)
Busy == Owning \cup {"burying"}

(* Inside DequeueTask's transaction the row is locked (FOR UPDATE). *)
RowLocked(t) == \E w \in Workers : pc[w] = "claimed" /\ task[w] = t

-----------------------------------------------------------------------------
TypeOK ==
    /\ request  \in [Tasks -> RequestState]
    /\ status   \in [Tasks -> TaskStatus]
    /\ attempts \in [Tasks -> Nat]
    /\ due      \in [Tasks -> Int]
    /\ age      \in [Tasks -> Nat]
    /\ run      \in [Tasks -> RunStatus]
    /\ pc       \in [Workers -> Location]
    /\ task     \in [Workers -> Tasks \cup {NoTask}]
    /\ seen     \in [Workers -> Nat]
    /\ elapsed  \in [Workers -> Nat]
    /\ life     \in {"up", "draining", "down"}
    /\ crashes  \in 0..MaxCrashes
    /\ dbFaults \in 0..MaxDBFaults
    /\ stops    \in 0..MaxStops

Init ==
    /\ request  = [t \in Tasks |-> "new"]
    /\ status   = [t \in Tasks |-> "absent"]
    /\ attempts = [t \in Tasks |-> 0]
    /\ due      = [t \in Tasks |-> 0]
    /\ age      = [t \in Tasks |-> 0]
    /\ run      = [t \in Tasks |-> "none"]
    /\ pc       = [w \in Workers |-> "idle"]
    /\ task     = [w \in Workers |-> NoTask]
    /\ seen     = [w \in Workers |-> 0]
    /\ elapsed  = [w \in Workers |-> 0]
    /\ life     = "up"
    /\ crashes  = 0
    /\ dbFaults = 0
    /\ stops    = 0

-----------------------------------------------------------------------------
(* Writes to a goroutine's locals and to a row. *)

Local(w, loc, t, n, e) ==
    /\ pc' = [pc EXCEPT ![w] = loc]
    /\ task' = [task EXCEPT ![w] = t]
    /\ seen' = [seen EXCEPT ![w] = n]
    /\ elapsed' = [elapsed EXCEPT ![w] = e]

Goto(w, loc) ==
    /\ pc' = [pc EXCEPT ![w] = loc]
    /\ UNCHANGED <<task, seen, elapsed>>

BackToPoll(w) == Local(w, "idle", NoTask, 0, 0)

(* What CompleteTask, RetryTask and MarkTaskDead do to a row.  They name it by  *)
(* its id only, and clear locked_at and locked_by whatever the row's state is.     *)
SetRow(t, s, d) ==
    /\ status' = [status EXCEPT ![t] = s]
    /\ due' = [due EXCEPT ![t] = d]
    /\ age' = [age EXCEPT ![t] = 0]
    /\ UNCHANGED attempts

DBFault == dbFaults < MaxDBFaults /\ dbFaults' = dbFaults + 1

-----------------------------------------------------------------------------
(* Deliberately wrong variants of definitions below.  None is part of Spec: *)
(* each shows, put in the place of the right one, that a property can fail. *)

(* FOR UPDATE without SKIP LOCKED's effect: a locked row is selected too.   *)
EligibleIgnoringLocks(t) == status[t] = "queued" /\ due[t] <= 0

(* attempts is not incremented by the dequeue.                              *)
LeaseRowUncounted(t) ==
    /\ status' = [status EXCEPT ![t] = "running"]
    /\ age' = [age EXCEPT ![t] = 0]
    /\ UNCHANGED <<attempts, due>>

(* The pipeline's failure is not written to the run.                        *)
AbortRunUnrecorded(w) ==
    /\ pc[w] = "executing"
    /\ Goto(w, "failing")
    /\ UNCHANGED <<request, rowVars, run, life, faultVars>>

(* attempts > max_attempts for attempts >= max_attempts.                    *)
ExhaustedOneLate(w) == seen[w] > MaxAttempts

(* The row gets the status 'failed' that the design lists for a task.       *)
MarkTaskFailed(w) ==
    /\ pc[w] = "failing"
    /\ seen[w] >= MaxAttempts
    /\ SetRow(task[w], "failed", due[task[w]])
    /\ Goto(w, "burying")
    /\ UNCHANGED <<request, run, life, faultVars>>

(* The task runs under the cancelled context and is dropped half-way.       *)
ExitLoopMidTask(w) ==
    /\ life = "draining"
    /\ pc[w] # "exited"
    /\ Local(w, "exited", NoTask, 0, 0)
    /\ UNCHANGED <<request, rowVars, run, life, faultVars>>

(* locked_at <= NOW() - timeout for locked_at < NOW() - timeout.            *)
StaleAtTimeout(t) == status[t] = "running" /\ age[t] >= LockTimeout

(* What the in-memory store does.                                           *)
ReleaseNothing == life = "up" /\ UNCHANGED vars

-----------------------------------------------------------------------------
(* The HTTP handlers: two writes, no transaction around them. *)

CreateAgentRun(t) ==
    /\ life # "down"
    /\ request[t] = "new"
    /\ request' = [request EXCEPT ![t] = "created"]
    /\ run' = [run EXCEPT ![t] = "running"]
    /\ UNCHANGED <<rowVars, localVars, life, faultVars>>

EnqueueTask(t) ==
    /\ life # "down"
    /\ request[t] = "created"
    /\ request' = [request EXCEPT ![t] = "accepted"]
    /\ status' = [status EXCEPT ![t] = "queued"]
    /\ due' = [due EXCEPT ![t] = 0]
    /\ UNCHANGED <<attempts, age, run, localVars, life, faultVars>>

(* EnqueueTask fails (r.Context() is cancelled when the client goes away):   *)
(* the handler answers 500 and leaves the run behind.                        *)
EnqueueFails(t) ==
    /\ life # "down"
    /\ request[t] = "created"
    /\ request' = [request EXCEPT ![t] = "abandoned"]
    /\ UNCHANGED <<rowVars, run, localVars, life, faultVars>>

-----------------------------------------------------------------------------
(* A poll goroutine: pollLoop, processOne, failOrRetry. *)

(* DequeueTask's SELECT: due rows that no other transaction has locked.     *)
Eligible(t) == status[t] = "queued" /\ due[t] <= 0 /\ ~RowLocked(t)

SelectTask(w) ==
    /\ life = "up"
    /\ pc[w] = "idle"
    /\ \E t \in Tasks :
        /\ Eligible(t)
        /\ \A u \in Tasks : Eligible(u) => due[t] <= due[u]
        /\ Local(w, "claimed", t, 0, 0)
    /\ UNCHANGED <<request, rowVars, run, life, faultVars>>

(* The UPDATE and COMMIT: the row takes the lease, the goroutine the task.  *)
LeaseRow(t) ==
    /\ status' = [status EXCEPT ![t] = "running"]
    /\ attempts' = [attempts EXCEPT ![t] = @ + 1]
    /\ age' = [age EXCEPT ![t] = 0]
    /\ UNCHANGED due

CommitDequeue(w) ==
    /\ life = "up"
    /\ pc[w] = "claimed"
    /\ LeaseRow(task[w])
    /\ Local(w, "dequeued", task[w], attempts[task[w]] + 1, 0)
    /\ UNCHANGED <<request, run, life, faultVars>>

(* The transaction rolls back: its context was cancelled by the stop ...     *)
RollbackOnStop(w) ==
    /\ life = "draining"
    /\ pc[w] = "claimed"
    /\ BackToPoll(w)
    /\ UNCHANGED <<request, rowVars, run, life, faultVars>>

(* ... or MySQL failed; when the COMMIT itself failed the row may be leased *)
(* all the same, and nobody works on it.                                    *)
DequeueFails(w) ==
    /\ pc[w] = "claimed"
    /\ DBFault
    /\ LeaseRow(task[w]) \/ UNCHANGED rowVars
    /\ BackToPoll(w)
    /\ UNCHANGED <<request, run, life, crashes, stops>>

(* GetAgentRun, then the first write of AgentRunner.Execute.                *)
StartRun(w) ==
    /\ pc[w] = "dequeued"
    /\ run' = [run EXCEPT ![task[w]] = "running"]
    /\ Goto(w, "executing")
    /\ UNCHANGED <<request, rowVars, life, faultVars>>

(* Execute's last write, by the way the pipeline ended.                     *)
FinishRun(w) ==
    /\ pc[w] = "executing"
    /\ \E s \in {"completed", "partial_success"} : run' = [run EXCEPT ![task[w]] = s]
    /\ Goto(w, "succeeded")
    /\ UNCHANGED <<request, rowVars, life, faultVars>>

AbortRun(w) ==
    /\ pc[w] = "executing"
    /\ run' = [run EXCEPT ![task[w]] = "failed"]
    /\ Goto(w, "failing")
    /\ UNCHANGED <<request, rowVars, life, faultVars>>

CompleteTask(w) ==
    /\ pc[w] = "succeeded"
    /\ ~RowLocked(task[w])
    /\ SetRow(task[w], "completed", due[task[w]])
    /\ BackToPoll(w)
    /\ UNCHANGED <<request, run, life, faultVars>>

Exhausted(w) == seen[w] >= MaxAttempts

(* 2^n seconds, at most MaxDelay.                                           *)
RetryDelay(n) == IF 2^n \in 1..MaxDelay THEN 2^n ELSE MaxDelay

RetryTask(w) ==
    /\ pc[w] = "failing"
    /\ ~Exhausted(w)
    /\ ~RowLocked(task[w])
    /\ SetRow(task[w], "queued", RetryDelay(seen[w]))
    /\ BackToPoll(w)
    /\ UNCHANGED <<request, run, life, faultVars>>

MarkTaskDead(w) ==
    /\ pc[w] = "failing"
    /\ Exhausted(w)
    /\ ~RowLocked(task[w])
    /\ SetRow(task[w], "dead", due[task[w]])
    /\ Goto(w, "burying")
    /\ UNCHANGED <<request, run, life, faultVars>>

BuryRun(w) ==
    /\ pc[w] = "burying"
    /\ run' = [run EXCEPT ![task[w]] = "failed"]
    /\ BackToPoll(w)
    /\ UNCHANGED <<request, rowVars, life, faultVars>>

(* A failed GetAgentRun is a failed task.  The errors of the writes are     *)
(* discarded (_ =): the goroutine goes on as if the row had been written.   *)
StatementFails(w) ==
    /\ DBFault
    /\ \/ pc[w] = "dequeued"  /\ \E loc \in {"failing", "executing"} : Goto(w, loc)
       \/ pc[w] = "executing" /\ \E loc \in {"failing", "succeeded"} : Goto(w, loc)
       \/ pc[w] = "failing" /\ Exhausted(w) /\ Goto(w, "burying")
       \/ /\ \/ pc[w] \in {"succeeded", "burying"}
             \/ pc[w] = "failing" /\ ~Exhausted(w)
          /\ BackToPoll(w)
    /\ UNCHANGED <<request, rowVars, run, life, crashes, stops>>

(* pollLoop sees ctx.Done() at the top of its loop or while it sleeps.      *)
ExitLoop(w) ==
    /\ life = "draining"
    /\ pc[w] = "idle"
    /\ Goto(w, "exited")
    /\ UNCHANGED <<request, rowVars, run, life, faultVars>>

Step(w) ==
    \/ SelectTask(w) \/ CommitDequeue(w) \/ RollbackOnStop(w)
    \/ StartRun(w) \/ FinishRun(w) \/ AbortRun(w)
    \/ CompleteTask(w) \/ RetryTask(w) \/ MarkTaskDead(w) \/ BuryRun(w)
    \/ ExitLoop(w)

Fault(w) == DequeueFails(w) \/ StatementFails(w)

-----------------------------------------------------------------------------
(* staleLockCleaner: rows whose lease is older than the timeout go back.    *)

Stale(t) == status[t] = "running" /\ age[t] > LockTimeout

ReleaseStaleLockedTasks ==
    /\ life = "up"
    /\ \E t \in Tasks : Stale(t)
    /\ status' = [t \in Tasks |-> IF Stale(t) THEN "queued" ELSE status[t]]
    /\ age' = [t \in Tasks |-> IF Stale(t) THEN 0 ELSE age[t]]
    /\ UNCHANGED <<request, attempts, due, run, localVars, life, faultVars>>

(* One tick.  No goroutine is busy for longer than MaxExec: the step    *)
(* timeouts bound a run, and MaxExec is what they and MySQL add up to.      *)
Tick ==
    /\ \A w \in Workers : pc[w] \in Busy => elapsed[w] < MaxExec
    /\ due' = [t \in Tasks |-> IF due[t] > -MaxOverdue THEN due[t] - 1 ELSE due[t]]
    /\ age' = [t \in Tasks |-> IF status[t] = "running" /\ age[t] <= LockTimeout
                               THEN age[t] + 1 ELSE age[t]]
    /\ elapsed' = [w \in Workers |-> IF pc[w] \in Busy THEN elapsed[w] + 1
                                     ELSE elapsed[w]]
    /\ UNCHANGED <<request, status, attempts, run, pc, task, seen, life, faultVars>>

-----------------------------------------------------------------------------
(* The process: main of cmd/api. *)

(* SIGTERM: workerCancel().  The HTTP server still accepts requests.        *)
Stop ==
    /\ life = "up"
    /\ stops < MaxStops
    /\ life' = "draining"
    /\ stops' = stops + 1
    /\ UNCHANGED <<request, rowVars, run, localVars, crashes, dbFaults>>

(* Everything the process holds in memory is gone; a handler between its    *)
(* two writes never makes the second.                                       *)
ProcessGone ==
    /\ life' = "down"
    /\ request' = [t \in Tasks |-> IF request[t] = "created" THEN "abandoned"
                                   ELSE request[t]]
    /\ pc' = [w \in Workers |-> "exited"]
    /\ task' = [w \in Workers |-> NoTask]
    /\ seen' = [w \in Workers |-> 0]
    /\ elapsed' = [w \in Workers |-> 0]
    /\ UNCHANGED <<rowVars, run>>

WorkersExited == \A w \in Workers : pc[w] = "exited"

(* wg.Wait() returns, workerDone is closed, Shutdown makes main return.     *)
Halt ==
    /\ life = "draining"
    /\ WorkersExited
    /\ ProcessGone
    /\ UNCHANGED faultVars

Crash ==
    /\ life # "down"
    /\ crashes < MaxCrashes
    /\ crashes' = crashes + 1
    /\ ProcessGone
    /\ UNCHANGED <<dbFaults, stops>>

Restart ==
    /\ life = "down"
    /\ life' = "up"
    /\ pc' = [w \in Workers |-> "idle"]
    /\ UNCHANGED <<request, rowVars, run, task, seen, elapsed, faultVars>>

-----------------------------------------------------------------------------
Submit == \E t \in Tasks : CreateAgentRun(t) \/ EnqueueTask(t) \/ EnqueueFails(t)

Next ==
    \/ Submit
    \/ \E w \in Workers : Step(w) \/ Fault(w)
    \/ ReleaseStaleLockedTasks
    \/ Tick
    \/ Stop \/ Halt \/ Crash \/ Restart

Spec == Init /\ [][Next]_vars

(* Goroutines and handlers are scheduled, the ticker ticks, time passes, a  *)
(* stopped process ends and something starts it again.  Nothing makes a     *)
(* client send, a statement fail, or the process crash or stop.             *)
Fairness ==
    /\ \A t \in Tasks : WF_vars(EnqueueTask(t) \/ EnqueueFails(t))
    /\ \A w \in Workers : WF_vars(Step(w))
    /\ WF_vars(ReleaseStaleLockedTasks)
    /\ WF_vars(Tick)
    /\ WF_vars(Halt)
    /\ WF_vars(Restart)

FairSpec == Spec /\ Fairness
-----------------------------------------------------------------------------
(* Two goroutines never work for the same task: a lease is not released      *)
(* under its owner, and a row is not handed out twice (FOR UPDATE SKIP      *)
(* LOCKED, locked_at, ReleaseStaleLockedTasks).  Needs MaxExec <= LockTimeout. *)
LeaseExclusive ==
    \A v, w \in Workers :
        v # w /\ pc[v] \in Busy /\ pc[w] \in Busy => task[v] # task[w]

(* completed and dead are final: no late CompleteTask, RetryTask,           *)
(* MarkTaskDead or release, all of which ignore the row's state or read it  *)
(* long after the dequeue, ever brings a settled task back.                 *)
SettledIsFinal ==
    [][\A t \in Tasks : status[t] \in {"completed", "dead"} => status'[t] = status[t]]_vars

(* A task starts more often than max_attempts only because a crash or a     *)
(* lost statement kept an attempt from being accounted for, one start each. *)
AttemptsWithinFaults ==
    \A t \in Tasks : attempts[t] <= MaxAttempts + crashes + dbFaults

(* A graceful stop hands back every lease: a running row nobody works on    *)
(* is the trace of a crash or of a lost statement, never of a stop.         *)
OrphanedOnlyByFault ==
    \A t \in Tasks :
        status[t] = "running" /\ (\A w \in Workers : ~Owner(w, t)) => crashes + dbFaults > 0

(* When no statement is lost, the run tells what became of its settled      *)
(* task, even if the process crashed between the writes to the two rows.    *)
RunAgreesWithTask ==
    dbFaults = 0 =>
        \A t \in Tasks :
            /\ status[t] = "completed" => run[t] \in {"completed", "partial_success"}
            /\ status[t] = "dead" => run[t] = "failed"

(* Every task whose request was accepted is settled in the end, however the *)
(* process stops, crashes and restarts (a bounded number of times).         *)
AcceptedIsSettled ==
    \A t \in Tasks : request[t] = "accepted" ~> status[t] \in {"completed", "dead"}

(* The table implements the leased queue.                                   *)
Abstract == INSTANCE LeasedQueue
                WITH Items <- Tasks, MaxTries <- MaxAttempts,
                     phase <- status, tries <- attempts
ImplementsLeasedQueue == Abstract!Spec
=============================================================================
