--------------------------- MODULE TaskQueueProofs ---------------------------
(***************************************************************************)
(* The inductive invariant behind the safety of TaskQueue and the theorems  *)
(* that follow from it, for every number of tasks, goroutines, attempts,    *)
(* crashes, statement failures and stops.                                   *)
(***************************************************************************)
EXTENDS TaskQueue, TLAPS

Holding == Busy \cup {"claimed"}

(* A goroutine that is past its SELECT holds a task.                        *)
HasTask == \A w \in Workers : pc[w] \in Holding => task[w] \in Tasks

Typed == TypeOK /\ HasTask

(* No goroutine runs in a process that is gone.                             *)
DownInv == life = "down" => WorkersExited

(* Nothing is in the table before its request was accepted.                 *)
RequestInv == \A t \in Tasks : request[t] # "accepted" => status[t] = "absent"

(* What a goroutine remembers is what the row says, and the lease is not    *)
(* older than the work.                                                     *)
JobInv ==
    \A w \in Workers :
        /\ pc[w] = "claimed" => status[task[w]] = "queued"
        /\ pc[w] \in Owning => status[task[w]] = "running"
        /\ pc[w] = "burying" => status[task[w]] \in {"running", "dead"}
        /\ pc[w] \in Busy =>
            /\ attempts[task[w]] = seen[w]
            /\ age[task[w]] <= elapsed[w]
            /\ elapsed[w] <= MaxExec

(* A row is held once: leased to, or locked by, one goroutine.              *)
HeldOnce ==
    \A v, w \in Workers :
        v # w /\ pc[v] \in Holding /\ pc[w] \in Holding => task[v] # task[w]

Owned(t) == \E w \in Workers : Owner(w, t)
Faults == crashes + dbFaults

(* A row that may be handed out again has an attempt to spare, once each    *)
(* fault has been granted one.                                              *)
AttemptsInv ==
    \A t \in Tasks :
        /\ status[t] = "absent" => attempts[t] = 0
        /\ attempts[t] <= MaxAttempts + Faults
        /\ status[t] = "queued" => attempts[t] < MaxAttempts + Faults
        /\ status[t] = "running" /\ ~Owned(t) =>
               Faults > 0 /\ attempts[t] < MaxAttempts + Faults

LeaseInv == DownInv /\ RequestInv /\ JobInv /\ HeldOnce

-----------------------------------------------------------------------------
(* The backoff is a number of ticks for every count of attempts.            *)
LEMMA RetryDelayType == \A n : RetryDelay(n) \in Nat
  BY ConstantsAssumption DEF RetryDelay

(* The tables begin empty, the goroutines idle: all in type.                *)
LEMMA TypeInit == Init => Typed
  BY ConstantsAssumption
  DEF Init, Typed, HasTask, Holding, Busy, Owning, TypeOK, RequestState, TaskStatus, RunStatus, Location

(* Every step keeps every variable in its type.                             *)
LEMMA TypeStep == Typed /\ [Next]_vars => Typed'
  <1> SUFFICES ASSUME Typed, [Next]_vars PROVE Typed'
    OBVIOUS
  <1> USE ConstantsAssumption DEF Typed, HasTask, Holding, Busy, Owning, TypeOK, RequestState,
        TaskStatus, RunStatus, Location,
        rowVars, localVars, faultVars
  <1>1. ASSUME NEW t \in Tasks, CreateAgentRun(t) PROVE Typed'
    BY <1>1 DEF CreateAgentRun
  <1>2. ASSUME NEW t \in Tasks, EnqueueTask(t) PROVE Typed'
    BY <1>2 DEF EnqueueTask
  <1>3. ASSUME NEW t \in Tasks, EnqueueFails(t) PROVE Typed'
    BY <1>3 DEF EnqueueFails
  <1>4. ASSUME NEW w \in Workers, SelectTask(w) PROVE Typed'
    BY <1>4 DEF SelectTask, Local
  <1>5. ASSUME NEW w \in Workers, CommitDequeue(w) PROVE Typed'
    BY <1>5 DEF CommitDequeue, Local, LeaseRow
  <1>6. ASSUME NEW w \in Workers, RollbackOnStop(w) PROVE Typed'
    BY <1>6 DEF RollbackOnStop, BackToPoll, Local
  <1>7. ASSUME NEW w \in Workers, StartRun(w) PROVE Typed'
    BY <1>7 DEF StartRun, Goto
  <1>8. ASSUME NEW w \in Workers, FinishRun(w) PROVE Typed'
    BY <1>8 DEF FinishRun, Goto
  <1>9. ASSUME NEW w \in Workers, AbortRun(w) PROVE Typed'
    BY <1>9 DEF AbortRun, Goto
  <1>10. ASSUME NEW w \in Workers, CompleteTask(w) PROVE Typed'
    BY <1>10 DEF CompleteTask, SetRow, BackToPoll, Local
  <1>11. ASSUME NEW w \in Workers, RetryTask(w) PROVE Typed'
    BY <1>11, RetryDelayType DEF RetryTask, SetRow, BackToPoll, Local
  <1>12. ASSUME NEW w \in Workers, MarkTaskDead(w) PROVE Typed'
    BY <1>12 DEF MarkTaskDead, SetRow, Goto
  <1>13. ASSUME NEW w \in Workers, BuryRun(w) PROVE Typed'
    BY <1>13 DEF BuryRun, BackToPoll, Local
  <1>14. ASSUME NEW w \in Workers, ExitLoop(w) PROVE Typed'
    BY <1>14 DEF ExitLoop, Goto
  <1>15. ASSUME NEW w \in Workers, DequeueFails(w) PROVE Typed'
    BY <1>15 DEF DequeueFails, DBFault, LeaseRow, BackToPoll, Local
  <1>16. ASSUME NEW w \in Workers, StatementFails(w) PROVE Typed'
    BY <1>16 DEF StatementFails, DBFault, Goto, BackToPoll, Local
  <1>17. CASE ReleaseStaleLockedTasks
    BY <1>17 DEF ReleaseStaleLockedTasks
  <1>18. CASE Tick
    BY <1>18 DEF Tick
  <1>19. CASE Stop
    BY <1>19 DEF Stop
  <1>20. CASE Halt
    BY <1>20 DEF Halt, ProcessGone
  <1>21. CASE Crash
    BY <1>21 DEF Crash, ProcessGone
  <1>22. CASE Restart
    BY <1>22 DEF Restart
  <1>23. CASE UNCHANGED vars
    BY <1>23 DEF vars
  <1> QED
    BY <1>1, <1>2, <1>3, <1>4, <1>5, <1>6, <1>7, <1>8, <1>9, <1>10, <1>11, <1>12, <1>13, <1>14,
       <1>15, <1>16, <1>17, <1>18, <1>19, <1>20, <1>21, <1>22, <1>23
    DEF Next, Submit, Step, Fault

-----------------------------------------------------------------------------
(* No goroutine holds a task at first.                                      *)
LEMMA LeaseInit == Init => LeaseInv
  BY ConstantsAssumption
  DEF Init, LeaseInv, DownInv, WorkersExited, RequestInv, JobInv, HeldOnce, Holding, Busy, Owning

(* A step keeps the leases when no goroutine is busy beyond the timeout.    *)
LEMMA LeaseStep ==
    ASSUME MaxExec <= LockTimeout, Typed, LeaseInv, [Next]_vars
    PROVE  LeaseInv'
  <1> USE ConstantsAssumption DEF Typed, HasTask, LeaseInv, DownInv, WorkersExited, RequestInv,
        JobInv, HeldOnce,
        Holding, Busy, Owning, TypeOK, rowVars, localVars, faultVars
  <1>1. ASSUME NEW t \in Tasks, CreateAgentRun(t) PROVE LeaseInv'
    BY <1>1 DEF CreateAgentRun
  <1>2. ASSUME NEW t \in Tasks, EnqueueTask(t) PROVE LeaseInv'
    BY <1>2 DEF EnqueueTask
  <1>3. ASSUME NEW t \in Tasks, EnqueueFails(t) PROVE LeaseInv'
    BY <1>3 DEF EnqueueFails
  <1>4. ASSUME NEW w \in Workers, SelectTask(w) PROVE LeaseInv'
    BY <1>4 DEF SelectTask, Eligible, RowLocked, Local
  <1>5. ASSUME NEW w \in Workers, CommitDequeue(w) PROVE LeaseInv'
    BY <1>5 DEF CommitDequeue, Local, LeaseRow
  <1>6. ASSUME NEW w \in Workers, RollbackOnStop(w) PROVE LeaseInv'
    BY <1>6 DEF RollbackOnStop, BackToPoll, Local
  <1>7. ASSUME NEW w \in Workers, StartRun(w) PROVE LeaseInv'
    BY <1>7 DEF StartRun, Goto
  <1>8. ASSUME NEW w \in Workers, FinishRun(w) PROVE LeaseInv'
    BY <1>8 DEF FinishRun, Goto
  <1>9. ASSUME NEW w \in Workers, AbortRun(w) PROVE LeaseInv'
    BY <1>9 DEF AbortRun, Goto
  <1>10. ASSUME NEW w \in Workers, CompleteTask(w) PROVE LeaseInv'
    BY <1>10 DEF CompleteTask, SetRow, BackToPoll, Local
  <1>11. ASSUME NEW w \in Workers, RetryTask(w) PROVE LeaseInv'
    BY <1>11 DEF RetryTask, SetRow, BackToPoll, Local
  <1>12. ASSUME NEW w \in Workers, MarkTaskDead(w) PROVE LeaseInv'
    BY <1>12 DEF MarkTaskDead, SetRow, Goto
  <1>13. ASSUME NEW w \in Workers, BuryRun(w) PROVE LeaseInv'
    BY <1>13 DEF BuryRun, BackToPoll, Local
  <1>14. ASSUME NEW w \in Workers, ExitLoop(w) PROVE LeaseInv'
    BY <1>14 DEF ExitLoop, Goto
  <1>15. ASSUME NEW w \in Workers, DequeueFails(w) PROVE LeaseInv'
    BY <1>15 DEF DequeueFails, DBFault, LeaseRow, BackToPoll, Local
  <1>16. ASSUME NEW w \in Workers, StatementFails(w) PROVE LeaseInv'
    BY <1>16 DEF StatementFails, DBFault, Goto, BackToPoll, Local
  <1>17. CASE ReleaseStaleLockedTasks
    BY <1>17 DEF ReleaseStaleLockedTasks, Stale
  <1>18. CASE Tick
    BY <1>18 DEF Tick
  <1>19. CASE Stop
    BY <1>19 DEF Stop
  <1>20. CASE Halt
    BY <1>20 DEF Halt, ProcessGone
  <1>21. CASE Crash
    BY <1>21 DEF Crash, ProcessGone
  <1>22. CASE Restart
    BY <1>22 DEF Restart
  <1>23. CASE UNCHANGED vars
    BY <1>23 DEF vars
  <1> QED
    BY <1>1, <1>2, <1>3, <1>4, <1>5, <1>6, <1>7, <1>8, <1>9, <1>10, <1>11, <1>12, <1>13, <1>14,
       <1>15, <1>16, <1>17, <1>18, <1>19, <1>20, <1>21, <1>22, <1>23
    DEF Next, Submit, Step, Fault

-----------------------------------------------------------------------------
(* No attempt was made at first.                                            *)
LEMMA AttemptsInit == Init => AttemptsInv
  BY ConstantsAssumption DEF Init, AttemptsInv, Faults

(* A step keeps the account of attempts: what a fault may cost is one more. *)
LEMMA AttemptsStep ==
    ASSUME MaxExec <= LockTimeout, Typed, LeaseInv, AttemptsInv, [Next]_vars
    PROVE  AttemptsInv'
  <1> USE ConstantsAssumption DEF Typed, HasTask, LeaseInv, DownInv, WorkersExited, RequestInv,
        JobInv, HeldOnce, AttemptsInv,
        Owned, Owner, Faults, Holding, Busy, Owning, TypeOK, rowVars, localVars, faultVars
  <1>1. ASSUME NEW t \in Tasks, CreateAgentRun(t) PROVE AttemptsInv'
    BY <1>1 DEF CreateAgentRun
  <1>2. ASSUME NEW t \in Tasks, EnqueueTask(t) PROVE AttemptsInv'
    BY <1>2 DEF EnqueueTask
  <1>3. ASSUME NEW t \in Tasks, EnqueueFails(t) PROVE AttemptsInv'
    BY <1>3 DEF EnqueueFails
  <1>4. ASSUME NEW w \in Workers, SelectTask(w) PROVE AttemptsInv'
    BY <1>4 DEF SelectTask, Eligible, RowLocked, Local
  <1>5. ASSUME NEW w \in Workers, CommitDequeue(w) PROVE AttemptsInv'
    BY <1>5 DEF CommitDequeue, Local, LeaseRow
  <1>6. ASSUME NEW w \in Workers, RollbackOnStop(w) PROVE AttemptsInv'
    BY <1>6 DEF RollbackOnStop, BackToPoll, Local
  <1>7. ASSUME NEW w \in Workers, StartRun(w) PROVE AttemptsInv'
    BY <1>7 DEF StartRun, Goto
  <1>8. ASSUME NEW w \in Workers, FinishRun(w) PROVE AttemptsInv'
    BY <1>8 DEF FinishRun, Goto
  <1>9. ASSUME NEW w \in Workers, AbortRun(w) PROVE AttemptsInv'
    BY <1>9 DEF AbortRun, Goto
  <1>10. ASSUME NEW w \in Workers, CompleteTask(w) PROVE AttemptsInv'
    BY <1>10 DEF CompleteTask, SetRow, BackToPoll, Local
  <1>11. ASSUME NEW w \in Workers, RetryTask(w) PROVE AttemptsInv'
    BY <1>11 DEF RetryTask, SetRow, BackToPoll, Local, Exhausted
  <1>12. ASSUME NEW w \in Workers, MarkTaskDead(w) PROVE AttemptsInv'
    BY <1>12 DEF MarkTaskDead, SetRow, Goto
  <1>13. ASSUME NEW w \in Workers, BuryRun(w) PROVE AttemptsInv'
    BY <1>13 DEF BuryRun, BackToPoll, Local
  <1>14. ASSUME NEW w \in Workers, ExitLoop(w) PROVE AttemptsInv'
    BY <1>14 DEF ExitLoop, Goto
  <1>15. ASSUME NEW w \in Workers, DequeueFails(w) PROVE AttemptsInv'
    BY <1>15 DEF DequeueFails, DBFault, LeaseRow, BackToPoll, Local
  <1>16. ASSUME NEW w \in Workers, StatementFails(w) PROVE AttemptsInv'
    BY <1>16 DEF StatementFails, DBFault, Goto, BackToPoll, Local
  <1>17. CASE ReleaseStaleLockedTasks
    BY <1>17 DEF ReleaseStaleLockedTasks, Stale
  <1>18. CASE Tick
    BY <1>18 DEF Tick
  <1>19. CASE Stop
    BY <1>19 DEF Stop
  <1>20. CASE Halt
    BY <1>20 DEF Halt, ProcessGone
  <1>21. CASE Crash
    BY <1>21 DEF Crash, ProcessGone
  <1>22. CASE Restart
    BY <1>22 DEF Restart
  <1>23. CASE UNCHANGED vars
    BY <1>23 DEF vars
  <1> QED
    BY <1>1, <1>2, <1>3, <1>4, <1>5, <1>6, <1>7, <1>8, <1>9, <1>10, <1>11, <1>12, <1>13, <1>14,
       <1>15, <1>16, <1>17, <1>18, <1>19, <1>20, <1>21, <1>22, <1>23
    DEF Next, Submit, Step, Fault

-----------------------------------------------------------------------------
(* TypeOK: every variable keeps its type.                                   *)
THEOREM TypeCorrect == Spec => []TypeOK
  <1>1. Typed => TypeOK
    BY DEF Typed
  <1> QED
    BY TypeInit, TypeStep, <1>1, PTL DEF Spec

(* The leases are as JobInv and HeldOnce say in every reachable state.      *)
THEOREM LeaseInvariant ==
    ASSUME MaxExec <= LockTimeout
    PROVE  Spec => [](Typed /\ LeaseInv)
  <1>1. Typed /\ LeaseInv /\ [Next]_vars => (Typed /\ LeaseInv)'
    BY TypeStep, LeaseStep
  <1> QED
    BY TypeInit, LeaseInit, <1>1, PTL DEF Spec

(* LeaseExclusive: no two goroutines work for the same task, provided that  *)
(* none is busy for longer than the lock timeout.                           *)
THEOREM LeaseExclusion ==
    ASSUME MaxExec <= LockTimeout
    PROVE  Spec => []LeaseExclusive
  <1>1. LeaseInv => LeaseExclusive
    BY DEF LeaseInv, HeldOnce, Holding, LeaseExclusive
  <1> QED
    BY LeaseInvariant, <1>1, PTL

(* The account of attempts of AttemptsInv holds in every reachable state.   *)
THEOREM AttemptsInvariant ==
    ASSUME MaxExec <= LockTimeout
    PROVE  Spec => []AttemptsInv
  <1>1. Typed /\ LeaseInv /\ AttemptsInv /\ [Next]_vars => AttemptsInv'
    BY AttemptsStep
  <1> QED
    BY LeaseInvariant, AttemptsInit, <1>1, PTL DEF Spec

(* AttemptsWithinFaults: an attempt beyond max_attempts is paid for by a    *)
(* crash or a lost statement.                                               *)
THEOREM AttemptsAreWithinFaults ==
    ASSUME MaxExec <= LockTimeout
    PROVE  Spec => []AttemptsWithinFaults
  <1>1. Typed /\ AttemptsInv => AttemptsWithinFaults
    BY ConstantsAssumption DEF Typed, TypeOK, AttemptsInv, Faults, AttemptsWithinFaults
  <1> QED
    BY LeaseInvariant, AttemptsInvariant, <1>1, PTL

(* OrphanedOnlyByFault: a graceful stop leaves no running row behind.       *)
THEOREM StopOrphansNothing ==
    ASSUME MaxExec <= LockTimeout
    PROVE  Spec => []OrphanedOnlyByFault
  <1>1. AttemptsInv => OrphanedOnlyByFault
    BY DEF AttemptsInv, Owned, Faults, OrphanedOnlyByFault
  <1> QED
    BY AttemptsInvariant, <1>1, PTL

-----------------------------------------------------------------------------
(* What the runs say while MySQL answers every statement.                   *)
RunInv ==
    dbFaults = 0 =>
        /\ \A t \in Tasks :
            /\ status[t] = "completed" => run[t] \in {"completed", "partial_success"}
            /\ status[t] = "dead" => run[t] = "failed"
        /\ \A w \in Workers :
            /\ pc[w] = "succeeded" => run[task[w]] \in {"completed", "partial_success"}
            /\ pc[w] = "failing" => run[task[w]] = "failed"

(* There is no task yet whose run could disagree with it.                   *)
LEMMA RunInit == Init => RunInv
  BY DEF Init, RunInv

(* A step keeps the runs in agreement: the goroutine that owns the task is  *)
(* the only one that writes the run.                                        *)
LEMMA RunStep ==
    ASSUME MaxExec <= LockTimeout, Typed, LeaseInv, RunInv, [Next]_vars
    PROVE  RunInv'
  <1> USE ConstantsAssumption DEF Typed, HasTask, LeaseInv, DownInv, WorkersExited, RequestInv,
        JobInv, HeldOnce,
        RunInv, RunStatus, Holding, Busy, Owning, TypeOK, rowVars, localVars, faultVars
  <1>1. ASSUME NEW t \in Tasks, CreateAgentRun(t) PROVE RunInv'
    BY <1>1 DEF CreateAgentRun
  <1>2. ASSUME NEW t \in Tasks, EnqueueTask(t) PROVE RunInv'
    BY <1>2 DEF EnqueueTask
  <1>3. ASSUME NEW t \in Tasks, EnqueueFails(t) PROVE RunInv'
    BY <1>3 DEF EnqueueFails
  <1>4. ASSUME NEW w \in Workers, SelectTask(w) PROVE RunInv'
    BY <1>4 DEF SelectTask, Eligible, RowLocked, Local
  <1>5. ASSUME NEW w \in Workers, CommitDequeue(w) PROVE RunInv'
    BY <1>5 DEF CommitDequeue, Local, LeaseRow
  <1>6. ASSUME NEW w \in Workers, RollbackOnStop(w) PROVE RunInv'
    BY <1>6 DEF RollbackOnStop, BackToPoll, Local
  <1>7. ASSUME NEW w \in Workers, StartRun(w) PROVE RunInv'
    BY <1>7 DEF StartRun, Goto
  <1>8. ASSUME NEW w \in Workers, FinishRun(w) PROVE RunInv'
    BY <1>8 DEF FinishRun, Goto
  <1>9. ASSUME NEW w \in Workers, AbortRun(w) PROVE RunInv'
    BY <1>9 DEF AbortRun, Goto
  <1>10. ASSUME NEW w \in Workers, CompleteTask(w) PROVE RunInv'
    BY <1>10 DEF CompleteTask, SetRow, BackToPoll, Local
  <1>11. ASSUME NEW w \in Workers, RetryTask(w) PROVE RunInv'
    BY <1>11 DEF RetryTask, SetRow, BackToPoll, Local
  <1>12. ASSUME NEW w \in Workers, MarkTaskDead(w) PROVE RunInv'
    BY <1>12 DEF MarkTaskDead, SetRow, Goto
  <1>13. ASSUME NEW w \in Workers, BuryRun(w) PROVE RunInv'
    BY <1>13 DEF BuryRun, BackToPoll, Local
  <1>14. ASSUME NEW w \in Workers, ExitLoop(w) PROVE RunInv'
    BY <1>14 DEF ExitLoop, Goto
  <1>15. ASSUME NEW w \in Workers, DequeueFails(w) PROVE RunInv'
    BY <1>15 DEF DequeueFails, DBFault, LeaseRow, BackToPoll, Local
  <1>16. ASSUME NEW w \in Workers, StatementFails(w) PROVE RunInv'
    BY <1>16 DEF StatementFails, DBFault, Goto, BackToPoll, Local
  <1>17. CASE ReleaseStaleLockedTasks
    BY <1>17 DEF ReleaseStaleLockedTasks, Stale
  <1>18. CASE Tick
    BY <1>18 DEF Tick
  <1>19. CASE Stop
    BY <1>19 DEF Stop
  <1>20. CASE Halt
    BY <1>20 DEF Halt, ProcessGone
  <1>21. CASE Crash
    BY <1>21 DEF Crash, ProcessGone
  <1>22. CASE Restart
    BY <1>22 DEF Restart
  <1>23. CASE UNCHANGED vars
    BY <1>23 DEF vars
  <1> QED
    BY <1>1, <1>2, <1>3, <1>4, <1>5, <1>6, <1>7, <1>8, <1>9, <1>10, <1>11, <1>12, <1>13, <1>14,
       <1>15, <1>16, <1>17, <1>18, <1>19, <1>20, <1>21, <1>22, <1>23
    DEF Next, Submit, Step, Fault

(* RunAgreesWithTask: without a lost statement a settled task's run has the *)
(* status of its outcome, whatever crashes there were.                      *)
THEOREM RunAgreement ==
    ASSUME MaxExec <= LockTimeout
    PROVE  Spec => []RunAgreesWithTask
  <1>1. Typed /\ LeaseInv /\ RunInv /\ [Next]_vars => RunInv'
    BY RunStep
  <1>2. RunInv => RunAgreesWithTask
    BY DEF RunInv, RunAgreesWithTask
  <1> QED
    BY LeaseInvariant, RunInit, <1>1, <1>2, PTL DEF Spec

-----------------------------------------------------------------------------
(* The empty table is the empty leased queue.                               *)
LEMMA AbstractInit == Init => Abstract!Init
  BY DEF Init, Abstract!Init

(* Every step of the table is a step of the leased queue or leaves it alone. *)
LEMMA AbstractStep ==
    ASSUME MaxExec <= LockTimeout, Typed, LeaseInv, [Next]_vars
    PROVE  [Abstract!Next]_(Abstract!vars)
  <1> USE ConstantsAssumption DEF Typed, HasTask, LeaseInv, DownInv, WorkersExited, RequestInv,
        JobInv, HeldOnce,
        Holding, Busy, Owning, TypeOK, rowVars, localVars, faultVars,
        Abstract!Next, Abstract!vars, Abstract!Put, Abstract!Lease, Abstract!Done, Abstract!Bury,
        Abstract!Return, Abstract!Move
  <1>1. ASSUME NEW t \in Tasks, CreateAgentRun(t) PROVE [Abstract!Next]_(Abstract!vars)
    BY <1>1 DEF CreateAgentRun
  <1>2. ASSUME NEW t \in Tasks, EnqueueTask(t) PROVE [Abstract!Next]_(Abstract!vars)
    BY <1>2 DEF EnqueueTask
  <1>3. ASSUME NEW t \in Tasks, EnqueueFails(t) PROVE [Abstract!Next]_(Abstract!vars)
    BY <1>3 DEF EnqueueFails
  <1>4. ASSUME NEW w \in Workers, SelectTask(w) PROVE [Abstract!Next]_(Abstract!vars)
    BY <1>4 DEF SelectTask, Eligible, RowLocked, Local
  <1>5. ASSUME NEW w \in Workers, CommitDequeue(w) PROVE [Abstract!Next]_(Abstract!vars)
    BY <1>5 DEF CommitDequeue, Local, LeaseRow
  <1>6. ASSUME NEW w \in Workers, RollbackOnStop(w) PROVE [Abstract!Next]_(Abstract!vars)
    BY <1>6 DEF RollbackOnStop, BackToPoll, Local
  <1>7. ASSUME NEW w \in Workers, StartRun(w) PROVE [Abstract!Next]_(Abstract!vars)
    BY <1>7 DEF StartRun, Goto
  <1>8. ASSUME NEW w \in Workers, FinishRun(w) PROVE [Abstract!Next]_(Abstract!vars)
    BY <1>8 DEF FinishRun, Goto
  <1>9. ASSUME NEW w \in Workers, AbortRun(w) PROVE [Abstract!Next]_(Abstract!vars)
    BY <1>9 DEF AbortRun, Goto
  <1>10. ASSUME NEW w \in Workers, CompleteTask(w) PROVE [Abstract!Next]_(Abstract!vars)
    BY <1>10 DEF CompleteTask, SetRow, BackToPoll, Local
  <1>11. ASSUME NEW w \in Workers, RetryTask(w) PROVE [Abstract!Next]_(Abstract!vars)
    <2>1. {task[w]} \in SUBSET Tasks
      BY <1>11 DEF RetryTask
    <2>2. status' = [i \in Tasks |-> IF i \in {task[w]} THEN "queued" ELSE status[i]]
      BY <1>11 DEF RetryTask, SetRow
    <2>3. Abstract!Return({task[w]})
      BY <1>11, <2>2 DEF RetryTask, SetRow
    <2> QED
      BY <2>1, <2>3
  <1>12. ASSUME NEW w \in Workers, MarkTaskDead(w) PROVE [Abstract!Next]_(Abstract!vars)
    BY <1>12 DEF MarkTaskDead, SetRow, Goto, Exhausted
  <1>13. ASSUME NEW w \in Workers, BuryRun(w) PROVE [Abstract!Next]_(Abstract!vars)
    BY <1>13 DEF BuryRun, BackToPoll, Local
  <1>14. ASSUME NEW w \in Workers, ExitLoop(w) PROVE [Abstract!Next]_(Abstract!vars)
    BY <1>14 DEF ExitLoop, Goto
  <1>15. ASSUME NEW w \in Workers, DequeueFails(w) PROVE [Abstract!Next]_(Abstract!vars)
    BY <1>15 DEF DequeueFails, DBFault, LeaseRow, BackToPoll, Local
  <1>16. ASSUME NEW w \in Workers, StatementFails(w) PROVE [Abstract!Next]_(Abstract!vars)
    BY <1>16 DEF StatementFails, DBFault, Goto, BackToPoll, Local
  <1>17. CASE ReleaseStaleLockedTasks
    <2> DEFINE I == {t \in Tasks : Stale(t)}
    <2>1. Abstract!Return(I)
      BY <1>17 DEF ReleaseStaleLockedTasks, Stale
    <2> QED
      BY <2>1
  <1>18. CASE Tick
    BY <1>18 DEF Tick
  <1>19. CASE Stop
    BY <1>19 DEF Stop
  <1>20. CASE Halt
    BY <1>20 DEF Halt, ProcessGone
  <1>21. CASE Crash
    BY <1>21 DEF Crash, ProcessGone
  <1>22. CASE Restart
    BY <1>22 DEF Restart
  <1>23. CASE UNCHANGED vars
    BY <1>23 DEF vars
  <1> QED
    BY <1>1, <1>2, <1>3, <1>4, <1>5, <1>6, <1>7, <1>8, <1>9, <1>10, <1>11, <1>12, <1>13, <1>14,
       <1>15, <1>16, <1>17, <1>18, <1>19, <1>20, <1>21, <1>22, <1>23
    DEF Next, Submit, Step, Fault

(* ImplementsLeasedQueue: agent_tasks and its goroutines implement the      *)
(* leased queue.                                                            *)
THEOREM Refinement ==
    ASSUME MaxExec <= LockTimeout
    PROVE  Spec => ImplementsLeasedQueue
  <1>1. Typed /\ LeaseInv /\ [Next]_vars => [Abstract!Next]_(Abstract!vars)
    BY AbstractStep
  <1> QED
    BY LeaseInvariant, AbstractInit, <1>1, PTL DEF Spec, ImplementsLeasedQueue, Abstract!Spec

(* SettledIsFinal: a completed or dead task stays so, because the leased    *)
(* queue it implements moves an item only out of absent, queued or running. *)
THEOREM SettledStays ==
    ASSUME MaxExec <= LockTimeout
    PROVE  Spec => SettledIsFinal
  <1> DEFINE Stays == \A t \in Tasks : status[t] \in {"completed", "dead"} => status'[t] = status[t]
  <1>1. Typed /\ [Abstract!Next]_(Abstract!vars) => Stays
    <2> SUFFICES ASSUME Typed, [Abstract!Next]_(Abstract!vars) PROVE Stays
      OBVIOUS
    <2> USE DEF Typed, TypeOK, Abstract!Move
    <2>1. ASSUME NEW i \in Tasks,
                 Abstract!Put(i) \/ Abstract!Lease(i) \/ Abstract!Done(i) \/ Abstract!Bury(i)
          PROVE Stays
      BY <2>1 DEF Abstract!Put, Abstract!Lease, Abstract!Done, Abstract!Bury
    <2>2. ASSUME NEW I \in SUBSET Tasks, Abstract!Return(I) PROVE Stays
      BY <2>2 DEF Abstract!Return
    <2>3. CASE UNCHANGED Abstract!vars
      BY <2>3 DEF Abstract!vars
    <2> QED
      BY <2>1, <2>2, <2>3 DEF Abstract!Next
  <1>2. Typed /\ LeaseInv /\ [Next]_vars => [Stays]_vars
    BY AbstractStep, <1>1
  <1> QED
    BY LeaseInvariant, <1>2, PTL DEF Spec, SettledIsFinal

=============================================================================
