---------------------------- MODULE ReadersProofs ----------------------------
(***************************************************************************)
(* What the pages of Readers show, for every number of tasks, goroutines,   *)
(* screenshots, crashes and statement failures.                             *)
(*                                                                         *)
(* The queries of a page are answered at different moments, so that the     *)
(* argument is about what no writer ever takes back: PersistStep.           *)
(***************************************************************************)
EXTENDS Readers, TaskQueueProofs, SequenceTheorems, FiniteSetTheorems

Outcome == {"completed", "partial_success"}

(* A statement was lost by something that is not a goroutine of the queue.  *)
LostStatement ==
    /\ DBFault
    /\ UNCHANGED <<request, rowVars, run, localVars, life, crashes, stops>>

QueueMoves == [Next]_vars \/ LostStatement

(* A run has a row from the moment its request is past the first write, and *)
(* nobody is at work in a process that is gone.                             *)
BegunInv ==
    /\ DownInv
    /\ \A t \in Tasks : request[t] = "new" <=> run[t] = "none"
    /\ \A t \in Tasks : status[t] # "absent" => request[t] # "new"
    /\ \A w \in Workers : pc[w] \in Holding => request[task[w]] # "new"

(* Without a fault a success is not taken back: its task is completed, or   *)
(* its goroutine is about to complete it.                                   *)
KeptInv ==
    crashes + dbFaults = 0 =>
        \A t \in Tasks : run[t] \in Outcome =>
            \/ status[t] = "completed"
            \/ \E w \in Workers : pc[w] = "succeeded" /\ task[w] = t

-----------------------------------------------------------------------------
(* The queue of the readers is TaskQueue's: every step is one of its steps, *)
(* none, or a statement lost by somebody else.                              *)
LEMMA ReadersStepIsQueueStep == [ReadersNext]_readersVars => QueueMoves
  <1> SUFFICES ASSUME [ReadersNext]_readersVars PROVE QueueMoves
    OBVIOUS
  <1> USE DEF QueueMoves, LostStatement, vars
  <1>1. ASSUME NEW t \in Tasks, CreateRun(t) PROVE QueueMoves
    BY <1>1 DEF CreateRun, Next, Submit
  <1>2. ASSUME NEW t \in Tasks, NEW s \in Shots, UploadScreenshot(t, s) PROVE QueueMoves
    BY <1>2 DEF UploadScreenshot
  <1>3. ASSUME NEW w \in Workers, Work(w) PROVE QueueMoves
    <2>1. CASE StartWork(w)
      BY <2>1 DEF StartWork, Next, Step
    <2>2. CASE AddLLMCall(w)
      BY <2>2 DEF AddLLMCall, rowVars, localVars, faultVars
    <2>3. CASE SaveMemory(w)
      BY <2>3 DEF SaveMemory
    <2>4. CASE FinishWork(w)
      BY <2>4 DEF FinishWork, Next, Step
    <2>5. CASE AbortWork(w)
      BY <2>5 DEF AbortWork, Next, Step
    <2>6. CASE LoseStatement(w)
      BY <2>6 DEF LoseStatement, Next, Fault
    <2>7. CASE QueueStep(w)
      BY <2>7 DEF QueueStep, Next, Step, Fault
    <2> QED
      BY <1>3, <2>1, <2>2, <2>3, <2>4, <2>5, <2>6, <2>7 DEF Work
  <1>4. CASE ProcessEnds
    BY <1>4 DEF ProcessEnds, Next
  <1>5. CASE Environment
    BY <1>5 DEF Environment, Next, Submit
  <1>6. CASE Read
    BY <1>6 DEF Read, GetStats, GetAgentRunDetail, Ask, Query, QueryFails
  <1>7. CASE UNCHANGED readersVars
    BY <1>7 DEF readersVars
  <1> QED
    BY <1>1, <1>2, <1>3, <1>4, <1>5, <1>6, <1>7 DEF ReadersNext

(* A statement lost elsewhere leaves the queue's types and leases alone.    *)
LEMMA QueueTypes == Typed /\ QueueMoves => Typed'
  <1>1. Typed /\ LostStatement => Typed'
    BY ConstantsAssumption DEF LostStatement, DBFault, Typed, HasTask, TypeOK, rowVars, localVars,
       faultVars
  <1> QED
    BY <1>1, TypeStep DEF QueueMoves

(* The leases of TaskQueue are kept here too.                               *)
LEMMA QueueLeases ==
    ASSUME MaxExec <= LockTimeout
    PROVE  Typed /\ LeaseInv /\ QueueMoves => LeaseInv'
  <1>1. LeaseInv /\ LostStatement => LeaseInv'
    BY DEF LostStatement, DBFault, LeaseInv, DownInv, WorkersExited, RequestInv, JobInv, HeldOnce,
       rowVars, localVars, faultVars
  <1> QED
    BY <1>1, LeaseStep DEF QueueMoves

(* No request is past its first write at first.                             *)
LEMMA BegunInit == Init => BegunInv
  BY DEF Init, BegunInv, DownInv, Holding, Busy, Owning

(* A run has a row, and its task is on the queue, only after the request.   *)
LEMMA BegunStep ==
    ASSUME Typed, BegunInv, QueueMoves
    PROVE  BegunInv'
  <1> USE ConstantsAssumption DEF Typed, HasTask, BegunInv, DownInv, WorkersExited, RunStatus,
        RequestState, Holding, Busy, Owning, TypeOK, rowVars, localVars, faultVars
  <1>1. ASSUME NEW t \in Tasks, CreateAgentRun(t) PROVE BegunInv'
    BY <1>1 DEF CreateAgentRun
  <1>2. ASSUME NEW t \in Tasks, EnqueueTask(t) PROVE BegunInv'
    BY <1>2 DEF EnqueueTask
  <1>3. ASSUME NEW t \in Tasks, EnqueueFails(t) PROVE BegunInv'
    BY <1>3 DEF EnqueueFails
  <1>4. ASSUME NEW w \in Workers, SelectTask(w) PROVE BegunInv'
    BY <1>4 DEF SelectTask, Eligible, RowLocked, Local
  <1>5. ASSUME NEW w \in Workers, CommitDequeue(w) PROVE BegunInv'
    BY <1>5 DEF CommitDequeue, Local, LeaseRow
  <1>6. ASSUME NEW w \in Workers, RollbackOnStop(w) PROVE BegunInv'
    BY <1>6 DEF RollbackOnStop, BackToPoll, Local
  <1>7. ASSUME NEW w \in Workers, StartRun(w) PROVE BegunInv'
    BY <1>7 DEF StartRun, Goto
  <1>8. ASSUME NEW w \in Workers, FinishRun(w) PROVE BegunInv'
    BY <1>8 DEF FinishRun, Goto
  <1>9. ASSUME NEW w \in Workers, AbortRun(w) PROVE BegunInv'
    BY <1>9 DEF AbortRun, Goto
  <1>10. ASSUME NEW w \in Workers, CompleteTask(w) PROVE BegunInv'
    BY <1>10 DEF CompleteTask, SetRow, BackToPoll, Local
  <1>11. ASSUME NEW w \in Workers, RetryTask(w) PROVE BegunInv'
    BY <1>11 DEF RetryTask, SetRow, BackToPoll, Local
  <1>12. ASSUME NEW w \in Workers, MarkTaskDead(w) PROVE BegunInv'
    BY <1>12 DEF MarkTaskDead, SetRow, Goto
  <1>13. ASSUME NEW w \in Workers, BuryRun(w) PROVE BegunInv'
    BY <1>13 DEF BuryRun, BackToPoll, Local
  <1>14. ASSUME NEW w \in Workers, ExitLoop(w) PROVE BegunInv'
    BY <1>14 DEF ExitLoop, Goto
  <1>15. ASSUME NEW w \in Workers, DequeueFails(w) PROVE BegunInv'
    BY <1>15 DEF DequeueFails, DBFault, LeaseRow, BackToPoll, Local
  <1>16. ASSUME NEW w \in Workers, StatementFails(w) PROVE BegunInv'
    BY <1>16 DEF StatementFails, DBFault, Goto, BackToPoll, Local
  <1>17. CASE ReleaseStaleLockedTasks
    BY <1>17 DEF ReleaseStaleLockedTasks, Stale
  <1>18. CASE Tick
    BY <1>18 DEF Tick
  <1>19. CASE Stop
    BY <1>19 DEF Stop
  <1>20. CASE Halt
    BY <1>20 DEF Halt, ProcessGone
  <1>21. CASE Crash
    BY <1>21 DEF Crash, ProcessGone
  <1>22. CASE Restart
    BY <1>22 DEF Restart
  <1>23. CASE UNCHANGED vars
    BY <1>23 DEF vars
  <1>24. CASE LostStatement
    BY <1>24 DEF LostStatement, DBFault
  <1> QED
    BY <1>1, <1>2, <1>3, <1>4, <1>5, <1>6, <1>7, <1>8, <1>9, <1>10,
       <1>11, <1>12, <1>13, <1>14, <1>15, <1>16, <1>17, <1>18, <1>19, <1>20, <1>21, <1>22, <1>23, <1>24
    DEF QueueMoves, Next, Submit, Step, Fault

(* No run has succeeded at first.                                           *)
LEMMA KeptInit == Init => KeptInv
  BY DEF Init, KeptInv, Outcome

(* A success is taken back only by a second goroutine on the task, and the  *)
(* leases let none in.                                                      *)
LEMMA KeptStep ==
    ASSUME MaxExec <= LockTimeout, Typed, LeaseInv, BegunInv, KeptInv, QueueMoves
    PROVE  KeptInv'
  <1> USE ConstantsAssumption DEF Typed, HasTask, LeaseInv, DownInv, WorkersExited, RequestInv,
        JobInv, HeldOnce, KeptInv, Outcome,
        RunStatus, Holding, Busy, Owning, TypeOK, rowVars, localVars, faultVars
  <1>1. ASSUME NEW t \in Tasks, CreateAgentRun(t) PROVE KeptInv'
    BY <1>1 DEF CreateAgentRun
  <1>2. ASSUME NEW t \in Tasks, EnqueueTask(t) PROVE KeptInv'
    BY <1>2 DEF EnqueueTask
  <1>3. ASSUME NEW t \in Tasks, EnqueueFails(t) PROVE KeptInv'
    BY <1>3 DEF EnqueueFails
  <1>4. ASSUME NEW w \in Workers, SelectTask(w) PROVE KeptInv'
    BY <1>4 DEF SelectTask, Eligible, RowLocked, Local
  <1>5. ASSUME NEW w \in Workers, CommitDequeue(w) PROVE KeptInv'
    BY <1>5 DEF CommitDequeue, Local, LeaseRow
  <1>6. ASSUME NEW w \in Workers, RollbackOnStop(w) PROVE KeptInv'
    BY <1>6 DEF RollbackOnStop, BackToPoll, Local
  <1>7. ASSUME NEW w \in Workers, StartRun(w) PROVE KeptInv'
    BY <1>7 DEF StartRun, Goto
  <1>8. ASSUME NEW w \in Workers, FinishRun(w) PROVE KeptInv'
    BY <1>8 DEF FinishRun, Goto
  <1>9. ASSUME NEW w \in Workers, AbortRun(w) PROVE KeptInv'
    BY <1>9 DEF AbortRun, Goto
  <1>10. ASSUME NEW w \in Workers, CompleteTask(w) PROVE KeptInv'
    BY <1>10 DEF CompleteTask, SetRow, BackToPoll, Local
  <1>11. ASSUME NEW w \in Workers, RetryTask(w) PROVE KeptInv'
    BY <1>11 DEF RetryTask, SetRow, BackToPoll, Local
  <1>12. ASSUME NEW w \in Workers, MarkTaskDead(w) PROVE KeptInv'
    BY <1>12 DEF MarkTaskDead, SetRow, Goto
  <1>13. ASSUME NEW w \in Workers, BuryRun(w) PROVE KeptInv'
    BY <1>13 DEF BuryRun, BackToPoll, Local
  <1>14. ASSUME NEW w \in Workers, ExitLoop(w) PROVE KeptInv'
    BY <1>14 DEF ExitLoop, Goto
  <1>15. ASSUME NEW w \in Workers, DequeueFails(w) PROVE KeptInv'
    BY <1>15 DEF DequeueFails, DBFault, LeaseRow, BackToPoll, Local
  <1>16. ASSUME NEW w \in Workers, StatementFails(w) PROVE KeptInv'
    BY <1>16 DEF StatementFails, DBFault, Goto, BackToPoll, Local
  <1>17. CASE ReleaseStaleLockedTasks
    BY <1>17 DEF ReleaseStaleLockedTasks, Stale
  <1>18. CASE Tick
    BY <1>18 DEF Tick
  <1>19. CASE Stop
    BY <1>19 DEF Stop
  <1>20. CASE Halt
    BY <1>20 DEF Halt, ProcessGone
  <1>21. CASE Crash
    BY <1>21 DEF Crash, ProcessGone
  <1>22. CASE Restart
    BY <1>22 DEF Restart
  <1>23. CASE UNCHANGED vars
    BY <1>23 DEF vars
  <1>24. CASE LostStatement
    BY <1>24 DEF LostStatement, DBFault
  <1> QED
    BY <1>1, <1>2, <1>3, <1>4, <1>5, <1>6, <1>7, <1>8, <1>9, <1>10,
       <1>11, <1>12, <1>13, <1>14, <1>15, <1>16, <1>17, <1>18, <1>19, <1>20, <1>21, <1>22, <1>23, <1>24
    DEF QueueMoves, Next, Submit, Step, Fault

-----------------------------------------------------------------------------
(* The parts of the type invariant that are not the queue's.                *)
TablesTyped ==
    /\ shot \in [Shots -> {"none"} \cup Stored]
    /\ about \in [Tasks -> Shots \cup {NoShot}]
    /\ calls \subseteq Tasks
    /\ work \in [Workers -> {"nothing", "insight", "saved"}]

Queries == {"agents", "p95", "run", "calls", "ocr", "queue", "shots"}

ShownTyped ==
    shown \in [runs : SUBSET Tasks, succeeded : SUBSET Tasks, p95 : BOOLEAN,
               calls : SUBSET Tasks, ocr : SUBSET Shots,
               shots : SUBSET Shots, organized : SUBSET Shots]

(* The rows that a run's page is about, and what the goroutine at work on   *)
(* the run has made of them.                                                *)
TablesInv ==
    /\ \A t \in Tasks :
        /\ about[t] # NoShot => shot[about[t]] \in Stored
        /\ run[t] # "none" => about[t] # NoShot
        /\ run[t] \in Outcome =>
            shot[about[t]] = "organized" /\ (dbFaults = 0 => t \in calls)
    /\ \A w \in Workers :
        /\ work[w] # "nothing" => pc[w] = "executing" /\ (dbFaults = 0 => task[w] \in calls)
        /\ work[w] = "saved" => shot[about[task[w]]] = "organized"

(* What no step takes back.                                                 *)
Persist ==
    /\ \A t \in Tasks : run[t] # "none" => run'[t] # "none" /\ about'[t] = about[t]
    /\ \A s \in Shots : shot[s] \in Stored => shot'[s] \in Stored
    /\ \A s \in Shots : shot[s] = "organized" => shot'[s] = "organized"
    /\ calls \subseteq calls'
    /\ dbFaults' = 0 => dbFaults = 0
    /\ crashes' + dbFaults' = 0 => crashes + dbFaults = 0

(* A step of anybody else leaves the page alone, or ends the request.       *)
ReaderSide == UNCHANGED readerVars \/ Unanswered

(* Nothing is stored and nothing is at work.                                *)
LEMMA TablesTypeInit == ReadersInit => TablesTyped
  BY DEF ReadersInit, TablesTyped, Stored

(* Every step keeps the types of the screenshots, the runs' links to them,  *)
(* the calls and the goroutines' progress.                                  *)
LEMMA TablesTypeStep ==
    ASSUME Typed, TablesTyped, [ReadersNext]_readersVars
    PROVE  TablesTyped'
  <1> USE DEF Typed, HasTask, Holding, Busy, Owning, TablesTyped, Stored, tableVars
  <1>1. ASSUME NEW t \in Tasks, CreateRun(t) PROVE TablesTyped'
    BY <1>1 DEF CreateRun, Of
  <1>2. ASSUME NEW t \in Tasks, NEW s \in Shots, UploadScreenshot(t, s) PROVE TablesTyped'
    BY <1>2 DEF UploadScreenshot
  <1>3. ASSUME NEW w \in Workers, StartWork(w) PROVE TablesTyped'
    BY <1>3 DEF StartWork
  <1>4. ASSUME NEW w \in Workers, AddLLMCall(w) PROVE TablesTyped'
    BY <1>4 DEF AddLLMCall
  <1>5. ASSUME NEW w \in Workers, SaveMemory(w) PROVE TablesTyped'
    BY <1>5 DEF SaveMemory
  <1>6. ASSUME NEW w \in Workers, FinishWork(w) PROVE TablesTyped'
    BY <1>6 DEF FinishWork
  <1>7. ASSUME NEW w \in Workers, AbortWork(w) PROVE TablesTyped'
    BY <1>7 DEF AbortWork
  <1>8. ASSUME NEW w \in Workers, LoseStatement(w) PROVE TablesTyped'
    BY <1>8 DEF LoseStatement
  <1>9. ASSUME NEW w \in Workers, QueueStep(w) PROVE TablesTyped'
    BY <1>9 DEF QueueStep
  <1>10. CASE ProcessEnds
    BY <1>10 DEF ProcessEnds
  <1>11. CASE Environment
    BY <1>11 DEF Environment
  <1>12. CASE Read
    BY <1>12 DEF Read, GetStats, GetAgentRunDetail, Ask, Query, QueryFails
  <1>13. CASE UNCHANGED readersVars
    BY <1>13 DEF readersVars
  <1> QED
    BY <1>1, <1>2, <1>3, <1>4, <1>5, <1>6, <1>7, <1>8, <1>9, <1>10, <1>11, <1>12, <1>13
       DEF ReadersNext, Work

-----------------------------------------------------------------------------
(* There is no run and no screenshot at first.                              *)
LEMMA TablesInit == ReadersInit => TablesInv
  BY DEF ReadersInit, Init, TablesInv, Outcome

(* A success is written last: its call and its screenshot are there before. *)
LEMMA TablesStep ==
    ASSUME Typed, TablesTyped, BegunInv, TablesInv, [ReadersNext]_readersVars
    PROVE  TablesInv'
  <1> USE ShotsAssumption, ConstantsAssumption DEF Typed, TypeOK, HasTask, Holding, Busy, Owning,
        TablesTyped, Stored, tableVars, BegunInv, TablesInv, Outcome,
          RunStatus, rowVars, localVars, faultVars, vars
  <1>1. ASSUME NEW t \in Tasks, CreateRun(t) PROVE TablesInv'
    BY <1>1 DEF CreateRun, CreateAgentRun, Of
  <1>2. ASSUME NEW t \in Tasks, NEW s \in Shots, UploadScreenshot(t, s) PROVE TablesInv'
    BY <1>2 DEF UploadScreenshot
  <1>3. ASSUME NEW w \in Workers, StartWork(w) PROVE TablesInv'
    BY <1>3 DEF StartWork, StartRun, Goto
  <1>4. ASSUME NEW w \in Workers, AddLLMCall(w) PROVE TablesInv'
    BY <1>4 DEF AddLLMCall, DBFault
  <1>5. ASSUME NEW w \in Workers, SaveMemory(w) PROVE TablesInv'
    BY <1>5 DEF SaveMemory
  <1>6. ASSUME NEW w \in Workers, FinishWork(w) PROVE TablesInv'
    BY <1>6 DEF FinishWork, FinishRun, Goto
  <1>7. ASSUME NEW w \in Workers, AbortWork(w) PROVE TablesInv'
    BY <1>7 DEF AbortWork, AbortRun, Goto
  <1>8. ASSUME NEW w \in Workers, LoseStatement(w) PROVE TablesInv'
    BY <1>8 DEF LoseStatement, StatementFails, DBFault, Goto, BackToPoll, Local
  <1>9. ASSUME NEW w \in Workers, QueueStep(w) PROVE TablesInv'
    <2>1. CASE SelectTask(w)
      BY <1>9, <2>1 DEF QueueStep, SelectTask, Local
    <2>2. CASE CommitDequeue(w)
      BY <1>9, <2>2 DEF QueueStep, CommitDequeue, LeaseRow, Local
    <2>3. CASE DequeueFails(w)
      BY <1>9, <2>3 DEF QueueStep, DequeueFails, DBFault, BackToPoll, Local
    <2>4. CASE CompleteTask(w)
      BY <1>9, <2>4 DEF QueueStep, CompleteTask, BackToPoll, Local
    <2>5. CASE RetryTask(w)
      BY <1>9, <2>5 DEF QueueStep, RetryTask, BackToPoll, Local
    <2>6. CASE MarkTaskDead(w)
      BY <1>9, <2>6 DEF QueueStep, MarkTaskDead, Goto
    <2>7. CASE BuryRun(w)
      BY <1>9, <2>7 DEF QueueStep, BuryRun, BackToPoll, Local
    <2> QED
      BY <1>9, <2>1, <2>2, <2>3, <2>4, <2>5, <2>6, <2>7 DEF QueueStep
  <1>10. CASE ProcessEnds
    BY <1>10 DEF ProcessEnds, Crash, ProcessGone
  <1>11. CASE Environment
    <2>1. CASE Restart
      BY <1>11, <2>1 DEF Environment, Restart, DownInv, WorkersExited
    <2>2. CASE ~Restart
      BY <1>11, <2>2 DEF Environment, EnqueueTask, EnqueueFails, ReleaseStaleLockedTasks, Tick
    <2> QED
      BY <2>1, <2>2
  <1>12. CASE Read
    BY <1>12 DEF Read, GetStats, GetAgentRunDetail, Ask, Query, QueryFails, DBFault
  <1>13. CASE UNCHANGED readersVars
    BY <1>13 DEF readersVars
  <1> QED
    BY <1>1, <1>2, <1>3, <1>4, <1>5, <1>6, <1>7, <1>8, <1>9, <1>10, <1>11, <1>12, <1>13
       DEF ReadersNext, Work

(* No step takes a run, its link, a screenshot's row or status, or a call   *)
(* back.                                                                    *)
LEMMA PersistStep ==
    ASSUME Typed, TablesTyped, BegunInv, TablesInv, [ReadersNext]_readersVars
    PROVE  Persist
  <1> USE ShotsAssumption, ConstantsAssumption DEF Typed, TypeOK, HasTask, Holding, Busy, Owning,
        TablesTyped, Stored, tableVars, BegunInv, TablesInv, Persist,
          RunStatus, rowVars, localVars, faultVars, vars
  <1>1. ASSUME NEW t \in Tasks, CreateRun(t) PROVE Persist
    BY <1>1 DEF CreateRun, CreateAgentRun, Of
  <1>2. ASSUME NEW t \in Tasks, NEW s \in Shots, UploadScreenshot(t, s) PROVE Persist
    BY <1>2 DEF UploadScreenshot
  <1>3. ASSUME NEW w \in Workers, StartWork(w) PROVE Persist
    BY <1>3 DEF StartWork, StartRun, Goto
  <1>4. ASSUME NEW w \in Workers, AddLLMCall(w) PROVE Persist
    BY <1>4 DEF AddLLMCall, DBFault
  <1>5. ASSUME NEW w \in Workers, SaveMemory(w) PROVE Persist
    BY <1>5 DEF SaveMemory
  <1>6. ASSUME NEW w \in Workers, FinishWork(w) PROVE Persist
    BY <1>6 DEF FinishWork, FinishRun, Goto
  <1>7. ASSUME NEW w \in Workers, AbortWork(w) PROVE Persist
    BY <1>7 DEF AbortWork, AbortRun, Goto
  <1>8. ASSUME NEW w \in Workers, LoseStatement(w) PROVE Persist
    BY <1>8 DEF LoseStatement, StatementFails, DBFault, Goto, BackToPoll, Local
  <1>9. ASSUME NEW w \in Workers, QueueStep(w) PROVE Persist
    BY <1>9 DEF QueueStep, SelectTask, CommitDequeue, DequeueFails, DBFault, CompleteTask,
       RetryTask, MarkTaskDead, BuryRun
  <1>10. CASE ProcessEnds
    BY <1>10 DEF ProcessEnds, Crash, ProcessGone
  <1>11. CASE Environment
    BY <1>11 DEF Environment, EnqueueTask, EnqueueFails, ReleaseStaleLockedTasks, Tick, Restart
  <1>12. CASE Read
    BY <1>12 DEF Read, GetStats, GetAgentRunDetail, Ask, Query, QueryFails, DBFault
  <1>13. CASE UNCHANGED readersVars
    BY <1>13 DEF readersVars
  <1> QED
    BY <1>1, <1>2, <1>3, <1>4, <1>5, <1>6, <1>7, <1>8, <1>9, <1>10, <1>11, <1>12, <1>13
       DEF ReadersNext, Work

(* What is not a reader's step leaves the page alone or gives it up.        *)
LEMMA ReaderMoves == [ReadersNext]_readersVars => Read \/ ReaderSide
  BY DEF ReadersNext, Work, StartWork, AddLLMCall, SaveMemory, FinishWork, AbortWork,
     LoseStatement, QueueStep,
         CreateRun, UploadScreenshot, ProcessEnds, Environment, ReaderSide, readersVars

-----------------------------------------------------------------------------
(* What a page has still to ask.                                            *)
StatsRest ==
    {StatsOrder,
     <<"p95", "calls", "ocr", "queue", "shots">>,
     <<"calls", "ocr", "queue", "shots">>,
     <<"ocr", "queue", "shots">>,
     <<"queue", "shots">>,
     <<"shots">>,
     <<>>}
DetailRest == {DetailOrder, <<"calls", "shots">>, <<"shots">>, <<>>}

(* The number of queries left tells the next one.                           *)
LEMMA StatsQueries ==
    ASSUME NEW q \in StatsRest
    PROVE  /\ q \in Seq(Queries)
           /\ Len(q) \in 0..6
           /\ Len(q) = 0 <=> q = <<>>
           /\ q # <<>> => /\ Tail(q) \in StatsRest
                          /\ Len(Tail(q)) = Len(q) - 1
                          /\ Head(q) = "agents" <=> Len(q) = 6
                          /\ Head(q) = "p95" <=> Len(q) = 5
                          /\ Head(q) = "calls" <=> Len(q) = 4
                          /\ Head(q) = "ocr" <=> Len(q) = 3
                          /\ Head(q) = "queue" <=> Len(q) = 2
                          /\ Head(q) = "shots" <=> Len(q) = 1
                          /\ Head(q) # "run"
  <1>1. CASE q = StatsOrder
    BY <1>1 DEF StatsRest, StatsOrder, Queries
  <1>2. CASE q = <<"p95", "calls", "ocr", "queue", "shots">>
    BY <1>2 DEF StatsRest, StatsOrder, Queries
  <1>3. CASE q = <<"calls", "ocr", "queue", "shots">>
    BY <1>3 DEF StatsRest, StatsOrder, Queries
  <1>4. CASE q = <<"ocr", "queue", "shots">>
    BY <1>4 DEF StatsRest, StatsOrder, Queries
  <1>5. CASE q = <<"queue", "shots">>
    BY <1>5 DEF StatsRest, StatsOrder, Queries
  <1>6. CASE q = <<"shots">>
    BY <1>6 DEF StatsRest, StatsOrder, Queries
  <1>7. CASE q = <<>>
    BY <1>7 DEF StatsRest, StatsOrder, Queries
  <1> QED
    BY <1>1, <1>2, <1>3, <1>4, <1>5, <1>6, <1>7 DEF StatsRest

(* What is left of a page's three queries after any of them.                *)
LEMMA DetailQueries ==
    ASSUME NEW q \in DetailRest
    PROVE  /\ q \in Seq(Queries)
           /\ Len(q) \in 0..3
           /\ Len(q) = 0 <=> q = <<>>
           /\ q # <<>> => /\ Tail(q) \in DetailRest
                          /\ Len(Tail(q)) = Len(q) - 1
                          /\ Head(q) = "run" <=> Len(q) = 3
                          /\ Head(q) = "calls" <=> Len(q) = 2
                          /\ Head(q) = "shots" <=> Len(q) = 1
                          /\ Head(q) \notin {"agents", "p95", "ocr", "queue"}
  <1>1. CASE q = DetailOrder
    BY <1>1 DEF DetailRest, DetailOrder, Queries
  <1>2. CASE q = <<"calls", "shots">>
    BY <1>2 DEF DetailRest, DetailOrder, Queries
  <1>3. CASE q = <<"shots">>
    BY <1>3 DEF DetailRest, DetailOrder, Queries
  <1>4. CASE q = <<>>
    BY <1>4 DEF DetailRest, DetailOrder, Queries
  <1> QED
    BY <1>1, <1>2, <1>3, <1>4 DEF DetailRest

(* A page asks for what is left of its order, about the runs it began with. *)
PageInv ==
    /\ page \in {"none", "stats", "detail"}
    /\ asked \subseteq Tasks
    /\ page = "none" => query = <<>> /\ shown = NothingShown
    /\ page = "stats" => query \in StatsRest /\ asked = Tasks
    /\ page = "detail" => query \in DetailRest

(* Nobody asks at first.                                                    *)
LEMMA PageInit == ReadersInit => PageInv
  BY DEF ReadersInit, PageInv

(* What a query answers with is in type.                                    *)
LEMMA AnswerTyped ==
    ASSUME TablesTyped, ShownTyped, PageInv, NEW q
    PROVE  q \in Queries => Answer(q) \in
               [runs : SUBSET Tasks, succeeded : SUBSET Tasks, p95 : BOOLEAN,
                calls : SUBSET Tasks, ocr : SUBSET Shots,
                shots : SUBSET Shots, organized : SUBSET Shots]
  <1> USE DEF ShownTyped
  <1>1. {t \in asked : run[t] # "none"} \subseteq Tasks /\ Succeeded \subseteq Tasks
    BY DEF PageInv, Succeeded
  <1>2. \A S : Of(S) \subseteq Shots
    BY DEF Of
  <1>3. \A S : InScope(S) \subseteq S
    BY DEF InScope
  <1>4. (shown.succeeded # {} /\ P95Found) \in BOOLEAN
    OBVIOUS
  <1>5. calls \cap asked \subseteq Tasks
    BY DEF PageInv
  <1>6. CASE q \in {"agents", "run"}
    BY <1>1, <1>6 DEF Answer
  <1>7. CASE q = "p95"
    BY <1>4, <1>7 DEF Answer
  <1>8. CASE q = "calls"
    BY <1>5, <1>8 DEF Answer
  <1>9. CASE q = "ocr"
    BY <1>2, <1>9 DEF Answer
  <1>10. CASE q = "queue"
    BY <1>10 DEF Answer
  <1>11. CASE q = "shots"
    <2>1. InScope(Of(Stored)) \subseteq Shots /\ InScope(Of({"organized"})) \subseteq Shots
      BY <1>2, <1>3
    <2> QED
      BY <2>1, <1>11 DEF Answer
  <1> QED
    BY <1>6, <1>7, <1>8, <1>9, <1>10, <1>11 DEF Queries

(* While an answer is awaited there is a query to send.                     *)
LEMMA Asking ==
    ASSUME PageInv, ~Answered
    PROVE  /\ page = "stats" \/ page = "detail"
           /\ Head(query) \in Queries
           /\ page = "stats" => query \in StatsRest /\ Tail(query) \in StatsRest
           /\ page = "detail" => query \in DetailRest /\ Tail(query) \in DetailRest
  <1>1. CASE page = "stats"
    <2>1. query \in StatsRest /\ query # <<>>
      BY <1>1 DEF PageInv, Answered
    <2>2. Tail(query) \in StatsRest /\ query \in Seq(Queries)
      BY <2>1, StatsQueries
    <2> QED
      BY <1>1, <2>1, <2>2
  <1>2. CASE page = "detail"
    <2>1. query \in DetailRest /\ query # <<>>
      BY <1>2 DEF PageInv, Answered
    <2>2. Tail(query) \in DetailRest /\ query \in Seq(Queries)
      BY <2>1, DetailQueries
    <2> QED
      BY <1>2, <2>1, <2>2
  <1> QED
    BY <1>1, <1>2 DEF PageInv, Answered

(* Every step leaves the page with the rest of its order.                   *)
LEMMA PageStep ==
    ASSUME PageInv, [ReadersNext]_readersVars
    PROVE  PageInv'
  <1> USE DEF PageInv
  <1>1. CASE GetStats
    BY <1>1 DEF GetStats, Ask, StatsRest
  <1>2. CASE GetAgentRunDetail
    BY <1>2 DEF GetAgentRunDetail, Ask, DetailRest
  <1>3. CASE Query
    BY <1>3, Asking DEF Query
  <1>4. CASE QueryFails
    BY <1>4, Asking DEF QueryFails, Unanswered
  <1>5. CASE ReaderSide
    BY <1>5 DEF ReaderSide, readerVars, Unanswered
  <1> QED
    BY <1>1, <1>2, <1>3, <1>4, <1>5, ReaderMoves DEF Read

(* Nothing is shown.                                                        *)
LEMMA ShownTypeInit == ReadersInit => ShownTyped
  BY DEF ReadersInit, NothingShown, ShownTyped

(* Every step leaves what is shown in type.                                 *)
LEMMA ShownTypeStep ==
    ASSUME TablesTyped, PageInv, ShownTyped, [ReadersNext]_readersVars
    PROVE  ShownTyped'
  <1>1. shown' = NothingShown => ShownTyped'
    BY DEF NothingShown, ShownTyped
  <1>2. UNCHANGED shown => ShownTyped'
    BY DEF ShownTyped
  <1>3. CASE Query
    BY <1>3, Asking, AnswerTyped DEF Query, ShownTyped
  <1>4. CASE ~Query
    BY <1>1, <1>2, <1>4, ReaderMoves DEF Read, GetStats, GetAgentRunDetail, Ask, QueryFails,
       ReaderSide, readerVars, Unanswered
  <1> QED
    BY <1>3, <1>4

-----------------------------------------------------------------------------
(* The queries that are left.                                               *)
Left == Len(query)

(* What the runs that were read first have in the other tables, whatever    *)
(* was written since.                                                       *)
SeenInv ==
    /\ \A t \in shown.runs : run[t] # "none"
    /\ \A t \in shown.succeeded :
        /\ t \in asked /\ run[t] # "none"
        /\ shot[about[t]] = "organized"
        /\ dbFaults = 0 => t \in calls

(* The calls are read: they have those of the successes.                    *)
CallsInv ==
    (page = "stats" /\ Left <= 3) \/ (page = "detail" /\ Left <= 1) =>
        (dbFaults = 0 => shown.succeeded \subseteq shown.calls)

(* The texts are read: they have the screenshots of the runs.               *)
OcrInv ==
    page = "stats" /\ Left <= 2 =>
        /\ \A t \in shown.runs : about[t] \in shown.ocr
        /\ shown.ocr \subseteq Of(Stored)

(* The screenshots are read: they have the texts', and the successes' as    *)
(* organized ones.                                                          *)
ShotsInv ==
    Left = 0 =>
        /\ page = "stats" => shown.ocr \subseteq shown.shots
        /\ page = "stats" \/ (page = "detail" /\ dbFaults = 0) =>
               \A t \in shown.succeeded : about[t] \in shown.organized

ShownInv == SeenInv /\ CallsInv /\ OcrInv /\ ShotsInv

(* A page whose queries are all to be sent, or no page.                     *)
Unasked ==
    /\ shown = NothingShown
    /\ page \in {"none", "stats", "detail"}
    /\ page = "stats" => Left = 6
    /\ page = "detail" => Left = 3

(* A page that shows nothing is consistent until all is asked.              *)
LEMMA NothingIsConsistent == Unasked => ShownInv
  BY DEF Unasked, NothingShown, ShownInv, SeenInv, CallsInv, OcrInv, ShotsInv

(* Nothing is shown, and so nothing is told wrongly.                        *)
LEMMA ShownInit == ReadersInit => ShownInv
  BY NothingIsConsistent DEF ReadersInit, Unasked

(* A page that is begun or given up shows nothing.                          *)
LEMMA BeginsEmpty ==
    ASSUME GetStats \/ GetAgentRunDetail \/ Unanswered
    PROVE  ShownInv'
  <1>1. Unasked' => ShownInv'
    BY NothingIsConsistent, PTL
  <1>2. StatsOrder # <<>> /\ Len(StatsOrder) = 6 /\ DetailOrder # <<>> /\ Len(DetailOrder) = 3
    BY DEF StatsOrder, DetailOrder
  <1>3. CASE GetStats
    BY <1>1, <1>2, <1>3 DEF GetStats, Ask, Left, Unasked
  <1>4. CASE GetAgentRunDetail
    BY <1>1, <1>2, <1>4 DEF GetAgentRunDetail, Ask, Left, Unasked
  <1>5. CASE Unanswered
    BY <1>1, <1>5 DEF Unanswered, Unasked
  <1> QED
    BY <1>3, <1>4, <1>5

(* A writer's step takes nothing away from what a page has shown.           *)
LEMMA WritersKeepShown ==
    ASSUME TablesTyped, TablesInv, PageInv, ShownTyped, ShownInv, Persist, UNCHANGED <<page, query, asked, shown>>
    PROVE  ShownInv'
  <1>1. \A t \in shown.runs : t \in Tasks /\ about[t] \in Shots
    BY DEF TablesTyped, TablesInv, ShownTyped, ShownInv, SeenInv
  <1>2. \A t \in shown.succeeded : t \in Tasks /\ about[t] \in Shots
    BY DEF TablesTyped, TablesInv, ShownTyped, ShownInv, SeenInv
  <1>3. Left' = Left
    BY DEF Left
  <1>4. SeenInv'
    BY <1>1, <1>2 DEF ShownInv, SeenInv, Persist
  <1>5. CallsInv'
    BY <1>3 DEF ShownInv, CallsInv, Persist
  <1>6. OcrInv'
    BY <1>1, <1>3 DEF ShownInv, SeenInv, OcrInv, Persist, Of
  <1>7. ShotsInv'
    BY <1>2, <1>3 DEF ShownInv, SeenInv, ShotsInv, Persist
  <1> QED
    BY <1>4, <1>5, <1>6, <1>7 DEF ShownInv

(* A query adds to what is shown.                                           *)
LEMMA QueryKeepsShown ==
    ASSUME TablesTyped, TablesInv, PageInv, ShownTyped, ShownInv, Query
    PROVE  ShownInv'
  <1> DEFINE q == Head(query)
  <1>1. /\ page \in {"stats", "detail"}
        /\ shown' = Answer(q)
        /\ query' = Tail(query)
        /\ UNCHANGED <<page, asked, run, about, shot, calls, dbFaults>>
    BY Asking DEF Query, tableVars, vars, faultVars
  <1>2. page = "stats" => /\ Left \in 1..6 /\ Left' = Left - 1
                          /\ q = "agents" <=> Left = 6
                          /\ q = "p95" <=> Left = 5
                          /\ q = "calls" <=> Left = 4
                          /\ q = "ocr" <=> Left = 3
                          /\ q = "queue" <=> Left = 2
                          /\ q = "shots" <=> Left = 1
                          /\ q # "run"
    BY <1>1, Asking, StatsQueries DEF Query, Answered, Left
  <1>3. page = "detail" => /\ Left \in 1..3 /\ Left' = Left - 1
                           /\ q = "run" <=> Left = 3
                           /\ q = "calls" <=> Left = 2
                           /\ q = "shots" <=> Left = 1
                           /\ q \notin {"agents", "p95", "ocr", "queue"}
    BY <1>1, Asking, DetailQueries DEF Query, Answered, Left
  <1>4. \A t \in shown.runs \cup shown.succeeded : t \in Tasks /\ about[t] \in Shots
    BY DEF TablesTyped, TablesInv, ShownTyped, ShownInv, SeenInv
  <1>5. \A t \in Tasks : run[t] # "none" => about[t] \in Of(Stored)
    BY DEF TablesTyped, TablesInv, Of
  <1>6. asked \subseteq Tasks /\ (page = "stats" => asked = Tasks)
    BY DEF PageInv
  <1> HIDE DEF q
  <1>7. CASE q \in {"agents", "run"}
    <2>1. /\ shown'.runs = {t \in asked : run[t] # "none"}
          /\ shown'.succeeded = Succeeded \cap asked
      BY <1>1, <1>7 DEF Answer, ShownTyped
    <2>2. SeenInv'
      BY <1>1, <1>6, <2>1 DEF SeenInv, TablesInv, Succeeded, Outcome
    <2>4. ASSUME page = "stats" PROVE Left' = 5
      BY <1>2, <1>7, <2>4
    <2>5. ASSUME page = "detail" PROVE Left' = 2
      BY <1>3, <1>7, <2>5
    <2>3. (page = "stats" => Left' = 5) /\ (page = "detail" => Left' = 2)
      BY <2>4, <2>5
    <2> QED
      <3>1. CallsInv'
        BY <1>1, <2>3 DEF CallsInv
      <3>2. OcrInv'
        BY <1>1, <2>3 DEF OcrInv
      <3>3. ShotsInv'
        BY <1>1, <2>3 DEF ShotsInv
      <3> QED
        BY <2>2, <3>1, <3>2, <3>3 DEF ShownInv
  <1>8. CASE q = "p95"
    <2>1. shown' = [shown EXCEPT !.p95 = shown.succeeded # {} /\ P95Found]
      BY <1>1, <1>8 DEF Answer
    <2>2. UNCHANGED <<shown.runs, shown.succeeded>>
      BY <2>1 DEF ShownTyped
    <2>3. page = "stats" /\ Left' = 4
      BY <1>1, <1>2, <1>3, <1>8
    <2> QED
      <3>1. SeenInv'
        BY <1>1, <2>2, <2>3 DEF ShownInv, SeenInv
      <3>2. CallsInv'
        BY <1>1, <2>2, <2>3 DEF ShownInv, SeenInv, CallsInv
      <3>3. OcrInv'
        BY <1>1, <2>2, <2>3 DEF ShownInv, OcrInv
      <3>4. ShotsInv'
        BY <1>1, <2>2, <2>3 DEF ShotsInv
      <3> QED
        BY <3>1, <3>2, <3>3, <3>4 DEF ShownInv
  <1>9. CASE q = "calls"
    <2>1. /\ UNCHANGED <<shown.runs, shown.succeeded>>
          /\ shown'.calls = calls \cap asked
      BY <1>1, <1>9 DEF Answer, ShownTyped
    <2>2. (page = "stats" => Left' = 3) /\ (page = "detail" => Left' = 1)
      BY <1>2, <1>3, <1>9
    <2> QED
      <3>1. SeenInv'
        BY <1>1, <2>1, <2>2 DEF ShownInv, SeenInv
      <3>2. CallsInv'
        BY <1>1, <2>1, <2>2 DEF ShownInv, SeenInv, CallsInv
      <3>3. OcrInv'
        BY <1>1, <2>1, <2>2 DEF ShownInv, OcrInv
      <3>4. ShotsInv'
        BY <1>1, <2>1, <2>2 DEF ShotsInv
      <3> QED
        BY <3>1, <3>2, <3>3, <3>4 DEF ShownInv
  <1>10. CASE q = "ocr"
    <2>1. /\ UNCHANGED <<shown.runs, shown.succeeded, shown.calls>>
          /\ shown'.ocr = Of(Stored)
      BY <1>1, <1>10 DEF Answer, ShownTyped
    <2>2. page = "stats" /\ Left = 3 /\ Left' = 2
      BY <1>1, <1>2, <1>3, <1>10
    <2>3. Of(Stored)' = Of(Stored)
      BY <1>1 DEF Of
    <2>4. SeenInv' /\ CallsInv'
      BY <1>1, <2>1, <2>2 DEF ShownInv, SeenInv, CallsInv
    <2>5. OcrInv'
      BY <1>1, <1>4, <1>5, <2>1, <2>3 DEF ShownInv, SeenInv, OcrInv
    <2> QED
      BY <2>2, <2>4, <2>5 DEF ShownInv, ShotsInv
  <1>11. CASE q = "queue"
    <2>1. shown' = shown
      BY <1>1, <1>11 DEF Answer
    <2>2. page = "stats" /\ Left = 2 /\ Left' = 1
      BY <1>1, <1>2, <1>3, <1>11
    <2>3. Of(Stored)' = Of(Stored)
      BY <1>1 DEF Of
    <2> QED
      <3>1. SeenInv'
        BY <1>1, <2>1, <2>2, <2>3 DEF ShownInv, SeenInv
      <3>2. CallsInv'
        BY <1>1, <2>1, <2>2, <2>3 DEF ShownInv, SeenInv, CallsInv
      <3>3. OcrInv'
        BY <1>1, <2>1, <2>2, <2>3 DEF ShownInv, OcrInv
      <3>4. ShotsInv'
        BY <1>1, <2>1, <2>2, <2>3 DEF ShotsInv
      <3> QED
        BY <3>1, <3>2, <3>3, <3>4 DEF ShownInv
  <1>12. CASE q = "shots"
    <2>1. /\ UNCHANGED <<shown.runs, shown.succeeded, shown.calls, shown.ocr>>
          /\ shown'.shots = InScope(Of(Stored))
          /\ shown'.organized = InScope(Of({"organized"}))
      BY <1>1, <1>12 DEF Answer, ShownTyped
    <2>2. Left = 1 /\ Left' = 0
      BY <1>1, <1>2, <1>3, <1>12
    <2>3. Of(Stored)' = Of(Stored)
      BY <1>1 DEF Of
    <2>4. \A t \in shown.succeeded : about[t] \in InScope(Of({"organized"}))
      BY <1>4 DEF InScope, Of, ShownInv, SeenInv
    <2>5. page = "stats" => InScope(Of(Stored)) = Of(Stored)
      BY DEF InScope
    <2>6. SeenInv' /\ CallsInv' /\ OcrInv'
      BY <1>1, <2>1, <2>2, <2>3 DEF ShownInv, SeenInv, CallsInv, OcrInv
    <2>7. ShotsInv'
      BY <1>1, <2>1, <2>2, <2>4, <2>5 DEF ShownInv, SeenInv, OcrInv, ShotsInv
    <2> QED
      BY <2>6, <2>7 DEF ShownInv
  <1> QED
    BY <1>7, <1>8, <1>9, <1>10, <1>11, <1>12, Asking DEF Queries, q, Query

(* A query that fails costs at most what its answer would have shown.       *)
LEMMA FailureKeepsShown ==
    ASSUME Typed, TablesTyped, TablesInv, PageInv, ShownTyped, ShownInv, QueryFails
    PROVE  ShownInv'
  <1>1. /\ page \in {"stats", "detail"}
        /\ dbFaults' # 0
        /\ UNCHANGED <<run, about, shot, calls>>
    BY Asking, ConstantsAssumption DEF QueryFails, tableVars, DBFault, Typed, TypeOK
  <1>2. CASE Unanswered
    BY <1>2, BeginsEmpty
  <1>3. CASE Dropped(Head(query)) /\ query' = Tail(query) /\ UNCHANGED <<page, asked, shown>>
    <2>1. page = "stats" => Left' = 4
      BY <1>3, Asking, StatsQueries DEF QueryFails, Dropped, Answered, Left
    <2>2. SeenInv' /\ CallsInv'
      BY <1>1, <1>3 DEF ShownInv, SeenInv, CallsInv
    <2>3. OcrInv'
      BY <1>1, <1>3, <2>1 DEF OcrInv
    <2>4. ShotsInv'
      BY <1>1, <1>3, <2>1 DEF ShotsInv
    <2> QED
      BY <2>2, <2>3, <2>4 DEF ShownInv
  <1> QED
    BY <1>2, <1>3 DEF QueryFails

(* Every step leaves the page as consistent as it was.                      *)
LEMMA ShownStep ==
    ASSUME Typed, TablesTyped, BegunInv, TablesInv, PageInv, ShownTyped, ShownInv, [ReadersNext]_readersVars
    PROVE  ShownInv'
  <1>1. CASE GetStats \/ GetAgentRunDetail
    BY <1>1, BeginsEmpty
  <1>2. CASE Query
    BY <1>2, QueryKeepsShown
  <1>3. CASE QueryFails
    BY <1>3, FailureKeepsShown
  <1>4. CASE ReaderSide
    BY <1>4, PersistStep, BeginsEmpty, WritersKeepShown DEF ReaderSide, readerVars
  <1> QED
    BY <1>1, <1>2, <1>3, <1>4, ReaderMoves DEF Read

-----------------------------------------------------------------------------
(* Without a fault no success is taken back: who could write the run again  *)
(* would have to lease a task that is leased or completed.                  *)
LEMMA SuccessStays ==
    ASSUME MaxExec <= LockTimeout, Typed, LeaseInv, BegunInv, KeptInv, QueueMoves, crashes' + dbFaults' = 0
    PROVE  Succeeded \subseteq Succeeded'
  <1> USE ConstantsAssumption DEF Typed, HasTask, LeaseInv, JobInv, HeldOnce, BegunInv, KeptInv,
        Outcome, Succeeded,
        Holding, Busy, Owning, TypeOK, rowVars, localVars, faultVars
  <1>1. ASSUME NEW t \in Tasks, CreateAgentRun(t) PROVE Succeeded \subseteq Succeeded'
    BY <1>1 DEF CreateAgentRun
  <1>2. ASSUME NEW t \in Tasks, EnqueueTask(t) PROVE Succeeded \subseteq Succeeded'
    BY <1>2 DEF EnqueueTask
  <1>3. ASSUME NEW t \in Tasks, EnqueueFails(t) PROVE Succeeded \subseteq Succeeded'
    BY <1>3 DEF EnqueueFails
  <1>4. ASSUME NEW w \in Workers, SelectTask(w) PROVE Succeeded \subseteq Succeeded'
    BY <1>4 DEF SelectTask
  <1>5. ASSUME NEW w \in Workers, CommitDequeue(w) PROVE Succeeded \subseteq Succeeded'
    BY <1>5 DEF CommitDequeue
  <1>6. ASSUME NEW w \in Workers, RollbackOnStop(w) PROVE Succeeded \subseteq Succeeded'
    BY <1>6 DEF RollbackOnStop
  <1>7. ASSUME NEW w \in Workers, StartRun(w) PROVE Succeeded \subseteq Succeeded'
    BY <1>7 DEF StartRun, Goto
  <1>8. ASSUME NEW w \in Workers, FinishRun(w) PROVE Succeeded \subseteq Succeeded'
    BY <1>8 DEF FinishRun, Goto
  <1>9. ASSUME NEW w \in Workers, AbortRun(w) PROVE Succeeded \subseteq Succeeded'
    BY <1>9 DEF AbortRun, Goto
  <1>10. ASSUME NEW w \in Workers, CompleteTask(w) PROVE Succeeded \subseteq Succeeded'
    BY <1>10 DEF CompleteTask
  <1>11. ASSUME NEW w \in Workers, RetryTask(w) PROVE Succeeded \subseteq Succeeded'
    BY <1>11 DEF RetryTask
  <1>12. ASSUME NEW w \in Workers, MarkTaskDead(w) PROVE Succeeded \subseteq Succeeded'
    BY <1>12 DEF MarkTaskDead
  <1>13. ASSUME NEW w \in Workers, BuryRun(w) PROVE Succeeded \subseteq Succeeded'
    BY <1>13 DEF BuryRun, BackToPoll, Local
  <1>14. ASSUME NEW w \in Workers, ExitLoop(w) PROVE Succeeded \subseteq Succeeded'
    BY <1>14 DEF ExitLoop, Goto
  <1>15. ASSUME NEW w \in Workers, DequeueFails(w) PROVE Succeeded \subseteq Succeeded'
    BY <1>15 DEF DequeueFails, DBFault, LeaseRow, BackToPoll, Local
  <1>16. ASSUME NEW w \in Workers, StatementFails(w) PROVE Succeeded \subseteq Succeeded'
    BY <1>16 DEF StatementFails, DBFault, Goto, BackToPoll, Local
  <1>17. CASE ReleaseStaleLockedTasks
    BY <1>17 DEF ReleaseStaleLockedTasks, Stale
  <1>18. CASE Tick
    BY <1>18 DEF Tick
  <1>19. CASE Stop
    BY <1>19 DEF Stop
  <1>20. CASE Halt
    BY <1>20 DEF Halt, ProcessGone
  <1>21. CASE Crash
    BY <1>21 DEF Crash, ProcessGone
  <1>22. CASE Restart
    BY <1>22 DEF Restart
  <1>23. CASE UNCHANGED vars
    BY <1>23 DEF vars
  <1>24. CASE LostStatement
    BY <1>24 DEF LostStatement, DBFault
  <1> QED
    BY <1>1, <1>2, <1>3, <1>4, <1>5, <1>6, <1>7, <1>8, <1>9, <1>10,
       <1>11, <1>12, <1>13, <1>14, <1>15, <1>16, <1>17, <1>18, <1>19, <1>20, <1>21, <1>22, <1>23, <1>24
    DEF QueueMoves, Next, Submit, Step, Fault

(* The row that the P95 query skips to is there as long as no success that  *)
(* was counted is taken back.                                               *)
LEMMA OffsetIsWithin ==
    ASSUME IsFiniteSet(Tasks), shown.succeeded # {}, shown.succeeded \subseteq Succeeded
    PROVE  P95Found
  <1> DEFINE n == Cardinality(shown.succeeded)
             k == Cardinality(Succeeded)
  <1>1. IsFiniteSet(Succeeded)
    BY FS_Subset DEF Succeeded
  <1>2. IsFiniteSet(shown.succeeded) /\ n <= k
    BY <1>1, FS_Subset
  <1>3. n \in Nat /\ k \in Nat /\ n # 0
    BY <1>1, <1>2, FS_CardinalityType, FS_EmptySet
  <1>4. P95Offset(n) < n
    <2> HIDE DEF n
    <2> QED
      BY <1>3 DEF P95Offset
  <1>5. P95Offset(n) \in Int
    <2> HIDE DEF n
    <2> QED
      BY <1>3 DEF P95Offset
  <1>6. P95Offset(n) < k
    <2> HIDE DEF n, k
    <2> QED
      BY <1>2, <1>3, <1>4, <1>5
  <1> QED
    BY <1>6 DEF P95Found

(* Without a fault the successes that are shown are successes still, and    *)
(* the P95, once asked for, was found.                                      *)
P95Inv ==
    crashes + dbFaults = 0 =>
        /\ shown.succeeded \subseteq Succeeded
        /\ page = "stats" /\ Left <= 4 => (shown.succeeded # {} => shown.p95)

(* Nothing is shown.                                                        *)
LEMMA P95Init == ReadersInit => P95Inv
  BY DEF ReadersInit, NothingShown, P95Inv

(* Every step leaves the P95 with the successes it is computed from.        *)
LEMMA P95Step ==
    ASSUME IsFiniteSet(Tasks), MaxExec <= LockTimeout,
           Typed, LeaseInv, BegunInv, KeptInv, TablesTyped, PageInv, ShownTyped, P95Inv, Persist, [ReadersNext]_readersVars
    PROVE  P95Inv'
  <1> SUFFICES ASSUME crashes' + dbFaults' = 0 PROVE P95Inv'
    BY DEF P95Inv
  <1>1. crashes + dbFaults = 0
    BY DEF Persist
  <1>2. Succeeded \subseteq Succeeded'
    BY SuccessStays, ReadersStepIsQueueStep
  <1>3. CASE shown' = NothingShown
    BY <1>3 DEF NothingShown, P95Inv
  <1>4. CASE QueryFails
    <2>1. dbFaults' # 0 /\ dbFaults' \in Nat /\ crashes' \in Nat
      BY <1>4, ConstantsAssumption DEF QueryFails, DBFault, Typed, TypeOK
    <2>2. \A m, n \in Nat : m + n = 0 => n = 0
      OBVIOUS
    <2> QED
      BY <2>1, <2>2
  <1>5. CASE UNCHANGED readerVars
    <2>1. Left' = Left
      BY <1>5 DEF readerVars, Left
    <2> QED
      BY <1>1, <1>2, <1>5, <2>1 DEF readerVars, P95Inv
  <1>6. CASE Query
    <2> DEFINE q == Head(query)
    <2>1. /\ q \in Queries
          /\ shown' = Answer(q)
          /\ UNCHANGED <<page, run>>
      BY <1>6, Asking DEF Query, vars
    <2>2. page = "stats" => /\ Left \in 1..6 /\ Left' = Left - 1
                            /\ q = "p95" <=> Left = 5
      BY <1>6, Asking, StatsQueries DEF Query, Answered, Left
    <2> HIDE DEF q
    <2>3. Succeeded' = Succeeded
      BY <2>1 DEF Succeeded
    <2>4. CASE q \in {"agents", "run"}
      <3>1. shown'.succeeded = Succeeded \cap asked
        BY <2>1, <2>4 DEF Answer, ShownTyped
      <3>2. page = "stats" => Left' = 5
        BY <1>6, <2>4, Asking, StatsQueries DEF Query, Answered, Left, q
      <3> QED
        BY <2>1, <2>3, <3>1, <3>2 DEF P95Inv
    <2>5. CASE q = "p95"
      <3>1. /\ shown'.succeeded = shown.succeeded
            /\ shown'.p95 = (shown.succeeded # {} /\ P95Found)
        BY <2>1, <2>5 DEF Answer, ShownTyped
      <3>2. shown.succeeded # {} => P95Found
        BY <1>1, OffsetIsWithin DEF P95Inv
      <3> QED
        BY <1>1, <2>3, <3>1, <3>2 DEF P95Inv
    <2>6. CASE q \in {"calls", "ocr", "queue", "shots"}
      <3>1. UNCHANGED <<shown.succeeded, shown.p95>>
        BY <2>1, <2>6 DEF Answer, ShownTyped
      <3>2. page = "stats" /\ Left' <= 4 => Left <= 4
        BY <2>2, <2>6
      <3> QED
        BY <1>1, <2>1, <2>3, <3>1, <3>2 DEF P95Inv
    <2> QED
      BY <2>1, <2>4, <2>5, <2>6 DEF Queries
  <1> QED
    BY <1>3, <1>4, <1>5, <1>6, ReaderMoves
       DEF Read, GetStats, GetAgentRunDetail, Ask, ReaderSide, Unanswered

-----------------------------------------------------------------------------
(* The invariant that needs no bound on how long a goroutine is busy.       *)
TablesAndPage == Typed /\ TablesTyped /\ BegunInv /\ TablesInv /\ PageInv /\ ShownTyped /\ ShownInv

(* What the tables hold for a run and what a page has shown of it agree in  *)
(* every reachable state.                                                   *)
THEOREM PageInvariant == ReadersSpec => []TablesAndPage
  <1>1. ReadersInit => TablesAndPage
    BY TypeInit, TablesTypeInit, BegunInit, TablesInit, PageInit, ShownTypeInit, ShownInit
       DEF ReadersInit, TablesAndPage
  <1>2. TablesAndPage /\ [ReadersNext]_readersVars => TablesAndPage'
    BY ReadersStepIsQueueStep, QueueTypes, TablesTypeStep, BegunStep, TablesStep, PageStep,
       ShownTypeStep, ShownStep
    DEF TablesAndPage
  <1> QED
    BY <1>1, <1>2, PTL DEF ReadersSpec

(* ReadersTypeOK: every table, and every part of a page, keeps its type.    *)
THEOREM ReadersTypeCorrect == ReadersSpec => []ReadersTypeOK
  <1>1. PageInv => query \in Seq(Queries)
    <2>1. <<>> \in Seq(Queries)
      OBVIOUS
    <2> QED
      BY <2>1, StatsQueries, DetailQueries DEF PageInv
  <1>2. TablesAndPage => ReadersTypeOK
    BY <1>1 DEF TablesAndPage, Typed, TablesTyped, PageInv, ShownTyped, ReadersTypeOK, Queries
  <1> QED
    BY PageInvariant, <1>2, PTL

(* StatsAddUp: the page of statistics adds up, however its queries and the  *)
(* writers are interleaved.                                                 *)
THEOREM StatisticsAddUp == ReadersSpec => []StatsAddUp
  <1>1. TablesAndPage => StatsAddUp
    <2> SUFFICES ASSUME TablesAndPage, page = "stats", Answered
                 PROVE  /\ {about[t] : t \in shown.runs} \subseteq shown.ocr
                        /\ shown.ocr \subseteq shown.shots
                        /\ {about[t] : t \in shown.succeeded} \subseteq shown.organized
                        /\ dbFaults = 0 => shown.succeeded \subseteq shown.calls
      BY DEF StatsAddUp
    <2>1. Left = 0
      BY DEF Answered, Left
    <2> QED
      BY <2>1 DEF TablesAndPage, ShownInv, CallsInv, OcrInv, ShotsInv
  <1> QED
    BY PageInvariant, <1>1, PTL

(* DetailIsComplete: a successful run is shown with its calls and its       *)
(* screenshot organized.                                                    *)
THEOREM DetailComplete == ReadersSpec => []DetailIsComplete
  <1>1. TablesAndPage => DetailIsComplete
    <2> SUFFICES ASSUME TablesAndPage, page = "detail", Answered, dbFaults = 0
                 PROVE  /\ shown.succeeded \subseteq shown.calls
                        /\ {about[t] : t \in shown.succeeded} \subseteq shown.organized
      BY DEF DetailIsComplete
    <2>1. Left = 0
      BY DEF Answered, Left
    <2> QED
      BY <2>1 DEF TablesAndPage, ShownInv, CallsInv, ShotsInv
  <1> QED
    BY PageInvariant, <1>1, PTL

(* P95IsFound: without a fault the P95 of a page that counts a success is   *)
(* there, for finitely many tasks and leases that outlive the work.         *)
THEOREM P95IsAlwaysFound ==
    ASSUME IsFiniteSet(Tasks), MaxExec <= LockTimeout
    PROVE  ReadersSpec => []P95IsFound
  <1>1. ReadersInit => LeaseInv /\ KeptInv /\ P95Inv
    BY LeaseInit, KeptInit, P95Init DEF ReadersInit
  <1>2. TablesAndPage /\ LeaseInv /\ KeptInv /\ P95Inv /\ [ReadersNext]_readersVars => LeaseInv' /\ KeptInv' /\ P95Inv'
    BY ReadersStepIsQueueStep, QueueLeases, KeptStep, PersistStep, P95Step DEF TablesAndPage
  <1>3. P95Inv => P95IsFound
    <2> SUFFICES ASSUME P95Inv, page = "stats", Answered, shown.succeeded # {}, crashes + dbFaults = 0
                 PROVE  shown.p95
      BY DEF P95IsFound
    <2>1. Left = 0
      BY DEF Answered, Left
    <2> QED
      BY <2>1 DEF P95Inv
  <1> QED
    BY PageInvariant, <1>1, <1>2, <1>3, PTL DEF ReadersSpec

=============================================================================
