-------------------------- MODULE MemoryQueueProofs --------------------------
(***************************************************************************)
(* The inductive invariants behind the safety of MemoryQueue, and the       *)
(* theorems that follow from them, for every number of runs, screenshots,   *)
(* goroutines and attempts.                                                 *)
(***************************************************************************)
EXTENDS MemoryQueue, SequenceTheorems, FiniteSetTheorems, TLAPS

Statuses == {"queued", "running", "completed", "dead"}

(* The tasks are a sequence of well-formed tasks, each of a run of its own. *)
TasksOK ==
    /\ tasks \in Seq(TaskType)
    /\ \A i, j \in DOMAIN tasks : tasks[i].run = tasks[j].run => i = j

(* A goroutine at work holds a task.                                        *)
HasTask == \A w \in Workers : pc[w] \in Busy => held[w] \in DOMAIN tasks


(* Only an accepted request has a task.                                     *)
RequestInv == \A i \in DOMAIN tasks : request[tasks[i].run] = "accepted"

Slice == TasksOK /\ HasTask /\ RequestInv

Typed == TypeOK /\ Slice

(* What a goroutine remembers is what the slice says of the task it holds.  *)
JobInv ==
    \A w \in Workers : pc[w] \in Busy =>
        /\ tasks[held[w]].attempts = seen[w]
        /\ tasks[held[w]].status = IF pc[w] = "burying" THEN "dead" ELSE "running"

(* A queued task has an attempt to spare; one that was never tried is queued. *)
CountInv ==
    \A i \in DOMAIN tasks :
        /\ tasks[i].attempts <= MaxAttempts
        /\ tasks[i].status = "queued" => tasks[i].attempts < MaxAttempts
        /\ tasks[i].attempts = 0 => tasks[i].status = "queued"

(* A goroutine between its look at the context and its dequeue owes nothing. *)
StopInv ==
    \A w \in Workers :
        /\ late[w] <= 1
        /\ life = "up" \/ pc[w] = "polling" => late[w] = 0

HoldInv == JobInv /\ OneHolder /\ CountInv /\ TakenInOrder /\ StopInv

Succeeded(r) == runs[r] \in {"completed", "partial_success"}

(* A run's status follows its task ...                                      *)
TaskRun(i) ==
    /\ runs[tasks[i].run] # "none"
    /\ tasks[i].status = "queued" => ~Succeeded(tasks[i].run)
    /\ tasks[i].status = "dead" => runs[tasks[i].run] = "failed"

TaskRuns == \A i \in DOMAIN tasks : TaskRun(i)

(* ... and how far the goroutine that holds the task has come.              *)
JobRun(w) ==
    /\ pc[w] \in {"dequeued", "executing", "missing", "saving", "finishing"} => ~Succeeded(Run(w))
    /\ pc[w] = "succeeded" => Succeeded(Run(w))
    /\ pc[w] \in {"failing", "burying"} => runs[Run(w)] = "failed"

JobRuns == \A w \in Workers : JobRun(w)

RequestRuns ==
    \A r \in Runs :
        /\ request[r] \in {"new", "uploaded"} => runs[r] = "none"
        /\ request[r] = "created" => runs[r] = "running"
        /\ request[r] # "accepted" => runs[r] \in {"none", "running"}

RunInv == TaskRuns /\ JobRuns /\ RequestRuns

Saved(w) == pc[w] \in {"finishing", "succeeded"}

(* The screenshot of a run is known once its request has named it, and a    *)
(* screenshot is organized exactly when a run that saved it has succeeded   *)
(* or is about to.                                                          *)
AboutShots ==
    \A r \in Runs : request[r] \in {"uploaded", "created", "accepted"} => about[r] \in Shots

SuccessShots == \A r \in Runs : Succeeded(r) => screenshots[about[r]] = "organized"

JobShots ==
    \A w \in Workers :
        /\ pc[w] = "saving" => screenshots[about[Run(w)]] # "none"
        /\ Saved(w) => screenshots[about[Run(w)]] = "organized"

OrganizedShots ==
    \A s \in Shots : screenshots[s] = "organized" =>
        \/ \E r \in Runs : Succeeded(r) /\ about[r] = s
        \/ \E w \in Workers : Saved(w) /\ about[Run(w)] = s

ShotInv == AboutShots /\ SuccessShots /\ JobShots /\ OrganizedShots

-----------------------------------------------------------------------------
(* What the shape of the slice says of each task.                           *)
LEMMA TaskFields ==
    ASSUME tasks \in Seq(TaskType)
    PROVE  /\ Len(tasks) \in Nat /\ DOMAIN tasks = 1..Len(tasks)
           /\ \A i \in DOMAIN tasks :
                /\ tasks[i] \in TaskType
                /\ tasks[i].run \in Runs /\ tasks[i].status \in Statuses /\ tasks[i].attempts \in Nat
  <1>1. Len(tasks) \in Nat /\ DOMAIN tasks = 1..Len(tasks)
    BY LenProperties
  <1>2. ASSUME NEW i \in DOMAIN tasks PROVE tasks[i] \in TaskType
    BY <1>1, ElementOfSeq
  <1>3. ASSUME NEW x \in TaskType PROVE x.run \in Runs /\ x.status \in Statuses /\ x.attempts \in Nat
    BY DEF TaskType, Statuses
  <1> QED
    BY <1>1, <1>2, <1>3

(* Writing one task's status leaves every other field of the slice alone.   *)
LEMMA SetTaskEffect ==
    ASSUME tasks \in Seq(TaskType), NEW w \in Workers, held[w] \in DOMAIN tasks,
           NEW s \in Statuses, SetTask(w, s)
    PROVE  /\ tasks' \in Seq(TaskType) /\ Len(tasks') = Len(tasks) /\ DOMAIN tasks' = DOMAIN tasks
           /\ \A i \in DOMAIN tasks :
                /\ tasks'[i].run = tasks[i].run
                /\ tasks'[i].attempts = tasks[i].attempts
                /\ tasks'[i].status = IF i = held[w] THEN s ELSE tasks[i].status
  <1> DEFINE e == [tasks[held[w]] EXCEPT !.status = s]
  <1>1. tasks' = [tasks EXCEPT ![held[w]] = e]
    BY DEF SetTask
  <1>2. e \in TaskType /\ e.run = tasks[held[w]].run /\ e.attempts = tasks[held[w]].attempts /\ e.status = s
    BY TaskFields DEF TaskType, Statuses
  <1>3. held[w] \in 1..Len(tasks)
    BY TaskFields
  <1> HIDE DEF e
  <1>4. /\ tasks' \in Seq(TaskType) /\ Len(tasks') = Len(tasks)
        /\ \A j \in 1..Len(tasks) : tasks'[j] = IF j = held[w] THEN e ELSE tasks[j]
    BY <1>1, <1>2, <1>3, ExceptSeq
  <1>5. DOMAIN tasks' = 1..Len(tasks) /\ DOMAIN tasks = 1..Len(tasks)
    BY <1>4, LenProperties
  <1> QED
    BY <1>2, <1>4, <1>5

(* A dequeue takes one queued task and counts the attempt.                  *)
LEMMA TakenEffect ==
    ASSUME tasks \in Seq(TaskType), NEW n \in DOMAIN tasks, tasks' = Taken(n)
    PROVE  /\ tasks' \in Seq(TaskType) /\ Len(tasks') = Len(tasks) /\ DOMAIN tasks' = DOMAIN tasks
           /\ \A i \in DOMAIN tasks :
                /\ tasks'[i].run = tasks[i].run
                /\ tasks'[i].attempts = IF i = n THEN tasks[i].attempts + 1 ELSE tasks[i].attempts
                /\ tasks'[i].status = IF i = n THEN "running" ELSE tasks[i].status
  <1> DEFINE e == [run |-> tasks[n].run, status |-> "running", attempts |-> tasks[n].attempts + 1]
  <1>1. tasks[n] \in TaskType /\ n \in 1..Len(tasks) /\ DOMAIN tasks = 1..Len(tasks) /\ Len(tasks) \in Nat
    BY TaskFields
  <1>2. tasks' = [tasks EXCEPT ![n] = e]
    BY <1>1 DEF Taken, TaskType
  <1>3. e \in TaskType
    BY <1>1 DEF TaskType
  <1>4. e.run = tasks[n].run /\ e.attempts = tasks[n].attempts + 1 /\ e.status = "running"
    OBVIOUS
  <1> HIDE DEF e
  <1>5. /\ tasks' \in Seq(TaskType) /\ Len(tasks') = Len(tasks)
        /\ \A j \in 1..Len(tasks) : tasks'[j] = IF j = n THEN e ELSE tasks[j]
    BY <1>1, <1>2, <1>3, ExceptSeq
  <1>6. DOMAIN tasks' = 1..Len(tasks)
    BY <1>5, LenProperties
  <1> QED
    BY <1>1, <1>4, <1>5, <1>6

(* EnqueueTask adds one queued task at the end.                             *)
LEMMA AppendEffect ==
    ASSUME tasks \in Seq(TaskType), NEW r \in Runs,
           tasks' = Append(tasks, [run |-> r, status |-> "queued", attempts |-> 0])
    PROVE  /\ tasks' \in Seq(TaskType)
           /\ Len(tasks') = Len(tasks) + 1 /\ DOMAIN tasks' = DOMAIN tasks \cup {Len(tasks) + 1}
           /\ \A i \in DOMAIN tasks : tasks'[i] = tasks[i]
           /\ tasks'[Len(tasks) + 1].run = r
           /\ tasks'[Len(tasks) + 1].status = "queued"
           /\ tasks'[Len(tasks) + 1].attempts = 0
  <1> DEFINE e == [run |-> r, status |-> "queued", attempts |-> 0]
  <1>1. e \in TaskType
    BY DEF TaskType
  <1> HIDE DEF e
  <1>2. tasks' = Append(tasks, e)
    BY DEF e
  <1>3. /\ tasks' \in Seq(TaskType) /\ Len(tasks') = Len(tasks) + 1
        /\ \A i \in 1..Len(tasks) : tasks'[i] = tasks[i]
        /\ tasks'[Len(tasks) + 1] = e
    BY <1>1, <1>2, AppendProperties
  <1>4. Len(tasks) \in Nat /\ DOMAIN tasks = 1..Len(tasks) /\ DOMAIN tasks' = 1..Len(tasks')
    BY <1>3, LenProperties
  <1> QED
    BY <1>3, <1>4 DEF e

-----------------------------------------------------------------------------
Added(r) == tasks' = Append(tasks, [run |-> r, status |-> "queued", attempts |-> 0])

(* The statuses a goroutine writes to its task, and where it writes them.   *)
Settles(w, s) ==
    \/ pc[w] = "succeeded" /\ s = "completed"
    \/ pc[w] = "failing" /\ s = IF Exhausted(w) THEN "dead" ELSE "queued"

(* What a step may do to the slice.                                         *)
TasksChange ==
    \/ UNCHANGED tasks
    \/ \E r \in Runs : request[r] = "created" /\ request'[r] = "accepted" /\ Added(r)
    \/ \E n \in DOMAIN tasks : Dequeuable(n) /\ tasks' = Taken(n)
    \/ \E w \in Workers, s \in Statuses : Settles(w, s) /\ SetTask(w, s)

(* Every step changes the slice in one of the ways that TasksChange lists.  *)
LEMMA TasksStep == TypeOK /\ [Next]_vars => TasksChange
  <1> SUFFICES ASSUME TypeOK, [Next]_vars PROVE TasksChange
    OBVIOUS
  <1> USE DEF TasksChange, storeVars
  <1>1. ASSUME NEW r \in Runs, NEW s \in Shots, CreateScreenshot(r, s) PROVE TasksChange
    BY <1>1 DEF CreateScreenshot
  <1>2. ASSUME NEW r \in Runs, CreateAgentRun(r) PROVE TasksChange
    BY <1>2 DEF CreateAgentRun
  <1>3. ASSUME NEW r \in Runs, EnqueueTask(r) PROVE TasksChange
    BY <1>3 DEF EnqueueTask, Added, TypeOK
  <1>4. ASSUME NEW w \in Workers, Poll(w) PROVE TasksChange
    BY <1>4 DEF Poll, Goto
  <1>5. ASSUME NEW w \in Workers, DequeueTask(w) PROVE TasksChange
    BY <1>5 DEF DequeueTask
  <1>6. ASSUME NEW w \in Workers, FindNothing(w) PROVE TasksChange
    BY <1>6 DEF FindNothing, Goto
  <1>7. ASSUME NEW w \in Workers, ExitLoop(w) PROVE TasksChange
    BY <1>7 DEF ExitLoop, Goto
  <1>8. ASSUME NEW w \in Workers, StartRun(w) PROVE TasksChange
    BY <1>8 DEF StartRun, Goto, SetRun
  <1>9. ASSUME NEW w \in Workers, GetScreenshot(w) PROVE TasksChange
    BY <1>9 DEF GetScreenshot, Goto
  <1>10. ASSUME NEW w \in Workers, SaveMemory(w) PROVE TasksChange
    BY <1>10 DEF SaveMemory, Goto
  <1>11. ASSUME NEW w \in Workers, FinishRun(w) PROVE TasksChange
    BY <1>11 DEF FinishRun, Goto, SetRun
  <1>12. ASSUME NEW w \in Workers, AbortRun(w) PROVE TasksChange
    BY <1>12 DEF AbortRun, Goto, SetRun
  <1>13. ASSUME NEW w \in Workers, CompleteTask(w) PROVE TasksChange
    BY <1>13 DEF CompleteTask, Settles, Statuses
  <1>14. ASSUME NEW w \in Workers, RetryTask(w) PROVE TasksChange
    BY <1>14 DEF RetryTask, Settles, Statuses
  <1>15. ASSUME NEW w \in Workers, MarkTaskDead(w) PROVE TasksChange
    BY <1>15 DEF MarkTaskDead, Settles, Statuses
  <1>16. ASSUME NEW w \in Workers, BuryRun(w) PROVE TasksChange
    BY <1>16 DEF BuryRun, Release, SetRun
  <1>17. CASE Stop
    BY <1>17 DEF Stop
  <1>18. CASE Halt
    BY <1>18 DEF Halt, ProcessGone
  <1>19. CASE Crash
    BY <1>19 DEF Crash, ProcessGone
  <1>20. CASE UNCHANGED vars
    BY <1>20 DEF vars
  <1> QED
    BY <1>1, <1>2, <1>3, <1>4, <1>5, <1>6, <1>7, <1>8, <1>9, <1>10,
       <1>11, <1>12, <1>13, <1>14, <1>15, <1>16, <1>17, <1>18, <1>19, <1>20
    DEF Next, Submit, Running, Step

(* An accepted request stays accepted.                                      *)
LEMMA AcceptedStays ==
    TypeOK /\ [Next]_vars => \A r \in Runs : request[r] = "accepted" => request'[r] = "accepted"
  <1> DEFINE Stays == \A r \in Runs : request[r] = "accepted" => request'[r] = "accepted"
  <1> SUFFICES ASSUME TypeOK, [Next]_vars PROVE Stays
    OBVIOUS
  <1> USE DEF TypeOK
  <1>1. ASSUME NEW r \in Runs, NEW s \in Shots, CreateScreenshot(r, s) PROVE Stays
    BY <1>1 DEF CreateScreenshot
  <1>2. ASSUME NEW r \in Runs, CreateAgentRun(r) PROVE Stays
    BY <1>2 DEF CreateAgentRun
  <1>3. ASSUME NEW r \in Runs, EnqueueTask(r) PROVE Stays
    BY <1>3 DEF EnqueueTask
  <1>4. ASSUME NEW w \in Workers, Poll(w) PROVE Stays
    BY <1>4 DEF Poll, Goto
  <1>5. ASSUME NEW w \in Workers, DequeueTask(w) PROVE Stays
    BY <1>5 DEF DequeueTask
  <1>6. ASSUME NEW w \in Workers, FindNothing(w) PROVE Stays
    BY <1>6 DEF FindNothing, Goto
  <1>7. ASSUME NEW w \in Workers, ExitLoop(w) PROVE Stays
    BY <1>7 DEF ExitLoop, Goto
  <1>8. ASSUME NEW w \in Workers, StartRun(w) PROVE Stays
    BY <1>8 DEF StartRun, Goto, SetRun
  <1>9. ASSUME NEW w \in Workers, GetScreenshot(w) PROVE Stays
    BY <1>9 DEF GetScreenshot, Goto
  <1>10. ASSUME NEW w \in Workers, SaveMemory(w) PROVE Stays
    BY <1>10 DEF SaveMemory, Goto
  <1>11. ASSUME NEW w \in Workers, FinishRun(w) PROVE Stays
    BY <1>11 DEF FinishRun, Goto, SetRun
  <1>12. ASSUME NEW w \in Workers, AbortRun(w) PROVE Stays
    BY <1>12 DEF AbortRun, Goto, SetRun
  <1>13. ASSUME NEW w \in Workers, CompleteTask(w) PROVE Stays
    BY <1>13 DEF CompleteTask, Release
  <1>14. ASSUME NEW w \in Workers, RetryTask(w) PROVE Stays
    BY <1>14 DEF RetryTask, Release, Exhausted
  <1>15. ASSUME NEW w \in Workers, MarkTaskDead(w) PROVE Stays
    BY <1>15 DEF MarkTaskDead, Goto, Exhausted
  <1>16. ASSUME NEW w \in Workers, BuryRun(w) PROVE Stays
    BY <1>16 DEF BuryRun, Release, SetRun
  <1>17. CASE Stop
    BY <1>17 DEF Stop
  <1>18. CASE Halt
    BY <1>18 DEF Halt, ProcessGone
  <1>19. CASE Crash
    BY <1>19 DEF Crash, ProcessGone
  <1>20. CASE UNCHANGED vars
    BY <1>20 DEF vars
  <1> QED
    BY <1>1, <1>2, <1>3, <1>4, <1>5, <1>6, <1>7, <1>8, <1>9, <1>10,
       <1>11, <1>12, <1>13, <1>14, <1>15, <1>16, <1>17, <1>18, <1>19, <1>20
    DEF Next, Submit, Running, Step

(* A step keeps the slice well formed, lets it grow only, and moves no task. *)
LEMMA SliceStep ==
    ASSUME TypeOK, Slice, [Next]_vars
    PROVE  /\ TasksOK' /\ RequestInv'
           /\ Len(tasks) <= Len(tasks') /\ DOMAIN tasks \subseteq DOMAIN tasks'
           /\ \A i \in DOMAIN tasks : tasks'[i].run = tasks[i].run
  <1> DEFINE Goal == /\ TasksOK' /\ RequestInv'
                     /\ Len(tasks) <= Len(tasks') /\ DOMAIN tasks \subseteq DOMAIN tasks'
                     /\ \A i \in DOMAIN tasks : tasks'[i].run = tasks[i].run
  <1> USE DEF Slice, TasksOK, HasTask, RequestInv
  <1>1. TasksChange /\ \A r \in Runs : request[r] = "accepted" => request'[r] = "accepted"
    BY TasksStep, AcceptedStays
  <1>2. /\ Len(tasks) \in Nat /\ DOMAIN tasks = 1..Len(tasks)
        /\ \A i \in DOMAIN tasks : tasks[i].run \in Runs
    BY TaskFields
  <1>3. CASE UNCHANGED tasks
    BY <1>1, <1>2, <1>3
  <1>4. ASSUME NEW r \in Runs, request[r] = "created", request'[r] = "accepted", Added(r) PROVE Goal
    <2>1. /\ tasks' \in Seq(TaskType)
          /\ Len(tasks') = Len(tasks) + 1 /\ DOMAIN tasks' = DOMAIN tasks \cup {Len(tasks) + 1}
          /\ \A i \in DOMAIN tasks : tasks'[i] = tasks[i]
          /\ tasks'[Len(tasks) + 1].run = r
      BY <1>4, AppendEffect DEF Added
    <2>2. \A i \in DOMAIN tasks : tasks[i].run # r
      BY <1>4
    <2> QED
      BY <1>1, <1>2, <1>4, <2>1, <2>2
  <1>5. ASSUME NEW n \in DOMAIN tasks, tasks' = Taken(n) PROVE Goal
    <2>1. /\ tasks' \in Seq(TaskType) /\ Len(tasks') = Len(tasks) /\ DOMAIN tasks' = DOMAIN tasks
          /\ \A i \in DOMAIN tasks : tasks'[i].run = tasks[i].run
      BY <1>5, TakenEffect
    <2> QED
      BY <1>1, <1>2, <2>1
  <1>6. ASSUME NEW w \in Workers, NEW s \in Statuses, Settles(w, s), SetTask(w, s) PROVE Goal
    <2>1. held[w] \in DOMAIN tasks
      BY <1>6 DEF Settles, Busy, Location
    <2>2. /\ tasks' \in Seq(TaskType) /\ Len(tasks') = Len(tasks) /\ DOMAIN tasks' = DOMAIN tasks
          /\ \A i \in DOMAIN tasks : tasks'[i].run = tasks[i].run
      BY <1>6, <2>1, SetTaskEffect
    <2> QED
      BY <1>1, <1>2, <2>2
  <1> QED
    BY <1>1, <1>3, <1>4, <1>5, <1>6 DEF TasksChange

(* The variables other than the slice.                                      *)
OthersOK ==
    /\ screenshots \in [Shots -> {"none", "uploaded", "organized"}]
    /\ runs \in [Runs -> {"none", "running", "completed", "partial_success", "failed"}]
    /\ about \in [Runs -> Shots \cup {NoShot}]
    /\ request \in [Runs -> {"new", "uploaded", "created", "accepted", "lost"}]
    /\ pc \in [Workers -> Location]
    /\ held \in [Workers -> Nat]
    /\ seen \in [Workers -> Nat]
    /\ life \in {"up", "draining", "down"}
    /\ late \in [Workers -> Nat]

(* The types, the slice of tasks set apart from the rest.                   *)
LEMMA TypeParts == Typed <=> OthersOK /\ Slice /\ \A w \in Workers : held[w] <= Len(tasks)
  <1>1. TasksOK => Len(tasks) \in Nat
    BY TaskFields DEF TasksOK
  <1>2. TasksOK <=> tasks \in Seq(TaskType) /\ IsInjective([i \in DOMAIN tasks |-> tasks[i].run])
    BY DEF TasksOK, IsInjective
  <1>3. ASSUME NEW n \in Nat
        PROVE  held \in [Workers -> 0..n] <=> held \in [Workers -> Nat] /\ \A w \in Workers : held[w] <= n
    OBVIOUS
  <1>4. ASSUME Typed PROVE OthersOK /\ Slice /\ \A w \in Workers : held[w] <= Len(tasks)
    BY <1>1, <1>3, <1>4 DEF Typed, TypeOK, OthersOK, Slice
  <1>5. ASSUME OthersOK, Slice, \A w \in Workers : held[w] <= Len(tasks) PROVE Typed
    BY <1>1, <1>2, <1>3, <1>5 DEF Typed, TypeOK, OthersOK, Slice
  <1> QED
    BY <1>4, <1>5

(* The store begins empty, the goroutines idle.                             *)
LEMMA TypeInit == Init => Typed
  <1> SUFFICES ASSUME Init PROVE Typed
    OBVIOUS
  <1>1. tasks \in Seq(TaskType) /\ Len(tasks) = 0 /\ DOMAIN tasks = {}
    BY EmptySeq DEF Init
  <1>2. Slice
    BY <1>1 DEF Init, Slice, TasksOK, HasTask, RequestInv, Busy
  <1>3. OthersOK /\ \A w \in Workers : held[w] <= Len(tasks)
    BY <1>1 DEF Init, OthersOK, Location
  <1> QED
    BY <1>2, <1>3, TypeParts

(* Every step keeps every variable in its type.                             *)
LEMMA TypeStep == Typed /\ [Next]_vars => Typed'
  <1>b. (Typed <=> OthersOK /\ Slice /\ \A w \in Workers : held[w] <= Len(tasks))'
    BY TypeParts, PTL
  <1> SUFFICES ASSUME Typed, [Next]_vars PROVE Typed'
    OBVIOUS
  <1>0. OthersOK /\ Slice /\ \A w \in Workers : held[w] <= Len(tasks)
    BY TypeParts
  <1>a. /\ TasksOK' /\ RequestInv' /\ Len(tasks) <= Len(tasks') /\ DOMAIN tasks \subseteq DOMAIN tasks'
        /\ Len(tasks) \in Nat /\ Len(tasks') \in Nat /\ DOMAIN tasks = 1..Len(tasks)
        /\ \A n \in DOMAIN tasks : tasks'[n].attempts \in Nat
    <2>1. TasksOK' /\ RequestInv' /\ Len(tasks) <= Len(tasks') /\ DOMAIN tasks \subseteq DOMAIN tasks'
      BY SliceStep DEF Typed
    <2>2. Len(tasks) \in Nat /\ DOMAIN tasks = 1..Len(tasks)
      BY <1>0, TaskFields DEF Slice, TasksOK
    <2>3. Len(tasks') \in Nat /\ \A n \in DOMAIN tasks' : tasks'[n] \in TaskType
      <3>1. tasks' \in Seq(TaskType)
        BY <2>1 DEF TasksOK
      <3> QED
        BY <3>1, LenProperties, ElementOfSeq
    <2> QED
      BY <2>1, <2>2, <2>3 DEF TaskType
  <1> DEFINE Goal == OthersOK' /\ HasTask' /\ \A w \in Workers : held'[w] <= Len(tasks')
  <1> SUFFICES Goal
    BY <1>a, <1>b DEF Slice
  <1> USE <1>0, <1>a DEF OthersOK, Slice, HasTask, Location, Busy, storeVars, workerVars
  <1>1. ASSUME NEW r \in Runs, NEW s \in Shots, CreateScreenshot(r, s) PROVE Goal
    BY <1>1 DEF CreateScreenshot
  <1>2. ASSUME NEW r \in Runs, CreateAgentRun(r) PROVE Goal
    BY <1>2 DEF CreateAgentRun
  <1>3. ASSUME NEW r \in Runs, EnqueueTask(r) PROVE Goal
    <2>1. request' = [request EXCEPT ![r] = "accepted"] /\ UNCHANGED <<screenshots, runs, about, workerVars, life>>
      BY <1>3 DEF EnqueueTask
    <2> QED
      BY <2>1
  <1>4. ASSUME NEW w \in Workers, Poll(w) PROVE Goal
    BY <1>4 DEF Poll, Goto
  <1>5. ASSUME NEW w \in Workers, DequeueTask(w) PROVE Goal
    <2>1. PICK n \in DOMAIN tasks : held' = [held EXCEPT ![w] = n] /\ seen' = [seen EXCEPT ![w] = tasks'[n].attempts]
      BY <1>5 DEF DequeueTask
    <2>2. pc' = [pc EXCEPT ![w] = "dequeued"] /\ late' = [late EXCEPT ![w] = IF life = "up" THEN @ ELSE @ + 1]
      BY <1>5 DEF DequeueTask
    <2>3. UNCHANGED <<screenshots, runs, about, request, life>>
      BY <1>5 DEF DequeueTask
    <2>4. n \in Nat /\ n <= Len(tasks') /\ tasks'[n].attempts \in Nat
      OBVIOUS
    <2> QED
      BY <2>1, <2>2, <2>3, <2>4
  <1>6. ASSUME NEW w \in Workers, FindNothing(w) PROVE Goal
    BY <1>6 DEF FindNothing, Goto
  <1>7. ASSUME NEW w \in Workers, ExitLoop(w) PROVE Goal
    BY <1>7 DEF ExitLoop, Goto
  <1>8. ASSUME NEW w \in Workers, StartRun(w) PROVE Goal
    BY <1>8 DEF StartRun, Goto, SetRun
  <1>9. ASSUME NEW w \in Workers, GetScreenshot(w) PROVE Goal
    BY <1>9 DEF GetScreenshot, Goto
  <1>10. ASSUME NEW w \in Workers, SaveMemory(w) PROVE Goal
    BY <1>10 DEF SaveMemory, Goto
  <1>11. ASSUME NEW w \in Workers, FinishRun(w) PROVE Goal
    BY <1>11 DEF FinishRun, Goto, SetRun
  <1>12. ASSUME NEW w \in Workers, AbortRun(w) PROVE Goal
    BY <1>12 DEF AbortRun, Goto, SetRun
  <1>13. ASSUME NEW w \in Workers, CompleteTask(w) PROVE Goal
    BY <1>13 DEF CompleteTask, Release
  <1>14. ASSUME NEW w \in Workers, RetryTask(w) PROVE Goal
    BY <1>14 DEF RetryTask, Release, Exhausted
  <1>15. ASSUME NEW w \in Workers, MarkTaskDead(w) PROVE Goal
    BY <1>15 DEF MarkTaskDead, Goto, Exhausted
  <1>16. ASSUME NEW w \in Workers, BuryRun(w) PROVE Goal
    <2>1. runs' \in [Runs -> {"none", "running", "completed", "partial_success", "failed"}]
      BY <1>16 DEF BuryRun, SetRun
    <2>2. UNCHANGED <<screenshots, about, request, life>>
      BY <1>16 DEF BuryRun
    <2>3. Release(w)
      BY <1>16 DEF BuryRun
    <2> QED
      BY <2>1, <2>2, <2>3 DEF Release
  <1>17. CASE Stop
    BY <1>17 DEF Stop
  <1>18. CASE Halt
    BY <1>18 DEF Halt, ProcessGone
  <1>19. CASE Crash
    BY <1>19 DEF Crash, ProcessGone
  <1>20. CASE UNCHANGED vars
    BY <1>20 DEF vars
  <1> QED
    BY <1>1, <1>2, <1>3, <1>4, <1>5, <1>6, <1>7, <1>8, <1>9, <1>10,
       <1>11, <1>12, <1>13, <1>14, <1>15, <1>16, <1>17, <1>18, <1>19, <1>20
    DEF Next, Submit, Running, Step

(* TypeOK, for any numbers of runs, screenshots, goroutines and attempts.   *)
THEOREM TypeCorrect == Spec => []TypeOK
  <1>1. Typed => TypeOK
    BY DEF Typed
  <1> QED
    BY TypeInit, TypeStep, <1>1, PTL DEF Spec

-----------------------------------------------------------------------------
(* At first there is no task, and no goroutine is at work.                  *)
LEMMA HoldInit == Init => HoldInv
  BY DEF Init, HoldInv, JobInv, OneHolder, CountInv, TakenInOrder, StopInv, Busy, Location

(* Only a goroutine that has polled takes a task, and only before SIGTERM   *)
(* does one begin to poll.                                                  *)
LEMMA StopStep == OthersOK /\ StopInv /\ [Next]_vars => StopInv'
  <1> SUFFICES ASSUME OthersOK, StopInv, [Next]_vars PROVE StopInv'
    OBVIOUS
  <1> USE DEF OthersOK, Location, StopInv, workerVars
  <1>1. ASSUME NEW r \in Runs, NEW s \in Shots, CreateScreenshot(r, s) PROVE StopInv'
    BY <1>1 DEF CreateScreenshot
  <1>2. ASSUME NEW r \in Runs, CreateAgentRun(r) PROVE StopInv'
    BY <1>2 DEF CreateAgentRun
  <1>3. ASSUME NEW r \in Runs, EnqueueTask(r) PROVE StopInv'
    BY <1>3 DEF EnqueueTask
  <1>4. ASSUME NEW w \in Workers, Poll(w) PROVE StopInv'
    BY <1>4 DEF Poll, Goto
  <1>5. ASSUME NEW w \in Workers, DequeueTask(w) PROVE StopInv'
    BY <1>5 DEF DequeueTask
  <1>6. ASSUME NEW w \in Workers, FindNothing(w) PROVE StopInv'
    BY <1>6 DEF FindNothing, Goto
  <1>7. ASSUME NEW w \in Workers, ExitLoop(w) PROVE StopInv'
    BY <1>7 DEF ExitLoop, Goto
  <1>8. ASSUME NEW w \in Workers, StartRun(w) PROVE StopInv'
    BY <1>8 DEF StartRun, Goto, SetRun
  <1>9. ASSUME NEW w \in Workers, GetScreenshot(w) PROVE StopInv'
    BY <1>9 DEF GetScreenshot, Goto
  <1>10. ASSUME NEW w \in Workers, SaveMemory(w) PROVE StopInv'
    BY <1>10 DEF SaveMemory, Goto
  <1>11. ASSUME NEW w \in Workers, FinishRun(w) PROVE StopInv'
    BY <1>11 DEF FinishRun, Goto, SetRun
  <1>12. ASSUME NEW w \in Workers, AbortRun(w) PROVE StopInv'
    BY <1>12 DEF AbortRun, Goto, SetRun
  <1>13. ASSUME NEW w \in Workers, CompleteTask(w) PROVE StopInv'
    BY <1>13 DEF CompleteTask, Release
  <1>14. ASSUME NEW w \in Workers, RetryTask(w) PROVE StopInv'
    BY <1>14 DEF RetryTask, Release, Exhausted
  <1>15. ASSUME NEW w \in Workers, MarkTaskDead(w) PROVE StopInv'
    BY <1>15 DEF MarkTaskDead, Goto, Exhausted
  <1>16. ASSUME NEW w \in Workers, BuryRun(w) PROVE StopInv'
    BY <1>16 DEF BuryRun, Release, SetRun
  <1>17. CASE Stop
    BY <1>17 DEF Stop
  <1>18. CASE Halt
    BY <1>18 DEF Halt, ProcessGone
  <1>19. CASE Crash
    BY <1>19 DEF Crash, ProcessGone
  <1>20. CASE UNCHANGED vars
    BY <1>20 DEF vars
  <1> QED
    BY <1>1, <1>2, <1>3, <1>4, <1>5, <1>6, <1>7, <1>8, <1>9, <1>10,
       <1>11, <1>12, <1>13, <1>14, <1>15, <1>16, <1>17, <1>18, <1>19, <1>20
    DEF Next, Submit, Running, Step

(* The counts and the order of first starts, for what a step may do to the  *)
(* slice.                                                                   *)
LEMMA CountStep ==
    ASSUME Typed, HoldInv, [Next]_vars
    PROVE  CountInv' /\ TakenInOrder'
  <1> USE DEF CountInv, TakenInOrder
  <1>1. TasksChange /\ tasks \in Seq(TaskType)
    BY TasksStep DEF Typed, TypeOK
  <1>2. /\ Len(tasks) \in Nat /\ DOMAIN tasks = 1..Len(tasks)
        /\ \A i \in DOMAIN tasks : tasks[i].status \in Statuses /\ tasks[i].attempts \in Nat
    BY <1>1, TaskFields
  <1>3. CountInv /\ TakenInOrder /\ MaxAttempts \in Nat \ {0}
    BY MemoryAssumption DEF HoldInv
  <1>4. CASE UNCHANGED tasks
    BY <1>3, <1>4
  <1>5. ASSUME NEW r \in Runs, Added(r) PROVE CountInv' /\ TakenInOrder'
    <2>1. /\ DOMAIN tasks' = DOMAIN tasks \cup {Len(tasks) + 1}
          /\ \A i \in DOMAIN tasks : tasks'[i] = tasks[i]
          /\ tasks'[Len(tasks) + 1].status = "queued" /\ tasks'[Len(tasks) + 1].attempts = 0
      BY <1>1, <1>5, AppendEffect DEF Added
    <2> QED
      BY <1>2, <1>3, <2>1
  <1>6. ASSUME NEW n \in DOMAIN tasks, Dequeuable(n), tasks' = Taken(n) PROVE CountInv' /\ TakenInOrder'
    <2>1. /\ DOMAIN tasks' = DOMAIN tasks
          /\ \A i \in DOMAIN tasks :
                /\ tasks'[i].attempts = IF i = n THEN tasks[i].attempts + 1 ELSE tasks[i].attempts
                /\ tasks'[i].status = IF i = n THEN "running" ELSE tasks[i].status
      BY <1>1, <1>6, TakenEffect
    <2>2. \A j \in DOMAIN tasks : j < n => tasks[j].attempts > 0
      BY <1>2, <1>3, <1>6 DEF Dequeuable
    <2> QED
      BY <1>2, <1>3, <1>6, <2>1, <2>2 DEF Dequeuable
  <1>7. ASSUME NEW w \in Workers, NEW s \in Statuses, Settles(w, s), SetTask(w, s)
        PROVE  CountInv' /\ TakenInOrder'
    <2>1. /\ held[w] \in DOMAIN tasks /\ tasks[held[w]].status = "running" /\ tasks[held[w]].attempts = seen[w]
          /\ s = "queued" => seen[w] < MaxAttempts
      BY <1>2, <1>3, <1>7 DEF Typed, Slice, HasTask, HoldInv, JobInv, Settles, Exhausted, Busy,
         Location
    <2>2. /\ DOMAIN tasks' = DOMAIN tasks
          /\ \A i \in DOMAIN tasks :
                /\ tasks'[i].attempts = tasks[i].attempts
                /\ tasks'[i].status = IF i = held[w] THEN s ELSE tasks[i].status
      BY <1>1, <1>7, <2>1, SetTaskEffect
    <2> QED
      BY <1>2, <1>3, <2>1, <2>2
  <1> QED
    BY <1>1, <1>4, <1>5, <1>6, <1>7 DEF TasksChange

(* What a busy goroutine keeps, and what the one that moves must establish. *)
Kept(v) ==
    /\ pc'[v] = pc[v] /\ seen'[v] = seen[v] /\ held'[v] = held[v]
    /\ tasks'[held[v]].attempts = tasks[held[v]].attempts
    /\ tasks'[held[v]].status = tasks[held[v]].status

(* A goroutine's step on a task that no other holds leaves what the others  *)
(* know of theirs true.                                                     *)
LEMMA OthersKeepTheirs ==
    ASSUME JobInv, OneHolder, NEW w \in Workers,
           \A v \in Workers : v # w /\ pc'[v] \in Busy => Kept(v),
           pc'[w] \in Busy =>
                /\ tasks'[held'[w]].attempts = seen'[w]
                /\ tasks'[held'[w]].status = IF pc'[w] = "burying" THEN "dead" ELSE "running"
                /\ \A v \in Workers : v # w /\ pc'[v] \in Busy => held[v] # held'[w]
    PROVE  JobInv' /\ OneHolder'
  <1>1. JobInv'
    BY DEF JobInv, Kept
  <1>2. OneHolder'
    BY DEF OneHolder, Kept
  <1> QED
    BY <1>1, <1>2

(* A task is held by one goroutine, and what the goroutine remembers of it  *)
(* stays true, because no other goroutine writes to a task it does not hold. *)
LEMMA JobStep ==
    ASSUME Typed, HoldInv, [Next]_vars
    PROVE  JobInv' /\ OneHolder'
  <1>a. OthersOK /\ HasTask /\ tasks \in Seq(TaskType) /\ JobInv /\ OneHolder
    BY TypeParts DEF Typed, TypeOK, Slice, HoldInv
  <1> DEFINE Goal == JobInv' /\ OneHolder'
  <1> USE <1>a DEF OthersOK, HasTask, JobInv, OneHolder, Location, Busy, Statuses, storeVars, workerVars
  <1>1. ASSUME NEW r \in Runs, NEW s \in Shots, CreateScreenshot(r, s) PROVE Goal
    BY <1>1 DEF CreateScreenshot
  <1>2. ASSUME NEW r \in Runs, CreateAgentRun(r) PROVE Goal
    BY <1>2 DEF CreateAgentRun
  <1>3. ASSUME NEW r \in Runs, EnqueueTask(r) PROVE Goal
    <2>1. \A i \in DOMAIN tasks : tasks'[i] = tasks[i]
      BY <1>3, <1>a, AppendEffect DEF EnqueueTask
    <2>2. UNCHANGED workerVars
      BY <1>3 DEF EnqueueTask
    <2> QED
      BY <2>1, <2>2
  <1>4. ASSUME NEW w \in Workers, Poll(w) PROVE Goal
    BY <1>4 DEF Poll, Goto
  <1>5. ASSUME NEW w \in Workers, DequeueTask(w) PROVE Goal
    <2>1. PICK n \in DOMAIN tasks : /\ tasks[n].status = "queued" /\ tasks' = Taken(n)
                                    /\ held' = [held EXCEPT ![w] = n]
                                    /\ seen' = [seen EXCEPT ![w] = tasks'[n].attempts]
      BY <1>5 DEF DequeueTask, Dequeuable
    <2>2. \A i \in DOMAIN tasks :
                /\ tasks'[i].attempts = IF i = n THEN tasks[i].attempts + 1 ELSE tasks[i].attempts
                /\ tasks'[i].status = IF i = n THEN "running" ELSE tasks[i].status
      BY <2>1, <1>a, TakenEffect
    <2>3. pc' = [pc EXCEPT ![w] = "dequeued"]
      BY <1>5 DEF DequeueTask
    <2>4. ASSUME NEW v \in Workers, v # w, pc'[v] \in Busy
          PROVE  /\ pc'[v] = pc[v] /\ seen'[v] = seen[v] /\ held'[v] = held[v] /\ held[v] \in DOMAIN tasks /\ held[v] # n
                 /\ tasks'[held[v]].attempts = tasks[held[v]].attempts
                 /\ tasks'[held[v]].status = tasks[held[v]].status
      BY <2>1, <2>2, <2>3, <2>4
    <2>5. /\ pc'[w] = "dequeued" /\ held'[w] = n
          /\ tasks'[n].status = "running" /\ seen'[w] = tasks'[n].attempts
      BY <2>1, <2>2, <2>3
    <2> HIDE DEF JobInv, OneHolder, Busy
    <2> QED
      BY <1>a, <2>4, <2>5, OthersKeepTheirs DEF Kept
  <1>6. ASSUME NEW w \in Workers, FindNothing(w) PROVE Goal
    BY <1>6 DEF FindNothing, Goto
  <1>7. ASSUME NEW w \in Workers, ExitLoop(w) PROVE Goal
    BY <1>7 DEF ExitLoop, Goto
  <1>8. ASSUME NEW w \in Workers, StartRun(w) PROVE Goal
    BY <1>8 DEF StartRun, Goto, SetRun
  <1>9. ASSUME NEW w \in Workers, GetScreenshot(w) PROVE Goal
    BY <1>9 DEF GetScreenshot, Goto
  <1>10. ASSUME NEW w \in Workers, SaveMemory(w) PROVE Goal
    BY <1>10 DEF SaveMemory, Goto
  <1>11. ASSUME NEW w \in Workers, FinishRun(w) PROVE Goal
    BY <1>11 DEF FinishRun, Goto, SetRun
  <1>12. ASSUME NEW w \in Workers, AbortRun(w) PROVE Goal
    BY <1>12 DEF AbortRun, Goto, SetRun
  <1>13. ASSUME NEW w \in Workers, CompleteTask(w) PROVE Goal
    <2>1. held[w] \in DOMAIN tasks /\ SetTask(w, "completed") /\ "completed" \in Statuses
      BY <1>13 DEF CompleteTask
    <2>2. \A i \in DOMAIN tasks :
                /\ tasks'[i].attempts = tasks[i].attempts
                /\ tasks'[i].status = IF i = held[w] THEN "completed" ELSE tasks[i].status
      BY <2>1, <1>a, SetTaskEffect
    <2>3. ASSUME NEW v \in Workers, v # w, pc'[v] \in Busy
          PROVE  /\ pc'[v] = pc[v] /\ seen'[v] = seen[v] /\ held'[v] = held[v]
                 /\ tasks'[held[v]].attempts = tasks[held[v]].attempts
                 /\ tasks'[held[v]].status = tasks[held[v]].status
                 /\ held[v] # held[w]
      <3>1. pc'[v] = pc[v] /\ seen'[v] = seen[v] /\ held'[v] = held[v]
        BY <1>13, <2>3 DEF CompleteTask, Release
      <3>2. held[v] \in DOMAIN tasks /\ held[v] # held[w]
        BY <1>13, <2>3, <3>1 DEF CompleteTask
      <3> QED
        BY <2>2, <3>1, <3>2
    <2>4. pc'[w] \notin Busy
      BY <1>13, <2>1, <2>2 DEF CompleteTask, Release
    <2> HIDE DEF JobInv, OneHolder, Busy
    <2> QED
      BY <1>a, <2>3, <2>4, OthersKeepTheirs DEF Kept
  <1>14. ASSUME NEW w \in Workers, RetryTask(w) PROVE Goal
    <2>1. held[w] \in DOMAIN tasks /\ SetTask(w, "queued") /\ "queued" \in Statuses
      BY <1>14 DEF RetryTask
    <2>2. \A i \in DOMAIN tasks :
                /\ tasks'[i].attempts = tasks[i].attempts
                /\ tasks'[i].status = IF i = held[w] THEN "queued" ELSE tasks[i].status
      BY <2>1, <1>a, SetTaskEffect
    <2>3. ASSUME NEW v \in Workers, v # w, pc'[v] \in Busy
          PROVE  /\ pc'[v] = pc[v] /\ seen'[v] = seen[v] /\ held'[v] = held[v]
                 /\ tasks'[held[v]].attempts = tasks[held[v]].attempts
                 /\ tasks'[held[v]].status = tasks[held[v]].status
                 /\ held[v] # held[w]
      <3>1. pc'[v] = pc[v] /\ seen'[v] = seen[v] /\ held'[v] = held[v]
        BY <1>14, <2>3 DEF RetryTask, Release
      <3>2. held[v] \in DOMAIN tasks /\ held[v] # held[w]
        BY <1>14, <2>3, <3>1 DEF RetryTask
      <3> QED
        BY <2>2, <3>1, <3>2
    <2>4. pc'[w] \notin Busy
      BY <1>14, <2>1, <2>2 DEF RetryTask, Release
    <2> HIDE DEF JobInv, OneHolder, Busy
    <2> QED
      BY <1>a, <2>3, <2>4, OthersKeepTheirs DEF Kept
  <1>15. ASSUME NEW w \in Workers, MarkTaskDead(w) PROVE Goal
    <2>1. held[w] \in DOMAIN tasks /\ SetTask(w, "dead") /\ "dead" \in Statuses
      BY <1>15 DEF MarkTaskDead
    <2>2. \A i \in DOMAIN tasks :
                /\ tasks'[i].attempts = tasks[i].attempts
                /\ tasks'[i].status = IF i = held[w] THEN "dead" ELSE tasks[i].status
      BY <2>1, <1>a, SetTaskEffect
    <2>3. ASSUME NEW v \in Workers, v # w, pc'[v] \in Busy
          PROVE  /\ pc'[v] = pc[v] /\ seen'[v] = seen[v] /\ held'[v] = held[v]
                 /\ tasks'[held[v]].attempts = tasks[held[v]].attempts
                 /\ tasks'[held[v]].status = tasks[held[v]].status
                 /\ held[v] # held[w]
      <3>1. pc'[v] = pc[v] /\ seen'[v] = seen[v] /\ held'[v] = held[v]
        BY <1>15, <2>3 DEF MarkTaskDead, Goto
      <3>2. held[v] \in DOMAIN tasks /\ held[v] # held[w]
        BY <1>15, <2>3, <3>1 DEF MarkTaskDead
      <3> QED
        BY <2>2, <3>1, <3>2
    <2>4. pc'[w] = "burying" /\ held'[w] = held[w]
          /\ tasks'[held[w]].status = "dead" /\ tasks'[held[w]].attempts = seen'[w]
      BY <1>15, <2>1, <2>2 DEF MarkTaskDead, Goto
    <2>5. /\ tasks'[held'[w]].attempts = seen'[w]
          /\ tasks'[held'[w]].status = IF pc'[w] = "burying" THEN "dead" ELSE "running"
          /\ \A v \in Workers : v # w /\ pc'[v] \in Busy => held[v] # held'[w]
      BY <2>3, <2>4
    <2> HIDE DEF JobInv, OneHolder, Busy
    <2> QED
      BY <1>a, <2>3, <2>5, OthersKeepTheirs DEF Kept
  <1>16. ASSUME NEW w \in Workers, BuryRun(w) PROVE Goal
    BY <1>16 DEF BuryRun, Release, SetRun
  <1>17. CASE Stop
    BY <1>17 DEF Stop
  <1>18. CASE Halt
    BY <1>18 DEF Halt, ProcessGone
  <1>19. CASE Crash
    BY <1>19 DEF Crash, ProcessGone
  <1>20. CASE UNCHANGED vars
    BY <1>20 DEF vars
  <1> QED
    BY <1>1, <1>2, <1>3, <1>4, <1>5, <1>6, <1>7, <1>8, <1>9, <1>10,
       <1>11, <1>12, <1>13, <1>14, <1>15, <1>16, <1>17, <1>18, <1>19, <1>20
    DEF Next, Submit, Running, Step

(* Every step keeps who holds what.                                         *)
LEMMA HoldStep == Typed /\ HoldInv /\ [Next]_vars => HoldInv'
  BY StopStep, CountStep, JobStep, TypeParts DEF HoldInv

(* The inductive invariant of the queue.                                    *)
THEOREM HoldInvariant == Spec => [](Typed /\ HoldInv)
  BY TypeInit, TypeStep, HoldInit, HoldStep, PTL DEF Spec

(* OneHolder: two goroutines never hold one task.  A task is handed out only*)
(* while it is queued, and it is queued again only by the goroutine that    *)
(* holds it.                                                                *)
THEOREM OneHolderHolds == Spec => []OneHolder
  BY HoldInvariant, PTL DEF HoldInv

(* AttemptsWithinMax: a queued task always has an attempt to spare.         *)
THEOREM AttemptsStayWithinMax == Spec => []AttemptsWithinMax
  <1>1. HoldInv => AttemptsWithinMax
    BY DEF HoldInv, CountInv, AttemptsWithinMax
  <1> QED
    BY HoldInvariant, <1>1, PTL

(* TakenInOrder: a task is first started after every older one was.         *)
THEOREM FirstStartsInOrder == Spec => []TakenInOrder
  BY HoldInvariant, PTL DEF HoldInv

(* OneTaskAfterStop: a goroutine takes at most one task after SIGTERM.      *)
THEOREM AtMostOneTaskAfterStop == Spec => []OneTaskAfterStop
  <1>1. HoldInv => OneTaskAfterStop
    BY DEF HoldInv, StopInv, OneTaskAfterStop
  <1> QED
    BY HoldInvariant, <1>1, PTL

-----------------------------------------------------------------------------
(* Phase and Attempts read the one task of a run.                           *)
LEMMA PhaseOfTask ==
    TasksOK => \A r : \A i \in DOMAIN tasks : tasks[i].run = r =>
                  Phase(r) = tasks[i].status /\ Attempts(r) = tasks[i].attempts
  <1> SUFFICES ASSUME TasksOK, NEW i \in DOMAIN tasks, NEW r, tasks[i].run = r
               PROVE  Phase(r) = tasks[i].status /\ Attempts(r) = tasks[i].attempts
    OBVIOUS
  <1>1. (CHOOSE j \in DOMAIN tasks : tasks[j].run = r) = i
    BY DEF TasksOK
  <1> QED
    BY <1>1 DEF Phase, Attempts

Idle(r) == \A i \in DOMAIN tasks : tasks[i].run # r

(* A run without a task is absent from the queue.                           *)
LEMMA PhaseOfNone == \A r : Idle(r) => Phase(r) = "absent" /\ Attempts(r) = 0
  BY DEF Idle, Phase, Attempts

(* The same after a step.                                                   *)
LEMMA PhasesNext ==
    /\ (TasksOK => \A r : \A i \in DOMAIN tasks : tasks[i].run = r =>
                      Phase(r) = tasks[i].status /\ Attempts(r) = tasks[i].attempts)'
    /\ (\A r : Idle(r) => Phase(r) = "absent" /\ Attempts(r) = 0)'
  BY PhaseOfTask, PhaseOfNone, PTL

phase == [r \in Runs |-> Phase(r)]
tries == [r \in Runs |-> Attempts(r)]

(* A step that changes one task, n, is one that changes one item.           *)
LEMMA OneItem ==
    ASSUME TasksOK, TasksOK', DOMAIN tasks' = DOMAIN tasks, NEW n \in DOMAIN tasks,
           \A i \in DOMAIN tasks : tasks'[i].run = tasks[i].run,
           \A i \in DOMAIN tasks : i # n => tasks'[i].status = tasks[i].status /\ tasks'[i].attempts = tasks[i].attempts
    PROVE  /\ tasks[n].run \in Runs
           /\ phase[tasks[n].run] = tasks[n].status /\ tries[tasks[n].run] = tasks[n].attempts
           /\ phase' = [phase EXCEPT ![tasks[n].run] = tasks'[n].status]
           /\ tries' = [tries EXCEPT ![tasks[n].run] = tasks'[n].attempts]
  <1>1. tasks[n].run \in Runs
    BY TaskFields DEF TasksOK
  <1>2. ASSUME NEW i \in DOMAIN tasks, NEW r, tasks[i].run = r
        PROVE  /\ Phase(r) = tasks[i].status /\ Attempts(r) = tasks[i].attempts
               /\ Phase(r)' = tasks'[i].status /\ Attempts(r)' = tasks'[i].attempts
    <2>1. Phase(r) = tasks[i].status /\ Attempts(r) = tasks[i].attempts
      BY <1>2, PhaseOfTask
    <2>2. i \in DOMAIN tasks' /\ tasks'[i].run = r
      BY <1>2
    <2>3. Phase(r)' = tasks'[i].status /\ Attempts(r)' = tasks'[i].attempts
      BY <2>2, PhasesNext
    <2> QED
      BY <2>1, <2>3
  <1>3. ASSUME NEW r \in Runs, r # tasks[n].run PROVE Phase(r)' = Phase(r) /\ Attempts(r)' = Attempts(r)
    <2>1. CASE Idle(r)
      <3>1. Idle(r)'
        BY <2>1 DEF Idle
      <3> QED
        BY <2>1, <3>1, PhaseOfNone, PhasesNext
    <2>2. CASE ~Idle(r)
      <3>1. PICK i \in DOMAIN tasks : tasks[i].run = r
        BY <2>2 DEF Idle
      <3> QED
        BY <1>2, <1>3, <3>1
    <2> QED
      BY <2>1, <2>2
  <1> DEFINE r == tasks[n].run
  <1>4. /\ Phase(r) = tasks[n].status /\ Attempts(r) = tasks[n].attempts
        /\ \A q \in Runs : /\ Phase(q)' = IF q = r THEN tasks'[n].status ELSE Phase(q)
                           /\ Attempts(q)' = IF q = r THEN tasks'[n].attempts ELSE Attempts(q)
    BY <1>2, <1>3
  <1> QED
    BY <1>1, <1>4 DEF phase, tries

(* The empty slice is the empty leased queue.                               *)
LEMMA AbstractInit == Init => Abstract!Init
  <1> SUFFICES ASSUME Init PROVE Abstract!Init
    OBVIOUS
  <1>1. DOMAIN tasks = {}
    BY EmptySeq DEF Init
  <1> QED
    BY <1>1 DEF Abstract!Init, Phase, Attempts

(* Every step of the store and its goroutines is a step of the leased queue *)
(* or leaves it alone.                                                      *)
LEMMA AbstractStep ==
    ASSUME Typed, HoldInv, [Next]_vars
    PROVE  [Abstract!Next]_(Abstract!vars)
  <1> DEFINE Goal == [Abstract!Next]_(Abstract!vars)
  <1>1. TasksChange /\ TasksOK /\ TasksOK' /\ RequestInv
    BY TasksStep, SliceStep DEF Typed, Slice
  <1>2. tasks \in Seq(TaskType)
    BY <1>1 DEF TasksOK
  <1>3. CASE UNCHANGED tasks
    BY <1>3 DEF Abstract!vars, Phase, Attempts
  <1>4. ASSUME NEW r \in Runs, request[r] = "created", Added(r) PROVE Goal
    <2>1. /\ DOMAIN tasks' = DOMAIN tasks \cup {Len(tasks) + 1}
          /\ \A i \in DOMAIN tasks : tasks'[i] = tasks[i]
          /\ tasks'[Len(tasks) + 1].run = r
          /\ tasks'[Len(tasks) + 1].status = "queued" /\ tasks'[Len(tasks) + 1].attempts = 0
      BY <1>2, <1>4, AppendEffect DEF Added
    <2>2. Idle(r)
      BY <1>1, <1>4 DEF RequestInv, Idle
    <2>3. Phase(r) = "absent" /\ Attempts(r) = 0
      BY <2>2, PhaseOfNone
    <2>4. Phase(r)' = "queued" /\ Attempts(r)' = 0
      BY <1>1, <2>1, PhasesNext
    <2>5. ASSUME NEW q \in Runs, q # r PROVE Phase(q)' = Phase(q) /\ Attempts(q)' = Attempts(q)
      <3>1. CASE Idle(q)
        <4>1. Idle(q)'
          BY <2>1, <2>5, <3>1 DEF Idle
        <4> QED
          BY <3>1, <4>1, PhaseOfNone, PhasesNext
      <3>2. CASE ~Idle(q)
        <4>1. PICK i \in DOMAIN tasks : tasks[i].run = q
          BY <3>2 DEF Idle
        <4>2. i \in DOMAIN tasks' /\ tasks'[i].run = q /\ tasks'[i] = tasks[i]
          BY <2>1, <4>1
        <4>3. Phase(q) = tasks[i].status /\ Attempts(q) = tasks[i].attempts
          BY <1>1, <4>1, PhaseOfTask
        <4>4. Phase(q)' = tasks'[i].status /\ Attempts(q)' = tasks'[i].attempts
          BY <1>1, <4>2, PhasesNext
        <4> QED
          BY <4>2, <4>3, <4>4
      <3> QED
        BY <3>1, <3>2
    <2>6. phase[r] = "absent" /\ phase' = [phase EXCEPT ![r] = "queued"] /\ tries' = tries
      BY <2>3, <2>4, <2>5 DEF phase, tries
    <2>7. Abstract!Put(r)
      BY <2>6 DEF Abstract!Put, Abstract!Move, phase, tries
    <2> QED
      BY <2>7 DEF Abstract!Next
  <1>5. ASSUME NEW n \in DOMAIN tasks, Dequeuable(n), tasks' = Taken(n) PROVE Goal
    <2>1. /\ DOMAIN tasks' = DOMAIN tasks
          /\ \A i \in DOMAIN tasks :
                /\ tasks'[i].run = tasks[i].run
                /\ tasks'[i].attempts = IF i = n THEN tasks[i].attempts + 1 ELSE tasks[i].attempts
                /\ tasks'[i].status = IF i = n THEN "running" ELSE tasks[i].status
      BY <1>2, <1>5, TakenEffect
    <2>2. /\ tasks[n].run \in Runs
          /\ phase[tasks[n].run] = tasks[n].status /\ tries[tasks[n].run] = tasks[n].attempts
          /\ phase' = [phase EXCEPT ![tasks[n].run] = tasks'[n].status]
          /\ tries' = [tries EXCEPT ![tasks[n].run] = tasks'[n].attempts]
      BY <1>1, <2>1, OneItem
    <2>3. tasks[n].status = "queued" /\ tasks'[n].status = "running" /\ tasks'[n].attempts = tasks[n].attempts + 1
      BY <1>5, <2>1 DEF Dequeuable
    <2>4. Abstract!Lease(tasks[n].run)
      BY <2>2, <2>3 DEF Abstract!Lease, Abstract!Move, phase, tries
    <2> QED
      BY <2>2, <2>4 DEF Abstract!Next
  <1>6. ASSUME NEW w \in Workers, NEW s \in Statuses, Settles(w, s), SetTask(w, s) PROVE Goal
    <2> DEFINE n == held[w]
               r == tasks[n].run
    <2>1. n \in DOMAIN tasks /\ tasks[n].status = "running" /\ tasks[n].attempts = seen[w]
      BY <1>6 DEF Typed, Slice, HasTask, HoldInv, JobInv, Settles, Busy, Location
    <2>2. /\ DOMAIN tasks' = DOMAIN tasks
          /\ \A i \in DOMAIN tasks :
                /\ tasks'[i].run = tasks[i].run
                /\ tasks'[i].attempts = tasks[i].attempts
                /\ tasks'[i].status = IF i = n THEN s ELSE tasks[i].status
      BY <1>2, <1>6, <2>1, SetTaskEffect
    <2>3. /\ r \in Runs
          /\ phase[r] = tasks[n].status /\ tries[r] = tasks[n].attempts
          /\ phase' = [phase EXCEPT ![r] = tasks'[n].status]
          /\ tries' = [tries EXCEPT ![r] = tasks'[n].attempts]
      BY <1>1, <2>1, <2>2, OneItem
    <2>4. phase[r] = "running" /\ phase' = [phase EXCEPT ![r] = s] /\ tries' = tries /\ tries[r] = seen[w]
      <3>1. tries' = [tries EXCEPT ![r] = tries[r]]
        BY <2>1, <2>2, <2>3
      <3>2. [tries EXCEPT ![r] = tries[r]] = tries
        BY <2>3 DEF tries
      <3> QED
        BY <2>1, <2>2, <2>3, <3>1, <3>2
    <2>5. CASE s = "completed"
      <3>1. Abstract!Done(r)
        BY <2>4, <2>5 DEF Abstract!Done, Abstract!Move, phase, tries
      <3> QED
        BY <2>3, <3>1 DEF Abstract!Next
    <2>6. CASE s = "dead"
      <3>1. seen[w] >= MaxAttempts
        BY <1>6, <2>6 DEF Settles, Exhausted
      <3>2. Abstract!Bury(r)
        BY <2>4, <2>6, <3>1 DEF Abstract!Bury, Abstract!Move, phase, tries
      <3> QED
        BY <2>3, <3>2 DEF Abstract!Next
    <2>7. CASE s = "queued"
      <3>1. phase' = [i \in Runs |-> IF i \in {r} THEN "queued" ELSE phase[i]]
        BY <2>4, <2>7 DEF phase
      <3>2. Abstract!Return({r})
        BY <2>4, <3>1 DEF Abstract!Return, phase, tries
      <3> QED
        BY <2>3, <3>2 DEF Abstract!Next
    <2> QED
      BY <1>6, <2>5, <2>6, <2>7 DEF Settles
  <1> QED
    BY <1>1, <1>3, <1>4, <1>5, <1>6 DEF TasksChange

(* ImplementsLeasedQueue: the slice and its goroutines implement the leased *)
(* queue that agent_tasks implements.                                       *)
THEOREM Refinement == Spec => ImplementsLeasedQueue
  <1>1. Typed /\ HoldInv /\ [Next]_vars => [Abstract!Next]_(Abstract!vars)
    BY AbstractStep
  <1> QED
    BY HoldInvariant, AbstractInit, <1>1, PTL DEF Spec, ImplementsLeasedQueue, Abstract!Spec

-----------------------------------------------------------------------------
(* FinishAgentRun writes one run, and no other task or goroutine is for it. *)
LEMMA SetRunEffect ==
    ASSUME Typed, HoldInv, NEW w \in Workers, pc[w] \in Busy, NEW s, SetRun(w, s), UNCHANGED tasks
    PROVE  /\ runs'[Run(w)] = s
           /\ \A i \in DOMAIN tasks : i # held[w] => runs'[tasks[i].run] = runs[tasks[i].run]
           /\ \A v \in Workers : v # w /\ pc[v] \in Busy => runs'[Run(v)] = runs[Run(v)]
           /\ \A r \in Runs : request[r] # "accepted" => runs'[r] = runs[r]
  <1>1. TasksOK /\ HasTask /\ RequestInv /\ OneHolder /\ OthersOK
    BY TypeParts DEF Typed, Slice, HoldInv
  <1>2. held[w] \in DOMAIN tasks /\ Run(w) \in Runs /\ request[Run(w)] = "accepted"
    BY <1>1, TaskFields DEF TasksOK, HasTask, RequestInv, Run
  <1>3. runs'[Run(w)] = s /\ \A r \in Runs : r # Run(w) => runs'[r] = runs[r]
    BY <1>1, <1>2 DEF SetRun, OthersOK
  <1>4. \A i \in DOMAIN tasks : tasks[i].run \in Runs /\ (i # held[w] => tasks[i].run # Run(w))
    BY <1>1, <1>2, TaskFields DEF TasksOK, Run
  <1>5. \A v \in Workers : v # w /\ pc[v] \in Busy => held[v] \in DOMAIN tasks /\ held[v] # held[w]
    BY <1>1 DEF HasTask, OneHolder
  <1> QED
    BY <1>2, <1>3, <1>4, <1>5 DEF Run

(* A step of w that leaves the others and their runs alone.                 *)
LEMMA OthersKeepTheirRuns ==
    ASSUME JobRuns, NEW w \in Workers, JobRun(w)',
           \A v \in Workers : v # w => pc'[v] = pc[v],
           \A v \in Workers : v # w /\ pc[v] \in Busy => Run(v)' = Run(v) /\ runs'[Run(v)] = runs[Run(v)]
    PROVE  JobRuns'
  BY DEF JobRuns, JobRun, Succeeded, Busy, Location

(* A step that leaves every task but n alone.                               *)
LEMMA OtherTasksKeepTheirRuns ==
    ASSUME TaskRuns, NEW n \in DOMAIN tasks, TaskRun(n)', DOMAIN tasks' = DOMAIN tasks,
           \A i \in DOMAIN tasks :
              i # n => /\ tasks'[i].run = tasks[i].run /\ tasks'[i].status = tasks[i].status
                       /\ runs'[tasks[i].run] = runs[tasks[i].run]
    PROVE  TaskRuns'
  BY DEF TaskRuns, TaskRun, Succeeded

(* No run is recorded at first.                                             *)
LEMMA RunInit == Init => RunInv
  BY DEF Init, RunInv, TaskRuns, TaskRun, JobRuns, JobRun, RequestRuns

(* A run's status follows its task: only the goroutine that holds the task  *)
(* writes either.                                                           *)
LEMMA RunStep ==
    ASSUME Typed, HoldInv, RunInv, [Next]_vars
    PROVE  RunInv'
  <1>a. /\ OthersOK /\ TasksOK /\ HasTask /\ RequestInv /\ JobInv /\ OneHolder /\ tasks \in Seq(TaskType)
        /\ \A i \in DOMAIN tasks : tasks[i].run \in Runs
    BY TypeParts, TaskFields DEF Typed, Slice, HoldInv, TasksOK
  <1>b. \A i \in DOMAIN tasks : tasks'[i].run = tasks[i].run
    BY SliceStep DEF Typed
  <1> USE <1>a, <1>b DEF OthersOK, HasTask, RequestInv, JobInv, Location, Busy, Statuses, RunInv,
        TaskRuns, TaskRun, JobRuns, JobRun, RequestRuns,
        Succeeded, Run, storeVars, workerVars
  <1> DEFINE Goal == RunInv'
  <1> HIDE DEF JobInv
  <1>1. ASSUME NEW r \in Runs, NEW s \in Shots, CreateScreenshot(r, s) PROVE Goal
    BY <1>1 DEF CreateScreenshot
  <1>2. ASSUME NEW r \in Runs, CreateAgentRun(r) PROVE Goal
    <2>1. runs' = [runs EXCEPT ![r] = "running"] /\ request[r] \in {"new", "uploaded"} /\ request' = [request EXCEPT ![r] = "created"]
      BY <1>2 DEF CreateAgentRun
    <2>2. UNCHANGED tasks /\ UNCHANGED workerVars
      BY <1>2 DEF CreateAgentRun
    <2>3. \A i \in DOMAIN tasks : tasks[i].run # r
      BY <2>1
    <2>4. TaskRuns' /\ RequestRuns'
      BY <2>1, <2>2, <2>3
    <2>5. JobRuns'
      BY <2>1, <2>2, <2>3
    <2> QED
      BY <2>4, <2>5
  <1>3. ASSUME NEW r \in Runs, EnqueueTask(r) PROVE Goal
    <2>1. /\ DOMAIN tasks' = DOMAIN tasks \cup {Len(tasks) + 1}
          /\ \A i \in DOMAIN tasks : tasks'[i] = tasks[i]
          /\ tasks'[Len(tasks) + 1].run = r /\ tasks'[Len(tasks) + 1].status = "queued"
      BY <1>3, <1>a, AppendEffect DEF EnqueueTask
    <2>2. request[r] = "created" /\ request' = [request EXCEPT ![r] = "accepted"] /\ UNCHANGED runs /\ UNCHANGED workerVars
      BY <1>3 DEF EnqueueTask
    <2>3. runs[r] = "running"
      BY <2>2
    <2>4. TaskRuns' /\ RequestRuns'
      BY <2>1, <2>2, <2>3
    <2>5. JobRuns'
      <3>1. \A v \in Workers : pc[v] \in Busy => Run(v)' = Run(v)
        BY <2>2
      <3> HIDE DEF Run, RequestRuns, TaskRuns, OthersOK
      <3>2. ASSUME NEW v \in Workers PROVE JobRun(v)'
        BY <2>2, <3>1
      <3> HIDE DEF JobRun
      <3> QED
        BY <3>2
    <2> QED
      BY <2>4, <2>5
  <1>4. ASSUME NEW w \in Workers, Poll(w) PROVE Goal
    BY <1>4 DEF Poll, Goto
  <1>5. ASSUME NEW w \in Workers, DequeueTask(w) PROVE Goal
    <2>1. PICK n \in DOMAIN tasks : tasks[n].status = "queued" /\ tasks' = Taken(n) /\ held' = [held EXCEPT ![w] = n]
      BY <1>5 DEF DequeueTask, Dequeuable
    <2>2. DOMAIN tasks' = DOMAIN tasks /\ \A i \in DOMAIN tasks : tasks'[i].status = IF i = n THEN "running" ELSE tasks[i].status
      BY <1>a, <2>1, TakenEffect
    <2>3. pc' = [pc EXCEPT ![w] = "dequeued"] /\ UNCHANGED <<runs, request>>
      BY <1>5 DEF DequeueTask
    <2>6. TaskRuns'
      <3>1. TaskRun(n)'
        BY <2>1, <2>2, <2>3
      <3>2. TaskRuns
        OBVIOUS
      <3> HIDE DEF TaskRuns, TaskRun
      <3> QED
        BY <2>1, <2>2, <2>3, <3>1, <3>2, OtherTasksKeepTheirRuns
    <2>7. RequestRuns'
      BY <2>3
    <2>8. JobRun(w)'
      BY <2>1, <2>3
    <2>9. \A v \in Workers : v # w => pc'[v] = pc[v] /\ held'[v] = held[v]
      BY <2>1, <2>3
    <2>10. \A v \in Workers : v # w /\ pc[v] \in Busy => Run(v)' = Run(v) /\ runs'[Run(v)] = runs[Run(v)]
      BY <2>3, <2>9
    <2> HIDE DEF JobRuns, JobRun, Run
    <2> QED
      BY <1>a, <2>6, <2>7, <2>8, <2>9, <2>10, OthersKeepTheirRuns
  <1>6. ASSUME NEW w \in Workers, FindNothing(w) PROVE Goal
    BY <1>6 DEF FindNothing, Goto
  <1>7. ASSUME NEW w \in Workers, ExitLoop(w) PROVE Goal
    BY <1>7 DEF ExitLoop, Goto
  <1>8. ASSUME NEW w \in Workers, StartRun(w) PROVE Goal
    <2>1. PICK s \in {"running", "completed", "partial_success", "failed"} : SetRun(w, s) /\ s = "running"
      BY <1>8 DEF StartRun
    <2>2. pc[w] \in Busy /\ UNCHANGED <<tasks, request>>
      BY <1>8 DEF StartRun
    <2>3. /\ runs'[Run(w)] = s
          /\ \A i \in DOMAIN tasks : i # held[w] => runs'[tasks[i].run] = runs[tasks[i].run]
          /\ \A v \in Workers : v # w /\ pc[v] \in Busy => runs'[Run(v)] = runs[Run(v)]
          /\ \A r \in Runs : request[r] # "accepted" => runs'[r] = runs[r]
      BY <2>1, <2>2, SetRunEffect
    <2>4. held[w] \in DOMAIN tasks /\ tasks[held[w]].status = IF pc[w] = "burying" THEN "dead" ELSE "running"
      BY <2>2 DEF JobInv
    <2>6. TaskRuns'
      <3>0. PICK n \in DOMAIN tasks : n = held[w]
        BY <2>4
      <3>1. TaskRun(n)'
        BY <1>8, <2>1, <2>2, <2>3, <2>4, <3>0 DEF StartRun
      <3>2. TaskRuns
        OBVIOUS
      <3> HIDE DEF TaskRuns, TaskRun
      <3> QED
        BY <2>2, <2>3, <2>4, <3>0, <3>1, <3>2, OtherTasksKeepTheirRuns
    <2>7. RequestRuns'
      BY <2>2, <2>3
    <2>8. JobRun(w)'
      BY <1>8, <2>1, <2>2, <2>3 DEF StartRun, Goto, Release
    <2>9. \A v \in Workers : v # w => pc'[v] = pc[v] /\ held'[v] = held[v]
      BY <1>8 DEF StartRun, Goto, Release
    <2>10. \A v \in Workers : v # w /\ pc[v] \in Busy => Run(v)' = Run(v) /\ runs'[Run(v)] = runs[Run(v)]
      BY <2>2, <2>3, <2>9
    <2> HIDE DEF JobRuns, JobRun, Run
    <2> QED
      BY <1>a, <2>6, <2>7, <2>8, <2>9, <2>10, OthersKeepTheirRuns
  <1>9. ASSUME NEW w \in Workers, GetScreenshot(w) PROVE Goal
    BY <1>9 DEF GetScreenshot, Goto
  <1>10. ASSUME NEW w \in Workers, SaveMemory(w) PROVE Goal
    BY <1>10 DEF SaveMemory, Goto
  <1>11. ASSUME NEW w \in Workers, FinishRun(w) PROVE Goal
    <2>1. PICK s \in {"running", "completed", "partial_success", "failed"} : SetRun(w, s) /\ s \in {"completed", "partial_success"}
      BY <1>11 DEF FinishRun
    <2>2. pc[w] \in Busy /\ UNCHANGED <<tasks, request>>
      BY <1>11 DEF FinishRun
    <2>3. /\ runs'[Run(w)] = s
          /\ \A i \in DOMAIN tasks : i # held[w] => runs'[tasks[i].run] = runs[tasks[i].run]
          /\ \A v \in Workers : v # w /\ pc[v] \in Busy => runs'[Run(v)] = runs[Run(v)]
          /\ \A r \in Runs : request[r] # "accepted" => runs'[r] = runs[r]
      BY <2>1, <2>2, SetRunEffect
    <2>4. held[w] \in DOMAIN tasks /\ tasks[held[w]].status = IF pc[w] = "burying" THEN "dead" ELSE "running"
      BY <2>2 DEF JobInv
    <2>6. TaskRuns'
      <3>0. PICK n \in DOMAIN tasks : n = held[w]
        BY <2>4
      <3>1. TaskRun(n)'
        BY <1>11, <2>1, <2>2, <2>3, <2>4, <3>0 DEF FinishRun
      <3>2. TaskRuns
        OBVIOUS
      <3> HIDE DEF TaskRuns, TaskRun
      <3> QED
        BY <2>2, <2>3, <2>4, <3>0, <3>1, <3>2, OtherTasksKeepTheirRuns
    <2>7. RequestRuns'
      BY <2>2, <2>3
    <2>8. JobRun(w)'
      BY <1>11, <2>1, <2>2, <2>3 DEF FinishRun, Goto, Release
    <2>9. \A v \in Workers : v # w => pc'[v] = pc[v] /\ held'[v] = held[v]
      BY <1>11 DEF FinishRun, Goto, Release
    <2>10. \A v \in Workers : v # w /\ pc[v] \in Busy => Run(v)' = Run(v) /\ runs'[Run(v)] = runs[Run(v)]
      BY <2>2, <2>3, <2>9
    <2> HIDE DEF JobRuns, JobRun, Run
    <2> QED
      BY <1>a, <2>6, <2>7, <2>8, <2>9, <2>10, OthersKeepTheirRuns
  <1>12. ASSUME NEW w \in Workers, AbortRun(w) PROVE Goal
    <2>1. PICK s \in {"running", "completed", "partial_success", "failed"} : SetRun(w, s) /\ s = "failed"
      BY <1>12 DEF AbortRun
    <2>2. pc[w] \in Busy /\ UNCHANGED <<tasks, request>>
      BY <1>12 DEF AbortRun
    <2>3. /\ runs'[Run(w)] = s
          /\ \A i \in DOMAIN tasks : i # held[w] => runs'[tasks[i].run] = runs[tasks[i].run]
          /\ \A v \in Workers : v # w /\ pc[v] \in Busy => runs'[Run(v)] = runs[Run(v)]
          /\ \A r \in Runs : request[r] # "accepted" => runs'[r] = runs[r]
      BY <2>1, <2>2, SetRunEffect
    <2>4. held[w] \in DOMAIN tasks /\ tasks[held[w]].status = IF pc[w] = "burying" THEN "dead" ELSE "running"
      BY <2>2 DEF JobInv
    <2>6. TaskRuns'
      <3>0. PICK n \in DOMAIN tasks : n = held[w]
        BY <2>4
      <3>1. TaskRun(n)'
        BY <1>12, <2>1, <2>2, <2>3, <2>4, <3>0 DEF AbortRun
      <3>2. TaskRuns
        OBVIOUS
      <3> HIDE DEF TaskRuns, TaskRun
      <3> QED
        BY <2>2, <2>3, <2>4, <3>0, <3>1, <3>2, OtherTasksKeepTheirRuns
    <2>7. RequestRuns'
      BY <2>2, <2>3
    <2>8. JobRun(w)'
      BY <1>12, <2>1, <2>2, <2>3 DEF AbortRun, Goto, Release
    <2>9. \A v \in Workers : v # w => pc'[v] = pc[v] /\ held'[v] = held[v]
      BY <1>12 DEF AbortRun, Goto, Release
    <2>10. \A v \in Workers : v # w /\ pc[v] \in Busy => Run(v)' = Run(v) /\ runs'[Run(v)] = runs[Run(v)]
      BY <2>2, <2>3, <2>9
    <2> HIDE DEF JobRuns, JobRun, Run
    <2> QED
      BY <1>a, <2>6, <2>7, <2>8, <2>9, <2>10, OthersKeepTheirRuns
  <1>13. ASSUME NEW w \in Workers, CompleteTask(w) PROVE Goal
    <2>1. held[w] \in DOMAIN tasks /\ SetTask(w, "completed") /\ "completed" \in Statuses
      BY <1>13 DEF CompleteTask
    <2>2. \A i \in DOMAIN tasks : tasks'[i].status = IF i = held[w] THEN "completed" ELSE tasks[i].status
      BY <1>a, <2>1, SetTaskEffect
    <2>3. UNCHANGED <<runs, request>>
      BY <1>13 DEF CompleteTask
    <2>4. DOMAIN tasks' = DOMAIN tasks
      BY <1>a, <2>1, SetTaskEffect
    <2>5. pc[w] = "succeeded"
      BY <1>13 DEF CompleteTask
    <2>6. TaskRuns'
      <3>0. PICK n \in DOMAIN tasks : n = held[w]
        BY <2>1
      <3>1. TaskRun(n)'
        BY <2>1, <2>2, <2>3, <2>4, <2>5, <3>0
      <3>2. TaskRuns
        OBVIOUS
      <3> HIDE DEF TaskRuns, TaskRun
      <3> QED
        BY <2>1, <2>2, <2>3, <2>4, <3>0, <3>1, <3>2, OtherTasksKeepTheirRuns
    <2>7. RequestRuns'
      BY <2>3
    <2>8. JobRun(w)'
      BY <1>13, <2>1, <2>3 DEF CompleteTask, Release
    <2>9. \A v \in Workers : v # w => pc'[v] = pc[v] /\ held'[v] = held[v]
      BY <1>13 DEF CompleteTask, Release
    <2>10. \A v \in Workers : v # w /\ pc[v] \in Busy => Run(v)' = Run(v) /\ runs'[Run(v)] = runs[Run(v)]
      BY <2>3, <2>9
    <2> HIDE DEF JobRuns, JobRun, Run
    <2> QED
      BY <1>a, <2>6, <2>7, <2>8, <2>9, <2>10, OthersKeepTheirRuns
  <1>14. ASSUME NEW w \in Workers, RetryTask(w) PROVE Goal
    <2>1. held[w] \in DOMAIN tasks /\ SetTask(w, "queued") /\ "queued" \in Statuses
      BY <1>14 DEF RetryTask
    <2>2. \A i \in DOMAIN tasks : tasks'[i].status = IF i = held[w] THEN "queued" ELSE tasks[i].status
      BY <1>a, <2>1, SetTaskEffect
    <2>3. UNCHANGED <<runs, request>>
      BY <1>14 DEF RetryTask
    <2>4. DOMAIN tasks' = DOMAIN tasks
      BY <1>a, <2>1, SetTaskEffect
    <2>5. runs[Run(w)] = "failed"
      BY <1>14 DEF RetryTask
    <2>6. TaskRuns'
      <3>0. PICK n \in DOMAIN tasks : n = held[w]
        BY <2>1
      <3>1. TaskRun(n)'
        BY <2>1, <2>2, <2>3, <2>4, <2>5, <3>0
      <3>2. TaskRuns
        OBVIOUS
      <3> HIDE DEF TaskRuns, TaskRun
      <3> QED
        BY <2>1, <2>2, <2>3, <2>4, <3>0, <3>1, <3>2, OtherTasksKeepTheirRuns
    <2>7. RequestRuns'
      BY <2>3
    <2>8. JobRun(w)'
      BY <1>14, <2>1, <2>3 DEF RetryTask, Release
    <2>9. \A v \in Workers : v # w => pc'[v] = pc[v] /\ held'[v] = held[v]
      BY <1>14 DEF RetryTask, Release
    <2>10. \A v \in Workers : v # w /\ pc[v] \in Busy => Run(v)' = Run(v) /\ runs'[Run(v)] = runs[Run(v)]
      BY <2>3, <2>9
    <2> HIDE DEF JobRuns, JobRun, Run
    <2> QED
      BY <1>a, <2>6, <2>7, <2>8, <2>9, <2>10, OthersKeepTheirRuns
  <1>15. ASSUME NEW w \in Workers, MarkTaskDead(w) PROVE Goal
    <2>1. held[w] \in DOMAIN tasks /\ SetTask(w, "dead") /\ "dead" \in Statuses
      BY <1>15 DEF MarkTaskDead
    <2>2. \A i \in DOMAIN tasks : tasks'[i].status = IF i = held[w] THEN "dead" ELSE tasks[i].status
      BY <1>a, <2>1, SetTaskEffect
    <2>3. UNCHANGED <<runs, request>>
      BY <1>15 DEF MarkTaskDead
    <2>4. DOMAIN tasks' = DOMAIN tasks
      BY <1>a, <2>1, SetTaskEffect
    <2>5. runs[Run(w)] = "failed" /\ tasks'[held[w]].run = Run(w)
      BY <1>15 DEF MarkTaskDead
    <2>6. TaskRuns'
      <3>0. PICK n \in DOMAIN tasks : n = held[w]
        BY <2>1
      <3>1. TaskRun(n)'
        BY <2>1, <2>2, <2>3, <2>4, <2>5, <3>0
      <3>2. TaskRuns
        OBVIOUS
      <3> HIDE DEF TaskRuns, TaskRun
      <3> QED
        BY <2>1, <2>2, <2>3, <2>4, <3>0, <3>1, <3>2, OtherTasksKeepTheirRuns
    <2>7. RequestRuns'
      BY <2>3
    <2>8. JobRun(w)'
      BY <1>15, <2>1, <2>3, <2>5 DEF MarkTaskDead, Goto
    <2>9. \A v \in Workers : v # w => pc'[v] = pc[v] /\ held'[v] = held[v]
      BY <1>15 DEF MarkTaskDead, Goto
    <2>10. \A v \in Workers : v # w /\ pc[v] \in Busy => Run(v)' = Run(v) /\ runs'[Run(v)] = runs[Run(v)]
      BY <2>3, <2>9
    <2> HIDE DEF JobRuns, JobRun, Run
    <2> QED
      BY <1>a, <2>6, <2>7, <2>8, <2>9, <2>10, OthersKeepTheirRuns
  <1>16. ASSUME NEW w \in Workers, BuryRun(w) PROVE Goal
    <2>1. PICK s \in {"running", "completed", "partial_success", "failed"} : SetRun(w, s) /\ s = "failed"
      BY <1>16 DEF BuryRun
    <2>2. pc[w] \in Busy /\ UNCHANGED <<tasks, request>>
      BY <1>16 DEF BuryRun
    <2>3. /\ runs'[Run(w)] = s
          /\ \A i \in DOMAIN tasks : i # held[w] => runs'[tasks[i].run] = runs[tasks[i].run]
          /\ \A v \in Workers : v # w /\ pc[v] \in Busy => runs'[Run(v)] = runs[Run(v)]
          /\ \A r \in Runs : request[r] # "accepted" => runs'[r] = runs[r]
      BY <2>1, <2>2, SetRunEffect
    <2>4. held[w] \in DOMAIN tasks /\ tasks[held[w]].status = IF pc[w] = "burying" THEN "dead" ELSE "running"
      BY <2>2 DEF JobInv
    <2>6. TaskRuns'
      <3>0. PICK n \in DOMAIN tasks : n = held[w]
        BY <2>4
      <3>1. TaskRun(n)'
        BY <1>16, <2>1, <2>2, <2>3, <2>4, <3>0 DEF BuryRun
      <3>2. TaskRuns
        OBVIOUS
      <3> HIDE DEF TaskRuns, TaskRun
      <3> QED
        BY <2>2, <2>3, <2>4, <3>0, <3>1, <3>2, OtherTasksKeepTheirRuns
    <2>7. RequestRuns'
      BY <2>2, <2>3
    <2>8. JobRun(w)'
      BY <1>16, <2>1, <2>2, <2>3 DEF BuryRun, Goto, Release
    <2>9. \A v \in Workers : v # w => pc'[v] = pc[v] /\ held'[v] = held[v]
      BY <1>16 DEF BuryRun, Goto, Release
    <2>10. \A v \in Workers : v # w /\ pc[v] \in Busy => Run(v)' = Run(v) /\ runs'[Run(v)] = runs[Run(v)]
      BY <2>2, <2>3, <2>9
    <2> HIDE DEF JobRuns, JobRun, Run
    <2> QED
      BY <1>a, <2>6, <2>7, <2>8, <2>9, <2>10, OthersKeepTheirRuns
  <1>17. CASE Stop
    BY <1>17 DEF Stop
  <1>18. CASE Halt
    BY <1>18 DEF Halt, ProcessGone
  <1>19. CASE Crash
    BY <1>19 DEF Crash, ProcessGone
  <1>20. CASE UNCHANGED vars
    BY <1>20 DEF vars
  <1> QED
    BY <1>1, <1>2, <1>3, <1>4, <1>5, <1>6, <1>7, <1>8, <1>9, <1>10,
       <1>11, <1>12, <1>13, <1>14, <1>15, <1>16, <1>17, <1>18, <1>19, <1>20
    DEF Next, Submit, Running, Step

-----------------------------------------------------------------------------
(* A success is the run of an accepted request.                             *)
LEMMA SuccessAccepted == RunInv /\ OthersOK => \A r \in Runs : Succeeded(r) => request[r] = "accepted"
  BY DEF RunInv, RequestRuns, Succeeded, OthersOK

(* What a step leaves alone: the screenshot of an accepted run, and that a  *)
(* screenshot exists or is organized.                                       *)
LEMMA AboutStays ==
    ASSUME OthersOK, [Next]_vars
    PROVE  /\ \A r \in Runs : request[r] = "accepted" => about'[r] = about[r]
           /\ \A r \in Runs : request'[r] \in {"uploaded", "created", "accepted"} =>
                 about'[r] \in Shots \/ (request[r] \in {"uploaded", "created", "accepted"} /\ about'[r] = about[r])
  <1> DEFINE Goal == /\ \A r \in Runs : request[r] = "accepted" => about'[r] = about[r]
                     /\ \A r \in Runs : request'[r] \in {"uploaded", "created", "accepted"} =>
                           about'[r] \in Shots \/ (request[r] \in {"uploaded", "created", "accepted"} /\ about'[r] = about[r])
  <1> USE DEF OthersOK
  <1>1. ASSUME NEW r \in Runs, NEW s \in Shots, CreateScreenshot(r, s) PROVE Goal
    BY <1>1 DEF CreateScreenshot
  <1>2. ASSUME NEW r \in Runs, CreateAgentRun(r) PROVE Goal
    BY <1>2 DEF CreateAgentRun
  <1>3. ASSUME NEW r \in Runs, EnqueueTask(r) PROVE Goal
    BY <1>3 DEF EnqueueTask
  <1>4. ASSUME NEW w \in Workers, Poll(w) PROVE Goal
    BY <1>4 DEF Poll, Goto
  <1>5. ASSUME NEW w \in Workers, DequeueTask(w) PROVE Goal
    BY <1>5 DEF DequeueTask
  <1>6. ASSUME NEW w \in Workers, FindNothing(w) PROVE Goal
    BY <1>6 DEF FindNothing, Goto
  <1>7. ASSUME NEW w \in Workers, ExitLoop(w) PROVE Goal
    BY <1>7 DEF ExitLoop, Goto
  <1>8. ASSUME NEW w \in Workers, StartRun(w) PROVE Goal
    BY <1>8 DEF StartRun, Goto, SetRun
  <1>9. ASSUME NEW w \in Workers, GetScreenshot(w) PROVE Goal
    BY <1>9 DEF GetScreenshot, Goto
  <1>10. ASSUME NEW w \in Workers, SaveMemory(w) PROVE Goal
    BY <1>10 DEF SaveMemory, Goto
  <1>11. ASSUME NEW w \in Workers, FinishRun(w) PROVE Goal
    BY <1>11 DEF FinishRun, Goto, SetRun
  <1>12. ASSUME NEW w \in Workers, AbortRun(w) PROVE Goal
    BY <1>12 DEF AbortRun, Goto, SetRun
  <1>13. ASSUME NEW w \in Workers, CompleteTask(w) PROVE Goal
    BY <1>13 DEF CompleteTask, Release
  <1>14. ASSUME NEW w \in Workers, RetryTask(w) PROVE Goal
    BY <1>14 DEF RetryTask, Release, Exhausted
  <1>15. ASSUME NEW w \in Workers, MarkTaskDead(w) PROVE Goal
    BY <1>15 DEF MarkTaskDead, Goto, Exhausted
  <1>16. ASSUME NEW w \in Workers, BuryRun(w) PROVE Goal
    BY <1>16 DEF BuryRun, Release, SetRun
  <1>17. CASE Stop
    BY <1>17 DEF Stop
  <1>18. CASE Halt
    BY <1>18 DEF Halt, ProcessGone
  <1>19. CASE Crash
    BY <1>19 DEF Crash, ProcessGone
  <1>20. CASE UNCHANGED vars
    BY <1>20 DEF vars
  <1> QED
    BY <1>1, <1>2, <1>3, <1>4, <1>5, <1>6, <1>7, <1>8, <1>9, <1>10,
       <1>11, <1>12, <1>13, <1>14, <1>15, <1>16, <1>17, <1>18, <1>19, <1>20
    DEF Next, Submit, Running, Step

(* No step takes a screenshot away or makes it less than organized.         *)
LEMMA ShotsStay ==
    ASSUME OthersOK, [Next]_vars
    PROVE  \A s \in Shots : /\ screenshots[s] = "organized" => screenshots'[s] = "organized"
                            /\ screenshots[s] # "none" => screenshots'[s] # "none"
  <1> DEFINE Goal == \A s \in Shots : /\ screenshots[s] = "organized" => screenshots'[s] = "organized"
                                      /\ screenshots[s] # "none" => screenshots'[s] # "none"
  <1> USE DEF OthersOK, storeVars
  <1>1. ASSUME NEW r \in Runs, NEW s \in Shots, CreateScreenshot(r, s) PROVE Goal
    BY <1>1 DEF CreateScreenshot
  <1>2. ASSUME NEW r \in Runs, CreateAgentRun(r) PROVE Goal
    BY <1>2 DEF CreateAgentRun
  <1>3. ASSUME NEW r \in Runs, EnqueueTask(r) PROVE Goal
    BY <1>3 DEF EnqueueTask
  <1>4. ASSUME NEW w \in Workers, Poll(w) PROVE Goal
    BY <1>4 DEF Poll, Goto
  <1>5. ASSUME NEW w \in Workers, DequeueTask(w) PROVE Goal
    BY <1>5 DEF DequeueTask
  <1>6. ASSUME NEW w \in Workers, FindNothing(w) PROVE Goal
    BY <1>6 DEF FindNothing, Goto
  <1>7. ASSUME NEW w \in Workers, ExitLoop(w) PROVE Goal
    BY <1>7 DEF ExitLoop, Goto
  <1>8. ASSUME NEW w \in Workers, StartRun(w) PROVE Goal
    BY <1>8 DEF StartRun, Goto, SetRun
  <1>9. ASSUME NEW w \in Workers, GetScreenshot(w) PROVE Goal
    BY <1>9 DEF GetScreenshot, Goto
  <1>10. ASSUME NEW w \in Workers, SaveMemory(w) PROVE Goal
    BY <1>10 DEF SaveMemory, Goto
  <1>11. ASSUME NEW w \in Workers, FinishRun(w) PROVE Goal
    BY <1>11 DEF FinishRun, Goto, SetRun
  <1>12. ASSUME NEW w \in Workers, AbortRun(w) PROVE Goal
    BY <1>12 DEF AbortRun, Goto, SetRun
  <1>13. ASSUME NEW w \in Workers, CompleteTask(w) PROVE Goal
    BY <1>13 DEF CompleteTask, Release
  <1>14. ASSUME NEW w \in Workers, RetryTask(w) PROVE Goal
    BY <1>14 DEF RetryTask, Release, Exhausted
  <1>15. ASSUME NEW w \in Workers, MarkTaskDead(w) PROVE Goal
    BY <1>15 DEF MarkTaskDead, Goto, Exhausted
  <1>16. ASSUME NEW w \in Workers, BuryRun(w) PROVE Goal
    BY <1>16 DEF BuryRun, Release, SetRun
  <1>17. CASE Stop
    BY <1>17 DEF Stop
  <1>18. CASE Halt
    BY <1>18 DEF Halt, ProcessGone
  <1>19. CASE Crash
    BY <1>19 DEF Crash, ProcessGone
  <1>20. CASE UNCHANGED vars
    BY <1>20 DEF vars
  <1> QED
    BY <1>1, <1>2, <1>3, <1>4, <1>5, <1>6, <1>7, <1>8, <1>9, <1>10,
       <1>11, <1>12, <1>13, <1>14, <1>15, <1>16, <1>17, <1>18, <1>19, <1>20
    DEF Next, Submit, Running, Step

(* A run becomes, and stays, a success when its goroutine has finished it.  *)
LEMMA SuccessStep ==
    ASSUME Typed, HoldInv, RunInv, [Next]_vars
    PROVE  \A r \in Runs :
             /\ Succeeded(r) => Succeeded(r)'
             /\ Succeeded(r)' => Succeeded(r) \/ \E w \in Workers : pc[w] = "finishing" /\ Run(w) = r
  <1> DEFINE Goal == \A r \in Runs :
                       /\ Succeeded(r) => Succeeded(r)'
                       /\ Succeeded(r)' => Succeeded(r) \/ \E w \in Workers : pc[w] = "finishing" /\ Run(w) = r
  <1>a. OthersOK /\ RequestRuns /\ \A w \in Workers : JobRun(w)
    BY TypeParts DEF RunInv, JobRuns
  <1> USE <1>a DEF OthersOK, RequestRuns, JobRun, Succeeded, storeVars
  <1>1. ASSUME NEW r \in Runs, NEW s \in Shots, CreateScreenshot(r, s) PROVE Goal
    BY <1>1 DEF CreateScreenshot
  <1>2. ASSUME NEW r \in Runs, CreateAgentRun(r) PROVE Goal
    BY <1>2 DEF CreateAgentRun
  <1>3. ASSUME NEW r \in Runs, EnqueueTask(r) PROVE Goal
    BY <1>3 DEF EnqueueTask
  <1>4. ASSUME NEW w \in Workers, Poll(w) PROVE Goal
    BY <1>4 DEF Poll, Goto
  <1>5. ASSUME NEW w \in Workers, DequeueTask(w) PROVE Goal
    BY <1>5 DEF DequeueTask
  <1>6. ASSUME NEW w \in Workers, FindNothing(w) PROVE Goal
    BY <1>6 DEF FindNothing, Goto
  <1>7. ASSUME NEW w \in Workers, ExitLoop(w) PROVE Goal
    BY <1>7 DEF ExitLoop, Goto
  <1>8. ASSUME NEW w \in Workers, StartRun(w) PROVE Goal
    BY <1>8 DEF StartRun, Goto, SetRun
  <1>9. ASSUME NEW w \in Workers, GetScreenshot(w) PROVE Goal
    BY <1>9 DEF GetScreenshot, Goto
  <1>10. ASSUME NEW w \in Workers, SaveMemory(w) PROVE Goal
    BY <1>10 DEF SaveMemory, Goto
  <1>11. ASSUME NEW w \in Workers, FinishRun(w) PROVE Goal
    BY <1>11 DEF FinishRun, Goto, SetRun
  <1>12. ASSUME NEW w \in Workers, AbortRun(w) PROVE Goal
    BY <1>12 DEF AbortRun, Goto, SetRun
  <1>13. ASSUME NEW w \in Workers, CompleteTask(w) PROVE Goal
    BY <1>13 DEF CompleteTask, Release
  <1>14. ASSUME NEW w \in Workers, RetryTask(w) PROVE Goal
    BY <1>14 DEF RetryTask, Release, Exhausted
  <1>15. ASSUME NEW w \in Workers, MarkTaskDead(w) PROVE Goal
    BY <1>15 DEF MarkTaskDead, Goto, Exhausted
  <1>16. ASSUME NEW w \in Workers, BuryRun(w) PROVE Goal
    BY <1>16 DEF BuryRun, Release, SetRun
  <1>17. CASE Stop
    BY <1>17 DEF Stop
  <1>18. CASE Halt
    BY <1>18 DEF Halt, ProcessGone
  <1>19. CASE Crash
    BY <1>19 DEF Crash, ProcessGone
  <1>20. CASE UNCHANGED vars
    BY <1>20 DEF vars
  <1> QED
    BY <1>1, <1>2, <1>3, <1>4, <1>5, <1>6, <1>7, <1>8, <1>9, <1>10,
       <1>11, <1>12, <1>13, <1>14, <1>15, <1>16, <1>17, <1>18, <1>19, <1>20
    DEF Next, Submit, Running, Step

(* Which goroutines have saved, or are about to save, an insight.           *)
LEMMA SavedStep ==
    ASSUME Typed, AboutShots, [Next]_vars
    PROVE  \A w \in Workers :
             /\ Saved(w) => (Saved(w)' /\ held'[w] = held[w]) \/ pc[w] = "succeeded"
             /\ Saved(w)' => /\ held'[w] = held[w]
                             /\ Saved(w) \/ (pc[w] = "saving" /\ screenshots'[about[Run(w)]] = "organized")
             /\ pc'[w] = "saving" => /\ held'[w] = held[w]
                                     /\ pc[w] = "saving" \/ (pc[w] = "executing" /\ screenshots[about[Run(w)]] # "none")
  <1> DEFINE Goal == \A v \in Workers :
             /\ Saved(v) => (Saved(v)' /\ held'[v] = held[v]) \/ pc[v] = "succeeded"
             /\ Saved(v)' => /\ held'[v] = held[v]
                             /\ Saved(v) \/ (pc[v] = "saving" /\ screenshots'[about[Run(v)]] = "organized")
             /\ pc'[v] = "saving" => /\ held'[v] = held[v]
                                     /\ pc[v] = "saving" \/ (pc[v] = "executing" /\ screenshots[about[Run(v)]] # "none")
  <1>a. OthersOK /\ \A v \in Workers : pc[v] = "saving" => about[Run(v)] \in Shots
    <2>1. OthersOK /\ HasTask /\ RequestInv /\ TasksOK
      BY TypeParts DEF Slice
    <2>2. ASSUME NEW v \in Workers, pc[v] = "saving" PROVE about[Run(v)] \in Shots
      <3>1. held[v] \in DOMAIN tasks
        BY <2>1, <2>2 DEF HasTask, Busy, Location
      <3>2. Run(v) \in Runs /\ request[Run(v)] = "accepted"
        BY <2>1, <3>1, TaskFields DEF RequestInv, TasksOK, Run
      <3> QED
        BY <3>2 DEF AboutShots
    <2> QED
      BY <2>1, <2>2
  <1> SUFFICES Goal
    OBVIOUS
  <1> USE <1>a DEF OthersOK, Saved, Location, workerVars
  <1>1. ASSUME NEW r \in Runs, NEW s \in Shots, CreateScreenshot(r, s) PROVE Goal
    BY <1>1 DEF CreateScreenshot
  <1>2. ASSUME NEW r \in Runs, CreateAgentRun(r) PROVE Goal
    BY <1>2 DEF CreateAgentRun
  <1>3. ASSUME NEW r \in Runs, EnqueueTask(r) PROVE Goal
    BY <1>3 DEF EnqueueTask
  <1>4. ASSUME NEW w \in Workers, Poll(w) PROVE Goal
    BY <1>4 DEF Poll, Goto
  <1>5. ASSUME NEW w \in Workers, DequeueTask(w) PROVE Goal
    BY <1>5 DEF DequeueTask
  <1>6. ASSUME NEW w \in Workers, FindNothing(w) PROVE Goal
    BY <1>6 DEF FindNothing, Goto
  <1>7. ASSUME NEW w \in Workers, ExitLoop(w) PROVE Goal
    BY <1>7 DEF ExitLoop, Goto
  <1>8. ASSUME NEW w \in Workers, StartRun(w) PROVE Goal
    BY <1>8 DEF StartRun, Goto, SetRun
  <1>9. ASSUME NEW w \in Workers, GetScreenshot(w) PROVE Goal
    BY <1>9 DEF GetScreenshot, Goto
  <1>10. ASSUME NEW w \in Workers, SaveMemory(w) PROVE Goal
    BY <1>10 DEF SaveMemory, Goto
  <1>11. ASSUME NEW w \in Workers, FinishRun(w) PROVE Goal
    BY <1>11 DEF FinishRun, Goto, SetRun
  <1>12. ASSUME NEW w \in Workers, AbortRun(w) PROVE Goal
    BY <1>12 DEF AbortRun, Goto, SetRun
  <1>13. ASSUME NEW w \in Workers, CompleteTask(w) PROVE Goal
    BY <1>13 DEF CompleteTask, Release
  <1>14. ASSUME NEW w \in Workers, RetryTask(w) PROVE Goal
    BY <1>14 DEF RetryTask, Release, Exhausted
  <1>15. ASSUME NEW w \in Workers, MarkTaskDead(w) PROVE Goal
    BY <1>15 DEF MarkTaskDead, Goto, Exhausted
  <1>16. ASSUME NEW w \in Workers, BuryRun(w) PROVE Goal
    BY <1>16 DEF BuryRun, Release, SetRun
  <1>17. CASE Stop
    BY <1>17 DEF Stop
  <1>18. CASE Halt
    BY <1>18 DEF Halt, ProcessGone
  <1>19. CASE Crash
    BY <1>19 DEF Crash, ProcessGone
  <1>20. CASE UNCHANGED vars
    BY <1>20 DEF vars
  <1> QED
    BY <1>1, <1>2, <1>3, <1>4, <1>5, <1>6, <1>7, <1>8, <1>9, <1>10,
       <1>11, <1>12, <1>13, <1>14, <1>15, <1>16, <1>17, <1>18, <1>19, <1>20
    DEF Next, Submit, Running, Step

(* A screenshot becomes organized when a goroutine saves its insight.       *)
LEMMA OrganizedStep ==
    ASSUME OthersOK, [Next]_vars
    PROVE  \A s \in Shots : screenshots'[s] = "organized" =>
              screenshots[s] = "organized" \/ \E w \in Workers : Saved(w)' /\ pc[w] = "saving" /\ about[Run(w)] = s
  <1> DEFINE Goal == \A s \in Shots : screenshots'[s] = "organized" =>
              screenshots[s] = "organized" \/ \E w \in Workers : Saved(w)' /\ pc[w] = "saving" /\ about[Run(w)] = s
  <1> USE DEF OthersOK, Saved, Location, storeVars
  <1>1. ASSUME NEW r \in Runs, NEW s \in Shots, CreateScreenshot(r, s) PROVE Goal
    BY <1>1 DEF CreateScreenshot
  <1>2. ASSUME NEW r \in Runs, CreateAgentRun(r) PROVE Goal
    BY <1>2 DEF CreateAgentRun
  <1>3. ASSUME NEW r \in Runs, EnqueueTask(r) PROVE Goal
    BY <1>3 DEF EnqueueTask
  <1>4. ASSUME NEW w \in Workers, Poll(w) PROVE Goal
    BY <1>4 DEF Poll, Goto
  <1>5. ASSUME NEW w \in Workers, DequeueTask(w) PROVE Goal
    BY <1>5 DEF DequeueTask
  <1>6. ASSUME NEW w \in Workers, FindNothing(w) PROVE Goal
    BY <1>6 DEF FindNothing, Goto
  <1>7. ASSUME NEW w \in Workers, ExitLoop(w) PROVE Goal
    BY <1>7 DEF ExitLoop, Goto
  <1>8. ASSUME NEW w \in Workers, StartRun(w) PROVE Goal
    BY <1>8 DEF StartRun, Goto, SetRun
  <1>9. ASSUME NEW w \in Workers, GetScreenshot(w) PROVE Goal
    BY <1>9 DEF GetScreenshot, Goto
  <1>10. ASSUME NEW w \in Workers, SaveMemory(w) PROVE Goal
    BY <1>10 DEF SaveMemory, Goto
  <1>11. ASSUME NEW w \in Workers, FinishRun(w) PROVE Goal
    BY <1>11 DEF FinishRun, Goto, SetRun
  <1>12. ASSUME NEW w \in Workers, AbortRun(w) PROVE Goal
    BY <1>12 DEF AbortRun, Goto, SetRun
  <1>13. ASSUME NEW w \in Workers, CompleteTask(w) PROVE Goal
    BY <1>13 DEF CompleteTask, Release
  <1>14. ASSUME NEW w \in Workers, RetryTask(w) PROVE Goal
    BY <1>14 DEF RetryTask, Release, Exhausted
  <1>15. ASSUME NEW w \in Workers, MarkTaskDead(w) PROVE Goal
    BY <1>15 DEF MarkTaskDead, Goto, Exhausted
  <1>16. ASSUME NEW w \in Workers, BuryRun(w) PROVE Goal
    BY <1>16 DEF BuryRun, Release, SetRun
  <1>17. CASE Stop
    BY <1>17 DEF Stop
  <1>18. CASE Halt
    BY <1>18 DEF Halt, ProcessGone
  <1>19. CASE Crash
    BY <1>19 DEF Crash, ProcessGone
  <1>20. CASE UNCHANGED vars
    BY <1>20 DEF vars
  <1> QED
    BY <1>1, <1>2, <1>3, <1>4, <1>5, <1>6, <1>7, <1>8, <1>9, <1>10,
       <1>11, <1>12, <1>13, <1>14, <1>15, <1>16, <1>17, <1>18, <1>19, <1>20
    DEF Next, Submit, Running, Step

(* No screenshot is stored.                                                 *)
LEMMA ShotInit == Init => ShotInv
  BY DEF Init, ShotInv, AboutShots, SuccessShots, JobShots, OrganizedShots, Succeeded, Saved

(* The screenshots follow the runs.                                         *)
LEMMA ShotStep ==
    ASSUME Typed, HoldInv, RunInv, ShotInv, [Next]_vars
    PROVE  ShotInv'
  <1>1. OthersOK /\ TasksOK /\ HasTask /\ RequestInv /\ AboutShots /\ SuccessShots /\ JobShots /\ OrganizedShots
    BY TypeParts DEF Slice, ShotInv
  <1>2. ASSUME NEW w \in Workers, pc[w] \in Busy, held'[w] = held[w]
        PROVE  Run(w)' = Run(w)
    <2>1. held[w] \in DOMAIN tasks
      BY <1>1, <1>2 DEF HasTask
    <2> QED
      BY <1>2, <2>1, SliceStep DEF Typed, Run
  <1>3. ASSUME NEW w \in Workers, pc[w] \in Busy
        PROVE  Run(w) \in Runs /\ about[Run(w)] \in Shots /\ about'[Run(w)] = about[Run(w)]
    <2>1. held[w] \in DOMAIN tasks
      BY <1>1, <1>3 DEF HasTask
    <2>2. Run(w) \in Runs /\ request[Run(w)] = "accepted"
      BY <1>1, <2>1, TaskFields DEF RequestInv, TasksOK, Run
    <2> QED
      BY <1>1, <2>2, AboutStays DEF AboutShots
  <1>4. ASSUME NEW r \in Runs, Succeeded(r) PROVE about[r] \in Shots /\ about'[r] = about[r]
    <2>1. request[r] = "accepted"
      BY <1>1, <1>4, SuccessAccepted
    <2> QED
      BY <1>1, <2>1, AboutStays DEF AboutShots
  <1>5. \A w \in Workers : (Saved(w) => pc[w] \in Busy) /\ (pc[w] \in {"saving", "executing", "finishing", "succeeded"} => pc[w] \in Busy)
    BY DEF Saved, Busy, Location
  <1>6. AboutShots'
    BY <1>1, AboutStays DEF AboutShots
  <1>7. SuccessShots'
    <2> SUFFICES ASSUME NEW r \in Runs, Succeeded(r)' PROVE screenshots'[about'[r]] = "organized"
      BY DEF SuccessShots
    <2>1. CASE Succeeded(r)
      BY <1>1, <1>4, <2>1, ShotsStay DEF SuccessShots
    <2>2. ASSUME NEW w \in Workers, pc[w] = "finishing", Run(w) = r PROVE screenshots'[about'[r]] = "organized"
      <3>1. Saved(w)
        BY <2>2 DEF Saved
      <3>2. screenshots[about[r]] = "organized"
        BY <1>1, <2>2, <3>1 DEF JobShots
      <3>3. about[r] \in Shots /\ about'[r] = about[r]
        BY <1>3, <1>5, <2>2
      <3> QED
        BY <1>1, <3>2, <3>3, ShotsStay
    <2> QED
      BY <2>1, <2>2, SuccessStep
  <1>8. JobShots'
    <2>1. ASSUME NEW w \in Workers, Saved(w)' PROVE screenshots'[about'[Run(w)']] = "organized"
      <3>1. /\ held'[w] = held[w]
            /\ Saved(w) \/ (pc[w] = "saving" /\ screenshots'[about[Run(w)]] = "organized")
        BY <1>1, <2>1, SavedStep
      <3>2. Run(w)' = Run(w) /\ about[Run(w)] \in Shots /\ about'[Run(w)] = about[Run(w)]
        BY <1>2, <1>3, <1>5, <3>1
      <3>3. screenshots'[about[Run(w)]] = "organized"
        BY <1>1, <3>1, <3>2, ShotsStay DEF JobShots
      <3> QED
        BY <3>2, <3>3
    <2>2. ASSUME NEW w \in Workers, pc'[w] = "saving" PROVE screenshots'[about'[Run(w)']] # "none"
      <3>1. /\ held'[w] = held[w]
            /\ pc[w] = "saving" \/ (pc[w] = "executing" /\ screenshots[about[Run(w)]] # "none")
        BY <1>1, <2>2, SavedStep
      <3>2. Run(w)' = Run(w) /\ about[Run(w)] \in Shots /\ about'[Run(w)] = about[Run(w)]
        BY <1>2, <1>3, <1>5, <3>1
      <3>3. screenshots'[about[Run(w)]] # "none"
        BY <1>1, <3>1, <3>2, ShotsStay DEF JobShots
      <3> QED
        BY <3>2, <3>3
    <2> QED
      BY <2>1, <2>2 DEF JobShots
  <1>9. OrganizedShots'
    <2> SUFFICES ASSUME NEW s \in Shots, screenshots'[s] = "organized"
                 PROVE  \/ \E r \in Runs : Succeeded(r)' /\ about'[r] = s
                        \/ \E w \in Workers : Saved(w)' /\ about'[Run(w)'] = s
      BY DEF OrganizedShots
    <2>1. ASSUME NEW w \in Workers, Saved(w)', pc[w] = "saving", about[Run(w)] = s
          PROVE  about'[Run(w)'] = s
      <3>1. held'[w] = held[w]
        BY <1>1, <2>1, SavedStep
      <3> QED
        BY <1>2, <1>3, <1>5, <2>1, <3>1
    <2>2. ASSUME NEW r \in Runs, Succeeded(r), about[r] = s PROVE Succeeded(r)' /\ about'[r] = s
      BY <1>4, <2>2, SuccessStep
    <2>3. ASSUME NEW w \in Workers, Saved(w), about[Run(w)] = s, pc[w] # "succeeded"
          PROVE  Saved(w)' /\ about'[Run(w)'] = s
      <3>1. Saved(w)' /\ held'[w] = held[w]
        BY <1>1, <2>3, SavedStep
      <3> QED
        BY <1>2, <1>3, <1>5, <2>3, <3>1
    <2>4. ASSUME NEW w \in Workers, Saved(w), about[Run(w)] = s, pc[w] = "succeeded"
          PROVE  Run(w) \in Runs /\ Succeeded(Run(w)) /\ about[Run(w)] = s
      BY <1>3, <1>5, <2>4 DEF RunInv, JobRuns, JobRun
    <2>5. \/ \E w \in Workers : Saved(w)' /\ pc[w] = "saving" /\ about[Run(w)] = s
          \/ \E r \in Runs : Succeeded(r) /\ about[r] = s
          \/ \E w \in Workers : Saved(w) /\ about[Run(w)] = s
      BY <1>1, OrganizedStep DEF OrganizedShots
    <2> QED
      BY <2>1, <2>2, <2>3, <2>4, <2>5
  <1> QED
    BY <1>6, <1>7, <1>8, <1>9 DEF ShotInv

(* The inductive invariant of what GetStats counts.                         *)
THEOREM StatsInvariant == Spec => [](RunInv /\ ShotInv)
  <1>1. Typed /\ HoldInv /\ RunInv /\ ShotInv /\ [Next]_vars => (RunInv /\ ShotInv)'
    BY RunStep, ShotStep
  <1> QED
    BY HoldInvariant, RunInit, ShotInit, <1>1, PTL DEF Spec

-----------------------------------------------------------------------------
(* A set that maps one to one into a finite set is finite and no larger.    *)
LEMMA CountedBy ==
    ASSUME NEW S, NEW T, IsFiniteSet(T), NEW f, f \in [S -> T],
           \A a, b \in S : f[a] = f[b] => a = b
    PROVE  IsFiniteSet(S) /\ Cardinality(S) <= Cardinality(T)
  <1>1. f \in Injection(S, T)
    BY DEF Injection, IsInjective
  <1> QED
    BY <1>1, FS_Injection

RunsIn(S) == {r \in Runs : runs[r] \in S}
TasksIn(st) == {i \in DOMAIN tasks : tasks[i].status = st}
Organized == {s \in Shots : screenshots[s] = "organized"}

(* The page of statistics counts these sets.                                *)
LEMMA StatsCount ==
    ASSUME OthersOK
    PROVE  /\ GetStats.total = Cardinality(RunsIn({"running", "completed", "partial_success", "failed"}))
           /\ GetStats.succeeded = Cardinality(RunsIn({"completed", "partial_success"}))
           /\ GetStats.failed = Cardinality(RunsIn({"failed"}))
           /\ GetStats.queued = Cardinality(TasksIn("queued"))
           /\ GetStats.running = Cardinality(TasksIn("running"))
           /\ GetStats.dead = Cardinality(TasksIn("dead"))
           /\ GetStats.organized = Cardinality(Organized)
  <1>1. \A S : With(runs, S) = Cardinality(RunsIn(S))
    BY DEF OthersOK, With, RunsIn
  <1>2. \A st : TasksWith(st) = Cardinality(TasksIn(st))
    <2> TAKE st
    <2> DEFINE f == [i \in DOMAIN tasks |-> tasks[i].status]
    <2>1. {x \in DOMAIN f : f[x] \in {st}} = TasksIn(st)
      BY DEF TasksIn
    <2> QED
      BY <2>1 DEF TasksWith, With
  <1>3. With(screenshots, {"organized"}) = Cardinality(Organized)
    <2>1. {x \in DOMAIN screenshots : screenshots[x] \in {"organized"}} = Organized
      BY DEF Organized, OthersOK
    <2> QED
      BY <2>1 DEF With
  <1> QED
    BY <1>1, <1>2, <1>3 DEF GetStats

(* The statistics add up in every state of the invariant, for any finite    *)
(* sets of runs and screenshots.                                            *)
LEMMA StatsOfInvariant ==
    ASSUME IsFiniteSet(Runs), IsFiniteSet(Shots), Typed, HoldInv, RunInv, ShotInv
    PROVE  StatsAddUp
  <1> DEFINE Total == RunsIn({"running", "completed", "partial_success", "failed"})
             Succ == RunsIn({"completed", "partial_success"})
             Fail == RunsIn({"failed"})
             Queue == TasksIn("queued")
             Dead == TasksIn("dead")
             Work == TasksIn("running")
  <1>1. OthersOK /\ TasksOK /\ HasTask /\ TaskRuns /\ tasks \in Seq(TaskType)
    BY TypeParts DEF Slice, TasksOK, RunInv
  <1>2. /\ \A i \in DOMAIN tasks : tasks[i].run \in Runs
        /\ \A i, j \in DOMAIN tasks : tasks[i].run = tasks[j].run => i = j
    BY <1>1, TaskFields DEF TasksOK
  <1>3. /\ IsFiniteSet(Total) /\ IsFiniteSet(Succ) /\ IsFiniteSet(Fail) /\ IsFiniteSet(Organized)
        /\ Cardinality(Total) \in Nat /\ Cardinality(Succ) \in Nat /\ Cardinality(Fail) \in Nat
        /\ Cardinality(Organized) \in Nat
    <2>1. Total \in SUBSET Runs /\ Succ \in SUBSET Runs /\ Fail \in SUBSET Runs /\ Organized \in SUBSET Shots
      BY DEF RunsIn, Organized
    <2>2. IsFiniteSet(Total) /\ IsFiniteSet(Succ) /\ IsFiniteSet(Fail) /\ IsFiniteSet(Organized)
      BY <2>1, FS_Subset
    <2> QED
      BY <2>2, FS_CardinalityType
  <1>4. /\ IsFiniteSet(Queue) /\ IsFiniteSet(Dead) /\ IsFiniteSet(Work)
        /\ Cardinality(Queue) \in Nat /\ Cardinality(Dead) \in Nat /\ Cardinality(Work) \in Nat
    <2>1. IsFiniteSet(DOMAIN tasks)
      <3>1. DOMAIN tasks = 1..Len(tasks) /\ Len(tasks) \in Nat
        BY <1>1, TaskFields
      <3> QED
        BY <3>1, FS_Interval
    <2>2. Queue \in SUBSET DOMAIN tasks /\ Dead \in SUBSET DOMAIN tasks /\ Work \in SUBSET DOMAIN tasks
      BY DEF TasksIn
    <2>3. IsFiniteSet(Queue) /\ IsFiniteSet(Dead) /\ IsFiniteSet(Work)
      BY <2>1, <2>2, FS_Subset
    <2> QED
      BY <2>3, FS_CardinalityType
  <1>5. Cardinality(Dead) <= Cardinality(Fail)
    <2> DEFINE f == [i \in Dead |-> tasks[i].run]
    <2>1. f \in [Dead -> Fail]
      BY <1>1, <1>2 DEF TasksIn, RunsIn, TaskRuns, TaskRun
    <2>2. \A a, b \in Dead : f[a] = f[b] => a = b
      BY <1>2 DEF TasksIn
    <2> HIDE DEF f
    <2> QED
      BY <1>3, <2>1, <2>2, CountedBy
  <1>6. Cardinality(Succ) + Cardinality(Queue) + Cardinality(Dead) <= Cardinality(Total)
    <2> DEFINE U == Queue \cup Dead
               f == [i \in U |-> tasks[i].run]
    <2>1. f \in [U -> Total \ Succ]
      <3> SUFFICES ASSUME NEW i \in U PROVE tasks[i].run \in Total \ Succ
        OBVIOUS
      <3>1. i \in DOMAIN tasks /\ tasks[i].run \in Runs /\ TaskRun(i) /\ tasks[i].status \in {"queued", "dead"}
        BY <1>1, <1>2 DEF TasksIn, TaskRuns
      <3> QED
        BY <1>1, <3>1 DEF TaskRun, Succeeded, RunsIn, OthersOK
    <2>2. \A a, b \in U : f[a] = f[b] => a = b
      BY <1>2 DEF TasksIn
    <2>3. IsFiniteSet(Total \ Succ) /\ Cardinality(Total \ Succ) = Cardinality(Total) - Cardinality(Total \cap Succ)
      BY <1>3, FS_Difference
    <2>4. Cardinality(Total \cap Succ) = Cardinality(Succ)
      <3>1. Total \cap Succ = Succ
        BY DEF RunsIn
      <3> QED
        BY <3>1
    <2>5. Cardinality(U) <= Cardinality(Total \ Succ)
      <3> HIDE DEF f, U
      <3> QED
        BY <2>1, <2>2, <2>3, CountedBy
    <2>6. Cardinality(U) = Cardinality(Queue) + Cardinality(Dead) - Cardinality(Queue \cap Dead)
      BY <1>4, FS_Union
    <2>7. Cardinality(Queue \cap Dead) = 0
      <3>1. Queue \cap Dead = {}
        BY DEF TasksIn
      <3> QED
        BY <3>1, FS_EmptySet
    <2> HIDE DEF Total, Succ, Queue, Dead, U
    <2> QED
      BY <1>3, <1>4, <2>3, <2>4, <2>5, <2>6, <2>7
  <1>7. Cardinality(Organized) <= Cardinality(Succ) + Cardinality(Work)
    <2> DEFINE AtWork == {tasks[i].run : i \in Work}
               U == Succ \cup AtWork
               f == [s \in Organized |-> CHOOSE r \in U : about[r] = s]
               h == [r \in AtWork |-> CHOOSE i \in Work : tasks[i].run = r]
    <2>1. ASSUME NEW s \in Organized PROVE \E r \in U : about[r] = s
      <3>1. \/ \E r \in Runs : Succeeded(r) /\ about[r] = s
            \/ \E w \in Workers : Saved(w) /\ about[Run(w)] = s
        BY DEF ShotInv, OrganizedShots, Organized
      <3>2. ASSUME NEW r \in Runs, Succeeded(r) PROVE r \in U
        BY <3>2 DEF Succeeded, RunsIn
      <3>3. ASSUME NEW w \in Workers, Saved(w) PROVE Run(w) \in U
        <4>1. held[w] \in DOMAIN tasks /\ tasks[held[w]].status = "running"
          BY <1>1, <3>3 DEF HasTask, Saved, Busy, Location, HoldInv, JobInv
        <4> QED
          BY <4>1 DEF Run, TasksIn
      <3> QED
        BY <3>1, <3>2, <3>3
    <2>2. \A s \in Organized : f[s] \in U /\ about[f[s]] = s
      BY <2>1
    <2>3. f \in [Organized -> U] /\ \A a, b \in Organized : f[a] = f[b] => a = b
      BY <2>2
    <2>4. \A r \in AtWork : h[r] \in Work /\ tasks[h[r]].run = r
      OBVIOUS
    <2>5. h \in [AtWork -> Work] /\ \A a, b \in AtWork : h[a] = h[b] => a = b
      BY <2>4
    <2> HIDE DEF f, h, AtWork
    <2>6. IsFiniteSet(AtWork) /\ Cardinality(AtWork) <= Cardinality(Work)
      BY <1>4, <2>5, CountedBy
    <2>7. /\ IsFiniteSet(U)
          /\ Cardinality(U) = Cardinality(Succ) + Cardinality(AtWork) - Cardinality(Succ \cap AtWork)
      BY <1>3, <2>6, FS_Union
    <2>8. Cardinality(Succ \cap AtWork) \in Nat /\ Cardinality(AtWork) \in Nat
      BY <1>3, <2>6, FS_Intersection, FS_CardinalityType
    <2> HIDE DEF U
    <2>9. Cardinality(Organized) <= Cardinality(U) /\ Cardinality(U) \in Nat
      BY <2>3, <2>7, CountedBy, FS_CardinalityType
    <2> HIDE DEF Succ, Work
    <2> QED
      BY <1>3, <1>4, <2>6, <2>7, <2>8, <2>9
  <1>8. Cardinality(Succ) > 0 => Cardinality(Organized) > 0
    <2> SUFFICES ASSUME Cardinality(Succ) > 0 PROVE Cardinality(Organized) > 0
      OBVIOUS
    <2>1. Succ # {}
      BY FS_EmptySet
    <2>2. PICK r \in Runs : Succeeded(r)
      BY <2>1 DEF RunsIn, Succeeded
    <2>3. about[r] \in Shots /\ screenshots[about[r]] = "organized"
      BY <1>1, <2>2, SuccessAccepted DEF ShotInv, AboutShots, SuccessShots
    <2>4. Organized # {}
      BY <2>3 DEF Organized
    <2> QED
      BY <1>3, <2>4, FS_EmptySet
  <1> HIDE DEF Total, Succ, Fail, Queue, Dead, Work
  <1>9. /\ GetStats.total = Cardinality(Total) /\ GetStats.succeeded = Cardinality(Succ)
        /\ GetStats.failed = Cardinality(Fail) /\ GetStats.queued = Cardinality(Queue)
        /\ GetStats.running = Cardinality(Work) /\ GetStats.dead = Cardinality(Dead)
        /\ GetStats.organized = Cardinality(Organized)
    BY <1>1, StatsCount DEF Total, Succ, Fail, Queue, Dead, Work
  <1> QED
    BY <1>5, <1>6, <1>7, <1>8, <1>9 DEF StatsAddUp

(* StatsAddUp: whatever the goroutines are in the middle of, the page of    *)
(* statistics adds up.                                                      *)
THEOREM StatsAlwaysAddUp ==
    ASSUME IsFiniteSet(Runs), IsFiniteSet(Shots)
    PROVE  Spec => []StatsAddUp
  <1>1. Typed /\ HoldInv /\ RunInv /\ ShotInv => StatsAddUp
    BY StatsOfInvariant
  <1> QED
    BY HoldInvariant, StatsInvariant, <1>1, PTL
=============================================================================
