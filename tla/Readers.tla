------------------------------- MODULE Readers -------------------------------
(***************************************************************************)
(* GET /v1/stats and GET /v1/agent-runs/{id} on MySQL: GetStats and         *)
(* GetAgentRunDetail of internal/store/store.go send one query after the    *)
(* other, in no transaction, while TaskQueue's handlers, goroutines and     *)
(* cleaner write the tables between any two of them.                        *)
(*                                                                         *)
(* To the queue this adds what the runs leave behind: the screenshot a run  *)
(* is about and its status, and the run's rows in llm_calls.  A query's     *)
(* answer is the set of rows that it counts or returns (the queue's numbers, *)
(* which nothing is compared with, are not kept).  GetStats is asked for the*)
(* whole history (range=all), so created_at leaves nothing out.             *)
(***************************************************************************)
EXTENDS TaskQueue, Sequences

CONSTANTS Shots, NoShot

ASSUME ShotsAssumption == NoShot \notin Shots

VARIABLES
    shot,   \* screenshots.status, "none" without a row
    about,  \* agent_runs.screenshot_id
    calls,  \* the runs with a row in llm_calls
    work,   \* the last step of its run that a goroutine has made
    page,   \* the request being answered, or answered last
    query,  \* the queries it has still to send
    asked,  \* the runs it is about
    shown   \* what its queries have returned

tableVars  == <<shot, about, calls, work>>
readerVars == <<page, query, asked, shown>>
readersVars == <<vars, tableVars, readerVars>>

Succeeded == {t \in Tasks : run[t] \in {"completed", "partial_success"}}
Of(S) == {s \in Shots : shot[s] \in S}
Stored == {"uploaded", "organized"}

ReadersTypeOK ==
    /\ TypeOK
    /\ shot \in [Shots -> {"none"} \cup Stored]
    /\ about \in [Tasks -> Shots \cup {NoShot}]
    /\ calls \subseteq Tasks
    /\ work \in [Workers -> {"nothing", "insight", "saved"}]
    /\ page \in {"none", "stats", "detail"}
    /\ query \in Seq({"agents", "p95", "run", "calls", "ocr", "queue", "shots"})
    /\ asked \subseteq Tasks
    /\ shown \in [runs : SUBSET Tasks, succeeded : SUBSET Tasks, p95 : BOOLEAN,
                  calls : SUBSET Tasks, ocr : SUBSET Shots,
                  shots : SUBSET Shots, organized : SUBSET Shots]

NothingShown == [runs |-> {}, succeeded |-> {}, p95 |-> FALSE, calls |-> {},
                 ocr |-> {}, shots |-> {}, organized |-> {}]

ReadersInit ==
    /\ Init
    /\ shot = [s \in Shots |-> "none"]
    /\ about = [t \in Tasks |-> NoShot]
    /\ calls = {}
    /\ work = [w \in Workers |-> "nothing"]
    /\ page = "none" /\ query = <<>> /\ asked = {} /\ shown = NothingShown

-----------------------------------------------------------------------------
(* Deliberately wrong variants of definitions below; none is part of the    *)
(* specification.                                                           *)

(* The agent totals come last, after what they are compared with.           *)
AgentsLast == <<"calls", "ocr", "queue", "shots", "agents", "p95">>

(* The trace is read before the run.                                        *)
RunLast == <<"calls", "run", "shots">>

(* OFFSET counts from zero, and ceil(0.95 n) rows are skipped.              *)
RoundedUp(n) == (n * 95 + 99) \div 100

(* The status the design lists for a screenshot with a degraded insight.    *)
SavePartial(w) ==
    /\ pc[w] = "executing" /\ work[w] = "insight"
    /\ work' = [work EXCEPT ![w] = "saved"]
    /\ shot' = [shot EXCEPT ![about[task[w]]] = "partial"]
    /\ UNCHANGED <<vars, about, calls, readerVars>>

-----------------------------------------------------------------------------
(* What the handlers and the tools write besides the queue's rows. *)

(* handleUploadScreenshot's CreateScreenshot.                               *)
UploadScreenshot(t, s) ==
    /\ life # "down"
    /\ request[t] = "new" /\ about[t] = NoShot
    /\ shot[s] = "none"
    /\ shot' = [shot EXCEPT ![s] = "uploaded"]
    /\ about' = [about EXCEPT ![t] = s]
    /\ UNCHANGED <<vars, calls, work, readerVars>>

(* The run's row: the upload's, or retry-agent's on a screenshot that is    *)
(* there (a foreign key sees to it for POST /v1/agent-runs).                *)
CreateRun(t) ==
    /\ CreateAgentRun(t)
    /\ \/ about[t] # NoShot /\ UNCHANGED about
       \/ about[t] = NoShot /\ \E s \in Of(Stored) : about' = [about EXCEPT ![t] = s]
    /\ UNCHANGED <<shot, calls, work, readerVars>>

StartWork(w) ==
    /\ StartRun(w)
    /\ UNCHANGED <<tableVars, readerVars>>

(* llm_insight's row in llm_calls, which MySQL may refuse.                  *)
AddLLMCall(w) ==
    /\ pc[w] = "executing" /\ work[w] = "nothing"
    /\ work' = [work EXCEPT ![w] = "insight"]
    /\ \/ calls' = calls \cup {task[w]} /\ UNCHANGED dbFaults
       \/ DBFault /\ UNCHANGED calls
    /\ UNCHANGED <<request, rowVars, run, localVars, life, crashes, stops,
                   shot, about, readerVars>>

(* save_memory.                                                             *)
SaveMemory(w) ==
    /\ pc[w] = "executing" /\ work[w] = "insight"
    /\ work' = [work EXCEPT ![w] = "saved"]
    /\ shot' = [shot EXCEPT ![about[task[w]]] = "organized"]
    /\ UNCHANGED <<vars, about, calls, readerVars>>

(* Execute ends well only when save_memory has: its policy is abort.        *)
FinishWork(w) ==
    /\ work[w] = "saved" /\ FinishRun(w)
    /\ work' = [work EXCEPT ![w] = "nothing"]
    /\ UNCHANGED <<shot, about, calls, readerVars>>

AbortWork(w) ==
    /\ work[w] # "saved" /\ AbortRun(w)
    /\ work' = [work EXCEPT ![w] = "nothing"]
    /\ UNCHANGED <<shot, about, calls, readerVars>>

(* The statement that fails may be Execute's last: then the pipeline ended  *)
(* by what its steps had done.                                              *)
LoseStatement(w) ==
    /\ StatementFails(w)
    /\ pc[w] = "executing" => (pc'[w] = "succeeded" <=> work[w] = "saved")
    /\ work' = [work EXCEPT ![w] = "nothing"]
    /\ UNCHANGED <<shot, about, calls, readerVars>>

QueueStep(w) ==
    /\ \/ SelectTask(w) \/ CommitDequeue(w) \/ DequeueFails(w)
       \/ CompleteTask(w) \/ RetryTask(w) \/ MarkTaskDead(w) \/ BuryRun(w)
    /\ UNCHANGED <<tableVars, readerVars>>

Work(w) ==
    \/ StartWork(w) \/ AddLLMCall(w) \/ SaveMemory(w) \/ FinishWork(w) \/ AbortWork(w)
    \/ LoseStatement(w) \/ QueueStep(w)

(* No answer: the process is gone, or the request fails.                    *)
Unanswered == page' = "none" /\ query' = <<>> /\ asked' = {} /\ shown' = NothingShown

(* The process ends: the request is never answered, and an upload that was  *)
(* cut off leaves a screenshot without a run.  (A graceful stop ends the    *)
(* request likewise, and is left to TaskQueue.)                             *)
ProcessEnds ==
    /\ Crash
    /\ about' = [t \in Tasks |-> IF request[t] = "new" THEN NoShot ELSE about[t]]
    /\ work' = [w \in Workers |-> "nothing"]
    /\ Unanswered
    /\ UNCHANGED <<shot, calls>>

Environment ==
    /\ \/ \E t \in Tasks : EnqueueTask(t) \/ EnqueueFails(t)
       \/ ReleaseStaleLockedTasks \/ Tick \/ Restart
    /\ UNCHANGED <<tableVars, readerVars>>

-----------------------------------------------------------------------------
(* The readers. *)

(* The queries of GetStats, and those of GetAgentRunDetail (agent_steps and *)
(* tool_calls are read between the run and llm_calls, and likewise).        *)
StatsOrder  == <<"agents", "p95", "calls", "ocr", "queue", "shots">>
DetailOrder == <<"run", "calls", "shots">>

Answered == query = <<>>

Ask(p, order, runs) ==
    /\ life # "down" /\ Answered
    /\ page' = p /\ query' = order /\ asked' = runs /\ shown' = NothingShown
    /\ UNCHANGED <<vars, tableVars>>

GetStats == Ask("stats", StatsOrder, Tasks)

GetAgentRunDetail == \E t \in Tasks : run[t] # "none" /\ Ask("detail", DetailOrder, {t})

(* int(0.95 n), at most n - 1: the row that the P95 query skips to.         *)
P95Offset(n) == IF (n * 95) \div 100 >= n THEN n - 1 ELSE (n * 95) \div 100

(* The query's error is taken for "no such row", and the other way round.   *)
P95Found == P95Offset(Cardinality(shown.succeeded)) < Cardinality(Succeeded)

(* The screenshots a request is about: all of them for the statistics.      *)
InScope(S) == IF page = "stats" THEN S ELSE S \cap {about[t] : t \in asked}

Answer(q) ==
    CASE q \in {"agents", "run"} -> [shown EXCEPT !.runs = {t \in asked : run[t] # "none"},
                                                  !.succeeded = Succeeded \cap asked]
      [] q = "p95"   -> [shown EXCEPT !.p95 = shown.succeeded # {} /\ P95Found]
      [] q = "calls" -> [shown EXCEPT !.calls = calls \cap asked]
      [] q = "ocr"   -> [shown EXCEPT !.ocr = Of(Stored)]
      [] q = "queue" -> shown
      [] q = "shots" -> [shown EXCEPT !.shots = InScope(Of(Stored)),
                                      !.organized = InScope(Of({"organized"}))]

Query ==
    /\ ~Answered
    /\ shown' = Answer(Head(query))
    /\ query' = Tail(query)
    /\ UNCHANGED <<vars, tableVars, page, asked>>

(* A query fails, and the request with it; but the errors of the P95 query  *)
(* and of GetAgentRunDetail's GetScreenshot are dropped.                    *)
Dropped(q) == q = "p95" \/ (page = "detail" /\ q = "shots")

QueryFails ==
    /\ ~Answered
    /\ DBFault
    /\ \/ Dropped(Head(query)) /\ query' = Tail(query) /\ UNCHANGED <<page, asked, shown>>
       \/ ~Dropped(Head(query)) /\ Unanswered
    /\ UNCHANGED <<request, rowVars, run, localVars, life, crashes, stops, tableVars>>

Read == GetStats \/ GetAgentRunDetail \/ Query \/ QueryFails

-----------------------------------------------------------------------------
ReadersNext ==
    \/ \E t \in Tasks : CreateRun(t) \/ \E s \in Shots : UploadScreenshot(t, s)
    \/ \E w \in Workers : Work(w)
    \/ ProcessEnds \/ Environment
    \/ Read

ReadersSpec == ReadersInit /\ [][ReadersNext]_readersVars

-----------------------------------------------------------------------------
(* The page of statistics adds up although its parts are read at different  *)
(* moments: a part that is read later has everything an earlier part counts.*)
(* The screenshots of the runs and of the successes are counted, as         *)
(* organized if they are; the calls of the successes are in the cost (if no *)
(* row was refused).                                                        *)
StatsAddUp ==
    page = "stats" /\ Answered =>
        /\ {about[t] : t \in shown.runs} \subseteq shown.ocr
        /\ shown.ocr \subseteq shown.shots
        /\ {about[t] : t \in shown.succeeded} \subseteq shown.organized
        /\ dbFaults = 0 => shown.succeeded \subseteq shown.calls

(* The second query counts on the first: between them a success is taken    *)
(* back, and the P95 left out, only because a crash or a lost statement made*)
(* the worker execute a run again that had ended well.                      *)
P95IsFound ==
    page = "stats" /\ Answered /\ shown.succeeded # {} /\ crashes + dbFaults = 0
        => shown.p95

(* A run that is shown with a successful outcome is shown with the calls it *)
(* made and its screenshot organized, if no statement failed: the outcome   *)
(* is written last and read first.                                          *)
DetailIsComplete ==
    page = "detail" /\ Answered /\ dbFaults = 0 =>
        /\ shown.succeeded \subseteq shown.calls
        /\ {about[t] : t \in shown.succeeded} \subseteq shown.organized
=============================================================================
