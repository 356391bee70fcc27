----------------------------- MODULE Screenshots -----------------------------
(***************************************************************************)
(* What the runs of screenshot_organize, the requests that submit them and  *)
(* cmd/backfill do to the two places a screenshot is found by: its row in   *)
(* MySQL (internal/store) and its point in the vector store.  Several runs  *)
(* may be under way on one screenshot: the upload's, those of retry-agent   *)
(* and those of POST /v1/agent-runs.                                        *)
(*                                                                         *)
(* A content is [text, of, by]: the origin of the OCR text, the text that   *)
(* the insight (summary, category, tags, explanation) was made from, and    *)
(* the execution that made it (Degraded: MockInsight, a function of the     *)
(* text).  TaskQueue is the queue between Enqueue and ReadShot and sees to   *)
(* it that no two executions of one run overlap; Pipeline is the runner.    *)
(***************************************************************************)
EXTENDS Integers, Sequences, FiniteSets, SequencesExt

CONSTANTS Shots,      (* screenshots that clients upload                      *)
          Runs,       (* agent runs that requests create                      *)
          NoShot,     (* what an unused run is about                          *)
          Degraded,   (* the origin of a fallback insight                     *)
          CreatedAt,  (* screenshots.created_at, in whole seconds             *)
          Hints,      (* bound: the ocr_text that clients send for each      *)
          BatchSize,  (* -batch-size of cmd/backfill                          *)
          MaxRounds,  (* bound: executions of one run                         *)
          MaxFaults   (* bound: failed statements and calls, and crashes      *)

ASSUME ScreenshotsAssumption ==
    /\ IsFiniteSet(Shots) /\ IsFiniteSet(Runs)
    /\ NoShot \notin Shots
    /\ Degraded \notin Runs
    /\ CreatedAt \in [Shots -> Nat]
    /\ Hints \in [Shots -> SUBSET {"blank", "typed"}]
    /\ BatchSize \in Nat \ {0}
    /\ MaxRounds \in Nat \ {0}
    /\ MaxFaults \in Nat

VARIABLES
    status,   \* screenshots.status
    content,  \* screenshots.ocr_text, summary, category, tags_text, explanation
    point,    \* the screenshot's point in the vector store
    pc,       \* where each run is
    about,    \* agent_runs.screenshot_id
    hint,     \* ocr_hint of the run's input
    local,    \* StepOutputs of the run's execution
    round,    \* executions of the run
    tries,    \* attempts of save_memory
    job,      \* where cmd/backfill is
    offset, batch, \* its locals: the rows it holds, as it read them
    failed,   \* its count of failures is not zero
    owed,     \* history: the screenshots organized when it began
    crowded,  \* history: the screenshots two activities were under way on
    behind,   \* history: those a fault met between row and point
    faults    \* (both until a run next saves the row, for crowded one alone)

rowVars == <<status, content>>
runVars == <<pc, about, hint, local, round, tries>>
historyVars == <<crowded, behind>>
jobVars == <<job, offset, batch, failed, owed>>
vars == <<rowVars, point, runVars, jobVars, historyVars, faults>>

Text == {"blank", "typed", "read", "fallback"}
Origin == Runs \cup {Degraded}
Content == [text : Text, of : Text, by : Origin, round : 0..MaxRounds]

(* No insight yet, and no point.                                            *)
Nothing == [text |-> "blank", of |-> "blank", by |-> Degraded, round |-> 0]

Working == {"ocr", "llm", "save", "embed", "ended"}
UnderWay == {"posted", "queued"} \cup Working

Organized == {s \in Shots : status[s] = "organized"}

TypeOK ==
    /\ status \in [Shots -> {"none", "uploaded", "organized"}]
    /\ content \in [Shots -> Content]
    /\ point \in [Shots -> Content]
    /\ pc \in [Runs -> {"unused", "abandoned", "settled", "dead"} \cup UnderWay]
    /\ about \in [Runs -> Shots \cup {NoShot}]
    /\ hint \in [Runs -> Text]
    /\ local \in [Runs -> Content]
    /\ round \in [Runs -> 0..MaxRounds]
    /\ tries \in [Runs -> 0..1]
    /\ job \in {"ready", "listing", "embedding", "done"}
    /\ offset \in 0..Cardinality(Shots)
    /\ batch \in Seq([shot : Shots, content : Content])
    /\ failed \in BOOLEAN
    /\ owed \subseteq Shots
    /\ crowded \subseteq Shots /\ behind \subseteq Shots
    /\ faults \in 0..MaxFaults

Init ==
    /\ status = [s \in Shots |-> "none"]
    /\ content = [s \in Shots |-> Nothing]
    /\ point = [s \in Shots |-> Nothing]
    /\ pc = [r \in Runs |-> "unused"]
    /\ about = [r \in Runs |-> NoShot]
    /\ hint = [r \in Runs |-> "blank"]
    /\ local = [r \in Runs |-> Nothing]
    /\ round = [r \in Runs |-> 0]
    /\ tries = [r \in Runs |-> 0]
    /\ job = "ready" /\ offset = 0 /\ batch = <<>> /\ failed = FALSE
    /\ owed = {} /\ crowded = {} /\ behind = {}
    /\ faults = 0

-----------------------------------------------------------------------------
Goto(r, loc) == pc' = [pc EXCEPT ![r] = loc]

Fault == faults < MaxFaults /\ faults' = faults + 1

SaveRow(r) ==
    /\ content' = [content EXCEPT ![about[r]] = local[r]]
    /\ status' = [status EXCEPT ![about[r]] = "organized"]

Forget(r) == local' = [local EXCEPT ![r] = Nothing] /\ tries' = [tries EXCEPT ![r] = 0]

(* An aborted round ends in RetryTask or MarkTaskDead.                      *)
Abort(r, n) == Goto(r, IF n < MaxRounds THEN "queued" ELSE "dead") /\ Forget(r)

(* Activities that have read, or were told, something of the screenshot.    *)
Activities(s) == {r \in Runs : about[r] = s /\ pc[r] \in UnderWay}
HeldByBackfill(s) == \E i \in DOMAIN batch : batch[i].shot = s
Crowd(s) == Cardinality(Activities(s)) + (IF HeldByBackfill(s) THEN 1 ELSE 0)

(* History.  Activities begin on screenshots; a fault meets a run between    *)
(* row and point; a run saves, and makes up for what came before if it is   *)
(* alone.                                                                   *)
Arrive(S) ==
    /\ crowded' = crowded \cup {s \in S : Crowd(s) > 0}
    /\ behind' = behind \ crowded'

Interrupt(S) == behind' = behind \cup (S \ crowded) /\ UNCHANGED crowded

MakeUp(s) ==
    /\ crowded' = IF Crowd(s) = 1 THEN crowded \ {s} ELSE crowded
    /\ behind' = behind \ {s}

Least(m, n) == IF m <= n THEN m ELSE n

-----------------------------------------------------------------------------
(* Deliberately wrong variants of definitions below; none is part of Spec.  *)

(* The client's hint alone decides.                                         *)
HintOnly(r) == hint[r]

(* The insight is made from the run's input.                                *)
InsightFromHint(r) == hint[r]

(* save_memory is skipped when it fails, as embedding is.                   *)
SaveFailsAndGoesOn(r) ==
    /\ pc[r] = "save"
    /\ Fault
    /\ UNCHANGED <<rowVars, point, about, hint, local, round, tries, jobVars, historyVars>>
    /\ Goto(r, "embed")

(* An insert where the upsert should be: a point that exists is kept.       *)
InsertOnly(s, c) == point' = [point EXCEPT ![s] = IF @ = Nothing THEN c ELSE @]

(* OFFSET counts from one.                                                  *)
PageSkipsOne(order) == SubSeq(order, offset + 2, Least(offset + 1 + BatchSize, Len(order)))

(* 'failed' of the status list of the design.                               *)
SettleAsFailed(r) ==
    /\ pc[r] = "ended"
    /\ Goto(r, "failed")
    /\ Forget(r)
    /\ UNCHANGED <<rowVars, point, about, hint, round, jobVars, historyVars, faults>>

-----------------------------------------------------------------------------
(* The requests.  What they read of the row is the run's input for good.    *)

Post(r, s, h) ==
    /\ pc[r] = "unused"
    /\ Goto(r, "posted")
    /\ about' = [about EXCEPT ![r] = s]
    /\ hint' = [hint EXCEPT ![r] = h]
    /\ Arrive({s})
    /\ UNCHANGED <<point, local, round, tries, jobVars, faults>>

(* created_at is the time of the insert.                                    *)
UploadScreenshot(r, s) ==
    /\ status[s] = "none"
    /\ \A q \in Shots : CreatedAt[q] < CreatedAt[s] => status[q] # "none"
    /\ \E h \in Hints[s] :
        /\ Post(r, s, h)
        /\ content' = [content EXCEPT ![s].text = h]
    /\ status' = [status EXCEPT ![s] = "uploaded"]

CreateAgentRun(r, s) ==
    /\ status[s] # "none"
    /\ \E h \in Hints[s] : Post(r, s, h)
    /\ UNCHANGED rowVars

RetryAgent(r, s) ==
    /\ status[s] # "none"
    /\ Post(r, s, content[s].text)
    /\ UNCHANGED rowVars

(* The run and the task are written; or one of them is not (TaskQueue).     *)
Enqueue(r) ==
    /\ pc[r] = "posted"
    /\ Goto(r, "queued") \/ Goto(r, "abandoned")
    /\ UNCHANGED <<rowVars, point, about, hint, local, round, tries, jobVars, historyVars, faults>>

-----------------------------------------------------------------------------
(* ocr: GetScreenshot, then the provider if neither hint nor row has text.  *)

(* ocr_hint, or else the row's text.                                        *)
KnownText(r) == IF hint[r] # "blank" THEN hint[r] ELSE content[about[r]].text

ReadShot(r) ==
    /\ pc[r] = "queued"
    /\ round[r] < MaxRounds
    /\ round' = [round EXCEPT ![r] = @ + 1]
    /\ \/ /\ local' = [local EXCEPT ![r].text = KnownText(r)]
          /\ Goto(r, IF KnownText(r) = "blank" THEN "ocr" ELSE "llm")
          /\ UNCHANGED <<tries, faults>>
       \/ Fault /\ Abort(r, round[r] + 1)
    /\ UNCHANGED <<rowVars, point, about, hint, jobVars, historyVars>>

(* Vision.Extract: the text without blanks around it; an error if there is  *)
(* none, the process fails, or it outlives its timeout.                     *)
Extract == {"read", "blank"}

(* Without text, the file name is what there is to fall back on.            *)
Recognize(r) ==
    /\ pc[r] = "ocr"
    /\ \E t \in Extract :
        local' = [local EXCEPT ![r].text = IF t = "blank" THEN "fallback" ELSE t]
    /\ Goto(r, "llm")
    /\ UNCHANGED <<rowVars, point, about, hint, round, tries, jobVars, historyVars, faults>>

InsightInput(r) == local[r].text

(* An insight made from text t: a function of t alone.                      *)
MockInsight(t) == [of |-> t, by |-> Degraded, round |-> 0]

(* The provider: an answer of its own; or the mock, which stands in without *)
(* an API key and when the answer is no JSON.                               *)
ProviderInsight(r, t) == {[of |-> t, by |-> r, round |-> round[r]], MockInsight(t)}

(* llm_insight: the provider's, or the mock's once its retry failed.        *)
GenerateInsight(r) ==
    /\ pc[r] = "llm"
    /\ LET t == InsightInput(r)
       IN  \E made \in ProviderInsight(r, t) \cup {MockInsight(t)} :
               local' = [local EXCEPT ![r].of = made.of, ![r].by = made.by,
                                      ![r].round = made.round]
    /\ Goto(r, "save")
    /\ UNCHANGED <<rowVars, point, about, hint, round, tries, jobVars, historyVars, faults>>

(* save_memory: one UPDATE by id, whatever the row holds by now.            *)
SaveMemory(r) ==
    /\ pc[r] = "save"
    /\ SaveRow(r)
    /\ MakeUp(about[r])
    /\ Goto(r, "embed")
    /\ UNCHANGED <<point, about, hint, local, round, tries, jobVars, faults>>

(* The call fails (the UPDATE may have been applied): one retry, then abort. *)
(* The bound on faults counts the two failures as one.                      *)
SaveFails(r) ==
    /\ pc[r] = "save"
    /\ SaveRow(r) \/ UNCHANGED rowVars
    /\ \/ /\ tries[r] = 0 /\ Fault /\ Interrupt({about[r]})
          /\ tries' = [tries EXCEPT ![r] = 1] /\ UNCHANGED <<pc, local>>
       \/ tries[r] = 1 /\ Abort(r, round[r]) /\ UNCHANGED <<historyVars, faults>>
    /\ UNCHANGED <<point, about, hint, round, jobVars>>

(* The point's id is a function of the screenshot's: an upsert replaces it. *)
Upsert(s, c) == point' = [point EXCEPT ![s] = c]

(* embedding: of the run's own outputs; skipped when it fails.              *)
EmbeddingInput(r) == local[r]

Embed(r) ==
    /\ pc[r] = "embed"
    /\ LET written == Upsert(about[r], EmbeddingInput(r))
       IN  \/ written /\ UNCHANGED <<historyVars, faults>>
           \/ (written \/ UNCHANGED point) /\ Fault /\ Interrupt({about[r]})
    /\ Goto(r, "ended")
    /\ UNCHANGED <<rowVars, about, hint, local, round, tries, jobVars>>

(* CompleteTask. *)
Settle(r) ==
    /\ pc[r] = "ended"
    /\ Goto(r, "settled")
    /\ Forget(r)
    /\ UNCHANGED <<rowVars, point, about, hint, round, jobVars, historyVars, faults>>

(* The process dies: TaskQueue hands its runs out again.                    *)
Crash ==
    /\ Fault
    /\ pc' = [r \in Runs |-> CASE pc[r] \in Working  -> "queued"
                               [] pc[r] = "posted" -> "abandoned"
                               [] OTHER            -> pc[r]]
    /\ local' = [r \in Runs |-> Nothing]
    /\ tries' = [r \in Runs |-> 0]
    /\ Interrupt({about[r] : r \in {q \in Runs : pc[q] = "embed"}})
    /\ UNCHANGED <<rowVars, point, about, hint, round, jobVars>>

-----------------------------------------------------------------------------
(* cmd/backfill: pages of organized rows, each embedded as it was read.     *)

StartBackfill ==
    /\ job = "ready"
    /\ job' = "listing"
    /\ owed' = Organized
    /\ UNCHANGED <<rowVars, point, runVars, offset, batch, failed, historyVars, faults>>

(* ORDER BY created_at: rows of the same second come in any order.          *)
ByCreation == {q \in SetToSeqs(Organized) :
                \A i, j \in DOMAIN q : i < j => CreatedAt[q[i]] <= CreatedAt[q[j]]}

(* LIMIT ? OFFSET ?                                                         *)
Page(order) == SubSeq(order, offset + 1, Least(offset + BatchSize, Len(order)))

ListOrganizedScreenshots ==
    /\ job = "listing"
    /\ \E order \in ByCreation :
        LET page == Page(order)
        IN  /\ batch' = [i \in DOMAIN page |->
                            [shot |-> page[i], content |-> content[page[i]]]]
            /\ Arrive(ToSet(page))
            /\ offset' = offset + Len(page)
            /\ job' = IF page = <<>> THEN "done" ELSE "embedding"
    /\ UNCHANGED <<rowVars, point, runVars, failed, owed, faults>>

BackfillShot ==
    /\ job = "embedding"
    /\ LET written == Upsert(Head(batch).shot, Head(batch).content)
       IN  \/ written /\ UNCHANGED <<failed, faults>>
           \/ (written \/ UNCHANGED point) /\ Fault /\ failed' = TRUE
    /\ batch' = Tail(batch)
    /\ job' = IF Tail(batch) = <<>> THEN "listing" ELSE "embedding"
    /\ UNCHANGED <<rowVars, runVars, offset, owed, historyVars>>

-----------------------------------------------------------------------------
Request == \E r \in Runs :
    \/ \E s \in Shots : UploadScreenshot(r, s) \/ CreateAgentRun(r, s) \/ RetryAgent(r, s)
    \/ Enqueue(r)

Execution == \E r \in Runs :
    \/ ReadShot(r) \/ Recognize(r) \/ GenerateInsight(r)
    \/ SaveMemory(r) \/ SaveFails(r) \/ Embed(r) \/ Settle(r)

Backfill == StartBackfill \/ ListOrganizedScreenshots \/ BackfillShot

Next == Request \/ Execution \/ Crash \/ Backfill

Spec == Init /\ [][Next]_vars

-----------------------------------------------------------------------------
(* The insight that a row or a point shows was made from the text it shows, *)
(* although several runs write the same row, each in its own time.          *)
InsightFitsText ==
    \A s \in Shots :
        /\ status[s] = "organized" => content[s].of = content[s].text
        /\ point[s].of = point[s].text

(* Row and point of an organized screenshot that nobody is at work on may   *)
(* differ only if several activities crowded it, or a fault met a run       *)
(* between the two writes; and the next run that saves and embeds           *)
(* undisturbed makes up for all that happened before it: overlaps, failed   *)
(* calls, crashes, and what backfill or another run wrote in between.       *)
IndexIsCurrent ==
    \A s \in Organized \ (crowded \cup behind) :
        point[s] # content[s] => Crowd(s) > 0

(* Nothing is found by a content that its row never had: a run whose save   *)
(* failed writes no point, and backfill only what it read.  When a point    *)
(* appears or changes, its content is in the row, unless several activities *)
(* crowd the row: then it was, and another has replaced it since.           *)
PointsWereSaved ==
    [][\A s \in Shots :
        point'[s] # point[s] /\ s \notin crowded' => point'[s] = content[s]]_vars

(* Text that a client gave or OCR read is not replaced by the file name,    *)
(* however often the run is retried, crashes or is submitted again, as long *)
(* as the runs on the screenshot follow each other.                         *)
RecognizedTextStays ==
    [][\A s \in Shots :
        content[s].text \in {"typed", "read"} /\ s \notin crowded \cup crowded'
            => content'[s].text # "fallback"]_vars

(* Once backfill ends without failures, every screenshot that was organized *)
(* when it began has a point, although runs organize others while it pages. *)
BackfillCovers ==
    job = "done" /\ ~failed => \A s \in owed : point[s] # Nothing
=============================================================================
