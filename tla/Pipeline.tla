------------------------------- MODULE Pipeline -------------------------------
(***************************************************************************)
(* AgentRunner (internal/agent/runner.go): the execution of one agent run   *)
(* as a declared list of steps, with its retries, failure policies, trace   *)
(* rows and final status.  The Worker calls Execute again on the same run   *)
(* after an error, and after a crash even of a run that succeeded, whose    *)
(* task it had not settled: each call is a round.                           *)
(*                                                                         *)
(* A step is [policy, retries, timeout, delay, registered, llm]: OnFailure, *)
(* MaxRetries, Timeout and RetryDelay (in seconds) of its StepDefinition,   *)
(* whether the registry holds its tool (the embedding tool is registered    *)
(* only if a vector store opened), and whether its output and fallback      *)
(* carry _llm_result.  Of an output only its origin is kept.                *)
(***************************************************************************)
EXTENDS Integers, Sequences, SequencesExt

CONSTANTS Plans,        (* the step lists of the agent types under study      *)
          MaxRounds,    (* bound: calls of Execute on the run                 *)
          MaxTraceFaults, (* bound: trace rows that MySQL refuses             *)
          LockTimeout   (* WORKER_LOCK_TIMEOUT, in seconds                    *)

Policy == {"abort", "skip", "degrade"}

StepDefinition == [policy : Policy, retries : Nat, timeout : Nat, delay : Nat,
                   registered : BOOLEAN, llm : BOOLEAN]

StepDef(policy, retries, timeout, delay, registered, llm) ==
    [policy |-> policy, retries |-> retries, timeout |-> timeout, delay |-> delay,
     registered |-> registered, llm |-> llm]

(* The one agent type, with and without a vector store.                     *)
ScreenshotOrganize(vectors) ==
    <<StepDef("abort",   0, 60, 0, TRUE, FALSE),     \* ocr
      StepDef("degrade", 1, 45, 2, TRUE, TRUE),      \* llm_insight
      StepDef("abort",   1, 10, 1, TRUE, FALSE),     \* save_memory
      StepDef("skip",    0, 30, 0, vectors, FALSE)>> \* embedding

ASSUME PlansAssumption ==
    /\ MaxRounds \in Nat
    /\ MaxTraceFaults \in Nat
    /\ Plans \subseteq Seq(StepDefinition) \ {<<>>}

VARIABLES
    plan,      \* AgentType.Steps, never written
    pc,        \* where Execute is
    tries,     \* attempts of the current step
    outputs,   \* RunContext.StepOutputs, by position of the step
    degraded,  \* RunContext.Degraded
    results,   \* ExecuteResult.Steps: [status, attempts]
    spent,     \* seconds that tools and retry delays took in this round
    run,       \* agent_runs.status
    answer,    \* agent_runs.final output: the steps that contributed to it
    returned,  \* what Execute returned in the latest round
    written,   \* history: the UPDATE of the run at its end was applied
    round,
    steps, toolCalls, llmCalls,  \* trace rows: [round, step] and a step's status
    traceFaults

runVars   == <<run, answer, written>>
traceVars == <<steps, toolCalls, llmCalls>>
ctxVars   == <<tries, outputs, degraded, results, spent>>
vars == <<plan, pc, ctxVars, runVars, returned, round, traceVars, traceFaults>>

Location == {"idle", "step", "sleep", "addStep", "addTool", "addLLM", "next"}
StepStatus == {"completed", "skipped", "degraded", "failed"}

(* The step at work, or the one whose result was last appended.             *)
Current == IF pc \in {"step", "sleep"} THEN Len(results) + 1 ELSE Len(results)
Def == plan[Current]

TypeOK ==
    /\ plan \in Plans
    /\ pc \in Location
    /\ tries \in Nat /\ spent \in Nat
    /\ outputs \in [1..Len(plan) -> {"absent", "own", "fallback", "empty"}]
    /\ degraded \in BOOLEAN
    /\ results \in Seq([status : StepStatus, attempts : Nat])
    /\ Len(results) <= Len(plan)
    /\ run \in {"running", "completed", "partial_success", "failed"}
    /\ answer \subseteq 1..Len(plan)
    /\ returned \in {"none", "ok", "error"}
    /\ written \in BOOLEAN
    /\ round \in 0..MaxRounds
    /\ steps \in Seq([round : Nat, step : Nat, status : StepStatus])
    /\ toolCalls \in Seq([round : Nat, step : Nat])
    /\ llmCalls \in Seq([round : Nat, step : Nat])
    /\ traceFaults \in 0..MaxTraceFaults

NoOutputs(p) == [j \in 1..Len(p) |-> "absent"]

Init ==
    /\ plan \in Plans
    /\ pc = "idle"
    /\ tries = 0 /\ spent = 0
    /\ outputs = NoOutputs(plan)
    /\ degraded = FALSE
    /\ results = <<>>
    /\ run = "running" /\ answer = {}
    /\ returned = "none" /\ written = FALSE
    /\ round = 0
    /\ steps = <<>> /\ toolCalls = <<>> /\ llmCalls = <<>>
    /\ traceFaults = 0

-----------------------------------------------------------------------------
(* Deliberately wrong variants of definitions below; none is part of Spec.  *)

(* A skipped step leaves no entry in StepOutputs.                           *)
OutputAfterNoneOnSkip(d) == IF d.policy = "degrade" THEN "fallback" ELSE "absent"

(* An aborted step does not end the loop.                                   *)
NotStopped == TRUE

(* attempt <= MaxRetries + 1.                                               *)
MayRetryOnceMore(n) == n <= Def.retries + 1

(* Only a successful step's LLM call is recorded.                           *)
HasLLMResultOnSuccess == Def.llm /\ outputs[Current] = "own"

(* The step row carries the policy for the status.                          *)
StatusAfterPolicy(d) == d.policy

(* The tool row is written although the step row was refused.               *)
AddStepGoesOn ==
    /\ pc = "addStep"
    /\ traceFaults < MaxTraceFaults
    /\ traceFaults' = traceFaults + 1
    /\ pc' = "addTool"
    /\ UNCHANGED <<plan, ctxVars, runVars, returned, round, traceVars>>

-----------------------------------------------------------------------------
(* An UPDATE whose error Execute discards: it is applied, or is lost.       *)
FinishAgentRun(status, output, applied) ==
    IF applied THEN run' = status /\ answer' = output ELSE UNCHANGED <<run, answer>>

(* Execute: the run goes back to "running", the context is fresh. *)
Start ==
    /\ pc = "idle"
    /\ round < MaxRounds
    /\ round' = round + 1
    /\ \E applied \in BOOLEAN : FinishAgentRun("running", {}, applied)
    /\ written' = FALSE
    /\ tries' = 0 /\ spent' = 0
    /\ outputs' = NoOutputs(plan)
    /\ degraded' = FALSE
    /\ results' = <<>>
    /\ returned' = "none"
    /\ pc' = "step"
    /\ UNCHANGED <<plan, traceVars, traceFaults>>

(* executeStep: one call of the tool, under its own timeout.  It takes no   *)
(* time or all of it: only the sum of the times matters.                    *)
SpendTime == \E d \in {0, Def.timeout} : spent' = spent + d

Result(status, n) == results' = Append(results, [status |-> status, attempts |-> n])

ToolSucceeds ==
    /\ pc = "step" /\ Def.registered
    /\ SpendTime
    /\ tries' = tries + 1
    /\ outputs' = [outputs EXCEPT ![Current] = "own"]
    /\ Result("completed", tries + 1)
    /\ pc' = "addStep"
    /\ UNCHANGED <<plan, degraded, runVars, returned, round, traceVars, traceFaults>>

(* attempt <= MaxRetries, where n attempts have been made.                  *)
MayRetry(n) == n <= Def.retries

ToolFailsAndRetries ==
    /\ pc = "step" /\ Def.registered
    /\ MayRetry(tries + 1)
    /\ SpendTime
    /\ tries' = tries + 1
    /\ pc' = "sleep"
    /\ UNCHANGED <<plan, outputs, degraded, results, runVars, returned, round, traceVars, traceFaults>>

RetryDelay ==
    /\ pc = "sleep"
    /\ spent' = spent + Def.delay
    /\ pc' = "step"
    /\ UNCHANGED <<plan, tries, outputs, degraded, results, runVars, returned, round, traceVars, traceFaults>>

(* handleStepFailure, by the step's policy. *)
OutputAfter(d) == CASE d.policy = "skip"    -> "empty"
                    [] d.policy = "degrade" -> "fallback"
                    [] d.policy = "abort"   -> "absent"

StatusAfter(d) == CASE d.policy = "skip"    -> "skipped"
                    [] d.policy = "degrade" -> "degraded"
                    [] d.policy = "abort"   -> "failed"

Degrades(d) == d.policy = "degrade"

HandleStepFailure(n) ==
    /\ outputs' = [outputs EXCEPT ![Current] = OutputAfter(Def)]
    /\ degraded' = (degraded \/ Degrades(Def))
    /\ Result(StatusAfter(Def), n)

ToolFailsForGood ==
    /\ pc = "step" /\ Def.registered
    /\ ~MayRetry(tries + 1)
    /\ SpendTime
    /\ tries' = tries + 1
    /\ HandleStepFailure(tries + 1)
    /\ pc' = "addStep"
    /\ UNCHANGED <<plan, runVars, returned, round, traceVars, traceFaults>>

(* registry.Get fails: the policy applies, no attempt and no trace is made. *)
ToolMissing ==
    /\ pc = "step" /\ ~Def.registered
    /\ HandleStepFailure(0)
    /\ pc' = "next"
    /\ UNCHANGED <<plan, tries, spent, runVars, returned, round, traceVars, traceFaults>>

-----------------------------------------------------------------------------
(* recordStepTrace: a refused step row ends it, the other errors are lost.  *)

Row == [round |-> round, step |-> Current]

TraceFault == traceFaults < MaxTraceFaults /\ traceFaults' = traceFaults + 1

AddStep ==
    /\ pc = "addStep"
    /\ steps' = Append(steps, [round |-> round, step |-> Current,
                               status |-> Last(results).status])
    /\ pc' = "addTool"
    /\ UNCHANGED <<plan, ctxVars, runVars, returned, round, toolCalls, llmCalls, traceFaults>>

AddStepFails ==
    /\ pc = "addStep"
    /\ TraceFault
    /\ pc' = "next"
    /\ UNCHANGED <<plan, ctxVars, runVars, returned, round, traceVars>>

HasLLMResult == Def.llm /\ outputs[Current] \in {"own", "fallback"}

AddToolCall ==
    /\ pc = "addTool"
    /\ \/ toolCalls' = Append(toolCalls, Row) /\ UNCHANGED traceFaults
       \/ TraceFault /\ UNCHANGED toolCalls
    /\ pc' = IF HasLLMResult THEN "addLLM" ELSE "next"
    /\ UNCHANGED <<plan, ctxVars, runVars, returned, round, steps, llmCalls>>

AddLLMCall ==
    /\ pc = "addLLM"
    /\ \/ llmCalls' = Append(llmCalls, Row) /\ UNCHANGED traceFaults
       \/ TraceFault /\ UNCHANGED llmCalls
    /\ pc' = "next"
    /\ UNCHANGED <<plan, ctxVars, runVars, returned, round, steps, toolCalls>>

-----------------------------------------------------------------------------
(* Back in Execute's loop. *)

(* collectFinalOutput: a skipped step's output is empty.                    *)
FinalOutput == {j \in 1..Len(plan) : outputs[j] \in {"own", "fallback"}}

Continues == Last(results).status # "failed"

NextStep ==
    /\ pc = "next"
    /\ Continues
    /\ Len(results) < Len(plan)
    /\ tries' = 0
    /\ pc' = "step"
    /\ UNCHANGED <<plan, outputs, degraded, results, spent, runVars, returned, round, traceVars, traceFaults>>

AbortExecution ==
    /\ pc = "next"
    /\ ~Continues
    /\ written' \in BOOLEAN
    /\ FinishAgentRun("failed", FinalOutput, written')
    /\ returned' = "error"
    /\ pc' = "idle"
    /\ UNCHANGED <<plan, ctxVars, round, traceVars, traceFaults>>

FinishExecution ==
    /\ pc = "next"
    /\ Continues
    /\ Len(results) = Len(plan)
    /\ written' \in BOOLEAN
    /\ FinishAgentRun(IF degraded THEN "partial_success" ELSE "completed", FinalOutput, written')
    /\ returned' = "ok"
    /\ pc' = "idle"
    /\ UNCHANGED <<plan, ctxVars, round, traceVars, traceFaults>>

(* The process dies: the context is lost, the rows stay.                    *)
Crash ==
    /\ pc # "idle"
    /\ pc' = "idle"
    /\ tries' = 0 /\ spent' = 0
    /\ outputs' = NoOutputs(plan)
    /\ degraded' = FALSE
    /\ results' = <<>>
    /\ UNCHANGED <<plan, runVars, returned, round, traceVars, traceFaults>>

Next ==
    \/ Start
    \/ ToolSucceeds \/ ToolFailsAndRetries \/ RetryDelay \/ ToolFailsForGood \/ ToolMissing
    \/ AddStep \/ AddStepFails \/ AddToolCall \/ AddLLMCall
    \/ NextStep \/ AbortExecution \/ FinishExecution
    \/ Crash

Spec == Init /\ [][Next]_vars

-----------------------------------------------------------------------------
Statuses == {results[j].status : j \in 1..Len(results)}

(* Execute returns what its steps earned: an error exactly when a step      *)
(* aborted (the last one that ran, and no other), otherwise every critical  *)
(* step produced its own output.  If its last UPDATE was applied, the row   *)
(* says so too: failed, or partial_success when a fallback stands in for a  *)
(* step's output, or completed, with what these steps left and nothing of   *)
(* an earlier round.                                                        *)
OutcomeIsEarned ==
    /\ written => answer = FinalOutput
    /\ returned = "error" =>
        /\ written => run = "failed"
        /\ \A j \in 1..Len(results) :
            results[j].status = "failed" <=> j = Len(results)
        /\ \A j \in 1..Len(plan) : outputs[j] = "absent" <=> j >= Len(results)
    /\ returned = "ok" =>
        /\ Len(results) = Len(plan)
        /\ \A j \in 1..Len(plan) : plan[j].policy = "abort" => outputs[j] = "own"
        /\ written => run = IF "degraded" \in Statuses THEN "partial_success" ELSE "completed"

(* A step finds an output of every step before it: BuildInput reads them    *)
(* without checking, and a missing one would reach the row as empty text.   *)
InputsArePresent ==
    pc = "step" => \A j \in 1..Len(results) : outputs[j] # "absent"

(* When no trace row was refused, the step rows of a round that ended are   *)
(* the steps that called their tool, in order and each of them once, with   *)
(* the status the run used; so are the tool rows, and the LLM rows are of   *)
(* the steps whose LLM result the run kept.                                 *)
OfRound(rows) == {i \in 1..Len(rows) : rows[i].round = round}
StepsOf(rows) == {rows[i].step : i \in OfRound(rows)}
InOrder(rows) == \A a, b \in OfRound(rows) : a < b => rows[a].step < rows[b].step

Called == {j \in 1..Len(results) : results[j].attempts > 0}

TraceMatchesResults ==
    traceFaults = 0 /\ returned # "none" =>
        /\ InOrder(steps) /\ InOrder(toolCalls) /\ InOrder(llmCalls)
        /\ StepsOf(steps) = Called /\ StepsOf(toolCalls) = Called
        /\ \A i \in OfRound(steps) : steps[i].status = results[steps[i].step].status
        /\ StepsOf(llmCalls) = {j \in Called : plan[j].llm /\ j \in FinalOutput}

(* A tool or LLM row never stands without the step row it hangs on.         *)
TraceIsRooted ==
    \A r \in ToSet(toolCalls) \cup ToSet(llmCalls) :
        \E s \in ToSet(steps) : s.round = r.round /\ s.step = r.step

(* The tools and retries of a round cannot take longer than the queue's     *)
(* lease lasts: the MaxExec <= LockTimeout that TaskQueue's exclusion needs.*)
Cost(d) == d.timeout * (d.retries + 1) + d.delay * d.retries

(* What the first n steps of a list may take, for each n.                   *)
CostUpTo(p) ==
    LET upTo[n \in 0..Len(p)] == IF n = 0 THEN 0 ELSE upTo[n - 1] + Cost(p[n])
    IN  upTo
Budget(p) == CostUpTo(p)[Len(p)]

FitsTheLease == spent <= Budget(plan) /\ Budget(plan) <= LockTimeout
=============================================================================
