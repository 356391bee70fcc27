---------------------------- MODULE PipelineProofs ----------------------------
(***************************************************************************)
(* What a round of Execute guarantees, for every list of steps, whatever    *)
(* the tools, MySQL and the process do, and for any number of rounds and    *)
(* refused trace rows.                                                      *)
(***************************************************************************)
EXTENDS Pipeline, SequenceTheorems, FiniteSetTheorems, WellFoundedInduction, TLAPS

ResultType == [status : StepStatus, attempts : Nat]

(* Where Execute is in the list of steps.                                   *)
Place ==
    /\ pc \in {"step", "sleep"} => Len(results) < Len(plan)
    /\ pc \in {"addStep", "addTool", "addLLM", "next"} => Len(results) > 0

Typed == TypeOK /\ Place

(* A result's status and the output of its step tell the same story, and    *)
(* only a critical step may have failed.                                    *)
StepTold(j) ==
    /\ results[j].status = "completed" <=> outputs[j] = "own"
    /\ results[j].status = "failed"    <=> outputs[j] = "absent"
    /\ plan[j].policy = "abort" => results[j].status \in {"completed", "failed"}

Told == \A j \in 1..Len(results) : StepTold(j)

(* Nothing is known of the steps that have not run.                         *)
Ahead == \A j \in 1..Len(plan) : j > Len(results) => outputs[j] = "absent"

(* A failed step is the last one, and nothing runs after it.                *)
Failed ==
    \A j \in 1..Len(results) :
        results[j].status = "failed" => j = Len(results) /\ pc \notin {"step", "sleep"}

DegradedIsNoted == degraded <=> "degraded" \in Statuses

(* While Execute runs it has returned nothing, and its last UPDATE is ahead. *)
Returned == pc # "idle" => returned = "none" /\ ~written

RoundInv == Told /\ Ahead /\ Failed /\ DegradedIsNoted /\ Returned /\ OutcomeIsEarned

-----------------------------------------------------------------------------
(* A plan is a list of at least one well-formed step.                       *)
LEMMA PlanFacts ==
    ASSUME plan \in Plans
    PROVE  /\ Len(plan) \in Nat /\ Len(plan) > 0 /\ DOMAIN plan = 1..Len(plan)
           /\ \A j \in 1..Len(plan) :
                /\ plan[j].policy \in Policy
                /\ plan[j].retries \in Nat /\ plan[j].timeout \in Nat /\ plan[j].delay \in Nat
                /\ plan[j].registered \in BOOLEAN /\ plan[j].llm \in BOOLEAN
  <1>1. plan \in Seq(StepDefinition) /\ plan # <<>>
    BY PlansAssumption
  <1>2. Len(plan) \in Nat /\ DOMAIN plan = 1..Len(plan)
    BY <1>1, LenProperties
  <1>3. Len(plan) > 0
    BY <1>1, EmptySeq
  <1>4. \A j \in 1..Len(plan) : plan[j] \in StepDefinition
    BY <1>1, ElementOfSeq
  <1>5. ASSUME NEW d \in StepDefinition
        PROVE  /\ d.policy \in Policy
               /\ d.retries \in Nat /\ d.timeout \in Nat /\ d.delay \in Nat
               /\ d.registered \in BOOLEAN /\ d.llm \in BOOLEAN
    BY DEF StepDefinition
  <1> QED
    BY <1>2, <1>3, <1>4, <1>5

(* A step's result is appended to those before it.                          *)
LEMMA ResultEffect ==
    ASSUME results \in Seq(ResultType), NEW s \in StepStatus, NEW n \in Nat, Result(s, n)
    PROVE  /\ results' \in Seq(ResultType)
           /\ Len(results) \in Nat /\ Len(results') = Len(results) + 1
           /\ \A j \in 1..Len(results) : results'[j] = results[j]
           /\ results'[Len(results) + 1].status = s /\ results'[Len(results) + 1].attempts = n
  <1> DEFINE e == [status |-> s, attempts |-> n]
  <1>1. e \in ResultType /\ e.status = s /\ e.attempts = n
    BY DEF ResultType
  <1> HIDE DEF e
  <1>2. results' = Append(results, e)
    BY DEF Result, e
  <1> QED
    BY <1>1, <1>2, AppendProperties, LenProperties

-----------------------------------------------------------------------------
(* The variables of the context and of the run, apart from the trace.       *)
ContextOK ==
    /\ plan \in Plans
    /\ pc \in Location
    /\ tries \in Nat /\ spent \in Nat
    /\ outputs \in [1..Len(plan) -> {"absent", "own", "fallback", "empty"}]
    /\ degraded \in BOOLEAN
    /\ results \in Seq(ResultType)
    /\ Len(results) <= Len(plan)
    /\ run \in {"running", "completed", "partial_success", "failed"}
    /\ answer \subseteq 1..Len(plan)
    /\ returned \in {"none", "ok", "error"}
    /\ written \in BOOLEAN
    /\ round \in 0..MaxRounds

TraceOK ==
    /\ steps \in Seq([round : Nat, step : Nat, status : StepStatus])
    /\ toolCalls \in Seq([round : Nat, step : Nat])
    /\ llmCalls \in Seq([round : Nat, step : Nat])
    /\ traceFaults \in 0..MaxTraceFaults

(* The types, the trace set apart from the rest.                            *)
LEMMA TypeParts == TypeOK <=> ContextOK /\ TraceOK
  BY DEF TypeOK, ContextOK, TraceOK, ResultType

(* Nothing has run.                                                         *)
LEMMA TypeInit == Init => Typed
  <1> SUFFICES ASSUME Init PROVE Typed
    OBVIOUS
  <1>1. Len(plan) \in Nat /\ Len(plan) > 0
    BY PlanFacts DEF Init
  <1>2. results \in Seq(ResultType) /\ Len(results) = 0
    BY EmptySeq DEF Init
  <1>3. outputs \in [1..Len(plan) -> {"absent", "own", "fallback", "empty"}]
    BY DEF Init, NoOutputs
  <1>4. ContextOK
    <2>1. Len(results) <= Len(plan)
      BY <1>1, <1>2
    <2>2. plan \in Plans /\ pc \in Location /\ tries \in Nat /\ spent \in Nat /\ degraded \in BOOLEAN
      BY DEF Init, Location
    <2>3. /\ run \in {"running", "completed", "partial_success", "failed"}
          /\ answer \subseteq 1..Len(plan)
          /\ returned \in {"none", "ok", "error"} /\ written \in BOOLEAN
      BY DEF Init
    <2>4. round \in 0..MaxRounds
      BY PlansAssumption DEF Init
    <2> QED
      BY <1>2, <1>3, <2>1, <2>2, <2>3, <2>4 DEF ContextOK
  <1>5. /\ steps \in Seq([round : Nat, step : Nat, status : StepStatus])
        /\ toolCalls \in Seq([round : Nat, step : Nat]) /\ llmCalls \in Seq([round : Nat, step : Nat])
    BY EmptySeq DEF Init
  <1>6. TraceOK
    BY <1>5, PlansAssumption DEF Init, TraceOK
  <1> QED
    BY <1>4, <1>6, TypeParts DEF Init, Typed, Place

(* Every step keeps the context in type and Execute at a step of the plan.  *)
LEMMA ContextStep ==
    ASSUME ContextOK, Place, [Next]_vars
    PROVE  ContextOK' /\ Place'
  <1> DEFINE Goal == ContextOK' /\ Place'
  <1>0. /\ Len(plan) \in Nat /\ Len(plan) > 0 /\ Len(results) \in Nat
        /\ \A j \in 1..Len(plan) :
                /\ plan[j].policy \in Policy
                /\ plan[j].retries \in Nat /\ plan[j].timeout \in Nat /\ plan[j].delay \in Nat
                /\ plan[j].registered \in BOOLEAN /\ plan[j].llm \in BOOLEAN
    BY PlanFacts, LenProperties DEF ContextOK
  <1> USE <1>0, PlansAssumption DEF ContextOK, Place, Location, StepStatus, Policy, runVars,
        traceVars, ctxVars
  <1>1. CASE Start
    <2>1. results' \in Seq(ResultType) /\ Len(results') = 0
      BY <1>1, EmptySeq DEF Start
    <2>2. outputs' \in [1..Len(plan) -> {"absent", "own", "fallback", "empty"}]
      BY <1>1 DEF Start, NoOutputs
    <2>3. ContextOK'
      <3>1. Len(results') <= Len(plan')
        BY <1>1, <2>1 DEF Start
      <3>2. plan' \in Plans /\ pc' \in Location /\ tries' \in Nat /\ spent' \in Nat /\ degraded' \in BOOLEAN
        BY <1>1 DEF Start
      <3>3. /\ run' \in {"running", "completed", "partial_success", "failed"}
            /\ answer' \subseteq 1..Len(plan')
            /\ returned' \in {"none", "ok", "error"} /\ written' \in BOOLEAN
        BY <1>1 DEF Start, FinishAgentRun
      <3>4. round' \in 0..MaxRounds
        BY <1>1 DEF Start
      <3>5. plan' = plan
        BY <1>1 DEF Start
      <3> QED
        BY <2>1, <2>2, <3>1, <3>2, <3>3, <3>4, <3>5
    <2> QED
      BY <1>1, <2>1, <2>3 DEF Start
  <1>2. CASE ToolSucceeds
    <2>1. /\ Current = Len(results) + 1 /\ Def = plan[Len(results) + 1]
          /\ Def.timeout \in Nat /\ Result("completed", tries + 1)
      BY <1>2 DEF ToolSucceeds, Current, Def
    <2>2. results' \in Seq(ResultType) /\ Len(results') = Len(results) + 1
      BY <2>1, ResultEffect
    <2> QED
      BY <1>2, <2>1, <2>2 DEF ToolSucceeds, SpendTime, OutputAfter, StatusAfter, ResultType
  <1>3. CASE ToolFailsAndRetries
    <2>1. Def = plan[Len(results) + 1] /\ Def.timeout \in Nat
      BY <1>3 DEF ToolFailsAndRetries, Current, Def
    <2> QED
      BY <1>3, <2>1 DEF ToolFailsAndRetries, SpendTime
  <1>4. CASE RetryDelay
    <2>1. Def = plan[Len(results) + 1] /\ Def.delay \in Nat
      BY <1>4 DEF RetryDelay, Current, Def
    <2> QED
      BY <1>4, <2>1 DEF RetryDelay
  <1>5. CASE ToolFailsForGood
    <2>1. /\ Current = Len(results) + 1 /\ Def = plan[Len(results) + 1]
          /\ Def.timeout \in Nat /\ Def.policy \in Policy
          /\ Result(StatusAfter(Def), tries + 1) /\ StatusAfter(Def) \in StepStatus
      BY <1>5 DEF ToolFailsForGood, HandleStepFailure, StatusAfter, Current, Def
    <2>2. results' \in Seq(ResultType) /\ Len(results') = Len(results) + 1
      BY <2>1, ResultEffect
    <2>3. outputs' \in [1..Len(plan) -> {"absent", "own", "fallback", "empty"}]
      BY <1>5, <2>1 DEF ToolFailsForGood, HandleStepFailure, OutputAfter
    <2>4. degraded' \in BOOLEAN /\ spent' \in Nat /\ tries' \in Nat
      BY <1>5, <2>1 DEF ToolFailsForGood, HandleStepFailure, Degrades, SpendTime
    <2> QED
      BY <1>5, <2>2, <2>3, <2>4 DEF ToolFailsForGood
  <1>6. CASE ToolMissing
    <2>1. /\ Current = Len(results) + 1 /\ Def = plan[Len(results) + 1] /\ Def.policy \in Policy
          /\ Result(StatusAfter(Def), 0) /\ StatusAfter(Def) \in StepStatus
      BY <1>6 DEF ToolMissing, HandleStepFailure, StatusAfter, Current, Def
    <2>2. results' \in Seq(ResultType) /\ Len(results') = Len(results) + 1
      BY <2>1, ResultEffect
    <2> QED
      BY <1>6, <2>1, <2>2 DEF ToolMissing, HandleStepFailure, Degrades, OutputAfter, StatusAfter,
         ResultType
  <1>7. CASE AddStep
    BY <1>7 DEF AddStep
  <1>8. CASE AddStepFails
    BY <1>8 DEF AddStepFails, TraceFault
  <1>9. CASE AddToolCall
    BY <1>9 DEF AddToolCall, TraceFault
  <1>10. CASE AddLLMCall
    BY <1>10 DEF AddLLMCall, TraceFault
  <1>11. CASE NextStep
    BY <1>11 DEF NextStep
  <1>12. CASE AbortExecution
    BY <1>12 DEF AbortExecution, FinishAgentRun, FinalOutput
  <1>13. CASE FinishExecution
    BY <1>13 DEF FinishExecution, FinishAgentRun, FinalOutput
  <1>14. CASE Crash
    <2>1. results' \in Seq(ResultType) /\ Len(results') = 0
      BY <1>14, EmptySeq DEF Crash
    <2>2. outputs' \in [1..Len(plan) -> {"absent", "own", "fallback", "empty"}]
      BY <1>14 DEF Crash, NoOutputs
    <2>3. ContextOK'
      <3>1. Len(results') <= Len(plan')
        BY <1>14, <2>1 DEF Crash
      <3>2. plan' \in Plans /\ pc' \in Location /\ tries' \in Nat /\ spent' \in Nat /\ degraded' \in BOOLEAN
        BY <1>14 DEF Crash
      <3>3. /\ run' \in {"running", "completed", "partial_success", "failed"}
            /\ answer' \subseteq 1..Len(plan')
            /\ returned' \in {"none", "ok", "error"} /\ written' \in BOOLEAN
        BY <1>14 DEF Crash
      <3>4. round' \in 0..MaxRounds
        BY <1>14 DEF Crash
      <3>5. plan' = plan
        BY <1>14 DEF Crash
      <3> QED
        BY <2>1, <2>2, <3>1, <3>2, <3>3, <3>4, <3>5
    <2> QED
      BY <1>14, <2>1, <2>3 DEF Crash
  <1>15. CASE UNCHANGED vars
    BY <1>15 DEF vars
  <1> QED
    BY <1>1, <1>2, <1>3, <1>4, <1>5, <1>6, <1>7, <1>8, <1>9, <1>10, <1>11, <1>12, <1>13, <1>14,
       <1>15 DEF Next

(* Appending a row adds it to the set of rows.                              *)
LEMMA AppendedRow ==
    ASSUME NEW S, NEW s \in Seq(S), NEW e \in S
    PROVE  Append(s, e) \in Seq(S) /\ ToSet(Append(s, e)) = ToSet(s) \cup {e}
  <1>1. /\ Append(s, e) \in Seq(S) /\ Len(Append(s, e)) = Len(s) + 1
        /\ \A i \in 1..Len(s) : Append(s, e)[i] = s[i]
        /\ Append(s, e)[Len(s) + 1] = e
    BY AppendProperties
  <1>2. Len(s) \in Nat /\ DOMAIN s = 1..Len(s) /\ DOMAIN Append(s, e) = 1..Len(s) + 1
    BY <1>1, LenProperties
  <1>3. ToSet(Append(s, e)) \subseteq ToSet(s) \cup {e}
    BY <1>1, <1>2 DEF ToSet
  <1>4. ToSet(s) \subseteq ToSet(Append(s, e))
    BY <1>1, <1>2 DEF ToSet
  <1>5. e \in ToSet(Append(s, e))
    BY <1>1, <1>2 DEF ToSet
  <1> QED
    BY <1>1, <1>3, <1>4, <1>5

(* A trace row is well-formed and belongs to the step that just ended.      *)
LEMMA RowFacts ==
    ASSUME ContextOK, Place, pc \in {"addStep", "addTool", "addLLM"}
    PROVE  /\ Current = Len(results)
           /\ round \in Nat /\ Len(results) \in Nat
           /\ Last(results).status \in StepStatus
           /\ Row \in [round : Nat, step : Nat] /\ Row.round = round /\ Row.step = Len(results)
  <1>1. Current = Len(results)
    BY DEF Current
  <1>2. round \in Nat
    BY PlansAssumption DEF ContextOK
  <1>3. Len(results) \in Nat /\ Len(results) > 0
    BY LenProperties DEF ContextOK, Place
  <1>4. results[Len(results)] \in ResultType
    BY <1>3, ElementOfSeq DEF ContextOK
  <1>5. ASSUME NEW r \in ResultType PROVE r.status \in StepStatus
    BY DEF ResultType
  <1> QED
    BY <1>1, <1>2, <1>3, <1>4, <1>5 DEF Last, Row

StepRow == [round |-> round, step |-> Current, status |-> Last(results).status]

(* The step row says which step ended in which round.                       *)
LEMMA StepRowFacts ==
    ASSUME ContextOK, Place, pc = "addStep"
    PROVE  /\ StepRow \in [round : Nat, step : Nat, status : StepStatus]
           /\ StepRow.round = round /\ StepRow.step = Len(results)
  BY RowFacts DEF StepRow

(* Every step keeps the trace in type.                                      *)
LEMMA TraceStep ==
    ASSUME ContextOK, Place, TraceOK, [Next]_vars
    PROVE  TraceOK'
  <1> USE PlansAssumption DEF TraceOK, traceVars
  <1>1. CASE Start
    BY <1>1 DEF Start
  <1>2. CASE ToolSucceeds
    BY <1>2 DEF ToolSucceeds, SpendTime
  <1>3. CASE ToolFailsAndRetries
    BY <1>3 DEF ToolFailsAndRetries, SpendTime
  <1>4. CASE RetryDelay
    BY <1>4 DEF RetryDelay
  <1>5. CASE ToolFailsForGood
    BY <1>5 DEF ToolFailsForGood, SpendTime, HandleStepFailure
  <1>6. CASE ToolMissing
    BY <1>6 DEF ToolMissing, HandleStepFailure
  <1>7. CASE AddStep
    <2>1. steps' = Append(steps, StepRow) /\ StepRow \in [round : Nat, step : Nat, status : StepStatus]
      BY <1>7, StepRowFacts DEF AddStep, StepRow
    <2>2. steps' \in Seq([round : Nat, step : Nat, status : StepStatus])
      BY <2>1, AppendedRow
    <2> QED
      BY <1>7, <2>2 DEF AddStep
  <1>8. CASE AddStepFails
    BY <1>8 DEF AddStepFails, TraceFault
  <1>9. CASE AddToolCall
    <2>1. Row \in [round : Nat, step : Nat]
      BY <1>9, RowFacts DEF AddToolCall
    <2>2. Append(toolCalls, Row) \in Seq([round : Nat, step : Nat])
      BY <2>1, AppendedRow
    <2>3. toolCalls' \in Seq([round : Nat, step : Nat])
      BY <1>9, <2>2 DEF AddToolCall
    <2>4. traceFaults' \in 0..MaxTraceFaults
      BY <1>9 DEF AddToolCall, TraceFault
    <2> QED
      BY <1>9, <2>3, <2>4 DEF AddToolCall
  <1>10. CASE AddLLMCall
    <2>1. Row \in [round : Nat, step : Nat]
      BY <1>10, RowFacts DEF AddLLMCall
    <2>2. Append(llmCalls, Row) \in Seq([round : Nat, step : Nat])
      BY <2>1, AppendedRow
    <2>3. llmCalls' \in Seq([round : Nat, step : Nat])
      BY <1>10, <2>2 DEF AddLLMCall
    <2>4. traceFaults' \in 0..MaxTraceFaults
      BY <1>10 DEF AddLLMCall, TraceFault
    <2> QED
      BY <1>10, <2>3, <2>4 DEF AddLLMCall
  <1>11. CASE NextStep
    BY <1>11 DEF NextStep
  <1>12. CASE AbortExecution
    BY <1>12 DEF AbortExecution
  <1>13. CASE FinishExecution
    BY <1>13 DEF FinishExecution
  <1>14. CASE Crash
    BY <1>14 DEF Crash
  <1>15. CASE UNCHANGED vars
    BY <1>15 DEF vars
  <1> QED
    BY <1>1, <1>2, <1>3, <1>4, <1>5, <1>6, <1>7, <1>8, <1>9, <1>10, <1>11, <1>12, <1>13, <1>14,
       <1>15 DEF Next

(* The variables of a run of the agent stay in their types.                 *)
LEMMA TypedInvariant == Spec => []Typed
  <1>1. Typed /\ [Next]_vars => Typed'
    <2> SUFFICES ASSUME Typed, [Next]_vars PROVE Typed'
      OBVIOUS
    <2>1. TypeOK' <=> ContextOK' /\ TraceOK'
      BY DEF TypeOK, ContextOK, TraceOK, ResultType
    <2> QED
      BY <2>1, TypeParts, ContextStep, TraceStep DEF Typed
  <1> QED
    BY <1>1, TypeInit, PTL DEF Spec

(* Whatever the tools, MySQL and the process do to a run, Execute keeps its *)
(* variables in their types; in particular it never runs past its list.     *)
THEOREM TypeCorrect == Spec => []TypeOK
  <1>1. Typed => TypeOK
    BY DEF Typed
  <1> QED
    BY <1>1, TypedInvariant, PTL

-----------------------------------------------------------------------------
(* What holds of a round, and the types that the argument needs.            *)
LEMMA RoundFacts ==
    ASSUME Typed
    PROVE  /\ Len(plan) \in Nat /\ Len(plan) > 0 /\ Len(results) \in Nat /\ Len(results) <= Len(plan)
           /\ \A j \in 1..Len(results) : results[j].status \in StepStatus
           /\ results \in Seq(ResultType) /\ plan \in Plans
           /\ outputs \in [1..Len(plan) -> {"absent", "own", "fallback", "empty"}]
           /\ degraded \in BOOLEAN
  <1>1. ContextOK
    BY TypeParts DEF Typed
  <1>2. Len(results) \in Nat /\ \A j \in 1..Len(results) : results[j] \in ResultType
    BY <1>1, LenProperties, ElementOfSeq DEF ContextOK
  <1>3. ASSUME NEW r \in ResultType PROVE r.status \in StepStatus
    BY DEF ResultType
  <1> QED
    BY <1>1, <1>2, <1>3, PlanFacts DEF ContextOK

(* The current step ends with status s after n attempts, leaving output o.  *)
StepRan(s, n, o) ==
    /\ pc = "step" /\ pc' \in {"addStep", "next"}
    /\ plan' = plan /\ returned' = returned /\ written' = written
    /\ s \in StepStatus /\ n \in Nat
    /\ s = "completed" <=> o = "own"
    /\ s = "failed" <=> o = "absent"
    /\ plan[Len(results) + 1].policy = "abort" => s \in {"completed", "failed"}
    /\ Result(s, n)
    /\ outputs' = [outputs EXCEPT ![Len(results) + 1] = o]
    /\ degraded' = (degraded \/ s = "degraded")

(* A step that ends, in whichever way, tells the same story in its result   *)
(* and its output, and changes nothing of the steps before it.              *)
LEMMA StepEnds ==
    ASSUME Typed, RoundInv, NEW s, NEW n, NEW o, StepRan(s, n, o)
    PROVE  RoundInv'
  <1>0. /\ Len(plan) \in Nat /\ Len(results) \in Nat /\ Len(results) < Len(plan)
        /\ results \in Seq(ResultType)
        /\ outputs \in [1..Len(plan) -> {"absent", "own", "fallback", "empty"}]
    BY RoundFacts DEF Typed, Place, StepRan
  <1> DEFINE k == Len(results) + 1
  <1>1. /\ Len(results') = k /\ k \in 1..Len(plan)
        /\ \A j \in 1..Len(results) : results'[j] = results[j]
        /\ results'[k].status = s
    BY <1>0, ResultEffect DEF StepRan
  <1>2. outputs'[k] = o /\ \A j \in 1..Len(plan) : j # k => outputs'[j] = outputs[j]
    BY <1>0, <1>1 DEF StepRan
  <1>3. /\ pc = "step" /\ pc' \in {"addStep", "next"} /\ plan' = plan
        /\ returned' = returned /\ written' = written
        /\ s = "completed" <=> o = "own"
        /\ s = "failed" <=> o = "absent"
        /\ plan[k].policy = "abort" => s \in {"completed", "failed"}
        /\ degraded' = (degraded \/ s = "degraded")
    BY DEF StepRan
  <1>4. returned = "none" /\ ~written
    BY <1>3 DEF RoundInv, Returned
  <1>5. 1..Len(results') = 1..Len(results) \cup {k} /\ k \notin 1..Len(results)
    BY <1>0, <1>1
  <1> HIDE DEF k
  <1>6. Told'
    <2>1. ASSUME NEW j \in 1..Len(results) PROVE StepTold(j)'
      <3>1. StepTold(j) /\ results'[j] = results[j] /\ outputs'[j] = outputs[j] /\ plan' = plan
        BY <1>0, <1>1, <1>2, <1>3, <1>5 DEF RoundInv, Told
      <3> QED
        BY <3>1 DEF StepTold
    <2>2. ASSUME NEW j, j = k PROVE StepTold(j)'
      BY <2>2, <1>1, <1>2, <1>3 DEF StepTold
    <2> QED
      BY <2>1, <2>2, <1>5 DEF Told
  <1>7. Ahead'
    BY <1>0, <1>1, <1>2, <1>3 DEF RoundInv, Ahead, k
  <1>8. Failed'
    <2>1. \A j \in 1..Len(results) : results[j].status # "failed"
      BY <1>3 DEF RoundInv, Failed
    <2>2. \A j \in 1..Len(results) : results'[j].status # "failed"
      BY <2>1, <1>1
    <2> QED
      BY <2>2, <1>1, <1>3, <1>5 DEF Failed
  <1>9. DegradedIsNoted'
    <2>1. Statuses' = {results'[j].status : j \in 1..Len(results')}
      BY DEF Statuses
    <2>2. Statuses' = Statuses \cup {s}
      BY <2>1, <1>1, <1>5 DEF Statuses
    <2> QED
      BY <2>2, <1>3 DEF RoundInv, DegradedIsNoted
  <1>10. Returned' /\ OutcomeIsEarned'
    BY <1>3, <1>4 DEF Returned, OutcomeIsEarned
  <1> QED
    BY <1>6, <1>7, <1>8, <1>9, <1>10 DEF RoundInv

(* Between steps only the place of Execute moves.                           *)
LEMMA OnlyThePlaceMoves ==
    ASSUME RoundInv, UNCHANGED <<plan, outputs, degraded, results, returned, written>>,
           pc # "idle",
           pc' \in {"step", "sleep"} =>
               pc \in {"step", "sleep"} \/ \A j \in 1..Len(results) : results[j].status # "failed"
    PROVE  RoundInv'
  <1>1. Told' /\ Ahead' /\ DegradedIsNoted'
    BY DEF RoundInv, Told, StepTold, Ahead, DegradedIsNoted, Statuses
  <1>2. Failed'
    BY DEF RoundInv, Failed
  <1>3. returned = "none" /\ ~written
    BY DEF RoundInv, Returned
  <1> QED
    BY <1>1, <1>2, <1>3 DEF RoundInv, Returned, OutcomeIsEarned

(* A round begins, and a crash leaves the run, with nothing executed.       *)
LEMMA NothingHasRun ==
    ASSUME results = <<>>, outputs = NoOutputs(plan), degraded = FALSE
    PROVE  Told /\ Ahead /\ Failed /\ DegradedIsNoted
  <1>1. Len(results) = 0 /\ 1..Len(results) = {}
    OBVIOUS
  <1>2. Told /\ Failed
    BY <1>1 DEF Told, Failed
  <1>3. Ahead
    BY DEF Ahead, NoOutputs
  <1>4. DegradedIsNoted
    BY <1>1 DEF DegradedIsNoted, Statuses
  <1> QED
    BY <1>2, <1>3, <1>4

(* Every step of Execute keeps what a round tells.                          *)
LEMMA RoundStep ==
    ASSUME Typed, RoundInv, [Next]_vars
    PROVE  RoundInv'
  <1>0. /\ Len(plan) \in Nat /\ Len(plan) > 0 /\ Len(results) \in Nat /\ Len(results) <= Len(plan)
        /\ \A j \in 1..Len(results) : results[j].status \in StepStatus
        /\ degraded \in BOOLEAN /\ plan \in Plans /\ tries \in Nat
    BY RoundFacts DEF Typed, TypeOK
  <1>e. (results = <<>> /\ outputs = NoOutputs(plan) /\ degraded = FALSE
            => Told /\ Ahead /\ Failed /\ DegradedIsNoted)'
    BY NothingHasRun, PTL
  <1> USE <1>0
  <1>1. CASE Start
    <2>1. /\ results' = <<>> /\ outputs' = NoOutputs(plan)' /\ degraded' = FALSE
          /\ returned' = "none" /\ ~written'
      BY <1>1 DEF Start, NoOutputs
    <2> QED
      BY <2>1, <1>e DEF RoundInv, Returned, OutcomeIsEarned
  <1>2. CASE ToolSucceeds
    <2>1. StepRan("completed", tries + 1, "own")
      <3>1. /\ Current = Len(results) + 1 /\ Def = plan[Len(results) + 1] /\ Def.policy \in Policy
            /\ pc = "step"
        BY <1>2, PlanFacts DEF ToolSucceeds, Current, Def, Typed, Place
      <3>2. /\ "completed" \in StepStatus
            /\ "completed" = "completed" <=> "own" = "own"
            /\ "completed" = "failed" <=> "own" = "absent"
            /\ Def.policy = "abort" => "completed" \in {"completed", "failed"}
        BY <3>1 DEF StatusAfter, OutputAfter, StepStatus, Policy
      <3>3. Result("completed", tries + 1) /\ outputs' = [outputs EXCEPT ![Len(results) + 1] = "own"]
        BY <1>2, <3>1 DEF ToolSucceeds
      <3>4. degraded' = (degraded \/ "completed" = "degraded")
        BY <1>2, <3>1 DEF ToolSucceeds, Degrades, StatusAfter, Policy
      <3>5. plan' = plan /\ returned' = returned /\ written' = written /\ pc' \in {"addStep", "next"}
        BY <1>2 DEF ToolSucceeds, runVars
      <3> QED
        BY <3>1, <3>2, <3>3, <3>4, <3>5 DEF StepRan
    <2> QED
      BY <2>1, StepEnds
  <1>3. CASE ToolFailsAndRetries
    <2>1. /\ UNCHANGED <<plan, outputs, degraded, results, returned, written>>
          /\ pc \in {"step", "sleep"}
      BY <1>3 DEF ToolFailsAndRetries, runVars, ctxVars
    <2> QED
      BY <2>1, OnlyThePlaceMoves
  <1>4. CASE RetryDelay
    <2>1. /\ UNCHANGED <<plan, outputs, degraded, results, returned, written>>
          /\ pc \in {"step", "sleep"}
      BY <1>4 DEF RetryDelay, runVars, ctxVars
    <2> QED
      BY <2>1, OnlyThePlaceMoves
  <1>5. CASE ToolFailsForGood
    <2>1. StepRan(StatusAfter(Def), tries + 1, OutputAfter(Def))
      <3>1. /\ Current = Len(results) + 1 /\ Def = plan[Len(results) + 1] /\ Def.policy \in Policy
            /\ pc = "step"
        BY <1>5, PlanFacts DEF ToolFailsForGood, HandleStepFailure, Current, Def, Typed, Place
      <3>2. /\ StatusAfter(Def) \in StepStatus
            /\ StatusAfter(Def) = "completed" <=> OutputAfter(Def) = "own"
            /\ StatusAfter(Def) = "failed" <=> OutputAfter(Def) = "absent"
            /\ Def.policy = "abort" => StatusAfter(Def) \in {"completed", "failed"}
        BY <3>1 DEF StatusAfter, OutputAfter, StepStatus, Policy
      <3>3. /\ Result(StatusAfter(Def), tries + 1)
            /\ outputs' = [outputs EXCEPT ![Len(results) + 1] = OutputAfter(Def)]
        BY <1>5, <3>1 DEF ToolFailsForGood, HandleStepFailure
      <3>4. degraded' = (degraded \/ StatusAfter(Def) = "degraded")
        BY <1>5, <3>1 DEF ToolFailsForGood, HandleStepFailure, Degrades, StatusAfter, Policy
      <3>5. plan' = plan /\ returned' = returned /\ written' = written /\ pc' \in {"addStep", "next"}
        BY <1>5 DEF ToolFailsForGood, HandleStepFailure, runVars
      <3> QED
        BY <3>1, <3>2, <3>3, <3>4, <3>5 DEF StepRan
    <2> QED
      BY <2>1, StepEnds
  <1>6. CASE ToolMissing
    <2>1. StepRan(StatusAfter(Def), 0, OutputAfter(Def))
      <3>1. /\ Current = Len(results) + 1 /\ Def = plan[Len(results) + 1] /\ Def.policy \in Policy
            /\ pc = "step"
        BY <1>6, PlanFacts DEF ToolMissing, HandleStepFailure, Current, Def, Typed, Place
      <3>2. /\ StatusAfter(Def) \in StepStatus
            /\ StatusAfter(Def) = "completed" <=> OutputAfter(Def) = "own"
            /\ StatusAfter(Def) = "failed" <=> OutputAfter(Def) = "absent"
            /\ Def.policy = "abort" => StatusAfter(Def) \in {"completed", "failed"}
        BY <3>1 DEF StatusAfter, OutputAfter, StepStatus, Policy
      <3>3. /\ Result(StatusAfter(Def), 0)
            /\ outputs' = [outputs EXCEPT ![Len(results) + 1] = OutputAfter(Def)]
        BY <1>6, <3>1 DEF ToolMissing, HandleStepFailure
      <3>4. degraded' = (degraded \/ StatusAfter(Def) = "degraded")
        BY <1>6, <3>1 DEF ToolMissing, HandleStepFailure, Degrades, StatusAfter, Policy
      <3>5. plan' = plan /\ returned' = returned /\ written' = written /\ pc' \in {"addStep", "next"}
        BY <1>6 DEF ToolMissing, HandleStepFailure, runVars
      <3> QED
        BY <3>1, <3>2, <3>3, <3>4, <3>5 DEF StepRan
    <2> QED
      BY <2>1, StepEnds
  <1>7. CASE AddStep
    <2>1. /\ UNCHANGED <<plan, outputs, degraded, results, returned, written>>
          /\ pc # "idle" /\ pc' \notin {"step", "sleep"}
      BY <1>7 DEF AddStep, runVars, ctxVars
    <2> QED
      BY <2>1, OnlyThePlaceMoves
  <1>8. CASE AddStepFails
    <2>1. /\ UNCHANGED <<plan, outputs, degraded, results, returned, written>>
          /\ pc # "idle" /\ pc' \notin {"step", "sleep"}
      BY <1>8 DEF AddStepFails, runVars, ctxVars
    <2> QED
      BY <2>1, OnlyThePlaceMoves
  <1>9. CASE AddToolCall
    <2>1. /\ UNCHANGED <<plan, outputs, degraded, results, returned, written>>
          /\ pc # "idle" /\ pc' \notin {"step", "sleep"}
      BY <1>9 DEF AddToolCall, runVars, ctxVars
    <2> QED
      BY <2>1, OnlyThePlaceMoves
  <1>10. CASE AddLLMCall
    <2>1. /\ UNCHANGED <<plan, outputs, degraded, results, returned, written>>
          /\ pc # "idle" /\ pc' \notin {"step", "sleep"}
      BY <1>10 DEF AddLLMCall, runVars, ctxVars
    <2> QED
      BY <2>1, OnlyThePlaceMoves
  <1>11. CASE NextStep
    <2>1. /\ UNCHANGED <<plan, outputs, degraded, results, returned, written>>
          /\ pc = "next" /\ results[Len(results)].status # "failed"
      BY <1>11 DEF NextStep, runVars, ctxVars, Continues, Last
    <2>2. \A j \in 1..Len(results) : results[j].status # "failed"
      BY <2>1 DEF RoundInv, Failed
    <2> QED
      BY <2>1, <2>2, OnlyThePlaceMoves
  <1>12. CASE AbortExecution
    <2>1. /\ UNCHANGED <<plan, outputs, degraded, results>> /\ pc' = "idle"
          /\ Len(results) > 0 /\ results[Len(results)].status = "failed"
          /\ written' => run' = "failed" /\ answer' = FinalOutput
          /\ returned' = "error"
      BY <1>12 DEF AbortExecution, FinishAgentRun, ctxVars, Continues, Last, Typed, Place
    <2>2. \A j \in 1..Len(results) : results[j].status = "failed" <=> j = Len(results)
      BY <2>1 DEF RoundInv, Failed
    <2>3. \A j \in 1..Len(results) : outputs[j] = "absent" <=> j = Len(results)
      BY <2>2 DEF RoundInv, Told, StepTold
    <2>4. \A j \in 1..Len(plan) : outputs[j] = "absent" <=> j >= Len(results)
      BY <2>3 DEF RoundInv, Ahead
    <2>5. Told' /\ Ahead' /\ Failed' /\ DegradedIsNoted'
      BY <2>1 DEF RoundInv, Told, StepTold, Ahead, Failed, DegradedIsNoted, Statuses
    <2>6. OutcomeIsEarned'
      <3>1. FinalOutput' = FinalOutput
        BY <2>1 DEF FinalOutput
      <3> QED
        BY <2>1, <2>2, <2>4, <3>1 DEF OutcomeIsEarned
    <2> QED
      BY <2>1, <2>5, <2>6 DEF RoundInv, Returned
  <1>13. CASE FinishExecution
    <2>1. /\ UNCHANGED <<plan, outputs, degraded, results>> /\ pc' = "idle"
          /\ Len(results) = Len(plan) /\ results[Len(results)].status # "failed"
          /\ written' => /\ run' = IF degraded THEN "partial_success" ELSE "completed"
                         /\ answer' = FinalOutput
          /\ returned' = "ok"
      BY <1>13 DEF FinishExecution, FinishAgentRun, ctxVars, Continues, Last
    <2>2. \A j \in 1..Len(results) : results[j].status # "failed"
      BY <2>1 DEF RoundInv, Failed
    <2>3. \A j \in 1..Len(plan) : plan[j].policy = "abort" => outputs[j] = "own"
      BY <2>1, <2>2 DEF RoundInv, Told, StepTold
    <2>4. written' => run' = IF "degraded" \in Statuses THEN "partial_success" ELSE "completed"
      BY <2>1 DEF RoundInv, DegradedIsNoted
    <2>5. Told' /\ Ahead' /\ Failed' /\ DegradedIsNoted' /\ Statuses' = Statuses
      BY <2>1 DEF RoundInv, Told, StepTold, Ahead, Failed, DegradedIsNoted, Statuses
    <2>6. OutcomeIsEarned'
      <3>1. FinalOutput' = FinalOutput
        BY <2>1 DEF FinalOutput
      <3> QED
        BY <2>1, <2>3, <2>4, <2>5, <3>1 DEF OutcomeIsEarned
    <2> QED
      BY <2>1, <2>5, <2>6 DEF RoundInv, Returned
  <1>14. CASE Crash
    <2>1. /\ results' = <<>> /\ outputs' = NoOutputs(plan)' /\ degraded' = FALSE
          /\ returned' = "none" /\ ~written'
      BY <1>14 DEF Crash, NoOutputs, RoundInv, Returned, runVars
    <2> QED
      BY <2>1, <1>e DEF RoundInv, Returned, OutcomeIsEarned
  <1>15. CASE UNCHANGED vars
    <2>1. UNCHANGED <<plan, pc, outputs, degraded, results, run, answer, returned, written>>
      BY <1>15 DEF vars, ctxVars, runVars
    <2> QED
      BY <2>1 DEF RoundInv, Told, StepTold, Ahead, Failed, DegradedIsNoted, Statuses,
                  Returned, OutcomeIsEarned, FinalOutput
  <1> QED
    BY <1>1, <1>2, <1>3, <1>4, <1>5, <1>6, <1>7, <1>8, <1>9, <1>10, <1>11, <1>12, <1>13, <1>14,
       <1>15 DEF Next

(* The inductive invariant of a round.                                      *)
THEOREM RoundInvariant == Spec => [](Typed /\ RoundInv)
  <1>1. Init => RoundInv
    BY NothingHasRun DEF Init, RoundInv, Returned, OutcomeIsEarned
  <1>2. RoundInv /\ Typed /\ [Next]_vars => RoundInv'
    BY RoundStep
  <1> QED
    BY <1>1, <1>2, TypedInvariant, PTL DEF Spec

(* The run's final status, when its UPDATE was applied, is the one its steps *)
(* earned, and the row holds what they left, after any number of rounds,    *)
(* crashes, lost UPDATEs and refused trace rows.                            *)
THEOREM StatusIsEarned == Spec => []OutcomeIsEarned
  <1>1. RoundInv => OutcomeIsEarned
    BY DEF RoundInv
  <1> QED
    BY <1>1, RoundInvariant, PTL

(* BuildInput never reads the output of a step that left none.              *)
THEOREM InputsAreThere == Spec => []InputsArePresent
  <1>1. RoundInv => InputsArePresent
    BY DEF RoundInv, Told, StepTold, Failed, InputsArePresent
  <1> QED
    BY <1>1, RoundInvariant, PTL

-----------------------------------------------------------------------------
(* The step row that a tool or LLM row will hang on is already written.     *)
RootWritten ==
    pc \in {"addTool", "addLLM"} =>
        \E s \in ToSet(steps) : s.round = round /\ s.step = Len(results)

(* recordStepTrace writes the step row first and gives up when it fails.    *)
LEMMA RootedStep ==
    ASSUME Typed, RootWritten, TraceIsRooted, [Next]_vars
    PROVE  RootWritten' /\ TraceIsRooted'
  <1>1. ContextOK /\ TraceOK /\ Place
    BY TypeParts DEF Typed
  <1>2. CASE AddStep
    <2>1. /\ steps' = Append(steps, StepRow) /\ pc = "addStep"
          /\ UNCHANGED <<results, round, toolCalls, llmCalls>>
      BY <1>2 DEF AddStep, StepRow, ctxVars
    <2>2. /\ StepRow \in [round : Nat, step : Nat, status : StepStatus]
          /\ StepRow.round = round /\ StepRow.step = Len(results)
      BY <1>1, <2>1, StepRowFacts
    <2>3. ToSet(steps') = ToSet(steps) \cup {StepRow}
      <3> DEFINE S == [round : Nat, step : Nat, status : StepStatus]
      <3>1. steps \in Seq(S) /\ StepRow \in S
        BY <1>1, <2>2 DEF TraceOK
      <3> HIDE DEF S
      <3>2. ToSet(Append(steps, StepRow)) = ToSet(steps) \cup {StepRow}
        BY <3>1, AppendedRow
      <3> QED
        BY <2>1, <3>2
    <2>4. TraceIsRooted'
      BY <2>1, <2>3 DEF TraceIsRooted
    <2>5. RootWritten'
      BY <2>1, <2>2, <2>3 DEF RootWritten
    <2> QED
      BY <2>4, <2>5
  <1>3. ASSUME NEW rows, NEW rows1, rows \in Seq([round : Nat, step : Nat]),
               pc \in {"addTool", "addLLM"},
               rows1 = Append(rows, Row) \/ rows1 = rows
        PROVE  \A r \in ToSet(rows1) :
                   r \in ToSet(rows) \/ \E s \in ToSet(steps) : s.round = r.round /\ s.step = r.step
    <2>1. Row \in [round : Nat, step : Nat] /\ Row.round = round /\ Row.step = Len(results)
      BY <1>1, <1>3, RowFacts
    <2>2. ToSet(rows1) \subseteq ToSet(rows) \cup {Row}
      <3> DEFINE S == [round : Nat, step : Nat]
      <3>1. rows \in Seq(S) /\ Row \in S
        BY <1>3, <2>1
      <3> HIDE DEF S
      <3>2. ToSet(Append(rows, Row)) = ToSet(rows) \cup {Row}
        BY <3>1, AppendedRow
      <3> QED
        BY <1>3, <3>2
    <2>3. \E s \in ToSet(steps) : s.round = Row.round /\ s.step = Row.step
      BY <1>3, <2>1 DEF RootWritten
    <2> QED
      BY <2>2, <2>3
  <1>4. CASE AddToolCall
    <2>1. /\ pc = "addTool" /\ UNCHANGED <<results, round, steps, llmCalls>>
          /\ toolCalls' = Append(toolCalls, Row) \/ toolCalls' = toolCalls
      BY <1>4 DEF AddToolCall, ctxVars
    <2>2. \A r \in ToSet(toolCalls') :
              r \in ToSet(toolCalls) \/ \E s \in ToSet(steps) : s.round = r.round /\ s.step = r.step
      BY <1>1, <1>3, <2>1 DEF TraceOK
    <2> QED
      BY <2>1, <2>2 DEF RootWritten, TraceIsRooted
  <1>5. CASE AddLLMCall
    <2>1. /\ pc = "addLLM" /\ UNCHANGED <<results, round, steps, toolCalls>>
          /\ llmCalls' = Append(llmCalls, Row) \/ llmCalls' = llmCalls
      BY <1>5 DEF AddLLMCall, ctxVars
    <2>2. \A r \in ToSet(llmCalls') :
              r \in ToSet(llmCalls) \/ \E s \in ToSet(steps) : s.round = r.round /\ s.step = r.step
      BY <1>1, <1>3, <2>1 DEF TraceOK
    <2> QED
      BY <2>1, <2>2 DEF RootWritten, TraceIsRooted
  <1>6. CASE \/ Start \/ ToolSucceeds \/ ToolFailsAndRetries \/ RetryDelay \/ ToolFailsForGood
             \/ ToolMissing \/ AddStepFails \/ NextStep \/ AbortExecution \/ FinishExecution \/ Crash
    <2>1. pc' \notin {"addTool", "addLLM"} /\ UNCHANGED traceVars
      BY <1>6 DEF Start, ToolSucceeds, ToolFailsAndRetries, RetryDelay, ToolFailsForGood,
                  ToolMissing, AddStepFails, NextStep, AbortExecution, FinishExecution, Crash
    <2> QED
      BY <2>1 DEF RootWritten, TraceIsRooted, traceVars
  <1>7. CASE UNCHANGED vars
    BY <1>7 DEF vars, ctxVars, traceVars, RootWritten, TraceIsRooted
  <1> QED
    BY <1>2, <1>4, <1>5, <1>6, <1>7 DEF Next

(* However often a run is executed again, and whichever rows MySQL refuses, *)
(* no tool or LLM row is left without its step row.                         *)
THEOREM TraceRowsAreRooted == Spec => []TraceIsRooted
  <1>1. Init => RootWritten /\ TraceIsRooted
    <2>1. ToSet(<<>>) = {}
      BY EmptySeq DEF ToSet
    <2> QED
      BY <2>1 DEF Init, RootWritten, TraceIsRooted
  <1>2. Typed /\ RootWritten /\ TraceIsRooted /\ [Next]_vars => RootWritten' /\ TraceIsRooted'
    BY RootedStep
  <1> QED
    BY <1>1, <1>2, TypedInvariant, PTL DEF Spec

-----------------------------------------------------------------------------
(* The steps whose LLM result the context holds.                            *)
WithLLM == {j \in Called : plan[j].llm /\ outputs[j] \in {"own", "fallback"}}

(* The step that just ended, while its row is still to be written.          *)
Due(places) == IF pc \in places THEN {Len(results)} ELSE {}

StatusTold == \A i \in OfRound(steps) : steps[i].status = results[steps[i].step].status

(* As long as no row is refused, the rows of this round are those of the    *)
(* steps that have run, but for the rows that Execute is about to write.    *)
TraceTold ==
    /\ InOrder(steps) /\ InOrder(toolCalls) /\ InOrder(llmCalls)
    /\ StepsOf(steps) = Called \ Due({"addStep"})
    /\ StepsOf(toolCalls) = Called \ Due({"addStep", "addTool"})
    /\ StepsOf(llmCalls) = WithLLM \ Due({"addStep", "addTool", "addLLM"})
    /\ StatusTold

(* No row is of a round that is yet to come.                                *)
Past(rows) == \A i \in 1..Len(rows) : rows[i].round <= round

NoFutureRows == Past(steps) /\ Past(toolCalls) /\ Past(llmCalls)

(* Rows are written only for a step that called its tool, and an LLM row    *)
(* only for one that has an LLM result.                                     *)
RowIsDue ==
    /\ pc \in {"addStep", "addTool", "addLLM"} => Len(results) \in Called
    /\ pc = "addLLM" => Len(results) \in WithLLM

Telling == traceFaults = 0 /\ (pc # "idle" \/ returned # "none")

TraceInv ==
    /\ NoFutureRows
    /\ RowIsDue
    /\ Telling => TraceTold

(* A row appended after the rows of smaller steps keeps the order.          *)
LEMMA RowAdded ==
    ASSUME NEW S, NEW rows \in Seq(S), NEW e \in S, e.round = round, e.step \in Nat,
           InOrder(rows), \A s \in StepsOf(rows) : s \in Nat /\ s < e.step
    PROVE  /\ InOrder(Append(rows, e))
           /\ StepsOf(Append(rows, e)) = StepsOf(rows) \cup {e.step}
           /\ OfRound(Append(rows, e)) = OfRound(rows) \cup {Len(rows) + 1}
  <1> DEFINE all == Append(rows, e)
             n == Len(rows)
  <1>1. /\ Len(all) = n + 1 /\ n \in Nat
        /\ \A i \in 1..n : all[i] = rows[i]
        /\ all[n + 1] = e
    BY AppendProperties, LenProperties
  <1>2. /\ OfRound(all) = {i \in 1..(n + 1) : all[i].round = round}
        /\ OfRound(rows) = {i \in 1..n : rows[i].round = round}
    BY <1>1 DEF OfRound
  <1> HIDE DEF all, n
  <1>3. OfRound(all) = OfRound(rows) \cup {n + 1}
    BY <1>1, <1>2
  <1>4. \A i \in OfRound(rows) : i \in 1..n /\ all[i] = rows[i]
    BY <1>1, <1>2
  <1>5. StepsOf(all) = StepsOf(rows) \cup {e.step}
    BY <1>1, <1>3, <1>4 DEF StepsOf
  <1>6. ASSUME NEW a \in OfRound(all), NEW b \in OfRound(all), a < b
        PROVE  all[a].step < all[b].step
    <2>1. CASE b \in OfRound(rows)
      <3>1. a \in OfRound(rows)
        BY <1>1, <1>3, <1>4, <1>6, <2>1
      <3> QED
        BY <1>4, <1>6, <2>1, <3>1 DEF InOrder
    <2>2. CASE b = n + 1
      <3>1. a \in OfRound(rows)
        BY <1>1, <1>3, <1>6, <2>2
      <3>2. rows[a].step \in StepsOf(rows)
        BY <3>1 DEF StepsOf
      <3> QED
        BY <1>1, <1>4, <2>2, <3>1, <3>2
    <2> QED
      BY <1>3, <2>1, <2>2
  <1>7. InOrder(all)
    BY <1>6 DEF InOrder
  <1> QED
    BY <1>1, <1>3, <1>4, <1>5, <1>7 DEF all, n

(* The row of this round is not of a round to come.                         *)
LEMMA PastAdded ==
    ASSUME NEW S, NEW rows \in Seq(S), NEW e \in S, e.round = round, round \in Nat, Past(rows)
    PROVE  Past(Append(rows, e))
  <1>1. /\ Len(Append(rows, e)) = Len(rows) + 1 /\ Len(rows) \in Nat
        /\ \A i \in 1..Len(rows) : Append(rows, e)[i] = rows[i]
        /\ Append(rows, e)[Len(rows) + 1] = e
    BY AppendProperties, LenProperties
  <1> QED
    BY <1>1 DEF Past

(* No row of a round to come is there: when a round begins it has no rows.  *)
LEMMA NoRowsYet ==
    ASSUME NEW S, NEW rows \in Seq(S), Past(rows), round \in Nat, round' = round + 1,
           \A r \in S : r.round \in Nat
    PROVE  {i \in 1..Len(rows) : rows[i].round = round'} = {}
  <1>1. \A i \in 1..Len(rows) : rows[i].round \in Nat
    BY ElementOfSeq
  <1> QED
    BY <1>1 DEF Past

(* The steps that called their tool are among those that ran.               *)
LEMMA CalledFacts ==
    ASSUME Typed
    PROVE  /\ Len(results) \in Nat /\ Len(results) <= Len(plan) /\ Len(plan) \in Nat
           /\ \A j \in Called : j \in Nat /\ j <= Len(results) /\ j >= 1
           /\ WithLLM \subseteq Called
           /\ round \in Nat
  <1>1. round \in Nat
    BY PlansAssumption DEF Typed, TypeOK
  <1> QED
    BY <1>1, RoundFacts DEF Called, WithLLM

(* What is told of the trace stays told while neither the trace nor the     *)
(* results change and no row becomes due or is given up.                    *)
LEMMA TraceStays ==
    ASSUME UNCHANGED <<plan, round, traceVars, outputs, results, traceFaults>>,
           Telling, TraceTold,
           pc \notin {"addStep", "addTool", "addLLM"},
           pc' \notin {"addStep", "addTool", "addLLM"}
    PROVE  TraceTold'
  <1>1. /\ InOrder(steps)' = InOrder(steps) /\ InOrder(toolCalls)' = InOrder(toolCalls)
        /\ InOrder(llmCalls)' = InOrder(llmCalls)
        /\ StepsOf(steps)' = StepsOf(steps) /\ StepsOf(toolCalls)' = StepsOf(toolCalls)
        /\ StepsOf(llmCalls)' = StepsOf(llmCalls)
        /\ StatusTold' = StatusTold
    BY DEF InOrder, StepsOf, OfRound, StatusTold, traceVars
  <1>2. Called' = Called /\ WithLLM' = WithLLM
    BY DEF Called, WithLLM
  <1> QED
    BY <1>1, <1>2 DEF TraceTold, Due

(* The end of a step adds it to those that called their tool, if it did,    *)
(* and its row becomes due.                                                 *)
LEMMA TraceOfStep ==
    ASSUME Typed, RoundInv, TraceInv, NEW s, NEW n, NEW o, StepRan(s, n, o),
           n > 0 <=> pc' = "addStep",
           UNCHANGED <<round, traceVars, traceFaults>>
    PROVE  TraceInv'
  <1>0. /\ Len(plan) \in Nat /\ Len(results) \in Nat /\ Len(results) < Len(plan)
        /\ results \in Seq(ResultType)
        /\ outputs \in [1..Len(plan) -> {"absent", "own", "fallback", "empty"}]
    BY RoundFacts DEF Typed, Place, StepRan
  <1> DEFINE k == Len(results) + 1
  <1>1. /\ Len(results') = k /\ k \in 1..Len(plan)
        /\ \A j \in 1..Len(results) : results'[j] = results[j]
        /\ results'[k].attempts = n /\ n \in Nat
    BY <1>0, ResultEffect DEF StepRan
  <1>2. \A j \in 1..Len(plan) : j # k => outputs'[j] = outputs[j]
    BY <1>0, <1>1 DEF StepRan
  <1>3. /\ pc = "step" /\ pc' \in {"addStep", "next"} /\ plan' = plan /\ returned' = returned
        /\ 1..Len(results') = 1..Len(results) \cup {k} /\ k \notin 1..Len(results)
        /\ 1..Len(results) \subseteq 1..Len(plan)
    BY <1>0, <1>1 DEF StepRan
  <1>4. Called' = IF n > 0 THEN Called \cup {k} ELSE Called
    <2>1. Called' = {j \in 1..Len(results') : results'[j].attempts > 0}
      BY DEF Called
    <2> HIDE DEF k
    <2>2. Called' = {j \in 1..Len(results) : results[j].attempts > 0}
                        \cup {j \in {k} : results'[j].attempts > 0}
      BY <2>1, <1>1, <1>3
    <2> QED
      BY <2>2, <1>1 DEF Called
  <1>5. Called \subseteq 1..Len(results)
    BY DEF Called
  <1>6. WithLLM' \ {k} = WithLLM
    <2>1. WithLLM' = {j \in Called' : plan'[j].llm /\ outputs'[j] \in {"own", "fallback"}}
      BY DEF WithLLM
    <2> HIDE DEF k
    <2> QED
      BY <2>1, <1>2, <1>3, <1>4, <1>5 DEF WithLLM
  <1>7. NoFutureRows'
    BY DEF TraceInv, NoFutureRows, Past, traceVars
  <1>8. RowIsDue'
    <2> HIDE DEF k
    <2> QED
      BY <1>1, <1>3, <1>4 DEF RowIsDue
  <1>9. ASSUME Telling' PROVE TraceTold'
    <2>1. Telling /\ TraceTold
      BY <1>3, <1>9 DEF Telling, TraceInv
    <2>2. /\ StepsOf(steps) = Called /\ StepsOf(toolCalls) = Called /\ StepsOf(llmCalls) = WithLLM
      BY <1>3, <2>1 DEF TraceTold, Due
    <2>3. /\ StepsOf(steps)' = StepsOf(steps) /\ StepsOf(toolCalls)' = StepsOf(toolCalls)
          /\ StepsOf(llmCalls)' = StepsOf(llmCalls) /\ OfRound(steps)' = OfRound(steps)
          /\ InOrder(steps)' /\ InOrder(toolCalls)' /\ InOrder(llmCalls)'
      BY <2>1 DEF TraceTold, InOrder, StepsOf, OfRound, traceVars
    <2>4. StatusTold'
      <3>1. \A i \in OfRound(steps) : steps[i].step \in Called
        BY <2>2 DEF StepsOf
      <3>2. \A i \in OfRound(steps) : steps[i].status = results'[steps[i].step].status
        BY <1>1, <1>5, <2>1, <3>1 DEF TraceTold, StatusTold
      <3> QED
        BY <2>3, <3>2 DEF StatusTold, traceVars
    <2>5. /\ Due({"addStep"})' = IF n > 0 THEN {k} ELSE {}
          /\ Due({"addStep", "addTool"})' = IF n > 0 THEN {k} ELSE {}
          /\ Due({"addStep", "addTool", "addLLM"})' = IF n > 0 THEN {k} ELSE {}
      BY <1>1, <1>3 DEF Due
    <2>6. /\ Called' \ Due({"addStep"})' = Called
          /\ Called' \ Due({"addStep", "addTool"})' = Called
      <3> HIDE DEF k
      <3> QED
        BY <1>3, <1>4, <1>5, <2>5
    <2>7. WithLLM' \ Due({"addStep", "addTool", "addLLM"})' = WithLLM
      <3>1. n > 0 \/ k \notin WithLLM'
        BY <1>1, <1>3, <1>4, <1>5 DEF WithLLM
      <3> HIDE DEF k
      <3> QED
        BY <1>6, <2>5, <3>1
    <2> HIDE DEF k
    <2> QED
      BY <2>2, <2>3, <2>4, <2>6, <2>7 DEF TraceTold
  <1> QED
    BY <1>7, <1>8, <1>9 DEF TraceInv

(* A refused row ends the telling; nothing else is claimed then.            *)
LEMMA TraceRefused ==
    ASSUME Typed, RoundInv, TraceInv, TraceFault, pc # "idle",
           UNCHANGED <<plan, outputs, results, returned, round, traceVars>>,
           pc' \notin {"addStep", "addTool", "addLLM"}
           \/ (pc = "addTool" /\ pc' = "addLLM" /\ HasLLMResult)
    PROVE  TraceInv'
  <1>1. traceFaults \in Nat /\ traceFaults' = traceFaults + 1
    BY PlansAssumption DEF TraceFault, Typed, TypeOK
  <1>2. ~ Telling'
    BY <1>1 DEF Telling
  <1>3. NoFutureRows'
    BY DEF TraceInv, NoFutureRows, Past, traceVars
  <1>4. Called' = Called /\ WithLLM' = WithLLM
    BY DEF Called, WithLLM
  <1>5. RowIsDue'
    BY <1>4 DEF TraceInv, RowIsDue, WithLLM, HasLLMResult, Current, Def
  <1> QED
    BY <1>2, <1>3, <1>5 DEF TraceInv

(* Every step of Execute and every crash keep the trace told.               *)
LEMMA TraceToldStep ==
    ASSUME Typed, RoundInv, TraceInv, [Next]_vars
    PROVE  TraceInv'
  <1>0. ContextOK /\ TraceOK /\ Place
    BY TypeParts DEF Typed
  <1>k. /\ Len(results) \in Nat /\ Len(results) <= Len(plan) /\ Len(plan) \in Nat
        /\ \A j \in Called : j \in Nat /\ j <= Len(results) /\ j >= 1
        /\ WithLLM \subseteq Called
        /\ round \in Nat
    BY CalledFacts
  <1> DEFINE k == Len(results)
  <1>1. CASE Start
    <2>1. /\ round' = round + 1 /\ UNCHANGED traceVars /\ results' = <<>>
          /\ pc' = "step" /\ returned' = "none"
      BY <1>1 DEF Start
    <2>2. OfRound(steps)' = {} /\ OfRound(toolCalls)' = {} /\ OfRound(llmCalls)' = {}
      <3>1. Past(steps) /\ Past(toolCalls) /\ Past(llmCalls)
        BY DEF TraceInv, NoFutureRows
      <3>2. {i \in 1..Len(steps) : steps[i].round = round'} = {}
        <4> DEFINE S == [round : Nat, step : Nat, status : StepStatus]
        <4>1. steps \in Seq(S) /\ \A r \in S : r.round \in Nat
          BY <1>0 DEF TraceOK
        <4> HIDE DEF S
        <4> QED
          BY <1>k, <2>1, <3>1, <4>1, NoRowsYet
      <3>3. /\ {i \in 1..Len(toolCalls) : toolCalls[i].round = round'} = {}
            /\ {i \in 1..Len(llmCalls) : llmCalls[i].round = round'} = {}
        <4> DEFINE S == [round : Nat, step : Nat]
        <4>1. toolCalls \in Seq(S) /\ llmCalls \in Seq(S) /\ \A r \in S : r.round \in Nat
          BY <1>0 DEF TraceOK
        <4> HIDE DEF S
        <4> QED
          BY <1>k, <2>1, <3>1, <4>1, NoRowsYet
      <3> QED
        BY <2>1, <3>2, <3>3 DEF OfRound, traceVars
    <2>3. Called' = {} /\ WithLLM' = {}
      BY <2>1 DEF Called, WithLLM
    <2>4. TraceTold'
      BY <2>1, <2>2, <2>3 DEF TraceTold, InOrder, StepsOf, StatusTold, Due
    <2>5. NoFutureRows'
      <3>1. /\ \A i \in 1..Len(steps) : steps[i].round \in Nat
            /\ \A i \in 1..Len(toolCalls) : toolCalls[i].round \in Nat
            /\ \A i \in 1..Len(llmCalls) : llmCalls[i].round \in Nat
        <4>1. \A r \in [round : Nat, step : Nat, status : StepStatus] : r.round \in Nat
          OBVIOUS
        <4>2. \A r \in [round : Nat, step : Nat] : r.round \in Nat
          OBVIOUS
        <4> QED
          BY <1>0, <4>1, <4>2, ElementOfSeq DEF TraceOK
      <3> QED
        BY <1>k, <2>1, <3>1 DEF TraceInv, NoFutureRows, Past, traceVars
    <2> QED
      BY <2>1, <2>4, <2>5 DEF TraceInv, RowIsDue
  <1>2. CASE ToolSucceeds
    <2>1. /\ Current = Len(results) + 1 /\ pc = "step" /\ pc' = "addStep" /\ tries \in Nat
          /\ UNCHANGED <<plan, degraded, returned, written, round, traceVars, traceFaults>>
          /\ outputs' = [outputs EXCEPT ![Len(results) + 1] = "own"]
          /\ Result("completed", tries + 1)
      BY <1>0, <1>2 DEF ToolSucceeds, Current, ContextOK, runVars
    <2>2. StepRan("completed", tries + 1, "own")
      BY <1>0, <2>1 DEF StepRan, StepStatus, ContextOK
    <2> QED
      BY <2>1, <2>2, TraceOfStep
  <1>3. CASE ToolFailsAndRetries \/ RetryDelay \/ NextStep
    <2>1. /\ UNCHANGED <<plan, round, traceVars, outputs, results, traceFaults, returned>>
          /\ pc \in {"step", "sleep", "next"} /\ pc' \in {"step", "sleep"}
      BY <1>3 DEF ToolFailsAndRetries, RetryDelay, NextStep
    <2>2. returned = "none"
      BY <2>1 DEF RoundInv, Returned
    <2>3. Telling' => Telling
      BY <2>1 DEF Telling
    <2>4. Telling' => TraceTold'
      BY <2>1, <2>3, TraceStays DEF TraceInv
    <2> QED
      BY <2>1, <2>2, <2>4 DEF TraceInv, RowIsDue, NoFutureRows, Past, traceVars
  <1>4. CASE ToolFailsForGood \/ ToolMissing
    <2>1. \E n \in Nat :
             /\ HandleStepFailure(n) /\ pc = "step" /\ pc' \in {"addStep", "next"}
             /\ n > 0 <=> pc' = "addStep"
             /\ UNCHANGED <<plan, returned, written, round, traceVars, traceFaults>>
      <3>1. tries \in Nat
        BY <1>0 DEF ContextOK
      <3>2. CASE ToolFailsForGood
        BY <3>1, <3>2 DEF ToolFailsForGood, runVars
      <3>3. CASE ToolMissing
        BY <3>3 DEF ToolMissing, runVars
      <3> QED
        BY <1>4, <3>2, <3>3
    <2>2. PICK n \in Nat :
             /\ HandleStepFailure(n) /\ pc = "step" /\ pc' \in {"addStep", "next"}
             /\ n > 0 <=> pc' = "addStep"
             /\ UNCHANGED <<plan, returned, written, round, traceVars, traceFaults>>
      BY <2>1
    <2>3. Current = Len(results) + 1 /\ Def = plan[Len(results) + 1] /\ Def.policy \in Policy
      BY <1>0, <1>k, <2>2, PlanFacts DEF Current, Def, ContextOK, Place
    <2>4. /\ StatusAfter(Def) \in StepStatus
          /\ StatusAfter(Def) = "completed" <=> OutputAfter(Def) = "own"
          /\ StatusAfter(Def) = "failed" <=> OutputAfter(Def) = "absent"
          /\ Def.policy = "abort" => StatusAfter(Def) \in {"completed", "failed"}
          /\ Degrades(Def) <=> StatusAfter(Def) = "degraded"
      BY <2>3 DEF StatusAfter, OutputAfter, StepStatus, Policy, Degrades
    <2>5. degraded' = (degraded \/ StatusAfter(Def) = "degraded")
      BY <2>2, <2>4 DEF HandleStepFailure
    <2>6. StepRan(StatusAfter(Def), n, OutputAfter(Def))
      BY <2>2, <2>3, <2>4, <2>5 DEF HandleStepFailure, StepRan
    <2> QED
      BY <2>2, <2>6, TraceOfStep
  <1>5. CASE AddStep
    <2>1. /\ pc = "addStep" /\ pc' = "addTool" /\ steps' = Append(steps, StepRow)
          /\ UNCHANGED <<plan, outputs, results, returned, round, toolCalls, llmCalls, traceFaults>>
      BY <1>5 DEF AddStep, StepRow, ctxVars, runVars
    <2>2. /\ StepRow \in [round : Nat, step : Nat, status : StepStatus]
          /\ StepRow.round = round /\ StepRow.step = k /\ StepRow.status = results[k].status
      BY <1>0, <2>1, StepRowFacts DEF StepRow, Last
    <2>3. k \in Called /\ returned = "none"
      BY <2>1 DEF TraceInv, RowIsDue, RoundInv, Returned
    <2>4. Past(steps)'
      <3> DEFINE S == [round : Nat, step : Nat, status : StepStatus]
      <3>1. steps \in Seq(S) /\ StepRow \in S /\ Past(steps)
        BY <1>0, <2>2 DEF TraceOK, TraceInv, NoFutureRows
      <3> HIDE DEF S
      <3>2. Past(Append(steps, StepRow))
        BY <1>k, <2>2, <3>1, PastAdded
      <3> QED
        BY <2>1, <3>2 DEF Past
    <2>5. Called' = Called /\ WithLLM' = WithLLM
      BY <2>1 DEF Called, WithLLM
    <2>6. ASSUME Telling' PROVE TraceTold'
      <3>1. Telling /\ TraceTold
        BY <2>1, <2>6 DEF Telling, TraceInv
      <3>2. InOrder(steps) /\ StepsOf(steps) = Called \ {k}
        BY <2>1, <3>1 DEF TraceTold, Due
      <3>3. /\ InOrder(Append(steps, StepRow))
            /\ StepsOf(Append(steps, StepRow)) = StepsOf(steps) \cup {k}
            /\ OfRound(Append(steps, StepRow)) = OfRound(steps) \cup {Len(steps) + 1}
            /\ Append(steps, StepRow)[Len(steps) + 1] = StepRow
            /\ \A i \in OfRound(steps) : Append(steps, StepRow)[i] = steps[i]
        <4> DEFINE S == [round : Nat, step : Nat, status : StepStatus]
        <4>1. steps \in Seq(S) /\ StepRow \in S
          BY <1>0, <2>2 DEF TraceOK
        <4> HIDE DEF S
        <4>2. \A s \in StepsOf(steps) : s \in Nat /\ s < k
          BY <1>k, <3>2
        <4>3. /\ StepRow.round = round /\ StepRow.step = k /\ StepRow.step \in Nat
              /\ \A s \in StepsOf(steps) : s \in Nat /\ s < StepRow.step
          BY <1>k, <2>2, <4>2
        <4> HIDE DEF k
        <4>4. /\ InOrder(Append(steps, StepRow))
              /\ StepsOf(Append(steps, StepRow)) = StepsOf(steps) \cup {StepRow.step}
          BY <3>2, <4>1, <4>3, RowAdded
        <4>5. OfRound(Append(steps, StepRow)) = OfRound(steps) \cup {Len(steps) + 1}
          BY <3>2, <4>1, <4>3, RowAdded
        <4>6. Append(steps, StepRow)[Len(steps) + 1] = StepRow
          BY <4>1, AppendProperties
        <4>7. \A i \in OfRound(steps) : Append(steps, StepRow)[i] = steps[i]
          <5>1. \A i \in 1..Len(steps) : Append(steps, StepRow)[i] = steps[i]
            BY <4>1, AppendProperties
          <5> QED
            BY <5>1 DEF OfRound
        <4> QED
          BY <4>3, <4>4, <4>5, <4>6, <4>7
      <3>4. /\ InOrder(steps)' = InOrder(Append(steps, StepRow))
            /\ StepsOf(steps)' = StepsOf(Append(steps, StepRow))
            /\ OfRound(steps)' = OfRound(Append(steps, StepRow))
        BY <2>1 DEF InOrder, StepsOf, OfRound
      <3>5. /\ InOrder(toolCalls)' = InOrder(toolCalls) /\ InOrder(llmCalls)' = InOrder(llmCalls)
            /\ StepsOf(toolCalls)' = StepsOf(toolCalls) /\ StepsOf(llmCalls)' = StepsOf(llmCalls)
        BY <2>1 DEF InOrder, StepsOf, OfRound
      <3>6. StatusTold'
        <4>1. \A i \in OfRound(steps) : steps[i].status = results[steps[i].step].status
          BY <3>1 DEF TraceTold, StatusTold
        <4>2. \A i \in OfRound(steps)' : steps'[i] = Append(steps, StepRow)[i]
          BY <2>1
        <4>3. \A i \in OfRound(steps)' : steps'[i].status = results[steps'[i].step].status
          <5> SUFFICES ASSUME NEW i \in OfRound(steps)'
                       PROVE  steps'[i].status = results[steps'[i].step].status
            OBVIOUS
          <5>1. steps'[i] = Append(steps, StepRow)[i]
            BY <4>2
          <5>2. CASE i \in OfRound(steps)
            <6>1. steps'[i] = steps[i]
              BY <3>3, <5>1, <5>2
            <6> QED
              BY <4>1, <5>2, <6>1
          <5>3. CASE i = Len(steps) + 1
            <6>1. steps'[i] = StepRow
              BY <3>3, <5>1, <5>3
            <6> QED
              BY <2>2, <6>1
          <5> QED
            BY <3>3, <3>4, <5>2, <5>3
        <4> QED
          BY <2>1, <4>3 DEF StatusTold
      <3>7. Due({"addStep"})' = {} /\ Due({"addStep", "addTool"})' = {k}
            /\ Due({"addStep", "addTool", "addLLM"})' = {k}
            /\ Due({"addStep", "addTool"}) = {k} /\ Due({"addStep", "addTool", "addLLM"}) = {k}
        BY <2>1 DEF Due
      <3>8. StepsOf(steps)' = Called
        BY <2>3, <3>2, <3>3, <3>4
      <3> QED
        BY <2>5, <3>1, <3>3, <3>4, <3>5, <3>6, <3>7, <3>8 DEF TraceTold
    <2> QED
      BY <2>1, <2>3, <2>4, <2>5, <2>6 DEF TraceInv, RowIsDue, NoFutureRows, Past
  <1>6. CASE AddStepFails
    <2>1. /\ pc = "addStep" /\ pc' = "next" /\ TraceFault
          /\ UNCHANGED <<plan, outputs, results, returned, round, traceVars>>
      BY <1>6 DEF AddStepFails, ctxVars
    <2> QED
      BY <2>1, TraceRefused
  <1>w. ASSUME NEW rows \in Seq([round : Nat, step : Nat]), InOrder(rows), pc \in {"addTool", "addLLM"},
               NEW T, k \in T, StepsOf(rows) = T \ {k}, T \subseteq Called
        PROVE  /\ InOrder(Append(rows, Row)) /\ StepsOf(Append(rows, Row)) = T
    <2> DEFINE S == [round : Nat, step : Nat]
    <2>1. Row \in S /\ Row.round = round /\ Row.step = k
      BY <1>0, <1>w, RowFacts
    <2>2. rows \in Seq(S)
      BY <1>w
    <2> HIDE DEF S
    <2>3. \A s \in StepsOf(rows) : s \in Nat /\ s < k
      BY <1>k, <1>w
    <2>4. /\ InOrder(Append(rows, Row))
          /\ StepsOf(Append(rows, Row)) = StepsOf(rows) \cup {k}
      BY <1>k, <1>w, <2>1, <2>2, <2>3, RowAdded
    <2> QED
      BY <1>w, <2>4
  <1>p. ASSUME NEW rows \in Seq([round : Nat, step : Nat]), Past(rows), pc \in {"addTool", "addLLM"}
        PROVE  Past(Append(rows, Row))
    <2> DEFINE S == [round : Nat, step : Nat]
    <2>1. Row \in S /\ Row.round = round /\ rows \in Seq(S)
      BY <1>0, <1>p, RowFacts
    <2> HIDE DEF S
    <2> QED
      BY <1>k, <1>p, <2>1, PastAdded
  <1>7. CASE AddToolCall
    <2>1. /\ pc = "addTool" /\ pc' = IF HasLLMResult THEN "addLLM" ELSE "next"
          /\ UNCHANGED <<plan, outputs, results, returned, round, steps, llmCalls>>
      BY <1>7 DEF AddToolCall, ctxVars, runVars
    <2>2. CASE TraceFault /\ UNCHANGED toolCalls
      BY <2>1, <2>2, TraceRefused DEF traceVars
    <2>3. CASE toolCalls' = Append(toolCalls, Row) /\ UNCHANGED traceFaults
      <3>1. k \in Called /\ returned = "none" /\ toolCalls \in Seq([round : Nat, step : Nat])
        BY <1>0, <2>1 DEF TraceInv, RowIsDue, RoundInv, Returned, TraceOK
      <3>2. k \in WithLLM <=> HasLLMResult
        BY <2>1, <3>1 DEF WithLLM, HasLLMResult, Current, Def
      <3>3. Called' = Called /\ WithLLM' = WithLLM
        BY <2>1 DEF Called, WithLLM
      <3>4. NoFutureRows'
        <4>1. Past(Append(toolCalls, Row))
          BY <1>p, <2>1, <3>1 DEF TraceInv, NoFutureRows
        <4> QED
          BY <2>1, <2>3, <4>1 DEF TraceInv, NoFutureRows, Past
      <3>5. ASSUME Telling' PROVE TraceTold'
        <4>1. Telling /\ TraceTold
          BY <2>1, <2>3, <3>5 DEF Telling, TraceInv
        <4>2. /\ InOrder(toolCalls) /\ StepsOf(toolCalls) = Called \ {k}
              /\ StepsOf(llmCalls) = WithLLM \ {k} /\ StepsOf(steps) = Called
          BY <2>1, <4>1 DEF TraceTold, Due
        <4>3. InOrder(Append(toolCalls, Row)) /\ StepsOf(Append(toolCalls, Row)) = Called
          BY <1>w, <2>1, <3>1, <4>2
        <4>4. InOrder(toolCalls)' /\ StepsOf(toolCalls)' = Called
          BY <2>1, <2>3, <4>3 DEF InOrder, StepsOf, OfRound
        <4>5. /\ InOrder(steps)' = InOrder(steps) /\ InOrder(llmCalls)' = InOrder(llmCalls)
              /\ StepsOf(steps)' = StepsOf(steps) /\ StepsOf(llmCalls)' = StepsOf(llmCalls)
              /\ StatusTold' = StatusTold
          BY <2>1 DEF InOrder, StepsOf, OfRound, StatusTold
        <4>6. /\ Due({"addStep"})' = {} /\ Due({"addStep", "addTool"})' = {}
              /\ Due({"addStep", "addTool", "addLLM"})' = IF k \in WithLLM THEN {k} ELSE {}
          BY <2>1, <3>2 DEF Due
        <4>7. WithLLM \ Due({"addStep", "addTool", "addLLM"})' = WithLLM \ {k}
          BY <4>6
        <4> QED
          BY <3>3, <4>1, <4>2, <4>4, <4>5, <4>6, <4>7 DEF TraceTold
      <3> QED
        BY <2>1, <3>1, <3>2, <3>3, <3>4, <3>5 DEF TraceInv, RowIsDue
    <2> QED
      BY <1>7, <2>2, <2>3 DEF AddToolCall
  <1>8. CASE AddLLMCall
    <2>1. /\ pc = "addLLM" /\ pc' = "next"
          /\ UNCHANGED <<plan, outputs, results, returned, round, steps, toolCalls>>
      BY <1>8 DEF AddLLMCall, ctxVars, runVars
    <2>2. CASE TraceFault /\ UNCHANGED llmCalls
      BY <2>1, <2>2, TraceRefused DEF traceVars
    <2>3. CASE llmCalls' = Append(llmCalls, Row) /\ UNCHANGED traceFaults
      <3>1. k \in WithLLM /\ returned = "none" /\ llmCalls \in Seq([round : Nat, step : Nat])
        BY <1>0, <2>1 DEF TraceInv, RowIsDue, RoundInv, Returned, TraceOK
      <3>3. Called' = Called /\ WithLLM' = WithLLM
        BY <2>1 DEF Called, WithLLM
      <3>4. NoFutureRows'
        <4>1. Past(Append(llmCalls, Row))
          BY <1>p, <2>1, <3>1 DEF TraceInv, NoFutureRows
        <4> QED
          BY <2>1, <2>3, <4>1 DEF TraceInv, NoFutureRows, Past
      <3>5. ASSUME Telling' PROVE TraceTold'
        <4>1. Telling /\ TraceTold
          BY <2>1, <2>3, <3>5 DEF Telling, TraceInv
        <4>2. /\ InOrder(llmCalls) /\ StepsOf(toolCalls) = Called
              /\ StepsOf(llmCalls) = WithLLM \ {k} /\ StepsOf(steps) = Called
          BY <2>1, <4>1 DEF TraceTold, Due
        <4>3. InOrder(Append(llmCalls, Row)) /\ StepsOf(Append(llmCalls, Row)) = WithLLM
          BY <1>k, <1>w, <2>1, <3>1, <4>2
        <4>4. InOrder(llmCalls)' /\ StepsOf(llmCalls)' = WithLLM
          BY <2>1, <2>3, <4>3 DEF InOrder, StepsOf, OfRound
        <4>5. /\ InOrder(steps)' = InOrder(steps) /\ InOrder(toolCalls)' = InOrder(toolCalls)
              /\ StepsOf(steps)' = StepsOf(steps) /\ StepsOf(toolCalls)' = StepsOf(toolCalls)
              /\ StatusTold' = StatusTold
          BY <2>1 DEF InOrder, StepsOf, OfRound, StatusTold
        <4>6. /\ Due({"addStep"})' = {} /\ Due({"addStep", "addTool"})' = {}
              /\ Due({"addStep", "addTool", "addLLM"})' = {}
          BY <2>1 DEF Due
        <4> QED
          BY <3>3, <4>1, <4>2, <4>4, <4>5, <4>6 DEF TraceTold
      <3> QED
        BY <2>1, <3>1, <3>4, <3>5 DEF TraceInv, RowIsDue
    <2> QED
      BY <1>8, <2>2, <2>3 DEF AddLLMCall
  <1>9. CASE AbortExecution \/ FinishExecution
    <2>1. /\ UNCHANGED <<plan, round, traceVars, outputs, results, traceFaults>>
          /\ pc = "next" /\ pc' = "idle"
      BY <1>9 DEF AbortExecution, FinishExecution, ctxVars
    <2>2. Telling' => Telling
      BY <2>1 DEF Telling
    <2>3. Telling' => TraceTold'
      BY <2>1, <2>2, TraceStays DEF TraceInv
    <2> QED
      BY <2>1, <2>3 DEF TraceInv, RowIsDue, NoFutureRows, Past, traceVars
  <1>10. CASE Crash
    <2>1. pc' = "idle" /\ UNCHANGED <<round, traceVars>> /\ returned' = "none"
      BY <1>10 DEF Crash, RoundInv, Returned
    <2> QED
      BY <2>1 DEF TraceInv, Telling, RowIsDue, NoFutureRows, Past, traceVars
  <1>11. CASE UNCHANGED vars
    <2>1. UNCHANGED <<plan, pc, round, steps, toolCalls, llmCalls, outputs, results, traceFaults,
                      returned>>
      BY <1>11 DEF vars, ctxVars, runVars, traceVars
    <2>2. Called' = Called /\ WithLLM' = WithLLM
      BY <2>1 DEF Called, WithLLM
    <2>3. NoFutureRows' /\ RowIsDue' /\ Telling' = Telling
      BY <2>1, <2>2 DEF TraceInv, NoFutureRows, Past, RowIsDue, Telling
    <2>4. TraceTold' = TraceTold
      <3>1. /\ InOrder(steps)' = InOrder(steps) /\ InOrder(toolCalls)' = InOrder(toolCalls)
            /\ InOrder(llmCalls)' = InOrder(llmCalls)
            /\ StepsOf(steps)' = StepsOf(steps) /\ StepsOf(toolCalls)' = StepsOf(toolCalls)
            /\ StepsOf(llmCalls)' = StepsOf(llmCalls)
            /\ StatusTold' = StatusTold
        BY <2>1 DEF InOrder, StepsOf, OfRound, StatusTold
      <3>2. \A places : Due(places)' = Due(places)
        BY <2>1 DEF Due
      <3> QED
        BY <2>2, <3>1, <3>2 DEF TraceTold
    <2> QED
      BY <2>3, <2>4 DEF TraceInv
  <1> QED
    BY <1>1, <1>2, <1>3, <1>4, <1>5, <1>6, <1>7, <1>8, <1>9, <1>10, <1>11 DEF Next

(* The inductive invariant of the trace.                                    *)
THEOREM TraceInvariant == Spec => [](Typed /\ RoundInv /\ TraceInv)
  <1>1. Init => TraceInv
    <2> SUFFICES ASSUME Init PROVE TraceInv
      OBVIOUS
    <2>1. steps = <<>> /\ toolCalls = <<>> /\ llmCalls = <<>> /\ pc = "idle" /\ returned = "none"
      BY DEF Init
    <2> QED
      BY <2>1 DEF TraceInv, NoFutureRows, Past, RowIsDue, Telling
  <1>2. TraceInv /\ Typed /\ RoundInv /\ [Next]_vars => TraceInv'
    BY TraceToldStep
  <1> QED
    BY <1>1, <1>2, RoundInvariant, PTL DEF Spec

(* The trace of a round that ended is the story the run tells of it, as     *)
(* long as MySQL refused none of its rows.                                  *)
THEOREM TraceTellsTheRound == Spec => []TraceMatchesResults
  <1>1. Typed /\ RoundInv /\ TraceInv => TraceMatchesResults
    <2> SUFFICES ASSUME Typed, RoundInv, TraceInv, traceFaults = 0, returned # "none"
                 PROVE  /\ InOrder(steps) /\ InOrder(toolCalls) /\ InOrder(llmCalls)
                        /\ StepsOf(steps) = Called /\ StepsOf(toolCalls) = Called
                        /\ \A i \in OfRound(steps) : steps[i].status = results[steps[i].step].status
                        /\ StepsOf(llmCalls) = {j \in Called : plan[j].llm /\ j \in FinalOutput}
      BY DEF TraceMatchesResults
    <2>1. Telling /\ TraceTold /\ pc = "idle"
      BY DEF TraceInv, Telling, RoundInv, Returned
    <2>2. \A places : pc \notin places => Due(places) = {}
      BY DEF Due
    <2>3. /\ StepsOf(steps) = Called /\ StepsOf(toolCalls) = Called /\ StepsOf(llmCalls) = WithLLM
      BY <2>1, <2>2 DEF TraceTold
    <2>4. Called \subseteq 1..Len(plan)
      BY CalledFacts
    <2>5. WithLLM = {j \in Called : plan[j].llm /\ j \in FinalOutput}
      BY <2>1, <2>4 DEF WithLLM, FinalOutput
    <2> QED
      BY <2>1, <2>3, <2>5 DEF TraceTold, StatusTold
  <1> QED
    BY <1>1, TraceInvariant, PTL

-----------------------------------------------------------------------------
(* Every nonempty set of naturals has a least member: the intervals 0..n of *)
(* its members, ordered by strict inclusion, have a minimal one.            *)
LEMMA LeastNumber ==
    ASSUME NEW T, T \subseteq Nat, T # {}
    PROVE  \E n \in T : \A m \in T : n <= m
  <1> DEFINE upTo(n) == 0..n
             F == {upTo(n) : n \in T}
             R == StrictSubsetOrdering(Nat)
  <1>1. F \subseteq FiniteSubsetsOf(Nat) /\ F # {}
    <2>1. ASSUME NEW n \in T PROVE upTo(n) \in FiniteSubsetsOf(Nat)
      <3>1. n \in Int /\ 0 \in Int /\ 0..n \in SUBSET Nat
        OBVIOUS
      <3>2. IsFiniteSet(0..n)
        BY <3>1, FS_Interval
      <3> QED
        BY <3>1, <3>2 DEF FiniteSubsetsOf
    <2> QED
      BY <2>1
  <1>2. IsWellFoundedOn(R, FiniteSubsetsOf(Nat))
    BY FS_StrictSubsetOrderingWellFounded
  <1> HIDE DEF F, R
  <1>3. PICK X \in F : \A Y \in F : ~ (<<Y, X>> \in R)
    BY <1>1, <1>2, WFMin
  <1>4. PICK n \in T : X = upTo(n)
    BY DEF F
  <1>5. ASSUME NEW m \in T, m < n PROVE FALSE
    <2>1. upTo(m) \in F
      BY DEF F
    <2>2. m \in Nat /\ n \in Nat
      OBVIOUS
    <2>3. upTo(m) \subseteq upTo(n) /\ n \in upTo(n) /\ n \notin upTo(m)
      BY <1>5, <2>2
    <2>4. upTo(m) \in SUBSET Nat /\ upTo(n) \in SUBSET Nat
      BY <2>2
    <2>5. <<upTo(m), upTo(n)>> \in R
      BY <2>3, <2>4 DEF R, StrictSubsetOrdering
    <2> QED
      BY <1>3, <1>4, <2>1, <2>5
  <1> QED
    BY <1>5

(* Induction over the naturals, for a set: one that holds 0 and, with each  *)
(* of its members, the next number is all of Nat.                           *)
LEMMA EveryNumber ==
    ASSUME NEW S, S \subseteq Nat, 0 \in S, \A n \in S : n + 1 \in S
    PROVE  \A n \in Nat : n \in S
  <1> SUFFICES ASSUME Nat \ S # {} PROVE FALSE
    OBVIOUS
  <1>1. PICK n \in Nat \ S : \A m \in Nat \ S : n <= m
    BY LeastNumber
  <1>2. n - 1 \in S
    BY <1>1
  <1> QED
    BY <1>1, <1>2

(* f adds up what each of the first n steps of p may cost.                  *)
AddsUp(f, p, n) ==
    /\ f \in [0..n -> Nat]
    /\ f[0] = 0
    /\ \A i \in 1..n : f[i] = f[i - 1] + Cost(p[i])

CostIsNat(p) == Len(p) \in Nat /\ \A j \in 1..Len(p) : Cost(p[j]) \in Nat

(* Such a sum exists for every list of steps: the recursion of CostUpTo     *)
(* defines what it means to define.                                         *)
LEMMA SumExists ==
    ASSUME NEW p, CostIsNat(p)
    PROVE  \E f \in [0..Len(p) -> Nat] : AddsUp(f, p, Len(p))
  <1> DEFINE L == Len(p)
             c(j) == Cost(p[j])
             S == {n \in Nat : n <= L => \E f \in [0..n -> Nat] : AddsUp(f, p, n)}
  <1>0. L \in Nat /\ \A j \in 1..L : c(j) \in Nat
    BY DEF CostIsNat
  <1>d. \A f, n : AddsUp(f, p, n) <=>
            f \in [0..n -> Nat] /\ f[0] = 0 /\ \A i \in 1..n : f[i] = f[i - 1] + c(i)
    BY DEF AddsUp
  <1> HIDE DEF L, c
  <1>1. 0 \in S
    <2> DEFINE g == [i \in 0..0 |-> 0]
    <2>1. g \in [0..0 -> Nat] /\ g[0] = 0 /\ 1..0 = {}
      OBVIOUS
    <2> HIDE DEF g
    <2>2. AddsUp(g, p, 0)
      BY <2>1, <1>d
    <2> QED
      BY <2>1, <2>2
  <1>2. ASSUME NEW n \in S PROVE n + 1 \in S
    <2> SUFFICES ASSUME n + 1 <= L PROVE \E f \in [0..(n + 1) -> Nat] : AddsUp(f, p, n + 1)
      OBVIOUS
    <2>1. n \in Nat /\ n <= L /\ c(n + 1) \in Nat
      BY <1>0
    <2>2. PICK f \in [0..n -> Nat] : AddsUp(f, p, n)
      BY <2>1
    <2> DEFINE g == [i \in 0..(n + 1) |-> IF i = n + 1 THEN f[n] + c(n + 1) ELSE f[i]]
    <2>3. g \in [0..(n + 1) -> Nat]
      BY <2>1, <2>2
    <2>4. g[0] = 0 /\ \A i \in 1..(n + 1) : g[i] = g[i - 1] + c(i)
      <3>1. f[0] = 0 /\ \A i \in 1..n : f[i] = f[i - 1] + c(i)
        BY <2>2, <1>d
      <3>2. g[n + 1] = f[n] + c(n + 1) /\ \A i \in 0..n : g[i] = f[i]
        BY <2>1
      <3> HIDE DEF g
      <3>3. ASSUME NEW i \in 1..(n + 1) PROVE g[i] = g[i - 1] + c(i)
        <4>1. CASE i = n + 1
          <5>1. i - 1 = n /\ n \in 0..n
            BY <2>1, <4>1
          <5> QED
            BY <3>2, <4>1, <5>1
        <4>2. CASE i \in 1..n
          <5>1. i \in 0..n /\ i - 1 \in 0..n
            BY <2>1, <4>2
          <5> QED
            BY <3>1, <3>2, <4>2, <5>1
        <4> QED
          BY <2>1, <4>1, <4>2
      <3> QED
        BY <2>1, <3>1, <3>2, <3>3
    <2> HIDE DEF g
    <2>5. AddsUp(g, p, n + 1)
      BY <2>3, <2>4, <1>d
    <2> QED
      BY <2>5, <2>3
  <1> HIDE DEF S
  <1>3. \A n \in Nat : n \in S
    <2>1. S \subseteq Nat
      BY DEF S
    <2> QED
      BY <1>1, <1>2, <2>1, EveryNumber
  <1>4. L \in S
    BY <1>0, <1>3
  <1> QED
    BY <1>0, <1>4 DEF S, L

(* The cost of the first steps is a sum, a natural number for each n.       *)
LEMMA CostUpToIs ==
    ASSUME NEW p, CostIsNat(p)
    PROVE  AddsUp(CostUpTo(p), p, Len(p))
  <1> DEFINE L == Len(p)
             c(j) == Cost(p[j])
             C == CostUpTo(p)
             S == {n \in Nat : n <= L => C[n] \in Nat}
  <1>0. L \in Nat /\ \A j \in 1..L : c(j) \in Nat
    BY DEF CostIsNat
  <1>1. PICK f \in [0..L -> Nat] : AddsUp(f, p, L)
    BY SumExists
  <1>2. f = [n \in 0..L |-> IF n = 0 THEN 0 ELSE f[n - 1] + c(n)]
    BY <1>1, <1>0 DEF AddsUp
  <1>3. C = [n \in 0..L |-> IF n = 0 THEN 0 ELSE C[n - 1] + c(n)]
    BY <1>2 DEF CostUpTo
  <1> HIDE DEF L, c, C
  <1>4. C[0] = 0 /\ \A i \in 1..L : C[i] = C[i - 1] + c(i)
    BY <1>0, <1>3
  <1>5. \A n \in Nat : n \in S
    <2>1. S \subseteq Nat /\ 0 \in S
      BY <1>4
    <2>2. ASSUME NEW n \in S PROVE n + 1 \in S
      <3> SUFFICES ASSUME n + 1 <= L PROVE C[n + 1] \in Nat
        OBVIOUS
      <3>1. n \in Nat /\ n + 1 \in 1..L /\ C[n] \in Nat
        BY <1>0
      <3>2. C[n + 1] = C[n] + c(n + 1)
        BY <1>4, <3>1
      <3> QED
        BY <1>0, <3>1, <3>2
    <2> HIDE DEF S
    <2> QED
      BY <2>1, <2>2, EveryNumber
  <1>6. \A n \in 0..L : C[n] \in Nat
    BY <1>0, <1>5
  <1>7. C \in [0..L -> Nat]
    BY <1>3, <1>6
  <1> QED
    BY <1>4, <1>7 DEF AddsUp, L, c, C

(* The sums grow with the number of steps.                                  *)
LEMMA CostGrows ==
    ASSUME NEW p, CostIsNat(p)
    PROVE  /\ \A k \in 0..Len(p) : CostUpTo(p)[k] \in Nat /\ CostUpTo(p)[k] <= Budget(p)
           /\ CostUpTo(p)[0] = 0
           /\ \A k \in 0..(Len(p) - 1) : CostUpTo(p)[k + 1] = CostUpTo(p)[k] + Cost(p[k + 1])
  <1> DEFINE L == Len(p)
             c(j) == Cost(p[j])
             C == CostUpTo(p)
             S == {m \in Nat : m <= L => C[L - m] <= C[L]}
  <1>0. L \in Nat /\ \A j \in 1..L : c(j) \in Nat
    BY DEF CostIsNat
  <1>1. C \in [0..L -> Nat] /\ C[0] = 0 /\ \A i \in 1..L : C[i] = C[i - 1] + c(i)
    BY CostUpToIs DEF AddsUp
  <1> HIDE DEF L, c, C
  <1>2. \A k \in 0..(L - 1) : C[k + 1] = C[k] + c(k + 1)
    BY <1>0, <1>1
  <1>3. \A m \in Nat : m \in S
    <2>1. S \subseteq Nat /\ 0 \in S
      BY <1>0, <1>1
    <2>2. ASSUME NEW m \in S PROVE m + 1 \in S
      <3> SUFFICES ASSUME m + 1 <= L PROVE C[L - (m + 1)] <= C[L]
        OBVIOUS
      <3>1. m \in Nat /\ L - m \in 1..L /\ L - (m + 1) = (L - m) - 1 /\ L - (m + 1) \in 0..L
            /\ C[L - m] <= C[L]
        BY <1>0
      <3>2. C[L - m] = C[L - (m + 1)] + c(L - m) /\ c(L - m) \in Nat
        BY <1>0, <1>1, <3>1
      <3>3. C[L] \in Nat /\ C[L - m] \in Nat /\ C[L - (m + 1)] \in Nat
        BY <1>0, <1>1, <3>1
      <3> QED
        BY <3>1, <3>2, <3>3
    <2> HIDE DEF S
    <2> QED
      BY <2>1, <2>2, EveryNumber
  <1>4. \A k \in 0..L : C[k] <= C[L]
    <2> SUFFICES ASSUME NEW k \in 0..L PROVE C[k] <= C[L]
      OBVIOUS
    <2>1. L - k \in S
      BY <1>0, <1>3
    <2>2. L - (L - k) = k /\ L - k <= L
      BY <1>0
    <2> QED
      BY <2>1, <2>2
  <1> QED
    BY <1>1, <1>2, <1>4 DEF Budget, L, c, C

(* What n calls of a tool, with the delays between them and one more call,  *)
(* take at the most.                                                        *)
LEMMA CallsCost ==
    ASSUME NEW n \in Nat, NEW r \in Nat, NEW t \in Nat, NEW d \in Nat, n <= r
    PROVE  /\ n * (t + d) \in Nat /\ n * (t + d) + t <= t * (r + 1) + d * r
           /\ t * (r + 1) + d * r \in Nat
           /\ (n + 1) * (t + d) = n * (t + d) + t + d
           /\ 0 * (t + d) = 0
  <1> DEFINE s == t + d
  <1>1. s \in Nat /\ t * (r + 1) + d * r = r * s + t
    OBVIOUS
  <1>2. PICK m \in Nat : r = n + m
    <2>1. r - n \in Nat /\ r = n + (r - n)
      OBVIOUS
    <2> QED
      BY <2>1
  <1>3. \A x, y \in Nat : x * y \in Nat
    OBVIOUS
  <1>4. r * s = n * s + m * s /\ (n + 1) * s = n * s + s /\ 0 * s = 0
    BY <1>1, <1>2
  <1>5. n * s \in Nat /\ m * s \in Nat /\ r * s \in Nat
    BY <1>1, <1>3
  <1>6. n * s + t <= r * s + t
    BY <1>4, <1>5
  <1>7. r * s + t \in Nat /\ (n + 1) * s = n * s + t + d
    BY <1>4, <1>5
  <1> QED
    BY <1>1, <1>4, <1>5, <1>6, <1>7

(* So many calls of a step's tool, each with a delay after it.              *)
Calls(d, n) == n * (d.timeout + d.delay)

WellFormed(d) == d.retries \in Nat /\ d.timeout \in Nat /\ d.delay \in Nat

(* As many calls as there are retries, and one more, are in the budget.     *)
LEMMA StepCost ==
    ASSUME NEW d, WellFormed(d), NEW n \in Nat, n <= d.retries
    PROVE  /\ Calls(d, n) \in Nat /\ Cost(d) \in Nat
           /\ Calls(d, n) + d.timeout <= Cost(d)
           /\ Calls(d, n + 1) = Calls(d, n) + d.timeout + d.delay
           /\ Calls(d, 0) = 0
  <1> DEFINE r == d.retries
             t == d.timeout
             e == d.delay
  <1>1. r \in Nat /\ t \in Nat /\ e \in Nat /\ n <= r
    BY DEF WellFormed
  <1>2. /\ Calls(d, n) = n * (t + e) /\ Cost(d) = t * (r + 1) + e * r
        /\ Calls(d, n + 1) = (n + 1) * (t + e) /\ Calls(d, 0) = 0 * (t + e)
    BY DEF Calls, Cost
  <1> HIDE DEF r, t, e
  <1>3. /\ n * (t + e) \in Nat /\ n * (t + e) + t <= t * (r + 1) + e * r
        /\ t * (r + 1) + e * r \in Nat
        /\ (n + 1) * (t + e) = n * (t + e) + t + e
        /\ 0 * (t + e) = 0
    BY <1>1, CallsCost
  <1>4. /\ Calls(d, n) \in Nat /\ Cost(d) \in Nat
        /\ Calls(d, n) + t <= Cost(d)
        /\ Calls(d, n + 1) = Calls(d, n) + t + e
        /\ Calls(d, 0) = 0
    BY <1>2, <1>3
  <1> QED
    BY <1>4 DEF t, e

(* The place in the list of steps, and what its steps have cost so far: the *)
(* budget of those that ended, and of the current one a call and a delay    *)
(* for each attempt.                                                        *)
Before == CostUpTo(plan)[Len(results)]
Now == plan[Len(results) + 1]

SpentInv ==
    /\ pc = "step" => tries <= Now.retries /\ spent <= Before + Calls(Now, tries)
    /\ pc = "sleep" =>
        /\ tries <= Now.retries
        /\ spent + Now.delay <= Before + Calls(Now, tries)
    /\ pc \notin {"step", "sleep"} => spent <= Before

(* Before its first call a step has cost nothing.                           *)
LEMMA NothingCalled == WellFormed(Now) => 0 <= Now.retries /\ Calls(Now, 0) = 0
  <1> SUFFICES ASSUME WellFormed(Now) PROVE 0 <= Now.retries /\ Calls(Now, 0) = 0
    OBVIOUS
  <1>1. 0 \in Nat /\ 0 <= Now.retries
    BY DEF WellFormed
  <1> QED
    BY <1>1, StepCost

(* A well-formed list of steps has a cost.                                  *)
LEMMA PlanCosts ==
    ASSUME plan \in Plans
    PROVE  CostIsNat(plan)
  <1>1. /\ Len(plan) \in Nat
        /\ \A j \in 1..Len(plan) :
             plan[j].retries \in Nat /\ plan[j].timeout \in Nat /\ plan[j].delay \in Nat
    BY PlanFacts
  <1>2. \A j \in 1..Len(plan) : WellFormed(plan[j])
    BY <1>1 DEF WellFormed
  <1>3. \A j \in 1..Len(plan) : Cost(plan[j]) \in Nat
    <2> SUFFICES ASSUME NEW j \in 1..Len(plan) PROVE Cost(plan[j]) \in Nat
      OBVIOUS
    <2>1. 0 \in Nat /\ 0 <= plan[j].retries
      BY <1>1
    <2> QED
      BY <1>2, <2>1, StepCost
  <1> QED
    BY <1>1, <1>3 DEF CostIsNat

(* The numbers that the argument is about.                                  *)
LEMMA SpentFacts ==
    ASSUME Typed
    PROVE  /\ spent \in Nat /\ tries \in Nat /\ Len(results) \in Nat
           /\ Before \in Nat /\ Before <= Budget(plan) /\ Budget(plan) \in Nat
           /\ pc \in {"step", "sleep"} =>
                /\ WellFormed(Now)
                /\ Current = Len(results) + 1 /\ Def = Now
                /\ CostUpTo(plan)[Len(results) + 1] = Before + Cost(Now)
  <1>1. /\ plan \in Plans /\ Len(results) \in Nat /\ Len(results) <= Len(plan) /\ Len(plan) \in Nat
        /\ spent \in Nat /\ tries \in Nat
    BY RoundFacts DEF Typed, TypeOK
  <1>2. CostIsNat(plan)
    BY <1>1, PlanCosts
  <1>3. /\ \A k \in 0..Len(plan) : CostUpTo(plan)[k] \in Nat /\ CostUpTo(plan)[k] <= Budget(plan)
        /\ \A k \in 0..(Len(plan) - 1) : CostUpTo(plan)[k + 1] = CostUpTo(plan)[k] + Cost(plan[k + 1])
    BY <1>2, CostGrows
  <1>4. Len(results) \in 0..Len(plan) /\ Len(plan) \in 0..Len(plan)
    BY <1>1
  <1>5. Before \in Nat /\ Before <= Budget(plan) /\ Budget(plan) \in Nat
    BY <1>3, <1>4 DEF Before, Budget
  <1>6. ASSUME pc \in {"step", "sleep"}
        PROVE  /\ WellFormed(Now)
               /\ Current = Len(results) + 1 /\ Def = Now
               /\ CostUpTo(plan)[Len(results) + 1] = Before + Cost(Now)
    <2>1. Len(results) \in 0..(Len(plan) - 1) /\ Len(results) + 1 \in 1..Len(plan)
      BY <1>1, <1>6 DEF Typed, Place
    <2> QED
      BY <1>1, <1>3, <1>6, <2>1, PlanFacts DEF Before, Now, Current, Def, WellFormed
  <1> QED
    BY <1>1, <1>5, <1>6

(* Every step of Execute stays within what has been budgeted for it.        *)
LEMMA SpentStep ==
    ASSUME Typed, Typed', SpentInv, [Next]_vars
    PROVE  SpentInv'
  <1>0. /\ spent \in Nat /\ tries \in Nat /\ Len(results) \in Nat
        /\ Before \in Nat /\ Before <= Budget(plan) /\ Budget(plan) \in Nat
        /\ pc \in {"step", "sleep"} =>
                /\ WellFormed(Now)
                /\ Current = Len(results) + 1 /\ Def = Now
                /\ CostUpTo(plan)[Len(results) + 1] = Before + Cost(Now)
    BY SpentFacts
  <1>n. ASSUME pc \in {"step", "sleep"}, NEW n \in Nat, n <= Now.retries
        PROVE  /\ Calls(Now, n) \in Nat /\ Cost(Now) \in Nat /\ Now.timeout \in Nat /\ Now.delay \in Nat
               /\ Calls(Now, n) + Now.timeout <= Cost(Now)
               /\ Calls(Now, n + 1) = Calls(Now, n) + Now.timeout + Now.delay
    BY <1>0, <1>n, StepCost DEF WellFormed
  <1>f. (WellFormed(Now) => 0 <= Now.retries /\ Calls(Now, 0) = 0)'
    BY NothingCalled, PTL
  <1>b. UNCHANGED <<plan, results>> => Before' = Before /\ Now' = Now
    BY DEF Before, Now
  <1>z. results' = <<>> /\ plan' = plan => Before' = 0
    <2>1. CostIsNat(plan)
      BY PlanCosts DEF Typed, TypeOK
    <2>2. CostUpTo(plan)[0] = 0
      BY <2>1, CostGrows
    <2>3. Len(<<>>) = 0
      OBVIOUS
    <2> QED
      BY <2>2, <2>3 DEF Before
  <1>e. ASSUME pc = "step", plan' = plan, NEW s \in StepStatus, NEW n \in Nat, Result(s, n)
        PROVE  Before' = Before + Cost(Now)
    <2>1. Len(results') = Len(results) + 1
      BY <1>e, ResultEffect, RoundFacts
    <2> QED
      BY <1>0, <1>e, <2>1 DEF Before
  <1>1. CASE Start
    <2>1. pc' = "step" /\ tries' = 0 /\ spent' = 0 /\ results' = <<>> /\ plan' = plan
      BY <1>1 DEF Start
    <2>2. (Typed => (pc \in {"step", "sleep"} => WellFormed(Now)))'
      BY SpentFacts, PTL
    <2>3. 0 <= Now'.retries /\ Calls(Now', 0) = 0
      BY <1>f, <2>1, <2>2
    <2> QED
      BY <1>z, <2>1, <2>3 DEF SpentInv
  <1>2. CASE ToolSucceeds
    <2>1. /\ pc = "step" /\ pc' = "addStep" /\ plan' = plan
          /\ spent' \in {spent, spent + Now.timeout}
          /\ Result("completed", tries + 1)
      BY <1>0, <1>2 DEF ToolSucceeds, SpendTime
    <2>2. Before' = Before + Cost(Now)
      BY <1>0, <1>e, <2>1 DEF StepStatus
    <2>3. tries <= Now.retries /\ spent <= Before + Calls(Now, tries)
      BY <2>1 DEF SpentInv
    <2>4. /\ Calls(Now, tries) \in Nat /\ Cost(Now) \in Nat /\ Now.timeout \in Nat
          /\ Calls(Now, tries) + Now.timeout <= Cost(Now)
      BY <1>0, <1>n, <2>1, <2>3
    <2>5. spent' <= Before + Cost(Now)
      BY <1>0, <2>1, <2>3, <2>4
    <2> QED
      BY <2>1, <2>2, <2>5 DEF SpentInv
  <1>3. CASE ToolFailsAndRetries
    <2>1. /\ pc = "step" /\ pc' = "sleep" /\ UNCHANGED <<plan, results>>
          /\ spent' \in {spent, spent + Now.timeout}
          /\ tries' = tries + 1 /\ tries + 1 <= Now.retries
      BY <1>0, <1>3 DEF ToolFailsAndRetries, SpendTime, MayRetry
    <2>2. tries <= Now.retries /\ spent <= Before + Calls(Now, tries)
      BY <2>1 DEF SpentInv
    <2>3. /\ Calls(Now, tries + 1) = Calls(Now, tries) + Now.timeout + Now.delay
          /\ Calls(Now, tries) \in Nat /\ Now.timeout \in Nat /\ Now.delay \in Nat
      BY <1>0, <1>n, <2>1, <2>2
    <2>4. spent' + Now.delay <= Before + Calls(Now, tries + 1)
      <3>1. spent \in Nat /\ Before \in Nat /\ spent' \in {spent, spent + Now.timeout}
        BY <1>0, <2>1
      <3>2. Before + Calls(Now, tries + 1) = Before + Calls(Now, tries) + Now.timeout + Now.delay
        BY <2>3, <3>1
      <3> QED
        BY <2>2, <2>3, <3>1, <3>2
    <2> QED
      BY <1>b, <2>1, <2>4 DEF SpentInv
  <1>4. CASE RetryDelay
    <2>1. /\ pc = "sleep" /\ pc' = "step" /\ UNCHANGED <<plan, results, tries>>
          /\ spent' = spent + Now.delay
      BY <1>0, <1>4 DEF RetryDelay
    <2> QED
      BY <1>b, <2>1 DEF SpentInv
  <1>5. CASE ToolFailsForGood \/ ToolMissing
    <2>1. PICK n \in Nat :
            /\ pc = "step" /\ pc' \in {"addStep", "next"} /\ plan' = plan
            /\ spent' \in {spent, spent + Now.timeout}
            /\ HandleStepFailure(n)
      <3>1. CASE ToolFailsForGood
        BY <1>0, <3>1 DEF ToolFailsForGood, SpendTime
      <3>2. CASE ToolMissing
        BY <1>0, <3>2 DEF ToolMissing
      <3> QED
        BY <1>5, <3>1, <3>2
    <2>2. Before' = Before + Cost(Now)
      <3>1. Def.policy \in Policy
        BY <1>0, <2>1, PlanFacts, RoundFacts DEF Typed, Place, Now
      <3>2. StatusAfter(Def) \in StepStatus
        BY <3>1 DEF StatusAfter, Policy, StepStatus
      <3> QED
        BY <1>e, <2>1, <3>2 DEF HandleStepFailure
    <2>3. tries <= Now.retries /\ spent <= Before + Calls(Now, tries)
      BY <2>1 DEF SpentInv
    <2>4. /\ Calls(Now, tries) \in Nat /\ Cost(Now) \in Nat /\ Now.timeout \in Nat
          /\ Calls(Now, tries) + Now.timeout <= Cost(Now)
      BY <1>0, <1>n, <2>1, <2>3
    <2>5. spent' <= Before + Cost(Now)
      BY <1>0, <2>1, <2>3, <2>4
    <2> QED
      BY <2>1, <2>2, <2>5 DEF SpentInv
  <1>6. CASE AddStep \/ AddStepFails \/ AddToolCall \/ AddLLMCall \/ AbortExecution \/ FinishExecution
    <2>1. UNCHANGED <<plan, results, spent>> /\ pc \notin {"step", "sleep"} /\ pc' \notin {"step", "sleep"}
      BY <1>6 DEF AddStep, AddStepFails, AddToolCall, AddLLMCall, AbortExecution, FinishExecution,
         ctxVars
    <2> QED
      BY <1>b, <2>1 DEF SpentInv
  <1>7. CASE NextStep
    <2>1. UNCHANGED <<plan, results, spent>> /\ pc = "next" /\ pc' = "step" /\ tries' = 0
      BY <1>7 DEF NextStep
    <2>2. (Typed => (pc \in {"step", "sleep"} => WellFormed(Now)))'
      BY SpentFacts, PTL
    <2>3. 0 <= Now'.retries /\ Calls(Now', 0) = 0
      BY <1>f, <2>1, <2>2
    <2>4. Before' = Before /\ spent' <= Before'
      BY <1>b, <2>1 DEF SpentInv
    <2> QED
      BY <1>0, <2>1, <2>3, <2>4 DEF SpentInv
  <1>8. CASE Crash
    <2>1. pc' = "idle" /\ spent' = 0 /\ results' = <<>> /\ plan' = plan
      BY <1>8 DEF Crash
    <2> QED
      BY <1>z, <2>1 DEF SpentInv
  <1>9. CASE UNCHANGED vars
    <2>1. UNCHANGED <<plan, pc, results, tries, spent>>
      BY <1>9 DEF vars, ctxVars
    <2> QED
      BY <1>b, <2>1 DEF SpentInv
  <1> QED
    BY <1>1, <1>2, <1>3, <1>4, <1>5, <1>6, <1>7, <1>8, <1>9 DEF Next

(* The inductive invariant of the time that a round takes.                  *)
THEOREM SpentInvariant == Spec => [](Typed /\ SpentInv)
  <1>1. Init => SpentInv
    <2> SUFFICES ASSUME Init PROVE SpentInv
      OBVIOUS
    <2>1. Typed
      BY TypeInit
    <2>2. pc = "idle" /\ spent = 0 /\ Before \in Nat
      BY <2>1, SpentFacts DEF Init
    <2> QED
      BY <2>2 DEF SpentInv
  <1>2. Typed /\ Typed' /\ SpentInv /\ [Next]_vars => SpentInv'
    BY SpentStep
  <1> QED
    BY <1>1, <1>2, TypedInvariant, PTL DEF Spec

(* Whatever list of steps an agent type declares, a round's tools and       *)
(* retries take no longer than the steps' timeouts and delays add up to.    *)
THEOREM SpentWithinBudget == Spec => [](spent <= Budget(plan))
  <1>1. Typed /\ SpentInv => spent <= Budget(plan)
    <2> SUFFICES ASSUME Typed, SpentInv PROVE spent <= Budget(plan)
      OBVIOUS
    <2>0. /\ spent \in Nat /\ tries \in Nat
          /\ Before \in Nat /\ Before <= Budget(plan) /\ Budget(plan) \in Nat
      BY SpentFacts
    <2>1. CASE pc \notin {"step", "sleep"}
      BY <2>0, <2>1 DEF SpentInv
    <2>2. CASE pc \in {"step", "sleep"}
      <3>1. /\ WellFormed(Now)
            /\ CostUpTo(plan)[Len(results) + 1] = Before + Cost(Now)
        BY <2>2, SpentFacts
      <3>2. CostUpTo(plan)[Len(results) + 1] <= Budget(plan)
        <4>1. /\ plan \in Plans /\ Len(results) \in Nat /\ Len(results) < Len(plan) /\ Len(plan) \in Nat
          BY <2>2, RoundFacts DEF Typed, Place
        <4>2. CostIsNat(plan) /\ Len(results) + 1 \in 0..Len(plan)
          BY <4>1, PlanCosts
        <4> QED
          BY <4>2, CostGrows
      <3>3. tries <= Now.retries /\ spent <= Before + Calls(Now, tries)
        <4>1. tries <= Now.retries
          BY <2>2 DEF SpentInv
        <4>2. Calls(Now, tries) \in Nat /\ Now.delay \in Nat
          BY <2>0, <3>1, <4>1, StepCost DEF WellFormed
        <4>3. CASE pc = "step"
          BY <4>1, <4>3 DEF SpentInv
        <4>4. CASE pc = "sleep"
          <5>1. spent + Now.delay <= Before + Calls(Now, tries)
            BY <4>4 DEF SpentInv
          <5> QED
            BY <2>0, <4>1, <4>2, <5>1
        <4> QED
          BY <2>2, <4>3, <4>4
      <3>4. /\ Calls(Now, tries) \in Nat /\ Cost(Now) \in Nat /\ Now.timeout \in Nat
            /\ Calls(Now, tries) + Now.timeout <= Cost(Now)
        BY <2>0, <3>1, <3>3, StepCost DEF WellFormed
      <3> QED
        BY <2>0, <3>2, <3>1, <3>3, <3>4
    <2> QED
      BY <2>1, <2>2
  <1> QED
    BY <1>1, SpentInvariant, PTL

(* screenshot_organize may take 203 seconds.                                *)
LEMMA OrganizeBudget ==
    ASSUME NEW v \in BOOLEAN
    PROVE  Budget(ScreenshotOrganize(v)) = 203
  <1> DEFINE p == ScreenshotOrganize(v)
             C == CostUpTo(p)
  <1>1. Len(p) = 4
    BY DEF ScreenshotOrganize
  <1>2. Cost(p[1]) = 60 /\ Cost(p[2]) = 92 /\ Cost(p[3]) = 21 /\ Cost(p[4]) = 30
    BY DEF ScreenshotOrganize, StepDef, Cost
  <1>3. CostIsNat(p)
    <2> HIDE DEF p
    <2>1. \A j \in 1..Len(p) : j = 1 \/ j = 2 \/ j = 3 \/ j = 4
      BY <1>1
    <2> QED
      BY <1>1, <1>2, <2>1 DEF CostIsNat
  <1> HIDE DEF p
  <1>4. C[0] = 0 /\ \A i \in 1..4 : C[i] = C[i - 1] + Cost(p[i])
    BY <1>1, <1>3, CostUpToIs DEF AddsUp
  <1> HIDE DEF C
  <1>5. C[1] = C[0] + 60 /\ C[2] = C[1] + 92 /\ C[3] = C[2] + 21 /\ C[4] = C[3] + 30
    <2>1. 1 - 1 = 0 /\ 2 - 1 = 1 /\ 3 - 1 = 2 /\ 4 - 1 = 3
      OBVIOUS
    <2>2. 1 \in 1..4 /\ 2 \in 1..4 /\ 3 \in 1..4 /\ 4 \in 1..4
      OBVIOUS
    <2> QED
      BY <1>2, <1>4, <2>1, <2>2
  <1>6. C[4] = 203
    BY <1>4, <1>5
  <1> QED
    BY <1>1, <1>6 DEF Budget, p, C

(* The agent type's rounds fit in a lease of 203 seconds or more (300 by    *)
(* default), with whatever outcomes of the tools.                           *)
THEOREM OrganizeFitsTheLease ==
    ASSUME Plans \subseteq {ScreenshotOrganize(v) : v \in BOOLEAN},
           LockTimeout \in Nat, 203 <= LockTimeout
    PROVE  Spec => []FitsTheLease
  <1>1. Typed /\ spent <= Budget(plan) => FitsTheLease
    <2>1. Typed => Budget(plan) = 203
      BY OrganizeBudget DEF Typed, TypeOK
    <2> QED
      BY <2>1 DEF FitsTheLease
  <1> QED
    BY <1>1, SpentWithinBudget, TypedInvariant, PTL
=============================================================================
