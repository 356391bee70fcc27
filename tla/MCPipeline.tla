------------------------------ MODULE MCPipeline ------------------------------
EXTENDS Pipeline

(* Every list of three steps of these kinds, of which one tool at most is  *)
(* not registered.                                                         *)
Kinds == {StepDef("abort", 1, 0, 0, TRUE, FALSE),
          StepDef("skip", 0, 0, 0, TRUE, TRUE),
          StepDef("degrade", 1, 0, 0, TRUE, TRUE),
          StepDef("abort", 0, 0, 0, FALSE, FALSE),
          StepDef("skip", 0, 0, 0, FALSE, FALSE),
          StepDef("degrade", 0, 0, 0, FALSE, TRUE)}

AtMostOneMissing(p) == \A i, j \in DOMAIN p : p[i].registered \/ p[j].registered \/ i = j

AllPlans == {p \in [1..3 -> Kinds] : AtMostOneMissing(p)}
                \cup {ScreenshotOrganize(TRUE), ScreenshotOrganize(FALSE)}
=============================================================================
