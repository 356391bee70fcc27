----------------------------- MODULE MCTaskQueue -----------------------------
EXTENDS TaskQueue, TLC

Symmetry == Permutations(Tasks) \cup Permutations(Workers)

(* "at most 3 times; a task over its retries is dead and no longer          *)
(* consumed": no task is started more often than max_attempts.              *)
AttemptsWithinMax == \A t \in Tasks : attempts[t] <= MaxAttempts

(* "graceful stop": the process that was told to stop ends with every       *)
(* request answered; none is cut off between its two writes.                *)
StopAnswersRequests == [][Halt => \A t \in Tasks : request[t] # "created"]_vars
=============================================================================
