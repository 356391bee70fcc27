----------------------------- MODULE MCMigrations -----------------------------
EXTENDS Migrations

Table(t, needs) == [makes |-> {t}, needs |-> needs, guarded |-> TRUE]
BlankTail == [makes |-> {}, needs |-> {}, guarded |-> FALSE]

(* migrations/001_init.sql, 002_agent_tasks.sql and 003_request_id.sql. *)
Files ==
    <<Table("devices", {}),
      Table("screenshots", {"devices"}),
      Table("agent_runs", {"devices", "screenshots"}),
      Table("agent_steps", {"agent_runs"}),
      Table("tool_calls", {"agent_runs", "agent_steps"}),
      Table("llm_calls", {"agent_runs"}),
      Table("memories", {"devices"}),
      BlankTail,
      Table("agent_tasks", {"agent_runs"}),
      BlankTail,
      [makes |-> {"agent_runs.request_id"}, needs |-> {"agent_runs"}, guarded |-> FALSE],
      [makes |-> {"idx_agent_runs_created"}, needs |-> {"agent_runs"}, guarded |-> FALSE],
      BlankTail>>

-----------------------------------------------------------------------------
(* README.md's quick start, `make migrate` then `make dev` with             *)
(* AUTO_MIGRATE=true: no program fails to start unless a crash or a         *)
(* connection error came before.                                            *)
StartsAreRepeatable ==
    faults = 0 => \A p \in Programs : state[p] # "failed"
=============================================================================
