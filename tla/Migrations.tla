------------------------------ MODULE Migrations ------------------------------
(***************************************************************************)
(* The start of the programs: the schema and the vector collection, and what*)
(* brings them up to date.  app.New with AUTO_MIGRATE (cmd/api,             *)
(* cmd/backfill) and cmd/migrate apply the same three files, each split at  *)
(* ';' and sent statement by statement, outside any transaction (MySQL      *)
(* commits DDL at once) and without a record of what was applied.  app.New  *)
(* then opens the vector store: it asks Qdrant for the collection and       *)
(* creates it if there is none.  Without vectors a program comes up all the *)
(* same (cmd/backfill ends).                                                *)
(*                                                                         *)
(* A segment of a file is [makes, needs, guarded]: the table, column or     *)
(* index it creates ({} for the blank text after the last ';'), what must   *)
(* exist for it, and whether it says IF NOT EXISTS.                         *)
(***************************************************************************)
EXTENDS Naturals, Sequences

CONSTANTS Segments,   (* the three files, one after the other                 *)
          Servers,    (* programs that call app.New: up once it returned       *)
          AutoMigrate,(* those of them with AUTO_MIGRATE=true                 *)
          Commands,   (* runs of cmd/migrate: they end once migrated          *)
          MaxStarts,  (* bound: starts of each program                        *)
          MaxFaults   (* bound: crashes and connection errors                 *)

Programs == Servers \cup Commands
Migrating == AutoMigrate \cup Commands

ASSUME SegmentsAssumption ==
    /\ AutoMigrate \subseteq Servers
    /\ Len(Segments) \in Nat
    /\ MaxStarts \in Nat /\ MaxFaults \in Nat
    /\ \A k \in 1..Len(Segments) : Segments[k].guarded \in BOOLEAN

VARIABLES schema,  \* tables, columns and indexes that exist
          state,   \* of each program
          at,      \* the segment it sends next
          collection, \* the collection exists in Qdrant
          vectors, \* App.Vectors of each server
          starts, faults

vectorVars == <<collection, vectors>>
vars == <<schema, state, at, vectorVars, starts, faults>>

Objects == UNION {Segments[k].makes : k \in 1..Len(Segments)}

TypeOK ==
    /\ schema \subseteq Objects
    /\ state \in [Programs -> {"down", "migrating", "opening", "up", "done", "failed"}]
    /\ at \in [Programs -> 1..Len(Segments) + 1]
    /\ collection \in BOOLEAN
    /\ vectors \in [Servers -> {"unopened", "absent", "open", "nil"}]
    /\ starts \in [Programs -> 0..MaxStarts]
    /\ faults \in 0..MaxFaults

Init ==
    /\ schema = {}
    /\ state = [p \in Programs |-> "down"]
    /\ at = [p \in Programs |-> 1]
    /\ collection = FALSE
    /\ vectors = [p \in Servers |-> "unopened"]
    /\ starts = [p \in Programs |-> 0]
    /\ faults = 0

Fault == faults < MaxFaults /\ faults' = faults + 1

-----------------------------------------------------------------------------
(* Deliberately wrong variants of definitions below; none is part of Spec.  *)

(* The blank segment is sent like any other.                                *)
BlankIsNotSkipped(s) == FALSE

(* The segments are counted from zero.                                      *)
StartAtZero(p) ==
    /\ state[p] \in {"down", "failed"}
    /\ starts[p] < MaxStarts
    /\ starts' = [starts EXCEPT ![p] = @ + 1]
    /\ state' = [state EXCEPT ![p] = "migrating"]
    /\ at' = [at EXCEPT ![p] = 0]
    /\ UNCHANGED <<schema, vectorVars, faults>>

(* ApplyMigration goes on after a failed statement.                         *)
ConnectionErrorGoesOn(p) ==
    /\ state[p] = "migrating"
    /\ at[p] <= Len(Segments)
    /\ Fault
    /\ at' = [at EXCEPT ![p] = @ + 1]
    /\ UNCHANGED <<schema, state, vectorVars, starts>>

(* A collection that could not be created is used all the same.             *)
OpenFailsAndGoesOn(p) ==
    /\ state[p] = "opening"
    /\ Fault
    /\ state' = [state EXCEPT ![p] = "up"]
    /\ vectors' = [vectors EXCEPT ![p] = "open"]
    /\ UNCHANGED <<schema, at, collection, starts>>

-----------------------------------------------------------------------------
Start(p) ==
    /\ state[p] \in {"down", "failed"}
    /\ starts[p] < MaxStarts
    /\ starts' = [starts EXCEPT ![p] = @ + 1]
    /\ state' = [state EXCEPT ![p] = "migrating"]
    /\ at' = [at EXCEPT ![p] = IF p \in Migrating THEN 1 ELSE Len(Segments) + 1]
    /\ UNCHANGED <<schema, vectorVars, faults>>

(* ApplyMigration skips a segment that is blank once trimmed.               *)
Blank(s) == s.makes = {}

(* MySQL: no such table, the object exists already, or the query was empty. *)
Rejected(s) ==
    \/ s.makes = {}
    \/ ~(s.needs \subseteq schema)
    \/ ~s.guarded /\ s.makes \subseteq schema

Send(p) ==
    LET s == Segments[at[p]]
    IN  /\ state[p] = "migrating"
        /\ at[p] <= Len(Segments)
        /\ \/ /\ Blank(s) \/ ~Rejected(s)
              /\ schema' = schema \cup s.makes
              /\ at' = [at EXCEPT ![p] = @ + 1]
              /\ UNCHANGED state
           \/ /\ ~Blank(s) /\ Rejected(s)
              /\ state' = [state EXCEPT ![p] = "failed"]
              /\ UNCHANGED <<schema, at>>
        /\ UNCHANGED <<vectorVars, starts, faults>>

ConnectionError(p) ==
    /\ state[p] = "migrating"
    /\ at[p] <= Len(Segments)
    /\ Fault
    /\ state' = [state EXCEPT ![p] = "failed"]
    /\ UNCHANGED <<schema, at, vectorVars, starts>>

Finish(p) ==
    /\ state[p] = "migrating"
    /\ at[p] > Len(Segments)
    /\ state' = [state EXCEPT ![p] = IF p \in Servers THEN "opening" ELSE "done"]
    /\ UNCHANGED <<schema, at, vectorVars, starts, faults>>

-----------------------------------------------------------------------------
(* openVectorStore: EnsureCollection asks, and then creates. *)

ComesUp(p, v) ==
    /\ state' = [state EXCEPT ![p] = "up"]
    /\ vectors' = [vectors EXCEPT ![p] = v]

CollectionExists(p) ==
    /\ state[p] = "opening" /\ vectors[p] = "unopened"
    /\ \/ collection /\ ComesUp(p, "open")
       \/ ~collection /\ vectors' = [vectors EXCEPT ![p] = "absent"] /\ UNCHANGED state
    /\ UNCHANGED <<schema, at, collection, starts, faults>>

(* Qdrant refuses to create what another program has created meanwhile.     *)
CreateCollection(p) ==
    /\ state[p] = "opening" /\ vectors[p] = "absent"
    /\ ComesUp(p, IF collection THEN "nil" ELSE "open")
    /\ collection' = TRUE
    /\ UNCHANGED <<schema, at, starts, faults>>

(* Either call fails (the creation may have been made): vectors = nil.      *)
OpenFails(p) ==
    /\ state[p] = "opening"
    /\ Fault
    /\ ComesUp(p, "nil")
    /\ collection' \in {collection, collection \/ vectors[p] = "absent"}
    /\ UNCHANGED <<schema, at, starts>>

-----------------------------------------------------------------------------
(* A crash or a kill; a server that is up may also be stopped.              *)
Crash(p) ==
    /\ state[p] \in {"migrating", "opening", "up"}
    /\ Fault
    /\ state' = [state EXCEPT ![p] = "down"]
    /\ vectors' = [q \in Servers |-> IF q = p THEN "unopened" ELSE vectors[q]]
    /\ UNCHANGED <<schema, at, collection, starts>>

Open(p) == CollectionExists(p) \/ CreateCollection(p)

Next ==
    \/ \E p \in Programs :
            Start(p) \/ Send(p) \/ ConnectionError(p) \/ Finish(p) \/ Crash(p)
    \/ \E p \in Servers : Open(p) \/ OpenFails(p)

Spec == Init /\ [][Next]_vars

(* Somebody starts each program (again), and a started program goes on.     *)
Fairness ==
    /\ \A p \in Programs : WF_vars(Start(p)) /\ WF_vars(Send(p) \/ Finish(p))
    /\ \A p \in Servers : WF_vars(Open(p))

FairSpec == Spec /\ Fairness

-----------------------------------------------------------------------------
(* A server that migrates serves, and a command reports success, only on a  *)
(* complete schema, whatever other programs, crashes and errors came between.*)
UpMeansMigrated ==
    \A p \in Migrating : state[p] \in {"up", "done"} => schema = Objects

(* An empty database is migrated by the programs started on it, even if     *)
(* they race each other, unless a crash or an error stops one.              *)
FirstMigrationCompletes == <>(schema = Objects \/ faults > 0)

(* A server that works with vectors has a collection to work on; one that   *)
(* came up without, when nothing failed, lost the race to create it: the    *)
(* collection is there, and a restart would find it.                        *)
VectorsFollowCollection ==
    \A p \in Servers :
        /\ vectors[p] = "open" => collection
        /\ vectors[p] = "nil" /\ faults = 0 => collection
=============================================================================
