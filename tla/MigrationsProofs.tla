--------------------------- MODULE MigrationsProofs ---------------------------
(***************************************************************************)
(* What the start of the programs guarantees, for any migration files and   *)
(* any number of servers, commands, starts, crashes and errors.             *)
(***************************************************************************)
EXTENDS Migrations, TLAPS

(* A migrating program has made what the segments before `at` make: nothing *)
(* is ever dropped, and `at` passes only a segment that MySQL applied.      *)
MadeSoFar ==
    \A p \in Migrating : \A k \in 1..Len(Segments) :
        k < at[p] => Segments[k].makes \subseteq schema

(* A program is past the migration only after the last segment.             *)
PastTheLast ==
    \A p \in Programs : state[p] \in {"opening", "up", "done"} => at[p] = Len(Segments) + 1

MigrationInv == TypeOK /\ MadeSoFar /\ PastTheLast

-----------------------------------------------------------------------------
(* The variables stay in their types: `at` never leaves the files.          *)
LEMMA TypeInvariant == Spec => []TypeOK
  <1>1. Init => TypeOK
    <2> SUFFICES ASSUME Init PROVE TypeOK
      OBVIOUS
    <2>1. schema \subseteq Objects /\ collection \in BOOLEAN
      BY DEF Init
    <2>2. state \in [Programs -> {"down", "migrating", "opening", "up", "done", "failed"}]
      BY DEF Init
    <2>3. at \in [Programs -> 1..Len(Segments) + 1] /\ starts \in [Programs -> 0..MaxStarts]
      BY SegmentsAssumption DEF Init
    <2>4. vectors \in [Servers -> {"unopened", "absent", "open", "nil"}]
      BY DEF Init
    <2>5. faults \in 0..MaxFaults
      BY SegmentsAssumption DEF Init
    <2> QED
      BY <2>1, <2>2, <2>3, <2>4, <2>5 DEF TypeOK
  <1>2. TypeOK /\ [Next]_vars => TypeOK'
    <2> SUFFICES ASSUME TypeOK, [Next]_vars PROVE TypeOK'
      OBVIOUS
    <2> USE SegmentsAssumption DEF TypeOK, vectorVars
    <2>1. ASSUME NEW p \in Programs, Start(p) PROVE TypeOK'
      BY <2>1 DEF Start
    <2>2. ASSUME NEW p \in Programs, Send(p) PROVE TypeOK'
      <3>1. Segments[at[p]].makes \subseteq Objects
        BY <2>2 DEF Send, Objects
      <3>2. CASE schema' = schema \cup Segments[at[p]].makes /\ at' = [at EXCEPT ![p] = @ + 1] /\ UNCHANGED state
        BY <2>2, <3>1, <3>2 DEF Send
      <3>3. CASE state' = [state EXCEPT ![p] = "failed"] /\ UNCHANGED <<schema, at>>
        BY <2>2, <3>3 DEF Send
      <3> QED
        BY <2>2, <3>2, <3>3 DEF Send
    <2>3. ASSUME NEW p \in Programs, ConnectionError(p) PROVE TypeOK'
      BY <2>3 DEF ConnectionError, Fault
    <2>4. ASSUME NEW p \in Programs, Finish(p) PROVE TypeOK'
      BY <2>4 DEF Finish
    <2>5. ASSUME NEW p \in Programs, Crash(p) PROVE TypeOK'
      BY <2>5 DEF Crash, Fault
    <2>6. ASSUME NEW p \in Servers, CollectionExists(p) PROVE TypeOK'
      BY <2>6 DEF CollectionExists, ComesUp, Programs
    <2>7. ASSUME NEW p \in Servers, CreateCollection(p) PROVE TypeOK'
      BY <2>7 DEF CreateCollection, ComesUp, Programs
    <2>8. ASSUME NEW p \in Servers, OpenFails(p) PROVE TypeOK'
      <3>1. collection' \in BOOLEAN
        BY <2>8 DEF OpenFails
      <3>2. vectors' \in [Servers -> {"unopened", "absent", "open", "nil"}]
        BY <2>8 DEF OpenFails, ComesUp
      <3>3. state' \in [Programs -> {"down", "migrating", "opening", "up", "done", "failed"}]
        BY <2>8 DEF OpenFails, ComesUp
      <3>4. faults' \in 0..MaxFaults /\ UNCHANGED <<schema, at, starts>>
        BY <2>8 DEF OpenFails, Fault
      <3> QED
        BY <3>1, <3>2, <3>3, <3>4
    <2>9. CASE UNCHANGED vars
      BY <2>9 DEF vars
    <2> QED
      BY <2>1, <2>2, <2>3, <2>4, <2>5, <2>6, <2>7, <2>8, <2>9 DEF Next, Open
  <1> QED
    BY <1>1, <1>2, PTL DEF Spec

(* Whichever programs start, race, fail and start again, the schema holds   *)
(* only what the files make, and no program sends what is not in them.      *)
THEOREM TypeCorrect == Spec => []TypeOK
  BY TypeInvariant

-----------------------------------------------------------------------------
(* A step that leaves `at` alone, lets the schema only grow and takes no    *)
(* program past the migration keeps the invariant.                          *)
LEMMA NothingIsUndone ==
    ASSUME MadeSoFar, PastTheLast, schema \subseteq schema', at' = at,
           \A p \in Programs :
               state'[p] \in {"opening", "up", "done"}
                   => state[p] \in {"opening", "up", "done"} \/ at[p] = Len(Segments) + 1
    PROVE  MadeSoFar' /\ PastTheLast'
  BY DEF MadeSoFar, PastTheLast

(* Every statement, crash and start keeps what the programs know of the     *)
(* schema.                                                                  *)
LEMMA MigrationStep ==
    ASSUME TypeOK, MadeSoFar, PastTheLast, [Next]_vars
    PROVE  MadeSoFar' /\ PastTheLast'
  <1> USE SegmentsAssumption
  <1>1. ASSUME NEW p \in Programs, Start(p) PROVE MadeSoFar' /\ PastTheLast'
    BY <1>1 DEF Start, TypeOK, MadeSoFar, PastTheLast, Programs, Migrating
  <1>2. ASSUME NEW p \in Programs, Send(p) PROVE MadeSoFar' /\ PastTheLast'
    <2>0. /\ state[p] = "migrating" /\ at[p] \in 1..Len(Segments)
          /\ \A q \in Programs : at[q] \in 1..Len(Segments) + 1
      BY <1>2 DEF Send, TypeOK
    <2>1. CASE /\ schema' = schema \cup Segments[at[p]].makes
               /\ at' = [at EXCEPT ![p] = @ + 1] /\ UNCHANGED state
      <3>1. \A q \in Programs : at'[q] = IF q = p THEN at[p] + 1 ELSE at[q]
        BY <2>1 DEF TypeOK
      <3>2. ASSUME NEW q \in Migrating, NEW k \in 1..Len(Segments), k < at'[q]
            PROVE  Segments[k].makes \subseteq schema'
        <4>1. q \in Programs
          BY DEF Migrating, Programs
        <4>2. k < at[q] \/ k = at[p]
          BY <2>0, <3>1, <3>2, <4>1
        <4> QED
          BY <2>1, <4>2 DEF MadeSoFar
      <3>3. MadeSoFar'
        BY <3>2 DEF MadeSoFar
      <3>4. PastTheLast'
        BY <2>0, <2>1, <3>1 DEF PastTheLast
      <3> QED
        BY <3>3, <3>4
    <2>2. CASE state' = [state EXCEPT ![p] = "failed"] /\ UNCHANGED <<schema, at>>
      BY <2>2, NothingIsUndone DEF TypeOK
    <2> QED
      BY <1>2, <2>1, <2>2 DEF Send
  <1>3. ASSUME NEW p \in Programs, ConnectionError(p) PROVE MadeSoFar' /\ PastTheLast'
    BY <1>3, NothingIsUndone DEF ConnectionError, TypeOK
  <1>4. ASSUME NEW p \in Programs, Finish(p) PROVE MadeSoFar' /\ PastTheLast'
    <2>1. at[p] = Len(Segments) + 1
      BY <1>4 DEF Finish, TypeOK
    <2> QED
      BY <1>4, <2>1, NothingIsUndone DEF Finish, TypeOK
  <1>5. ASSUME NEW p \in Programs, Crash(p) PROVE MadeSoFar' /\ PastTheLast'
    BY <1>5, NothingIsUndone DEF Crash, TypeOK
  <1>6. ASSUME NEW p \in Servers, Open(p) \/ OpenFails(p) PROVE MadeSoFar' /\ PastTheLast'
    <2>1. /\ state[p] = "opening" /\ UNCHANGED <<schema, at>>
          /\ state' = state \/ state' = [state EXCEPT ![p] = "up"]
      BY <1>6 DEF Open, CollectionExists, CreateCollection, OpenFails, ComesUp
    <2> QED
      BY <2>1, NothingIsUndone DEF TypeOK
  <1>7. CASE UNCHANGED vars
    BY <1>7, NothingIsUndone DEF vars
  <1> QED
    BY <1>1, <1>2, <1>3, <1>4, <1>5, <1>6, <1>7 DEF Next

(* The inductive invariant of the migration.                                *)
THEOREM MigrationInvariant == Spec => []MigrationInv
  <1>1. Init => MadeSoFar /\ PastTheLast
    BY SegmentsAssumption DEF Init, MadeSoFar, PastTheLast, Migrating, Programs
  <1>2. TypeOK /\ MadeSoFar /\ PastTheLast /\ [Next]_vars => MadeSoFar' /\ PastTheLast'
    BY MigrationStep
  <1>3. TypeOK /\ MadeSoFar /\ PastTheLast => MigrationInv
    BY DEF MigrationInv
  <1> QED
    BY <1>1, <1>2, <1>3, TypeInvariant, PTL DEF Spec

(* No migrating program serves, and no command reports success, on a        *)
(* partial schema, whatever the files hold and whoever else migrates.       *)
THEOREM UpIsMigrated == Spec => []UpMeansMigrated
  <1>1. MigrationInv => UpMeansMigrated
    <2> SUFFICES ASSUME MigrationInv, NEW p \in Migrating, state[p] \in {"up", "done"}
                 PROVE  schema = Objects
      BY DEF UpMeansMigrated
    <2>1. p \in Programs /\ at[p] = Len(Segments) + 1
      BY SegmentsAssumption DEF MigrationInv, PastTheLast, Migrating, Programs
    <2>2. \A k \in 1..Len(Segments) : Segments[k].makes \subseteq schema
      BY <2>1, SegmentsAssumption DEF MigrationInv, MadeSoFar
    <2>3. Objects \subseteq schema
      BY <2>2 DEF Objects
    <2> QED
      BY <2>3 DEF MigrationInv, TypeOK
  <1> QED
    BY <1>1, MigrationInvariant, PTL

-----------------------------------------------------------------------------
(* Every step keeps the servers' vectors in line with the collection.       *)
LEMMA VectorStep ==
    ASSUME TypeOK, VectorsFollowCollection, [Next]_vars
    PROVE  VectorsFollowCollection'
  <1> USE SegmentsAssumption DEF VectorsFollowCollection, TypeOK
  <1>1. ASSUME NEW p \in Programs, Start(p) \/ Send(p) \/ Finish(p)
        PROVE  VectorsFollowCollection'
    BY <1>1 DEF Start, Send, Finish, vectorVars
  <1>2. ASSUME NEW p \in Programs, ConnectionError(p) PROVE VectorsFollowCollection'
    BY <1>2 DEF ConnectionError, Fault, vectorVars
  <1>3. ASSUME NEW p \in Programs, Crash(p) PROVE VectorsFollowCollection'
    BY <1>3 DEF Crash, Fault
  <1>4. ASSUME NEW p \in Servers, CollectionExists(p) PROVE VectorsFollowCollection'
    BY <1>4 DEF CollectionExists, ComesUp
  <1>5. ASSUME NEW p \in Servers, CreateCollection(p) PROVE VectorsFollowCollection'
    BY <1>5 DEF CreateCollection
  <1>6. ASSUME NEW p \in Servers, OpenFails(p) PROVE VectorsFollowCollection'
    BY <1>6 DEF OpenFails, ComesUp, Fault
  <1>7. CASE UNCHANGED vars
    BY <1>7 DEF vars, vectorVars
  <1> QED
    BY <1>1, <1>2, <1>3, <1>4, <1>5, <1>6, <1>7 DEF Next, Open

(* A server that works with vectors has a collection, and one that came up  *)
(* without, though nothing failed, lost the race to create it.              *)
THEOREM VectorsAreBacked == Spec => []VectorsFollowCollection
  <1>1. Init => VectorsFollowCollection
    BY DEF Init, VectorsFollowCollection
  <1>2. TypeOK /\ VectorsFollowCollection /\ [Next]_vars => VectorsFollowCollection'
    BY VectorStep
  <1> QED
    BY <1>1, <1>2, TypeInvariant, PTL DEF Spec
=============================================================================
