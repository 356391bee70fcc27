----------------------------- MODULE LeasedQueue -----------------------------
(***************************************************************************)
(* What agent_tasks promises to the rest of the system: an at-least-once    *)
(* queue with leases.  An item is leased to one holder at a time, comes     *)
(* back any number of times, and is settled once and for all, as done or,   *)
(* after MaxTries leases, as dead.  Time, goroutines, crashes and           *)
(* statements do not appear.                                                *)
(***************************************************************************)
EXTENDS Naturals

CONSTANTS Items, MaxTries

VARIABLES phase, tries

vars == <<phase, tries>>

Settled == {"completed", "dead"}

Init == /\ phase = [i \in Items |-> "absent"]
        /\ tries = [i \in Items |-> 0]

Move(i, from, to) == /\ phase[i] = from
                     /\ phase' = [phase EXCEPT ![i] = to]

Put(i)  == Move(i, "absent", "queued") /\ UNCHANGED tries

Lease(i) == /\ Move(i, "queued", "running")
            /\ tries' = [tries EXCEPT ![i] = @ + 1]

Done(i) == Move(i, "running", "completed") /\ UNCHANGED tries

Bury(i) == /\ tries[i] >= MaxTries
           /\ Move(i, "running", "dead")
           /\ UNCHANGED tries

(* Leases given back or expired, several at once. *)
Return(I) == /\ \A i \in I : phase[i] = "running"
             /\ phase' = [i \in Items |-> IF i \in I THEN "queued" ELSE phase[i]]
             /\ UNCHANGED tries

Next == \/ \E i \in Items : Put(i) \/ Lease(i) \/ Done(i) \/ Bury(i)
        \/ \E I \in SUBSET Items : Return(I)

Spec == Init /\ [][Next]_vars
=============================================================================
