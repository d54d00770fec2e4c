------------------------------- MODULE HbTop -------------------------------
(***************************************************************************)
(* The layer above the heartbeat (layers_demo.rs): how many beats have     *)
(* gone out and the number of the last one.                                *)
(***************************************************************************)
EXTENDS Naturals

CONSTANT Seqs       \* the sequence numbers there are

VARIABLES count, last

(* The gate can only speak of what the abstraction kept.                   *)
Gate(req) == count > 0 => last < req

Beat(req) ==
    /\ Gate(req)
    /\ count' = count + 1
    /\ last' = req

Spec ==
    /\ count = 0 /\ last = 0
    /\ [][\E req \in Seqs : Beat(req)]_<<count, last>>
=============================================================================
