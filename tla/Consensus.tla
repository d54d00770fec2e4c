----------------------------- MODULE Consensus -----------------------------
(***************************************************************************)
(* What single-decree Paxos promises (the head of paxos.rs, and            *)
(* lemma_agreement): some value may come to be chosen, it is then the only *)
(* one, and it stays chosen.                                               *)
(***************************************************************************)
CONSTANT
    Values      \* what may be chosen

VARIABLE
    outcome     \* the values chosen so far

Undecided == outcome = {}

Decide(v) == Undecided /\ outcome' = {v}

Safe == Undecided /\ [][\E v \in Values : Decide(v)]_outcome
=============================================================================
