------------------------------ MODULE TwoPhase ------------------------------
(***************************************************************************)
(* Two-phase commit as twophase.rs has it: the coordinator makes one remote*)
(* call per participant, each on a reply channel minted for it.  A call is *)
(* one atomic action (proc.rs: "Both halves are left movers"), so there is *)
(* no participant here and nothing to interleave with.                     *)
(***************************************************************************)
EXTENDS Naturals

CONSTANTS MaxParts, MaxRounds   \* bounds: participants, turns of the service

VARIABLES
    size, vote,         \* the deployment: how many participants, their votes
    rounds, done,       \* turns asked of the coordinator, turns finished
    slot, all_yes,      \* run_round: i, all_yes
    committed,
    next                \* the channel allocator

vars == <<size, vote, rounds, done, slot, all_yes, committed, next>>

Init ==
    /\ size \in 1 .. MaxParts /\ rounds \in 1 .. MaxRounds
    /\ vote \in [0 .. size - 1 -> BOOLEAN]
    /\ done = 0 /\ slot = 0 /\ all_yes = TRUE
    /\ committed = FALSE /\ next = 0

More == slot < size /\ all_yes

(* open_new_channel and FanOut::call: the answer is participant i's vote.  *)
Call ==
    /\ done < rounds /\ More
    /\ next' = next + 1
    /\ all_yes' = vote[slot]
    /\ slot' = slot + 1
    /\ UNCHANGED <<size, vote, rounds, done, committed>>

(* run_round returns, step stores the outcome.                             *)
Return ==
    /\ done < rounds /\ ~More
    /\ committed' = all_yes
    /\ done' = done + 1
    /\ slot' = 0 /\ all_yes' = TRUE
    /\ UNCHANGED <<size, vote, rounds, next>>

Next == Call \/ Return

Spec == Init /\ [][Next]_vars
FairSpec == Spec /\ WF_vars(Next)
=============================================================================
