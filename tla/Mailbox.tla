------------------------------ MODULE Mailbox ------------------------------
(***************************************************************************)
(* What a service may assume of Inbox::recv_any: the call returns a        *)
(* message of some channel that has one, and it does return once there is  *)
(* one.  Which channel is left open, so every module that models a service *)
(* by "any pending message may be next" rests on this specification.       *)
(***************************************************************************)
EXTENDS Naturals

CONSTANTS
    N,      \* number of channels the mailbox reads
    Cap     \* bound: messages that may wait in one channel

Slots == 0 .. N - 1

VARIABLES
    ready,      \* ready[k]: messages waiting in channel k
    waiting     \* a call is in progress

mvars == <<ready, waiting>>

MInit == ready = [k \in Slots |-> 0] /\ waiting = FALSE

Arrive(k) ==
    /\ ready[k] < Cap
    /\ ready' = [ready EXCEPT ![k] = @ + 1]
    /\ UNCHANGED waiting

Ask == ~waiting /\ waiting' = TRUE /\ UNCHANGED ready

Take(k) ==
    /\ waiting
    /\ ready[k] > 0
    /\ ready' = [ready EXCEPT ![k] = @ - 1]
    /\ waiting' = FALSE

MNext == (\E k \in Slots : Arrive(k) \/ Take(k)) \/ Ask

(* What is received was there; and a call returns.                         *)
MSafe == MInit /\ [][MNext]_mvars
MSpec == MSafe /\ WF_mvars(\E k \in Slots : Take(k))
=============================================================================
