---------------------------- MODULE MCPaxosSteps ----------------------------
(* The Paxos program step by step for TLC: two duelling proposers with one *)
(* round each, three acceptors.                                            *)
EXTENDS PaxosNet

MCProposers  == {0, 1}
MCValues     == {10, 20}
MCWant(p, r) == IF p = 0 THEN 10 ELSE 20
OneRound     == [p \in MCProposers |-> 1]

(* A broadcast is taken at once: sends are left movers and the messages    *)
(* stay pending as long as their receivers like.  Nothing of the           *)
(* acceptors' or of the collectors' interleaving is cut.                   *)
CanSend(p) == \/ pc[p] = "prepare" /\ bal[p].round <= LastRound[p]
              \/ pc[p] = "accept"

EagerSends ==
    LET senders == {p \in Proposers : CanSend(p)}
    IN senders # {} =>
         LET p == CHOOSE p \in senders : \A q \in senders : p <= q
         IN pc'[p] # pc[p] \/ idx'[p] # idx[p]
=============================================================================
