------------------------------ MODULE MCPaxos ------------------------------
(* Paxos for TLC: each proposer wants a value of its own.                  *)
EXTENDS Paxos

MCProposers  == {0, 1}
MCValues     == {10, 20}
MCWant(p, r) == IF p = 0 THEN 10 ELSE 20

\* Three ballots at three acceptors: (1,0), (1,1) and (2,0).
ThreeBallots == [p \in MCProposers |-> IF p = 0 THEN 2 ELSE 1]

(* A partial order reduction for the run whose interleavings are too many. *)
(* Sends are left movers and a receive that changes nothing but its count  *)
(* commutes with every other step, so both may be taken first: messages    *)
(* then only stay pending longer, and acceptors and collectors still meet  *)
(* the messages that matter in every order.                                *)
CanSend(p) == \/ pc[p] = "prepare" /\ bal[p].round <= LastRound[p]
              \/ pc[p] = "gather" /\ Cardinality(got[p]) = Need
              \/ pc[p] = "accept"

Refusable(a, p) ==
    \/ Pending(p1a, n1a, p, a) /\ ~Blt(maxBal[a], Oldest(p1a, n1a, p, a))
    \/ Pending(p2a, n2a, p, a) /\ Blt(Oldest(p2a, n2a, p, a).bal, maxBal[a])

Unwanted(a, p) ==
    /\ pc[p] = "gather" /\ Pending(p1b, n1b, p, a)
    /\ a \in Sources(p) \/ Oldest(p1b, n1b, p, a).bal # bal[p]

EagerSteps ==
    LET senders  == {p \in Proposers : CanSend(p)}
        refusals == {x \in Acceptors \X Proposers : Refusable(x[1], x[2])}
        drops    == {x \in Acceptors \X Proposers : Unwanted(x[1], x[2])}
    IN CASE senders # {} ->
              LET p == CHOOSE p \in senders : \A q \in senders : p <= q
              IN pc'[p] # pc[p] \/ idx'[p] # idx[p]
         [] senders = {} /\ refusals # {} -> <<n1a, n2a>>' # <<n1a, n2a>> /\ alog' = alog
         [] senders = {} /\ refusals = {} /\ drops # {} -> n1b' # n1b /\ got' = got
         [] OTHER -> TRUE
=============================================================================
