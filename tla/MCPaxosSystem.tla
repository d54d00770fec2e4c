--------------------------- MODULE MCPaxosSystem ---------------------------
(* The deployments `demo` in main.rs asks for.                             *)
EXTENDS PaxosSystem

MCProposers  == {0, 1}
MCValues     == {7, 42, 99}
MCWant(p, r) == CASE p = 1 -> 7 [] p = 0 /\ r = 1 -> 42 [] OTHER -> 99
MCLastRound  == [p \in MCProposers |-> IF p = 0 THEN 2 ELSE 1]

Deploy(p, live, n) == [leader |-> p, live |-> live, rounds |-> n]

DemoDeployments ==
    { Deploy(0, {0, 1, 2}, 1),    \* deploy_paxos(3, 1)
      Deploy(0, {0, 1}, 1),       \* deploy_paxos(2, 1)
      Deploy(0, {0, 1, 2}, 2),    \* deploy_paxos(3, 2)
      Deploy(1, {0, 1, 2}, 1) }   \* deploy_paxos_two(3)

SecondRound == { Deploy(0, {0, 1, 2}, 2) }
=============================================================================
