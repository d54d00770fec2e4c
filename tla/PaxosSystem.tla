---------------------------- MODULE PaxosSystem ----------------------------
(***************************************************************************)
(* The deployments of src/src/examples/paxos_system.rs: one thread per     *)
(* live acceptor that handles exactly Budget messages (`run`) and exits,   *)
(* dropping its mailbox; the main thread runs the rounds of one proposer,  *)
(* joins the live acceptors and returns the value committed last.          *)
(* Endpoints of threads never started stay open until main returns.        *)
(***************************************************************************)
EXTENDS Paxos

CONSTANTS
    Deployments \* [leader, live, rounds]: the proposer main runs (the others
                \* stay silent), the acceptors started, the rounds asked for

ASSUME DeployAssumption ==
    \A d \in Deployments :
      /\ d.leader \in Proposers
      /\ d.live \subseteq Acceptors
      /\ d.rounds \in 1 .. LastRound[d.leader]

VARIABLES
    dep,        \* the deployment being run
    handled,    \* handled[a]: turns of acceptor a's driver so far
    main,       \* "rounds", "joining" or "returned"
    ret         \* what the last round() returned

sysVars == <<vars, dep, handled, main, ret>>

BudgetPerRound == dep.rounds           \* mutant: one message per round
Budget         == 2 * dep.rounds       \* the argument of run()

SysInit ==
    /\ Init
    /\ dep \in Deployments
    /\ handled = [a \in Acceptors |-> 0]
    /\ main = "rounds"
    /\ ret = NoVal

(* One turn of `run`: handle one message, until the budget is spent.       *)
Drive(a) ==
    /\ a \in dep.live
    /\ handled[a] < Budget
    /\ AcceptorStep(a)
    /\ handled' = [handled EXCEPT ![a] = @ + 1]
    /\ UNCHANGED <<dep, main, ret>>

RoundsLeft == bal[dep.leader].round <= dep.rounds

Round ==
    /\ main = "rounds" /\ RoundsLeft
    /\ LET p == dep.leader
       IN /\ ProposerStep(p)
          /\ ret' = IF pdec'[p] # pdec[p] THEN val'[p] ELSE ret
    /\ UNCHANGED <<dep, handled, main>>

RoundsDone ==
    /\ main = "rounds" /\ ~RoundsLeft
    /\ main' = "joining"
    /\ UNCHANGED <<vars, dep, handled, ret>>

Exited(a) == a \in dep.live /\ handled[a] = Budget

\* mutant: returns without waiting for the threads
JoinNobody ==
    /\ main = "joining"
    /\ main' = "returned"
    /\ UNCHANGED <<vars, dep, handled, ret>>

Join ==
    /\ main = "joining"
    /\ \A a \in dep.live : Exited(a)
    /\ main' = "returned"
    /\ UNCHANGED <<vars, dep, handled, ret>>

(* The deployment is over; nothing runs any more.                          *)
Returned == main = "returned" /\ UNCHANGED sysVars

SysNext == (\E a \in Acceptors : Drive(a)) \/ Round \/ RoundsDone \/ Join \/ Returned

SysSpec ==
    /\ SysInit /\ [][SysNext]_sysVars
    /\ \A a \in Acceptors : WF_sysVars(Drive(a))
    /\ WF_sysVars(Round) /\ WF_sysVars(RoundsDone) /\ WF_sysVars(Join)

-----------------------------------------------------------------------------
(* send() unwraps, so writing to a receiver that was dropped would panic:  *)
(* nothing is ever sent to an acceptor that has spent its turns, and no    *)
(* acceptor answers after main has returned and dropped the mailboxes.     *)
NoSendToExited ==
    [][/\ \A a \in Acceptors, p \in Proposers :
            Exited(a) => p1a'[p][a] = p1a[p][a] /\ p2a'[p][a] = p2a[p][a]
       /\ main = "returned" => UNCHANGED <<p1b, p2b>>]_sysVars

(* When main returns, every thread it started has run to its end and the   *)
(* value it reports is not only committed but chosen, whatever order the   *)
(* acceptors took Prepare and Accept in.                                   *)
ReturnsChosen ==
    main = "returned" =>
      \E m \in Range(pdec[dep.leader]) : Chosen(m) /\ m.val = ret

(* With a majority live the deployment returns: no acceptor waits for a    *)
(* message that is not coming, and the silent peers stop nobody.           *)
Terminates == <>(main = "returned")

(* main.rs:37-38: "Round two prefers 99, but a quorum has already accepted *)
(* 42 and reports it, so 42 is what the proposer is allowed to commit".    *)
SecondRoundKeepsFirst == main = "returned" => ret = Want(dep.leader, 1)
=============================================================================
