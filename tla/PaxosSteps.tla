----------------------------- MODULE PaxosSteps -----------------------------
(***************************************************************************)
(* The program of paxos.rs one endpoint call at a time.  Paxos takes an    *)
(* acceptor's handler as one action; here the receive, the log entry and   *)
(* the answer are three, with every other thread free to run in between,   *)
(* and the fields are assigned only after the answer has been sent.  The   *)
(* proposers' actions are one call each in Paxos already.                  *)
(***************************************************************************)
EXTENDS Paxos

VARIABLES
    at,     \* where acceptor a's handler stands
    cur     \* the proposer whose message it is handling

NoProp == -1

stepVars == <<vars, at, cur>>

StepInit ==
    /\ Init
    /\ at  = [a \in Acceptors |-> "idle"]
    /\ cur = [a \in Acceptors |-> NoProp]

Hold(a, p, where) == at' = [at EXCEPT ![a] = where] /\ cur' = [cur EXCEPT ![a] = p]

IdleOrLogged(a) == at[a] \in {"idle", "promise"}   \* mutant: reads on before answering
Idle(a)         == at[a] = "idle"

(* recv_any, then the comparison that decides whether to answer at all.    *)
RecvPrepare(a, p) ==
    /\ Idle(a)
    /\ Pending(p1a, n1a, p, a)
    /\ n1a' = [n1a EXCEPT ![p][a] = @ + 1]
    /\ IF WillPromise(a, Oldest(p1a, n1a, p, a))
       THEN Hold(a, p, "logPromise")
       ELSE UNCHANGED <<at, cur>>
    /\ UNCHANGED <<p1a, p1b, p2a, p2b, n1b, n2a, pdec, alog, accVars, propVars>>

RecvAccept(a, p) ==
    /\ Idle(a)
    /\ Pending(p2a, n2a, p, a)
    /\ n2a' = [n2a EXCEPT ![p][a] = @ + 1]
    /\ IF WillAccept(a, Oldest(p2a, n2a, p, a).bal)
       THEN Hold(a, p, "logAccept")
       ELSE UNCHANGED <<at, cur>>
    /\ UNCHANGED <<p1a, p1b, p2a, p2b, n1a, n1b, pdec, alog, accVars, propVars>>

\* The message the handler was called with.
InHand1(a) == p1a[cur[a]][a][n1a[cur[a]][a]]
InHand2(a) == p2a[cur[a]][a][n2a[cur[a]][a]]

LogPromise(a) ==
    /\ at[a] = "logPromise"
    /\ alog' = [alog EXCEPT ![a] =
           Append(@, LPromise(InHand1(a), hasAcc[a], accBal[a], accVal[a]))]
    /\ Hold(a, cur[a], "promise")
    /\ UNCHANGED <<p1a, p1b, p2a, p2b, n1a, n1b, n2a, pdec, accVars, propVars>>

SendPromise(a) ==
    /\ at[a] = "promise"
    /\ p1b' = [p1b EXCEPT ![cur[a]][a] =
           Append(@, Promise(InHand1(a), hasAcc[a], accBal[a], accVal[a]))]
    /\ maxBal' = [maxBal EXCEPT ![a] = InHand1(a)]
    /\ Hold(a, NoProp, "idle")
    /\ UNCHANGED <<p1a, p2a, p2b, n1a, n1b, n2a, pdec, alog, hasAcc, accBal, accVal, propVars>>

LogAccept(a) ==
    /\ at[a] = "logAccept"
    /\ alog' = [alog EXCEPT ![a] = Append(@, LAccept(InHand2(a).bal, InHand2(a).val))]
    /\ Hold(a, cur[a], "accepted")
    /\ UNCHANGED <<p1a, p1b, p2a, p2b, n1a, n1b, n2a, pdec, accVars, propVars>>

SendAccepted(a) ==
    /\ at[a] = "accepted"
    /\ p2b' = [p2b EXCEPT ![cur[a]][a] =
           Append(@, Proposal(InHand2(a).bal, InHand2(a).val))]
    /\ maxBal' = [maxBal EXCEPT ![a] = InHand2(a).bal]
    /\ hasAcc' = [hasAcc EXCEPT ![a] = TRUE]
    /\ accBal' = [accBal EXCEPT ![a] = InHand2(a).bal]
    /\ accVal' = [accVal EXCEPT ![a] = InHand2(a).val]
    /\ Hold(a, NoProp, "idle")
    /\ UNCHANGED <<p1a, p1b, p2a, n1a, n1b, n2a, pdec, alog, propVars>>

AcceptorCall(a) ==
    \/ \E p \in Proposers : RecvPrepare(a, p) \/ RecvAccept(a, p)
    \/ LogPromise(a)
    \/ SendPromise(a)
    \/ LogAccept(a)
    \/ SendAccepted(a)

ProposerCall(p) == ProposerStep(p) /\ UNCHANGED <<at, cur>>

StepNext ==
    \/ \E a \in Acceptors : AcceptorCall(a)
    \/ \E p \in Proposers : ProposerCall(p)

StepSpec == StepInit /\ [][StepNext]_stepVars

(* A thread that has a call to make makes it in the end.                   *)
StepFairness ==
    /\ \A a \in Acceptors : WF_stepVars(AcceptorCall(a))
    /\ \A p \in Proposers : WF_stepVars(ProposerCall(p))

FairStepSpec == StepSpec /\ StepFairness
-----------------------------------------------------------------------------
(* The handler as one action: until the answer is out, its message counts  *)
(* as unread and its log entry as unwritten.  A receive commutes to the    *)
(* right and a send to the left, so the whole is where the answer is.      *)

OnPhase(a, p, phase) == cur[a] = p /\ at[a] \in phase

Unread(n, phase) ==
    [p \in Proposers |-> [a \in Acceptors |->
        IF OnPhase(a, p, phase) THEN n[p][a] - 1 ELSE n[p][a]]]

alogBar ==
    [a \in Acceptors |-> IF at[a] \in {"promise", "accepted"}
                         THEN SubSeq(alog[a], 1, Len(alog[a]) - 1)
                         ELSE alog[a]]

Whole == INSTANCE Paxos WITH
    n1a  <- Unread(n1a, {"logPromise", "promise"}),
    n2a  <- Unread(n2a, {"logAccept", "accepted"}),
    alog <- alogBar

(* Handlers are atomic: whatever runs between an acceptor's receive, its   *)
(* log entry and its answer, the program does what Paxos says.             *)
ImplementsPaxos == Whole!Spec
=============================================================================
