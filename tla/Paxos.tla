------------------------------- MODULE Paxos -------------------------------
(***************************************************************************)
(* Single-decree Paxos as src/src/examples/paxos.rs runs it: acceptors     *)
(* driven by whatever message arrives next, proposers that broadcast,      *)
(* collect a majority of promises and commit.                              *)
(*                                                                         *)
(* Every channel has one sender and one receiver and keeps its whole       *)
(* history, as `sent` does in NetSM; n1a, n1b and n2a count what has been  *)
(* received (delivery is FIFO).  A handler receives once and then only     *)
(* sends, so the acceptor's actions are the handler as a whole; a proposer *)
(* step is one send, one receive, or the commitment.                       *)
(***************************************************************************)
EXTENDS Integers, Sequences, FiniteSets, Functions

CONSTANTS
    NAcc,       \* number of acceptors (n_acc)
    Proposers,  \* proposer ids
    Values,     \* values a proposer may want
    Want(_, _), \* Want(p, r): Proposer.want when p runs round r
    LastRound   \* bound: p calls round() up to ballot round LastRound[p]

ASSUME NAccAssumption == NAcc \in Nat \ {0}
ASSUME ProposersAssumption == Proposers \subseteq Nat
ASSUME LastRoundAssumption == LastRound \in [Proposers -> Nat]
ASSUME WantAssumption ==
    \A p \in Proposers : \A r \in 0..LastRound[p] : Want(p, r) \in Values

Acceptors == 0 .. NAcc - 1
Quorums   == {q \in SUBSET Acceptors : Cardinality(q) + Cardinality(q) > NAcc}

NeedHalf  == NAcc \div 2           \* mutant: half is enough
Need      == NAcc \div 2 + 1

-----------------------------------------------------------------------------
(* Ballots: lexicographic, so two proposers never share one.               *)

Ballots == [round : Nat, prop : Nat]

Blt(x, y) == \/ x.round < y.round
             \/ x.round = y.round /\ x.prop < y.prop

Ble(x, y) == x = y \/ Blt(x, y)

ZeroBallot == [round |-> 0, prop |-> 0]
NoVal      == 0          \* acc_val before anything is accepted

-----------------------------------------------------------------------------
(* Messages, one constructor per variant of PMsg.                          *)

VALS == Values \cup {NoVal}

Promise(b, had, ab, av)  == [bal |-> b, had |-> had, abal |-> ab, aval |-> av]
Proposal(b, v)           == [bal |-> b, val |-> v]  \* Accept, Accepted, Decided
LPromise(b, had, ab, av) ==
    [kind |-> "LPromise", bal |-> b, had |-> had, abal |-> ab, aval |-> av]
LAccept(b, v)            == [kind |-> "LAccept", bal |-> b, val |-> v]

Promises  == [bal : Ballots, had : BOOLEAN, abal : Ballots, aval : VALS]
Proposals == [bal : Ballots, val : Values]
LogEntries ==
    [kind : {"LPromise"}, bal : Ballots, had : BOOLEAN, abal : Ballots, aval : VALS]
    \cup [kind : {"LAccept"}, bal : Ballots, val : Values]
Reports   == [src : Acceptors, had : BOOLEAN, abal : Ballots, aval : VALS]

-----------------------------------------------------------------------------
VARIABLES
    p1a, p1b, p2a, p2b,   \* channel histories, indexed [proposer][acceptor]
    n1a, n1b, n2a,        \* how many messages of p1a, p1b, p2a were received
    pdec,                 \* pdec[p]: proposer p's decision log
    alog,                 \* alog[a]: acceptor a's log
    maxBal, hasAcc, accBal, accVal,   \* acceptor state
    pc, idx, bal, got, val            \* proposer state

chanVars == <<p1a, p1b, p2a, p2b, n1a, n1b, n2a, pdec, alog>>
accVars  == <<maxBal, hasAcc, accBal, accVal>>
propVars == <<pc, idx, bal, got, val>>
vars     == <<p1a, p1b, p2a, p2b, n1a, n1b, n2a, pdec, alog,
              maxBal, hasAcc, accBal, accVal, pc, idx, bal, got, val>>

Link(x) == [p \in Proposers |-> [a \in Acceptors |-> x]]

AccInit ==
    /\ maxBal = [a \in Acceptors |-> ZeroBallot]
    /\ hasAcc = [a \in Acceptors |-> FALSE]
    /\ accBal = [a \in Acceptors |-> ZeroBallot]
    /\ accVal = [a \in Acceptors |-> NoVal]

(* A proposer is built with a ballot above the acceptors' initial one.     *)
PropInit ==
    /\ pc  = [p \in Proposers |-> "prepare"]
    /\ idx = [p \in Proposers |-> 0]
    /\ bal = [p \in Proposers |-> [round |-> 1, prop |-> p]]
    /\ got = [p \in Proposers |-> {}]
    /\ val = [p \in Proposers |-> NoVal]

ChanInit ==
    /\ p1a = Link(<<>>) /\ p1b = Link(<<>>) /\ p2a = Link(<<>>) /\ p2b = Link(<<>>)
    /\ n1a = Link(0) /\ n1b = Link(0) /\ n2a = Link(0)
    /\ pdec = [p \in Proposers |-> <<>>]
    /\ alog = [a \in Acceptors |-> <<>>]

Init == AccInit /\ PropInit /\ ChanInit

Pending(ch, n, p, a) == n[p][a] < Len(ch[p][a])
Oldest(ch, n, p, a)  == ch[p][a][n[p][a] + 1]

-----------------------------------------------------------------------------
(* The acceptor.  An answer is given or nothing happens: there is no       *)
(* refusal message.                                                        *)

WillPromiseAgain(a, b) == ~Blt(b, maxBal[a])    \* mutant: not strict
WillPromise(a, b)      == Blt(maxBal[a], b)

OnPrepare(a, p) ==
    /\ Pending(p1a, n1a, p, a)
    /\ n1a' = [n1a EXCEPT ![p][a] = @ + 1]
    /\ LET b == Oldest(p1a, n1a, p, a)
       IN IF WillPromise(a, b)
          THEN /\ alog' = [alog EXCEPT ![a] =
                     Append(@, LPromise(b, hasAcc[a], accBal[a], accVal[a]))]
               /\ p1b' = [p1b EXCEPT ![p][a] =
                     Append(@, Promise(b, hasAcc[a], accBal[a], accVal[a]))]
               /\ maxBal' = [maxBal EXCEPT ![a] = b]
          ELSE UNCHANGED <<alog, p1b, maxBal>>
    /\ UNCHANGED <<p1a, p2a, p2b, n1b, n2a, pdec, hasAcc, accBal, accVal, propVars>>

WillAcceptStrictly(a, b) == Blt(maxBal[a], b)   \* mutant: refuses its own promise
WillAcceptAny(a, b)      == TRUE                \* mutant: forgets the promise
WillAccept(a, b)         == ~Blt(b, maxBal[a])

OnAccept(a, p) ==
    /\ Pending(p2a, n2a, p, a)
    /\ n2a' = [n2a EXCEPT ![p][a] = @ + 1]
    /\ LET m == Oldest(p2a, n2a, p, a)
       IN IF WillAccept(a, m.bal)
          THEN /\ alog' = [alog EXCEPT ![a] = Append(@, LAccept(m.bal, m.val))]
               /\ p2b' = [p2b EXCEPT ![p][a] = Append(@, Proposal(m.bal, m.val))]
               /\ maxBal' = [maxBal EXCEPT ![a] = m.bal]
               /\ hasAcc' = [hasAcc EXCEPT ![a] = TRUE]
               /\ accBal' = [accBal EXCEPT ![a] = m.bal]
               /\ accVal' = [accVal EXCEPT ![a] = m.val]
          ELSE UNCHANGED <<alog, p2b, accVars>>
    /\ UNCHANGED <<p1a, p1b, p2a, n1a, n1b, pdec, propVars>>

-----------------------------------------------------------------------------
(* The proposer.  broadcast_prepare and the loop at the end of commit send *)
(* to one acceptor at a time, in slot order.                               *)

MoreAcceptorsLate(p) == idx[p] < NAcc           \* mutant: one slot too many
MoreAcceptors(p)     == idx[p] + 1 < NAcc

SendPrepare(p) ==
    /\ pc[p] = "prepare"
    /\ bal[p].round <= LastRound[p]
    /\ p1a' = [p1a EXCEPT ![p][idx[p]] = Append(@, bal[p])]
    /\ IF MoreAcceptors(p)
       THEN idx' = [idx EXCEPT ![p] = @ + 1] /\ UNCHANGED pc
       ELSE idx' = [idx EXCEPT ![p] = 0] /\ pc' = [pc EXCEPT ![p] = "gather"]
    /\ UNCHANGED <<p1b, p2a, p2b, n1a, n1b, n2a, pdec, alog, accVars, bal, got, val>>

Sources(p) == {g.src : g \in got[p]}

CountsAnyBallot(p, a, m) == a \notin Sources(p)  \* mutant: a stale promise counts
Counts(p, a, m)          == a \notin Sources(p) /\ m.bal = bal[p]

(* One turn of collect: take any ready promise; keep it only if it is for  *)
(* the ballot in play and its acceptor has not been counted yet.           *)
Collect(p, a) ==
    /\ pc[p] = "gather"
    /\ Cardinality(got[p]) < Need
    /\ Pending(p1b, n1b, p, a)
    /\ n1b' = [n1b EXCEPT ![p][a] = @ + 1]
    /\ LET m == Oldest(p1b, n1b, p, a)
       IN IF Counts(p, a, m)
          THEN got' = [got EXCEPT ![p] = @ \cup
                 {[src |-> a, had |-> m.had, abal |-> m.abal, aval |-> m.aval]}]
          ELSE UNCHANGED got
    /\ UNCHANGED <<p1a, p1b, p2a, p2b, n1a, n2a, pdec, alog, accVars, pc, idx, bal, val>>

\* mutant: any report will do
MayProposeAnyReport(reports, want, v) ==
    LET accepted == {g \in reports : g.had}
    IN IF accepted = {} THEN v = want ELSE \E g \in accepted : g.aval = v

(* The fold at the end of gather_quorum: v is the value of a highest       *)
(* report, and `want` when nobody reported an acceptance.                  *)
MayPropose(reports, want, v) ==
    LET accepted == {g \in reports : g.had}
    IN IF accepted = {}
       THEN v = want
       ELSE \E g \in accepted : /\ g.aval = v
                                /\ \A h \in accepted : Ble(h.abal, g.abal)

Commit(p) ==
    /\ pc[p] = "gather"
    /\ Cardinality(got[p]) = Need
    /\ \E v \in Values :
         /\ MayPropose(got[p], Want(p, bal[p].round), v)
         /\ pdec' = [pdec EXCEPT ![p] = Append(@, Proposal(bal[p], v))]
         /\ val' = [val EXCEPT ![p] = v]
    /\ pc' = [pc EXCEPT ![p] = "accept"]
    /\ UNCHANGED <<p1a, p1b, p2a, p2b, n1a, n1b, n2a, alog, accVars, idx, bal, got>>

AcceptWanted(p) == Proposal(bal[p], Want(p, bal[p].round))  \* mutant: ignores phase one
AcceptMsg(p)    == Proposal(bal[p], val[p])

(* The last Accept of a round advances the ballot and drops the round's    *)
(* locals: nothing about the gathering survives.                           *)
SendAccept(p) ==
    /\ pc[p] = "accept"
    /\ p2a' = [p2a EXCEPT ![p][idx[p]] = Append(@, AcceptMsg(p))]
    /\ IF MoreAcceptors(p)
       THEN idx' = [idx EXCEPT ![p] = @ + 1] /\ UNCHANGED <<pc, bal, got, val>>
       ELSE /\ idx' = [idx EXCEPT ![p] = 0]
            /\ pc'  = [pc EXCEPT ![p] = "prepare"]
            /\ bal' = [bal EXCEPT ![p].round = @ + 1]
            /\ got' = [got EXCEPT ![p] = {}]
            /\ val' = [val EXCEPT ![p] = NoVal]
    /\ UNCHANGED <<p1a, p1b, p2b, n1a, n1b, n2a, pdec, alog, accVars>>

\* mutant: takes the proposers in turn instead of whichever has spoken
AcceptorInTurn(a) ==
    \E p \in Proposers : /\ \A q \in Proposers : q < p => n1a[q][a] > n1a[p][a]
                         /\ OnPrepare(a, p) \/ OnAccept(a, p)

AcceptorStep(a) == \E p \in Proposers : OnPrepare(a, p) \/ OnAccept(a, p)

ProposerStep(p) ==
    \/ SendPrepare(p)
    \/ \E a \in Acceptors : Collect(p, a)
    \/ Commit(p)
    \/ SendAccept(p)

Next ==
    \/ \E a \in Acceptors : AcceptorStep(a)
    \/ \E p \in Proposers : ProposerStep(p)

Spec == Init /\ [][Next]_vars

(* Each thread keeps running as long as it can: nothing in the program     *)
(* stops an acceptor whose mailbox is non-empty or a proposer with a send  *)
(* or a receive to do.                                                     *)
Fairness ==
    /\ \A a \in Acceptors : WF_vars(AcceptorStep(a))
    /\ \A p \in Proposers : WF_vars(ProposerStep(p))

FairSpec == Spec /\ Fairness

-----------------------------------------------------------------------------
(* Properties.                                                             *)

TypeOK ==
    /\ p1a \in [Proposers -> [Acceptors -> Seq(Ballots)]]
    /\ p1b \in [Proposers -> [Acceptors -> Seq(Promises)]]
    /\ p2a \in [Proposers -> [Acceptors -> Seq(Proposals)]]
    /\ p2b \in [Proposers -> [Acceptors -> Seq(Proposals)]]
    /\ n1a \in [Proposers -> [Acceptors -> Nat]]
    /\ n1b \in [Proposers -> [Acceptors -> Nat]]
    /\ n2a \in [Proposers -> [Acceptors -> Nat]]
    /\ pdec \in [Proposers -> Seq(Proposals)]
    /\ alog \in [Acceptors -> Seq(LogEntries)]
    /\ maxBal \in [Acceptors -> Ballots]
    /\ hasAcc \in [Acceptors -> BOOLEAN]
    /\ accBal \in [Acceptors -> Ballots]
    /\ accVal \in [Acceptors -> VALS]
    /\ pc \in [Proposers -> {"prepare", "gather", "accept"}]
    /\ idx \in [Proposers -> Acceptors]
    /\ bal \in [Proposers -> Ballots]
    /\ got \in [Proposers -> SUBSET Reports]
    /\ val \in [Proposers -> VALS]

(* Acceptor::inv: the struct's fields summarise the log.  Everything       *)
(* promised is at or below maxBal, everything accepted at or below accBal, *)
(* and (accBal, accVal) is an acceptance the log really holds.             *)
AcceptorInv ==
    \A a \in Acceptors :
      /\ \A e \in Range(alog[a]) :
           /\ e.kind = "LPromise" => Ble(e.bal, maxBal[a])
           /\ e.kind = "LAccept"  => hasAcc[a] /\ Ble(e.bal, accBal[a])
      /\ hasAcc[a] => /\ Ble(accBal[a], maxBal[a])
                      /\ LAccept(accBal[a], accVal[a]) \in Range(alog[a])

(* quorum_backs: a majority promised b to p, and v is the value of the     *)
(* highest report among them, or none of them reported anything.           *)
QuorumBacks(p, b, v) ==
    \E q \in Quorums :
      LET promises == {m \in UNION {Range(p1b[p][a]) : a \in q} : m.bal = b}
          accepted == {m \in promises : m.had}
      IN /\ \A a \in q : \E m \in promises : m \in Range(p1b[p][a])
         /\ \/ accepted = {}
            \/ \E m \in accepted : /\ m.aval = v
                                   /\ \A h \in accepted : Ble(h.abal, m.abal)

(* Every commitment carries a new, higher ballot of the proposer's own and *)
(* is backed by a quorum (the gate of pdec(p) and rec_decided_backed).     *)
CommitmentsBacked ==
    \A p \in Proposers : \A j \in DOMAIN pdec[p] :
      LET m == pdec[p][j]
      IN /\ m.bal.prop = p
         /\ \A i \in 1..(j - 1) : Blt(pdec[p][i].bal, m.bal)
         /\ QuorumBacks(p, m.bal, m.val)

(* Every message that answers or rests on another one finds it in the      *)
(* record: a promise and an acceptance in the acceptor's log, an           *)
(* acceptance also at the Accept it answers, an Accept at the proposer's   *)
(* commitment (Paxos::caused_by).                                          *)
Provenance ==
    \A p \in Proposers, a \in Acceptors :
      /\ \A m \in Range(p2a[p][a]) : m \in Range(pdec[p])
      /\ \A m \in Range(p1b[p][a]) :
           LPromise(m.bal, m.had, m.abal, m.aval) \in Range(alog[a])
      /\ \A m \in Range(p2b[p][a]) : /\ m \in Range(p2a[p][a])
                                     /\ LAccept(m.bal, m.val) \in Range(alog[a])
      /\ \A e \in Range(alog[a]) :
           e.kind = "LAccept" /\ e.bal.prop = p
             => Proposal(e.bal, e.val) \in Range(p2a[p][a])

Accepted(a, m) == m \in Range(p2b[m.bal.prop][a])

(* A proposal is chosen when a majority has answered Accepted for it.      *)
Chosen(m) == {a \in Acceptors : Accepted(a, m)} \in Quorums

Committed == UNION {Range(pdec[p]) : p \in Proposers}

(* Two chosen proposals, whatever their ballots, carry the same value      *)
(* (lemma_agreement).                                                      *)
Agreement ==
    \A m1, m2 \in Committed : Chosen(m1) /\ Chosen(m2) => m1.val = m2.val

(* A commitment above a chosen proposal repeats its value, also when the   *)
(* lower one is chosen only later (lemma_safe_at).                         *)
CommitsExtendChosen ==
    \A m1, m2 \in Committed :
      Chosen(m1) /\ Blt(m1.bal, m2.bal) => m2.val = m1.val

(* Nobody refuses and nobody retries with a higher ballot, yet a value is  *)
(* always chosen in the end: the proposer with the highest ballot in play  *)
(* is refused by no acceptor.                                              *)
EventuallyChosen == <>(\E m \in Committed : Chosen(m))
=============================================================================
