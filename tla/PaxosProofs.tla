---------------------------- MODULE PaxosProofs ----------------------------
(***************************************************************************)
(* Proofs about Paxos for every number of acceptors, proposers and rounds: *)
(* type correctness, then agreement.                                       *)
(***************************************************************************)
EXTENDS Paxos, TLAPS, FiniteSetTheorems

-----------------------------------------------------------------------------
(* Channels.                                                               *)

LEMMA OldestType ==
  ASSUME NEW S, NEW ch \in [Proposers -> [Acceptors -> Seq(S)]],
         NEW n \in [Proposers -> [Acceptors -> Nat]],
         NEW p \in Proposers, NEW a \in Acceptors,
         Pending(ch, n, p, a)
  PROVE  Oldest(ch, n, p, a) \in S
BY DEF Pending, Oldest

LEMMA SendType ==
  ASSUME NEW S, NEW ch \in [Proposers -> [Acceptors -> Seq(S)]],
         NEW p \in Proposers, NEW a \in Acceptors, NEW m \in S
  PROVE  [ch EXCEPT ![p][a] = Append(@, m)] \in [Proposers -> [Acceptors -> Seq(S)]]
OBVIOUS

LEMMA ReceiveType ==
  ASSUME NEW n \in [Proposers -> [Acceptors -> Nat]],
         NEW p \in Proposers, NEW a \in Acceptors
  PROVE  [n EXCEPT ![p][a] = @ + 1] \in [Proposers -> [Acceptors -> Nat]]
OBVIOUS

LEMMA ZeroAcceptor == 0 \in Acceptors
BY NAccAssumption DEF Acceptors

-----------------------------------------------------------------------------
(* Type correctness.                                                       *)

LEMMA InitType == Init => TypeOK
<1> SUFFICES ASSUME Init PROVE TypeOK OBVIOUS
<1>1. ZeroBallot \in Ballots BY DEF ZeroBallot, Ballots
<1>2. \A p \in Proposers : [round |-> 1, prop |-> p] \in Ballots
  BY ProposersAssumption DEF Ballots
<1>3. NoVal \in VALS BY DEF VALS
<1> QED BY <1>1, <1>2, <1>3, ZeroAcceptor
        DEF Init, AccInit, PropInit, ChanInit, Link, TypeOK

LEMMA OnPrepareType ==
  ASSUME TypeOK, NEW a \in Acceptors, NEW p \in Proposers, OnPrepare(a, p)
  PROVE  TypeOK'
<1> DEFINE b == Oldest(p1a, n1a, p, a)
           m == Promise(b, hasAcc[a], accBal[a], accVal[a])
           e == LPromise(b, hasAcc[a], accBal[a], accVal[a])
<1>1. b \in Ballots BY OldestType DEF TypeOK, OnPrepare
<1>2. m \in Promises /\ e \in LogEntries
  BY <1>1 DEF TypeOK, Promise, LPromise, Promises, LogEntries
<1>3. n1a' \in [Proposers -> [Acceptors -> Nat]]
  BY ReceiveType DEF TypeOK, OnPrepare
<1>4. CASE WillPromise(a, b)
  <2>0. /\ p1b' = [p1b EXCEPT ![p][a] = Append(@, m)]
        /\ alog' = [alog EXCEPT ![a] = Append(@, e)]
    BY <1>4 DEF OnPrepare
  <2>00. /\ p1b \in [Proposers -> [Acceptors -> Seq(Promises)]]
         /\ alog \in [Acceptors -> Seq(LogEntries)]
    BY DEF TypeOK
  <2> HIDE DEF m, e
  <2>1. p1b' \in [Proposers -> [Acceptors -> Seq(Promises)]]
    BY <1>2, <2>0, <2>00, SendType
  <2>2. alog' \in [Acceptors -> Seq(LogEntries)]
    BY <1>2, <2>0, <2>00
  <2>3. maxBal' \in [Acceptors -> Ballots]
    BY <1>1, <1>4 DEF TypeOK, OnPrepare
  <2> QED BY <1>3, <2>1, <2>2, <2>3 DEF TypeOK, OnPrepare, propVars
<1>5. CASE ~WillPromise(a, b)
  BY <1>3, <1>5 DEF TypeOK, OnPrepare, propVars
<1> QED BY <1>4, <1>5

LEMMA OnAcceptType ==
  ASSUME TypeOK, NEW a \in Acceptors, NEW p \in Proposers, OnAccept(a, p)
  PROVE  TypeOK'
<1> DEFINE m == Oldest(p2a, n2a, p, a)
<1>1. m \in Proposals BY OldestType DEF TypeOK, OnAccept
<1>2. /\ m.bal \in Ballots /\ m.val \in VALS
      /\ Proposal(m.bal, m.val) \in Proposals
      /\ LAccept(m.bal, m.val) \in LogEntries
  BY <1>1 DEF Proposals, Proposal, LAccept, LogEntries, VALS
<1>3. n2a' \in [Proposers -> [Acceptors -> Nat]]
  BY ReceiveType DEF TypeOK, OnAccept
<1>4. CASE WillAccept(a, m.bal)
  <2>0. /\ p2b' = [p2b EXCEPT ![p][a] = Append(@, Proposal(m.bal, m.val))]
        /\ alog' = [alog EXCEPT ![a] = Append(@, LAccept(m.bal, m.val))]
    BY <1>4 DEF OnAccept
  <2>00. /\ p2b \in [Proposers -> [Acceptors -> Seq(Proposals)]]
         /\ alog \in [Acceptors -> Seq(LogEntries)]
    BY DEF TypeOK
  <2>1. p2b' \in [Proposers -> [Acceptors -> Seq(Proposals)]]
    BY <1>2, <2>0, <2>00, SendType
  <2>2. alog' \in [Acceptors -> Seq(LogEntries)]
    BY <1>2, <2>0, <2>00
  <2>3. /\ maxBal' \in [Acceptors -> Ballots] /\ hasAcc' \in [Acceptors -> BOOLEAN]
        /\ accBal' \in [Acceptors -> Ballots] /\ accVal' \in [Acceptors -> VALS]
    BY <1>2, <1>4 DEF TypeOK, OnAccept
  <2> QED BY <1>3, <2>1, <2>2, <2>3 DEF TypeOK, OnAccept, propVars
<1>5. CASE ~WillAccept(a, m.bal)
  BY <1>3, <1>5 DEF TypeOK, OnAccept, accVars, propVars
<1> QED BY <1>4, <1>5

LEMMA SendPrepareType ==
  ASSUME TypeOK, NEW p \in Proposers, SendPrepare(p)
  PROVE  TypeOK'
<1>1. /\ p1a \in [Proposers -> [Acceptors -> Seq(Ballots)]]
      /\ idx[p] \in Acceptors /\ bal[p] \in Ballots
      /\ p1a' = [p1a EXCEPT ![p][idx[p]] = Append(@, bal[p])]
  BY DEF TypeOK, SendPrepare
<1>2. p1a' \in [Proposers -> [Acceptors -> Seq(Ballots)]]
  BY <1>1, SendType
<1>3. MoreAcceptors(p) => idx[p] + 1 \in Acceptors
  BY <1>1, NAccAssumption DEF MoreAcceptors, Acceptors
<1>4. idx' \in [Proposers -> Acceptors] /\ pc' \in [Proposers -> {"prepare", "gather", "accept"}]
  BY <1>3, ZeroAcceptor DEF TypeOK, SendPrepare
<1> QED BY <1>2, <1>4 DEF TypeOK, SendPrepare, accVars

LEMMA CollectType ==
  ASSUME TypeOK, NEW p \in Proposers, NEW a \in Acceptors, Collect(p, a)
  PROVE  TypeOK'
<1> DEFINE m == Oldest(p1b, n1b, p, a)
           g == [src |-> a, had |-> m.had, abal |-> m.abal, aval |-> m.aval]
<1>1. m \in Promises BY OldestType DEF TypeOK, Collect
<1>2. g \in Reports BY <1>1 DEF Promises, Reports
<1>3. n1b' \in [Proposers -> [Acceptors -> Nat]]
  BY ReceiveType DEF TypeOK, Collect
<1>4. got' = [got EXCEPT ![p] = @ \cup {g}] \/ got' = got
  BY DEF Collect
<1> HIDE DEF g
<1>5. got' \in [Proposers -> SUBSET Reports]
  <2>1. got \in [Proposers -> SUBSET Reports] BY DEF TypeOK
  <2>2. got[p] \cup {g} \in SUBSET Reports BY <1>2, <2>1
  <2> QED BY <1>4, <2>1, <2>2
<1> QED BY <1>3, <1>5 DEF TypeOK, Collect, accVars

LEMMA CommitType ==
  ASSUME TypeOK, NEW p \in Proposers, Commit(p)
  PROVE  TypeOK'
<1>1. PICK v \in Values : /\ pdec' = [pdec EXCEPT ![p] = Append(@, Proposal(bal[p], v))]
                          /\ val' = [val EXCEPT ![p] = v]
  BY DEF Commit
<1>2. Proposal(bal[p], v) \in Proposals
  BY DEF TypeOK, Proposal, Proposals
<1>3. pdec' \in [Proposers -> Seq(Proposals)]
  BY <1>1, <1>2 DEF TypeOK
<1>4. val' \in [Proposers -> VALS]
  BY <1>1 DEF TypeOK, VALS
<1> QED BY <1>3, <1>4 DEF TypeOK, Commit, accVars

(* The value an Accept carries is the committed one: this needs more than  *)
(* the types, so the proof takes it as a hypothesis.                       *)
LEMMA SendAcceptType ==
  ASSUME TypeOK, NEW p \in Proposers, SendAccept(p), val[p] \in Values
  PROVE  TypeOK'
<1>1. /\ p2a \in [Proposers -> [Acceptors -> Seq(Proposals)]]
      /\ idx[p] \in Acceptors
      /\ p2a' = [p2a EXCEPT ![p][idx[p]] = Append(@, AcceptMsg(p))]
  BY DEF TypeOK, SendAccept
<1>2. AcceptMsg(p) \in Proposals
  BY DEF TypeOK, AcceptMsg, Proposal, Proposals
<1>3. p2a' \in [Proposers -> [Acceptors -> Seq(Proposals)]]
  BY <1>1, <1>2, SendType
<1>4. MoreAcceptors(p) => idx[p] + 1 \in Acceptors
  BY <1>1, NAccAssumption DEF MoreAcceptors, Acceptors
<1>5. idx' \in [Proposers -> Acceptors] /\ pc' \in [Proposers -> {"prepare", "gather", "accept"}]
  BY <1>4, ZeroAcceptor DEF TypeOK, SendAccept
<1>6. bal' = bal \/ bal' = [bal EXCEPT ![p].round = @ + 1]
  BY DEF SendAccept
<1>7. bal' \in [Proposers -> Ballots]
  <2>1. bal \in [Proposers -> Ballots] BY DEF TypeOK
  <2>2. [bal[p] EXCEPT !.round = @ + 1] \in Ballots BY <2>1 DEF Ballots
  <2>3. [bal EXCEPT ![p].round = @ + 1]
          = [bal EXCEPT ![p] = [bal[p] EXCEPT !.round = @ + 1]] OBVIOUS
  <2> QED BY <1>6, <2>1, <2>2, <2>3
<1>8. got' \in [Proposers -> SUBSET Reports] /\ val' \in [Proposers -> VALS]
  BY DEF TypeOK, SendAccept, VALS
<1> QED BY <1>3, <1>5, <1>7, <1>8 DEF TypeOK, SendAccept, accVars

ValueHeld == \A p \in Proposers : pc[p] = "accept" => val[p] \in Values

LEMMA InitValueHeld == Init => ValueHeld
BY DEF Init, PropInit, ValueHeld

LEMMA StepType == TypeOK /\ ValueHeld /\ [Next]_vars => TypeOK' /\ ValueHeld'
<1> SUFFICES ASSUME TypeOK, ValueHeld, [Next]_vars PROVE TypeOK' /\ ValueHeld'
  OBVIOUS
<1>1. ASSUME NEW a \in Acceptors, NEW p \in Proposers, OnPrepare(a, p)
      PROVE  TypeOK' /\ ValueHeld'
  BY <1>1, OnPrepareType DEF OnPrepare, propVars, ValueHeld
<1>2. ASSUME NEW a \in Acceptors, NEW p \in Proposers, OnAccept(a, p)
      PROVE  TypeOK' /\ ValueHeld'
  BY <1>2, OnAcceptType DEF OnAccept, propVars, ValueHeld
<1>3. ASSUME NEW p \in Proposers, SendPrepare(p)
      PROVE  TypeOK' /\ ValueHeld'
  <2>1. ValueHeld' BY <1>3 DEF SendPrepare, ValueHeld, TypeOK
  <2> QED BY <1>3, <2>1, SendPrepareType
<1>4. ASSUME NEW p \in Proposers, NEW a \in Acceptors, Collect(p, a)
      PROVE  TypeOK' /\ ValueHeld'
  BY <1>4, CollectType DEF Collect, ValueHeld
<1>5. ASSUME NEW p \in Proposers, Commit(p)
      PROVE  TypeOK' /\ ValueHeld'
  <2>1. ValueHeld' BY <1>5 DEF Commit, ValueHeld, TypeOK
  <2> QED BY <1>5, <2>1, CommitType
<1>6. ASSUME NEW p \in Proposers, SendAccept(p)
      PROVE  TypeOK' /\ ValueHeld'
  <2>1. val[p] \in Values BY <1>6 DEF SendAccept, ValueHeld
  <2>2. ValueHeld'
    <3>1. pc \in [Proposers -> {"prepare", "gather", "accept"}] BY DEF TypeOK
    <3>2. CASE MoreAcceptors(p) BY <1>6, <3>2 DEF SendAccept, ValueHeld
    <3>3. CASE ~MoreAcceptors(p)
      <4>1. /\ pc' = [pc EXCEPT ![p] = "prepare"]
            /\ val' = [val EXCEPT ![p] = NoVal]
        BY <1>6, <3>3 DEF SendAccept
      <4>2. val \in [Proposers -> VALS] BY DEF TypeOK
      <4> QED BY <3>1, <4>1, <4>2 DEF ValueHeld
    <3> QED BY <3>2, <3>3
  <2> QED BY <1>6, <2>1, <2>2, SendAcceptType
<1>7. CASE UNCHANGED vars
  BY <1>7 DEF vars, TypeOK, ValueHeld
<1> QED BY <1>1, <1>2, <1>3, <1>4, <1>5, <1>6, <1>7
        DEF Next, AcceptorStep, ProposerStep

(* Every variable keeps its type: in particular a proposer only ever sends *)
(* to slots it has, and an Accept always carries a value somebody wanted.  *)
THEOREM TypeCorrect == Spec => []TypeOK
<1>1. Init => TypeOK /\ ValueHeld BY InitType, InitValueHeld
<1>2. TypeOK /\ ValueHeld /\ [Next]_vars => (TypeOK /\ ValueHeld)' BY StepType
<1> QED BY <1>1, <1>2, PTL DEF Spec

-----------------------------------------------------------------------------
(* Agreement.  Histories only matter here as sets of messages: first come  *)
(* lemmas about what each action adds to them, then the invariant, then    *)
(* the theorems.                                                           *)

Log(a)        == Range(alog[a])
Promised(p, a) == Range(p1b[p][a])
Offered(p, a)  == Range(p2a[p][a])
Answered(p, a) == Range(p2b[p][a])
Decided(p)     == Range(pdec[p])

LEMMA RangeAppend ==
  ASSUME NEW S, NEW s \in Seq(S), NEW m \in S
  PROVE  Range(Append(s, m)) = Range(s) \cup {m}
<1>1. Append(s, m) \in Seq(S) OBVIOUS
<1>2. ASSUME NEW x \in Range(Append(s, m)) PROVE x \in Range(s) \cup {m}
  BY <1>1 DEF Range
<1>3. ASSUME NEW x \in Range(s) PROVE x \in Range(Append(s, m))
  <2>1. PICK i \in DOMAIN s : x = s[i] BY DEF Range
  <2>2. i \in DOMAIN Append(s, m) /\ Append(s, m)[i] = x BY <2>1
  <2> QED BY <2>2 DEF Range
<1>4. m \in Range(Append(s, m))
  <2>1. Len(s) + 1 \in DOMAIN Append(s, m) /\ Append(s, m)[Len(s) + 1] = m OBVIOUS
  <2> QED BY <2>1 DEF Range
<1> QED BY <1>2, <1>3, <1>4

LEMMA OldestReceived ==
  ASSUME NEW S, NEW ch \in [Proposers -> [Acceptors -> Seq(S)]],
         NEW n \in [Proposers -> [Acceptors -> Nat]],
         NEW p \in Proposers, NEW a \in Acceptors, Pending(ch, n, p, a)
  PROVE  Oldest(ch, n, p, a) \in Range(ch[p][a])
BY DEF Pending, Oldest, Range

(* What one step adds.  Nothing is ever taken out of a history.            *)
LEMMA OnPrepareEffect ==
  ASSUME TypeOK, NEW a \in Acceptors, NEW p \in Proposers, OnPrepare(a, p)
  PROVE  /\ UNCHANGED <<p2a, p2b, pdec, hasAcc, accBal, accVal, pc, bal, got, val>>
         /\ \/ UNCHANGED <<alog, p1b, maxBal>>
            \/ \E b \in Ballots :
                 /\ Blt(maxBal[a], b)
                 /\ maxBal' = [maxBal EXCEPT ![a] = b]
                 /\ alog' = [alog EXCEPT ![a] = Append(@, LPromise(b, hasAcc[a], accBal[a], accVal[a]))]
                 /\ \A x \in Acceptors : Log(x)' =
                      IF x = a THEN Log(x) \cup {LPromise(b, hasAcc[a], accBal[a], accVal[a])}
                               ELSE Log(x)
                 /\ \A q \in Proposers, x \in Acceptors : Promised(q, x)' =
                      IF q = p /\ x = a
                      THEN Promised(q, x) \cup {Promise(b, hasAcc[a], accBal[a], accVal[a])}
                      ELSE Promised(q, x)
<1>1. UNCHANGED <<p2a, p2b, pdec, hasAcc, accBal, accVal, pc, bal, got, val>>
  BY DEF OnPrepare, propVars
<1> DEFINE b == Oldest(p1a, n1a, p, a)
           m == Promise(b, hasAcc[a], accBal[a], accVal[a])
           e == LPromise(b, hasAcc[a], accBal[a], accVal[a])
<1>2. b \in Ballots BY OldestType DEF TypeOK, OnPrepare
<1>3. m \in Promises /\ e \in LogEntries
  BY <1>2 DEF TypeOK, Promise, LPromise, Promises, LogEntries
<1>4. CASE ~WillPromise(a, b) BY <1>1, <1>4 DEF OnPrepare
<1>5. CASE WillPromise(a, b)
  <2>1. /\ alog' = [alog EXCEPT ![a] = Append(@, e)]
        /\ p1b' = [p1b EXCEPT ![p][a] = Append(@, m)]
        /\ maxBal' = [maxBal EXCEPT ![a] = b]
        /\ Blt(maxBal[a], b)
    BY <1>5 DEF OnPrepare, WillPromise
  <2>2. /\ p1b \in [Proposers -> [Acceptors -> Seq(Promises)]]
        /\ alog \in [Acceptors -> Seq(LogEntries)]
    BY DEF TypeOK
  <2> HIDE DEF b, m, e
  <2>3. ASSUME NEW x \in Acceptors
        PROVE  Log(x)' = IF x = a THEN Log(x) \cup {e} ELSE Log(x)
    <3>1. alog[x] \in Seq(LogEntries) BY <2>2
    <3>2. alog'[x] = IF x = a THEN Append(alog[x], e) ELSE alog[x] BY <2>1, <2>2
    <3>3. Range(Append(alog[x], e)) = Range(alog[x]) \cup {e}
      BY <1>3, <3>1, RangeAppend
    <3> QED BY <3>2, <3>3 DEF Log
  <2>4. ASSUME NEW q \in Proposers, NEW x \in Acceptors
        PROVE  Promised(q, x)' =
                 IF q = p /\ x = a THEN Promised(q, x) \cup {m} ELSE Promised(q, x)
    <3>1. p1b[q][x] \in Seq(Promises) BY <2>2
    <3>2. p1b'[q][x] = IF q = p /\ x = a THEN Append(p1b[q][x], m) ELSE p1b[q][x]
      BY <2>1, <2>2
    <3>3. Range(Append(p1b[q][x], m)) = Range(p1b[q][x]) \cup {m}
      BY <1>3, <3>1, RangeAppend
    <3> QED BY <3>2, <3>3 DEF Promised
  <2> QED BY <1>1, <1>2, <2>1, <2>3, <2>4 DEF m, e
<1> QED BY <1>4, <1>5

LEMMA OnAcceptEffect ==
  ASSUME TypeOK, NEW a \in Acceptors, NEW p \in Proposers, OnAccept(a, p)
  PROVE  /\ UNCHANGED <<p1b, p2a, pdec, pc, bal, got, val>>
         /\ \/ UNCHANGED <<alog, p2b, maxBal, hasAcc, accBal, accVal>>
            \/ \E m \in Offered(p, a) :
                 /\ m \in Proposals
                 /\ ~Blt(m.bal, maxBal[a])
                 /\ maxBal' = [maxBal EXCEPT ![a] = m.bal]
                 /\ hasAcc' = [hasAcc EXCEPT ![a] = TRUE]
                 /\ accBal' = [accBal EXCEPT ![a] = m.bal]
                 /\ accVal' = [accVal EXCEPT ![a] = m.val]
                 /\ alog' = [alog EXCEPT ![a] = Append(@, LAccept(m.bal, m.val))]
                 /\ \A x \in Acceptors : Log(x)' =
                      IF x = a THEN Log(x) \cup {LAccept(m.bal, m.val)} ELSE Log(x)
                 /\ \A q \in Proposers, x \in Acceptors : Answered(q, x)' =
                      IF q = p /\ x = a THEN Answered(q, x) \cup {m} ELSE Answered(q, x)
<1>1. UNCHANGED <<p1b, p2a, pdec, pc, bal, got, val>>
  BY DEF OnAccept, propVars
<1> DEFINE m == Oldest(p2a, n2a, p, a)
           e == LAccept(m.bal, m.val)
<1>2. m \in Proposals /\ m \in Offered(p, a)
  BY OldestType, OldestReceived DEF TypeOK, OnAccept, Offered
<1>3. e \in LogEntries /\ Proposal(m.bal, m.val) = m
  BY <1>2 DEF Proposals, Proposal, LAccept, LogEntries
<1>4. CASE ~WillAccept(a, m.bal) BY <1>1, <1>4 DEF OnAccept, accVars
<1>5. CASE WillAccept(a, m.bal)
  <2>1. /\ alog' = [alog EXCEPT ![a] = Append(@, e)]
        /\ p2b' = [p2b EXCEPT ![p][a] = Append(@, m)]
        /\ maxBal' = [maxBal EXCEPT ![a] = m.bal]
        /\ hasAcc' = [hasAcc EXCEPT ![a] = TRUE]
        /\ accBal' = [accBal EXCEPT ![a] = m.bal]
        /\ accVal' = [accVal EXCEPT ![a] = m.val]
        /\ ~Blt(m.bal, maxBal[a])
    BY <1>3, <1>5 DEF OnAccept, WillAccept
  <2>2. /\ p2b \in [Proposers -> [Acceptors -> Seq(Proposals)]]
        /\ alog \in [Acceptors -> Seq(LogEntries)]
    BY DEF TypeOK
  <2> HIDE DEF m, e
  <2>3. ASSUME NEW x \in Acceptors
        PROVE  Log(x)' = IF x = a THEN Log(x) \cup {e} ELSE Log(x)
    <3>1. alog[x] \in Seq(LogEntries) BY <2>2
    <3>2. alog'[x] = IF x = a THEN Append(alog[x], e) ELSE alog[x] BY <2>1, <2>2
    <3>3. Range(Append(alog[x], e)) = Range(alog[x]) \cup {e}
      BY <1>3, <3>1, RangeAppend
    <3> QED BY <3>2, <3>3 DEF Log
  <2>4. ASSUME NEW q \in Proposers, NEW x \in Acceptors
        PROVE  Answered(q, x)' =
                 IF q = p /\ x = a THEN Answered(q, x) \cup {m} ELSE Answered(q, x)
    <3>1. p2b[q][x] \in Seq(Proposals) BY <2>2
    <3>2. p2b'[q][x] = IF q = p /\ x = a THEN Append(p2b[q][x], m) ELSE p2b[q][x]
      BY <2>1, <2>2
    <3>3. Range(Append(p2b[q][x], m)) = Range(p2b[q][x]) \cup {m}
      BY <1>2, <3>1, RangeAppend
    <3> QED BY <3>2, <3>3 DEF Answered
  <2> QED BY <1>1, <1>2, <2>1, <2>3, <2>4 DEF e
<1> QED BY <1>4, <1>5

LEMMA CommitEffect ==
  ASSUME TypeOK, NEW p \in Proposers, Commit(p)
  PROVE  /\ UNCHANGED <<p1b, p2a, p2b, alog, maxBal, hasAcc, accBal, accVal, bal, got>>
         /\ pc[p] = "gather" /\ pc' = [pc EXCEPT ![p] = "accept"]
         /\ Cardinality(got[p]) = Need
         /\ \E v \in Values :
              /\ MayPropose(got[p], Want(p, bal[p].round), v)
              /\ val' = [val EXCEPT ![p] = v]
              /\ \A q \in Proposers : Decided(q)' =
                   IF q = p THEN Decided(q) \cup {Proposal(bal[p], v)} ELSE Decided(q)
<1>1. PICK v \in Values :
        /\ MayPropose(got[p], Want(p, bal[p].round), v)
        /\ pdec' = [pdec EXCEPT ![p] = Append(@, Proposal(bal[p], v))]
        /\ val' = [val EXCEPT ![p] = v]
  BY DEF Commit
<1> DEFINE m == Proposal(bal[p], v)
<1>2. m \in Proposals BY DEF TypeOK, Proposal, Proposals
<1>3. /\ pdec \in [Proposers -> Seq(Proposals)]
      /\ pdec' = [pdec EXCEPT ![p] = Append(@, m)]
  BY <1>1 DEF TypeOK
<1> HIDE DEF m
<1>4. ASSUME NEW q \in Proposers
      PROVE  Decided(q)' = IF q = p THEN Decided(q) \cup {m} ELSE Decided(q)
  <2>1. pdec'[q] = IF q = p THEN Append(pdec[q], m) ELSE pdec[q]
    BY <1>3
  <2>2. Range(Append(pdec[q], m)) = Range(pdec[q]) \cup {m}
    BY <1>2, <1>3, RangeAppend
  <2> QED BY <2>1, <2>2 DEF Decided
<1> QED BY <1>1, <1>4 DEF Commit, accVars, m

LEMMA SendAcceptEffect ==
  ASSUME TypeOK, NEW p \in Proposers, SendAccept(p), val[p] \in Values
  PROVE  /\ UNCHANGED <<p1b, p2b, pdec, alog, maxBal, hasAcc, accBal, accVal>>
         /\ pc[p] = "accept"
         /\ \A q \in Proposers, x \in Acceptors :
              \/ Offered(q, x)' = Offered(q, x)
              \/ q = p /\ Offered(q, x)' = Offered(q, x) \cup {Proposal(bal[p], val[p])}
         /\ \/ UNCHANGED <<pc, bal, got, val>>
            \/ /\ pc'  = [pc EXCEPT ![p] = "prepare"]
               /\ bal' = [bal EXCEPT ![p] = [round |-> bal[p].round + 1, prop |-> bal[p].prop]]
               /\ got' = [got EXCEPT ![p] = {}]
               /\ val' = [val EXCEPT ![p] = NoVal]
<1> DEFINE m == Proposal(bal[p], val[p])
<1>1. m \in Proposals BY DEF TypeOK, Proposal, Proposals
<1>2. /\ p2a \in [Proposers -> [Acceptors -> Seq(Proposals)]]
      /\ idx[p] \in Acceptors
  BY DEF TypeOK
<1>3. p2a' = [p2a EXCEPT ![p][idx[p]] = Append(@, m)]
  BY DEF SendAccept, AcceptMsg
<1> HIDE DEF m
<1>4. ASSUME NEW q \in Proposers, NEW x \in Acceptors
      PROVE  \/ Offered(q, x)' = Offered(q, x)
             \/ q = p /\ Offered(q, x)' = Offered(q, x) \cup {m}
  <2>0. PICK a \in Acceptors : p2a' = [p2a EXCEPT ![p][a] = Append(@, m)]
    BY <1>2, <1>3
  <2>1. p2a'[q][x] = IF q = p /\ x = a THEN Append(p2a[q][x], m) ELSE p2a[q][x]
    BY <1>2, <2>0
  <2>2. p2a[q][x] \in Seq(Proposals) BY <1>2
  <2>3. Range(Append(p2a[q][x], m)) = Range(p2a[q][x]) \cup {m}
    BY <1>1, <2>2, RangeAppend
  <2>4. CASE q = p /\ x = a BY <2>1, <2>3, <2>4 DEF Offered
  <2>5. CASE ~(q = p /\ x = a) BY <2>1, <2>5 DEF Offered
  <2> QED BY <2>4, <2>5
<1>5. /\ bal \in [Proposers -> Ballots]
      /\ bal[p] \in [round : Nat, prop : Nat]
  BY DEF TypeOK, Ballots
<1>6. \/ UNCHANGED <<pc, bal, got, val>>
      \/ /\ pc'  = [pc EXCEPT ![p] = "prepare"]
         /\ bal' = [bal EXCEPT ![p].round = @ + 1]
         /\ got' = [got EXCEPT ![p] = {}]
         /\ val' = [val EXCEPT ![p] = NoVal]
  BY DEF SendAccept
<1>7. [bal[p] EXCEPT !.round = @ + 1] = [round |-> bal[p].round + 1, prop |-> bal[p].prop]
  BY <1>5
<1>8. [bal EXCEPT ![p].round = @ + 1]
        = [bal EXCEPT ![p] = [bal[p] EXCEPT !.round = @ + 1]]
  OBVIOUS
<1> QED BY <1>4, <1>6, <1>7, <1>8 DEF SendAccept, accVars, m

-----------------------------------------------------------------------------
(* Ballots are totally ordered; from here on Blt stays folded.             *)

LEMMA BltOrder ==
  /\ \A x \in Ballots : ~Blt(x, x)
  /\ \A x, y \in Ballots : Blt(x, y) \/ x = y \/ Blt(y, x)
  /\ \A x, y, z \in Ballots : Blt(x, y) /\ Blt(y, z) => Blt(x, z)
BY DEF Blt, Ballots

-----------------------------------------------------------------------------
(* The invariant.                                                          *)

(* A proposer commits once per ballot, and only at its own.                *)
BallotsOwned ==
  \A p \in Proposers :
    /\ bal[p].prop = p
    /\ \A m \in Decided(p) :
         /\ m.bal.prop = p
         /\ \/ m.bal.round < bal[p].round
            \/ pc[p] = "accept" /\ m = Proposal(bal[p], val[p])
    /\ \A m1, m2 \in Decided(p) : m1.bal = m2.bal => m1 = m2
    /\ pc[p] = "accept" => Proposal(bal[p], val[p]) \in Decided(p)

(* A promise reports an acceptance really made and, for good, no smaller   *)
(* than any acceptance below the ballot promised.                          *)
PromisesHold ==
  \A a \in Acceptors : \A e \in Log(a) :
    e.kind = "LPromise" =>
      /\ e.had => LAccept(e.abal, e.aval) \in Log(a)
      /\ \A f \in Log(a) : f.kind = "LAccept" /\ Blt(f.bal, e.bal)
                             => e.had /\ Ble(f.bal, e.abal)

(* Whatever an acceptor voted for, its proposer had committed.             *)
VotesDecided ==
  \A a \in Acceptors : \A e \in Log(a) :
    e.kind = "LAccept" =>
      e.bal.prop \in Proposers /\ Proposal(e.bal, e.val) \in Decided(e.bal.prop)

(* What a proposer has gathered are promises for the ballot it is running, *)
(* one per acceptor.                                                       *)
GatheredPromises ==
  \A p \in Proposers :
    /\ IsFiniteSet(got[p])
    /\ \A g \in got[p] : Promise(bal[p], g.had, g.abal, g.aval) \in Promised(p, g.src)
    /\ \A g, h \in got[p] : g.src = h.src => g = h

(* No value but v can be chosen, now or later, at a ballot below b: some   *)
(* majority has moved past it without voting for anything else.            *)
SafeAt(b, v) ==
  \A c \in Ballots : Blt(c, b) =>
    \E q \in Quorums : \A a \in q :
      Blt(c, maxBal[a]) /\ \A w \in Values : LAccept(c, w) \in Log(a) => w = v

DecisionsSafe == \A p \in Proposers : \A m \in Decided(p) : SafeAt(m.bal, m.val)

IInv ==
  /\ TypeOK
  /\ ValueHeld
  /\ AcceptorInv
  /\ Provenance
  /\ BallotsOwned
  /\ PromisesHold
  /\ VotesDecided
  /\ GatheredPromises
  /\ DecisionsSafe

LEMMA InitInv == Init => IInv
<1> SUFFICES ASSUME Init PROVE IInv OBVIOUS
<1>1. TypeOK /\ ValueHeld BY InitType, InitValueHeld
<1>2. /\ \A a \in Acceptors : Log(a) = {} /\ Range(alog[a]) = {}
      /\ \A p \in Proposers : Decided(p) = {}
      /\ \A p \in Proposers, a \in Acceptors :
           Range(p1b[p][a]) = {} /\ Range(p2a[p][a]) = {} /\ Range(p2b[p][a]) = {}
  BY DEF Init, ChanInit, Link, Log, Decided, Range
<1>3. AcceptorInv BY <1>2 DEF Init, AccInit, AcceptorInv
<1>4. Provenance BY <1>2 DEF Provenance
<1>5. BallotsOwned BY <1>2 DEF BallotsOwned, Init, PropInit
<1>6. PromisesHold /\ VotesDecided BY <1>2 DEF PromisesHold, VotesDecided
<1>7. GatheredPromises BY FS_EmptySet DEF GatheredPromises, Init, PropInit
<1>8. DecisionsSafe BY <1>2 DEF DecisionsSafe
<1> QED BY <1>1, <1>3, <1>4, <1>5, <1>6, <1>7, <1>8 DEF IInv

-----------------------------------------------------------------------------
(* Quorums.                                                                *)

LEMMA AcceptorsFinite == IsFiniteSet(Acceptors) /\ Cardinality(Acceptors) = NAcc
<1>1. NAcc - 1 \in Int /\ ~(0 > NAcc - 1) /\ (NAcc - 1) - 0 + 1 = NAcc
  BY NAccAssumption
<1> QED BY <1>1, FS_Interval DEF Acceptors

LEMMA QuorumsMeet ==
  ASSUME NEW q1 \in Quorums, NEW q2 \in Quorums
  PROVE  \E a \in Acceptors : a \in q1 /\ a \in q2
<1>1. /\ q1 \subseteq Acceptors /\ q2 \subseteq Acceptors
      /\ Cardinality(q1) + Cardinality(q1) > NAcc
      /\ Cardinality(q2) + Cardinality(q2) > NAcc
  BY DEF Quorums
<1>2. Cardinality(q1) \in Nat /\ Cardinality(q2) \in Nat
  BY <1>1, AcceptorsFinite, FS_Subset, FS_CardinalityType
<1>3. Cardinality(q1) + Cardinality(q2) > Cardinality(Acceptors)
  BY <1>1, <1>2, AcceptorsFinite, NAccAssumption
<1>4. q1 \cap q2 # {}
  BY <1>1, <1>3, AcceptorsFinite, FS_MajoritiesIntersect
<1> QED BY <1>1, <1>4

LEMMA SourcesQuorum ==
  ASSUME TypeOK, GatheredPromises, NEW p \in Proposers, Cardinality(got[p]) = Need
  PROVE  Sources(p) \in Quorums
<1> DEFINE f == [g \in got[p] |-> g.src]
<1>1. /\ IsFiniteSet(got[p])
      /\ \A g, h \in got[p] : g.src = h.src => g = h
      /\ got[p] \subseteq Reports
  BY DEF GatheredPromises, TypeOK
<1>2. f \in Bijection(got[p], Sources(p))
  BY <1>1 DEF Sources, Bijection, Injection, Surjection, IsInjective
<1>3. Cardinality(Sources(p)) = Need
  BY <1>1, <1>2, FS_Bijection DEF ExistsBijection
<1>4. Need + Need > NAcc /\ Need \in Nat
  BY NAccAssumption DEF Need
<1>5. Sources(p) \subseteq Acceptors
  BY <1>1 DEF Sources, Reports
<1> QED BY <1>3, <1>4, <1>5 DEF Quorums

-----------------------------------------------------------------------------
(* Safety of a commitment.                                                 *)

LEMMA SafeStable ==
  ASSUME TypeOK, TypeOK',
         \A a \in Acceptors : maxBal'[a] = maxBal[a] \/ Blt(maxBal[a], maxBal'[a]),
         \A a \in Acceptors, c \in Ballots, w \in Values :
           LAccept(c, w) \in Log(a)' =>
             LAccept(c, w) \in Log(a) \/ ~Blt(c, maxBal[a]),
         NEW b, NEW v, SafeAt(b, v)
  PROVE  SafeAt(b, v)'
<1> SUFFICES ASSUME NEW c \in Ballots, Blt(c, b)
    PROVE  \E q \in Quorums : \A a \in q :
             Blt(c, maxBal'[a]) /\ \A w \in Values : LAccept(c, w) \in Log(a)' => w = v
  BY DEF SafeAt
<1>1. PICK q \in Quorums : \A a \in q :
        Blt(c, maxBal[a]) /\ \A w \in Values : LAccept(c, w) \in Log(a) => w = v
  BY DEF SafeAt
<1>2. ASSUME NEW a \in q
      PROVE  Blt(c, maxBal'[a]) /\ \A w \in Values : LAccept(c, w) \in Log(a)' => w = v
  <2>1. a \in Acceptors BY DEF Quorums
  <2>2. maxBal[a] \in Ballots /\ maxBal'[a] \in Ballots BY <2>1 DEF TypeOK
  <2>3. Blt(c, maxBal'[a]) BY <1>1, <2>1, <2>2, BltOrder
  <2> QED BY <1>1, <2>1, <2>3
<1> QED BY <1>2

LEMMA GatheredMeaning ==
  ASSUME IInv, NEW p \in Proposers, NEW g \in got[p]
  PROVE  /\ g.src \in Acceptors /\ g.abal \in Ballots
         /\ maxBal[g.src] \in Ballots /\ Ble(bal[p], maxBal[g.src])
         /\ g.had => LAccept(g.abal, g.aval) \in Log(g.src)
         /\ \A f \in Log(g.src) : f.kind = "LAccept" /\ Blt(f.bal, bal[p])
                                    => g.had /\ Ble(f.bal, g.abal)
<1> DEFINE e == LPromise(bal[p], g.had, g.abal, g.aval)
           m == Promise(bal[p], g.had, g.abal, g.aval)
<1>1. g.src \in Acceptors /\ g.abal \in Ballots
  BY DEF IInv, TypeOK, Reports
<1>2. maxBal[g.src] \in Ballots BY <1>1 DEF IInv, TypeOK
<1>3. m \in Range(p1b[p][g.src])
  BY DEF IInv, GatheredPromises, Promised
<1>4. LPromise(m.bal, m.had, m.abal, m.aval) \in Range(alog[g.src])
  <2> HIDE DEF m
  <2> QED BY <1>1, <1>3 DEF IInv, Provenance
<1>5. e \in Log(g.src) BY <1>4 DEF Promise, Log
<1>6. /\ e.kind = "LPromise" /\ e.bal = bal[p] /\ e.had = g.had
      /\ e.abal = g.abal /\ e.aval = g.aval
  BY DEF LPromise
<1> HIDE DEF e
<1>7. Ble(bal[p], maxBal[g.src])
  BY <1>1, <1>5, <1>6 DEF IInv, AcceptorInv, Log
<1>8. /\ g.had => LAccept(g.abal, g.aval) \in Log(g.src)
      /\ \A f \in Log(g.src) : f.kind = "LAccept" /\ Blt(f.bal, bal[p])
                                 => g.had /\ Ble(f.bal, g.abal)
  BY <1>1, <1>5, <1>6 DEF IInv, PromisesHold
<1> QED BY <1>1, <1>2, <1>7, <1>8

LEMMA VoteFields ==
  ASSUME NEW c, NEW w
  PROVE  LAccept(c, w).kind = "LAccept" /\ LAccept(c, w).bal = c /\ LAccept(c, w).val = w
BY DEF LAccept

LEMMA VoteUnique ==
  ASSUME IInv, NEW a1 \in Acceptors, NEW a2 \in Acceptors, NEW c, NEW v, NEW w,
         LAccept(c, v) \in Log(a1), LAccept(c, w) \in Log(a2)
  PROVE  v = w
<1>1. /\ c.prop \in Proposers
      /\ Proposal(c, v) \in Decided(c.prop) /\ Proposal(c, w) \in Decided(c.prop)
  BY VoteFields DEF IInv, VotesDecided
<1>2. Proposal(c, v).bal = c /\ Proposal(c, w).bal = c BY DEF Proposal
<1>3. Proposal(c, v) = Proposal(c, w) BY <1>1, <1>2 DEF IInv, BallotsOwned
<1> QED BY <1>3 DEF Proposal

(* The fold of gather_quorum picks a value no smaller ballot can undercut. *)
LEMMA CommitSafe ==
  ASSUME IInv, NEW p \in Proposers, Cardinality(got[p]) = Need,
         NEW want, NEW v, MayPropose(got[p], want, v)
  PROVE  SafeAt(bal[p], v)
<1> DEFINE b == bal[p]
           q == Sources(p)
<1>1. q \in Quorums BY SourcesQuorum DEF IInv
<1>2. b \in Ballots BY DEF IInv, TypeOK
<1> SUFFICES ASSUME NEW c \in Ballots, Blt(c, b)
    PROVE  \E r \in Quorums : \A a \in r :
             Blt(c, maxBal[a]) /\ \A w \in Values : LAccept(c, w) \in Log(a) => w = v
  BY DEF SafeAt
<1>3. ASSUME NEW g \in got[p]
      PROVE  /\ Blt(c, maxBal[g.src])
             /\ \A w : LAccept(c, w) \in Log(g.src) => g.had /\ Ble(c, g.abal)
  BY <1>2, GatheredMeaning, BltOrder, VoteFields DEF Ble
<1>4. \A a \in q : \E g \in got[p] : a = g.src BY DEF Sources
<1>5. CASE \A g \in got[p] : ~g.had
  BY <1>1, <1>3, <1>4, <1>5
<1>6. CASE \E g \in got[p] : g.had
  <2>1. PICK g \in got[p] :
          g.had /\ g.aval = v /\ \A h \in got[p] : h.had => Ble(h.abal, g.abal)
    BY <1>6 DEF MayPropose
  <2>2. g.src \in Acceptors /\ g.abal \in Ballots /\ LAccept(g.abal, v) \in Log(g.src)
    BY <2>1, GatheredMeaning
  <2>3. CASE Blt(c, g.abal)
    <3>1. g.abal.prop \in Proposers /\ Proposal(g.abal, v) \in Decided(g.abal.prop)
      BY <2>2, VoteFields DEF IInv, VotesDecided
    <3>2. Proposal(g.abal, v).bal = g.abal /\ Proposal(g.abal, v).val = v
      BY DEF Proposal
    <3>3. SafeAt(g.abal, v) BY <3>1, <3>2 DEF IInv, DecisionsSafe
    <3> QED BY <2>3, <3>3 DEF SafeAt
  <2>4. CASE c = g.abal
    <3>1. ASSUME NEW a \in q, NEW w, LAccept(c, w) \in Log(a) PROVE w = v
      <4>1. a \in Acceptors BY <1>1 DEF Quorums
      <4> QED BY <2>2, <2>4, <3>1, <4>1, VoteUnique
    <3> QED BY <1>1, <1>3, <1>4, <3>1
  <2>5. CASE Blt(g.abal, c)
    <3>1. ASSUME NEW h \in got[p], NEW w, LAccept(c, w) \in Log(h.src) PROVE FALSE
      <4>1. h.had /\ Ble(c, h.abal) /\ h.abal \in Ballots
        BY <1>3, <3>1, GatheredMeaning
      <4>2. Ble(h.abal, g.abal) BY <2>1, <4>1
      <4> QED BY <2>2, <2>5, <4>1, <4>2, BltOrder DEF Ble
    <3> QED BY <1>1, <1>3, <1>4, <3>1
  <2> QED BY <2>2, <2>3, <2>4, <2>5, BltOrder
<1> QED BY <1>5, <1>6

-----------------------------------------------------------------------------
(* Every action preserves the invariant.                                   *)

LEMMA EntryFields ==
  ASSUME NEW b, NEW had, NEW ab, NEW av
  PROVE  LET e == LPromise(b, had, ab, av)
         IN  /\ e.kind = "LPromise" /\ e.kind # "LAccept"
             /\ e.bal = b /\ e.had = had /\ e.abal = ab /\ e.aval = av
             /\ \A c, w : e # LAccept(c, w)
BY DEF LPromise, LAccept

(* All that a step that leaves the logs and the acceptors alone owes the   *)
(* invariant's parts about them.                                           *)
LEMMA LogsUntouched ==
  ASSUME IInv, TypeOK', UNCHANGED <<alog, maxBal, hasAcc, accBal, accVal>>
  PROVE  /\ \A a \in Acceptors : Log(a)' = Log(a)
         /\ AcceptorInv' /\ PromisesHold'
         /\ \A b, v : SafeAt(b, v) => SafeAt(b, v)'
<1>1. \A a \in Acceptors : Log(a)' = Log(a) BY DEF Log
<1>2. AcceptorInv' BY DEF IInv, AcceptorInv
<1>3. PromisesHold' BY <1>1 DEF IInv, PromisesHold
<1>4. ASSUME NEW b, NEW v, SafeAt(b, v) PROVE SafeAt(b, v)'
  BY <1>1, <1>4, SafeStable DEF IInv
<1> QED BY <1>1, <1>2, <1>3, <1>4

LEMMA GatheredStable ==
  ASSUME IInv, UNCHANGED <<bal, got>>,
         \A q \in Proposers, x \in Acceptors : Promised(q, x) \subseteq Promised(q, x)'
  PROVE  GatheredPromises'
<1> SUFFICES ASSUME NEW q \in Proposers
    PROVE  /\ IsFiniteSet(got'[q])
           /\ \A g \in got'[q] : Promise(bal'[q], g.had, g.abal, g.aval) \in Promised(q, g.src)'
           /\ \A g, h \in got'[q] : g.src = h.src => g = h
  BY DEF GatheredPromises
<1>1. got[q] \subseteq Reports BY DEF IInv, TypeOK
<1>2. \A g \in got[q] : g.src \in Acceptors BY <1>1 DEF Reports
<1>3. /\ IsFiniteSet(got[q])
      /\ \A g \in got[q] : Promise(bal[q], g.had, g.abal, g.aval) \in Promised(q, g.src)
      /\ \A g, h \in got[q] : g.src = h.src => g = h
  BY DEF IInv, GatheredPromises
<1>4. bal' = bal /\ got' = got OBVIOUS
<1>5. ASSUME NEW g \in got[q]
      PROVE  Promise(bal[q], g.had, g.abal, g.aval) \in Promised(q, g.src)'
  BY <1>2, <1>3
<1> QED BY <1>3, <1>4, <1>5

LEMMA LogTyped ==
  ASSUME TypeOK, NEW x \in Acceptors, NEW f \in Log(x)
  PROVE  f \in LogEntries /\ f.bal \in Ballots
<1>1. alog[x] \in Seq(LogEntries) BY DEF TypeOK
<1>2. PICK i \in DOMAIN alog[x] : f = alog[x][i] BY DEF Log, Range
<1>3. f \in LogEntries BY <1>1, <1>2
<1> QED BY <1>3 DEF LogEntries

LEMMA DecidedTyped ==
  ASSUME TypeOK, NEW p \in Proposers, NEW m \in Decided(p)
  PROVE  m.bal \in Ballots /\ m.val \in Values
<1>1. pdec[p] \in Seq(Proposals) BY DEF TypeOK
<1>2. PICK i \in DOMAIN pdec[p] : m = pdec[p][i] BY DEF Decided, Range
<1>3. m \in Proposals BY <1>1, <1>2
<1> QED BY <1>3 DEF Proposals

LEMMA OnPrepareInv ==
  ASSUME IInv, NEW a \in Acceptors, NEW p \in Proposers, OnPrepare(a, p)
  PROVE  IInv'
<1>1. TypeOK' /\ ValueHeld'
  BY StepType DEF IInv, Next, AcceptorStep
<1>2. UNCHANGED <<p2a, p2b, pdec, hasAcc, accBal, accVal, pc, bal, got, val>>
  BY OnPrepareEffect DEF IInv
<1>3. /\ \A q \in Proposers : Decided(q)' = Decided(q)
      /\ \A q \in Proposers, x \in Acceptors : Offered(q, x)' = Offered(q, x)
      /\ \A q \in Proposers, x \in Acceptors : Answered(q, x)' = Answered(q, x)
  BY <1>2 DEF Decided, Offered, Answered
<1>4. BallotsOwned' BY <1>2, <1>3 DEF IInv, BallotsOwned
<1>5. CASE UNCHANGED <<alog, p1b, maxBal>>
  <2>1. \A q \in Proposers, x \in Acceptors : Promised(q, x)' = Promised(q, x)
    BY <1>5 DEF Promised
  <2>2. /\ \A x \in Acceptors : Log(x)' = Log(x)
        /\ AcceptorInv' /\ PromisesHold'
        /\ \A b, v : SafeAt(b, v) => SafeAt(b, v)'
    BY <1>1, <1>2, <1>5, LogsUntouched
  <2>3. Provenance' BY <1>2, <1>5 DEF IInv, Provenance
  <2>4. VotesDecided' BY <1>3, <2>2 DEF IInv, VotesDecided
  <2>5. GatheredPromises' BY <1>2, <2>1, GatheredStable
  <2>6. DecisionsSafe' BY <1>3, <2>2 DEF IInv, DecisionsSafe
  <2> QED BY <1>1, <1>4, <2>2, <2>3, <2>4, <2>5, <2>6 DEF IInv
<1>6. ASSUME NEW b \in Ballots, Blt(maxBal[a], b), maxBal' = [maxBal EXCEPT ![a] = b],
             \A x \in Acceptors : Log(x)' =
               IF x = a THEN Log(x) \cup {LPromise(b, hasAcc[a], accBal[a], accVal[a])}
                        ELSE Log(x),
             \A q \in Proposers, x \in Acceptors : Promised(q, x)' =
               IF q = p /\ x = a
               THEN Promised(q, x) \cup {Promise(b, hasAcc[a], accBal[a], accVal[a])}
               ELSE Promised(q, x)
      PROVE  IInv'
  <2> DEFINE e == LPromise(b, hasAcc[a], accBal[a], accVal[a])
             m == Promise(b, hasAcc[a], accBal[a], accVal[a])
  <2>1. /\ e.kind = "LPromise" /\ e.kind # "LAccept" /\ e.bal = b
        /\ e.had = hasAcc[a] /\ e.abal = accBal[a] /\ e.aval = accVal[a]
        /\ \A c, w : e # LAccept(c, w)
    BY EntryFields
  <2>2. LPromise(m.bal, m.had, m.abal, m.aval) = e BY DEF Promise
  <2>3. \A x \in Acceptors : Log(x)' = IF x = a THEN Log(x) \cup {e} ELSE Log(x)
    BY <1>6
  <2>4. \A q \in Proposers, x \in Acceptors : Promised(q, x)' =
          IF q = p /\ x = a THEN Promised(q, x) \cup {m} ELSE Promised(q, x)
    BY <1>6
  <2> HIDE DEF e, m
  <2>5. /\ maxBal \in [Acceptors -> Ballots] /\ accBal \in [Acceptors -> Ballots]
        /\ \A x \in Acceptors : \A f \in Log(x) : f \in LogEntries /\ f.bal \in Ballots
    BY LogTyped DEF IInv, TypeOK
  <2>6. /\ maxBal'[a] = b
        /\ \A x \in Acceptors : x # a => maxBal'[x] = maxBal[x]
    BY <1>6, <2>5
  <2>7. AcceptorInv'
    <3> SUFFICES ASSUME NEW x \in Acceptors
        PROVE  /\ \A f \in Log(x)' :
                    /\ f.kind = "LPromise" => Ble(f.bal, maxBal'[x])
                    /\ f.kind = "LAccept"  => hasAcc[x] /\ Ble(f.bal, accBal[x])
               /\ hasAcc[x] => /\ Ble(accBal[x], maxBal'[x])
                               /\ LAccept(accBal[x], accVal[x]) \in Log(x)'
      BY <1>2 DEF AcceptorInv, Log
    <3>1. /\ \A f \in Log(x) :
               /\ f.kind = "LPromise" => Ble(f.bal, maxBal[x])
               /\ f.kind = "LAccept"  => hasAcc[x] /\ Ble(f.bal, accBal[x])
          /\ hasAcc[x] => /\ Ble(accBal[x], maxBal[x])
                          /\ LAccept(accBal[x], accVal[x]) \in Log(x)
      BY DEF IInv, AcceptorInv, Log
    <3>2. CASE x # a BY <2>3, <2>6, <3>1, <3>2
    <3>3. CASE x = a
      BY <1>6, <2>1, <2>3, <2>5, <2>6, <3>1, <3>3, BltOrder DEF Ble
    <3> QED BY <3>2, <3>3
  <2>8. Provenance'
    <3> SUFFICES ASSUME NEW q \in Proposers, NEW x \in Acceptors
        PROVE  /\ \A n \in Offered(q, x)' : n \in Decided(q)'
               /\ \A n \in Promised(q, x)' :
                    LPromise(n.bal, n.had, n.abal, n.aval) \in Log(x)'
               /\ \A n \in Answered(q, x)' : /\ n \in Offered(q, x)'
                                             /\ LAccept(n.bal, n.val) \in Log(x)'
               /\ \A f \in Log(x)' : f.kind = "LAccept" /\ f.bal.prop = q
                                       => Proposal(f.bal, f.val) \in Offered(q, x)'
      BY DEF Provenance, Offered, Decided, Promised, Answered, Log
    <3>1. /\ \A n \in Offered(q, x) : n \in Decided(q)
          /\ \A n \in Promised(q, x) :
               LPromise(n.bal, n.had, n.abal, n.aval) \in Log(x)
          /\ \A n \in Answered(q, x) : /\ n \in Offered(q, x)
                                       /\ LAccept(n.bal, n.val) \in Log(x)
          /\ \A f \in Log(x) : f.kind = "LAccept" /\ f.bal.prop = q
                                 => Proposal(f.bal, f.val) \in Offered(q, x)
      BY DEF IInv, Provenance, Offered, Decided, Promised, Answered, Log
    <3> QED BY <1>3, <2>1, <2>2, <2>3, <2>4, <3>1
  <2>9. PromisesHold'
    <3>1. ASSUME NEW f \in Log(a), f.kind = "LAccept" PROVE hasAcc[a] /\ Ble(f.bal, accBal[a])
      BY <3>1 DEF IInv, AcceptorInv, Log
    <3>2. hasAcc[a] => LAccept(accBal[a], accVal[a]) \in Log(a)
      BY DEF IInv, AcceptorInv, Log
    <3> QED BY <2>1, <2>3, <3>1, <3>2 DEF IInv, PromisesHold
  <2>10. VotesDecided' BY <1>3, <2>1, <2>3 DEF IInv, VotesDecided
  <2>11. GatheredPromises' BY <1>2, <2>4, GatheredStable
  <2>12. \A d, v : SafeAt(d, v) => SafeAt(d, v)'
    <3>1. \A x \in Acceptors : maxBal'[x] = maxBal[x] \/ Blt(maxBal[x], maxBal'[x])
      BY <1>6, <2>6
    <3>2. \A x \in Acceptors, c \in Ballots, w \in Values :
            LAccept(c, w) \in Log(x)' => LAccept(c, w) \in Log(x)
      BY <2>1, <2>3
    <3> QED BY <1>1, <3>1, <3>2, SafeStable DEF IInv
  <2>13. DecisionsSafe' BY <1>3, <2>12 DEF IInv, DecisionsSafe
  <2> QED BY <1>1, <1>4, <2>7, <2>8, <2>9, <2>10, <2>11, <2>13 DEF IInv
<1> QED BY <1>5, <1>6, OnPrepareEffect DEF IInv

LEMMA OnAcceptInv ==
  ASSUME IInv, NEW a \in Acceptors, NEW p \in Proposers, OnAccept(a, p)
  PROVE  IInv'
<1>1. TypeOK' /\ ValueHeld'
  BY StepType DEF IInv, Next, AcceptorStep
<1>2. UNCHANGED <<p1b, p2a, pdec, pc, bal, got, val>>
  BY OnAcceptEffect DEF IInv
<1>3. /\ \A q \in Proposers : Decided(q)' = Decided(q)
      /\ \A q \in Proposers, x \in Acceptors : Offered(q, x)' = Offered(q, x)
      /\ \A q \in Proposers, x \in Acceptors : Promised(q, x)' = Promised(q, x)
  BY <1>2 DEF Decided, Offered, Promised
<1>4. BallotsOwned' BY <1>2, <1>3 DEF IInv, BallotsOwned
<1>5. GatheredPromises' BY <1>2, <1>3, GatheredStable
<1>6. CASE UNCHANGED <<alog, p2b, maxBal, hasAcc, accBal, accVal>>
  <2>1. /\ \A x \in Acceptors : Log(x)' = Log(x)
        /\ AcceptorInv' /\ PromisesHold'
        /\ \A b, v : SafeAt(b, v) => SafeAt(b, v)'
    BY <1>1, <1>6, LogsUntouched
  <2>2. Provenance' BY <1>2, <1>6 DEF IInv, Provenance
  <2>3. VotesDecided' BY <1>3, <2>1 DEF IInv, VotesDecided
  <2>4. DecisionsSafe' BY <1>3, <2>1 DEF IInv, DecisionsSafe
  <2> QED BY <1>1, <1>4, <1>5, <2>1, <2>2, <2>3, <2>4 DEF IInv
<1>7. ASSUME NEW m \in Offered(p, a), m \in Proposals, ~Blt(m.bal, maxBal[a]),
             maxBal' = [maxBal EXCEPT ![a] = m.bal],
             hasAcc' = [hasAcc EXCEPT ![a] = TRUE],
             accBal' = [accBal EXCEPT ![a] = m.bal],
             accVal' = [accVal EXCEPT ![a] = m.val],
             \A x \in Acceptors : Log(x)' =
               IF x = a THEN Log(x) \cup {LAccept(m.bal, m.val)} ELSE Log(x),
             \A q \in Proposers, x \in Acceptors : Answered(q, x)' =
               IF q = p /\ x = a THEN Answered(q, x) \cup {m} ELSE Answered(q, x)
      PROVE  IInv'
  <2> DEFINE e == LAccept(m.bal, m.val)
  <2>1. /\ e.kind = "LAccept" /\ e.kind # "LPromise" /\ e.bal = m.bal /\ e.val = m.val
        /\ \A c, w : LAccept(c, w) = e => c = m.bal
    BY DEF LAccept
  <2>2. \A x \in Acceptors : Log(x)' = IF x = a THEN Log(x) \cup {e} ELSE Log(x)
    BY <1>7
  <2>3. m.bal \in Ballots /\ Proposal(m.bal, m.val) = m
    BY <1>7 DEF Proposals, Proposal
  <2>4. m \in Decided(p) /\ m.bal.prop = p
    BY DEF IInv, Provenance, BallotsOwned, Decided, Offered
  <2>5. /\ maxBal \in [Acceptors -> Ballots] /\ accBal \in [Acceptors -> Ballots]
        /\ hasAcc \in [Acceptors -> BOOLEAN] /\ accVal \in [Acceptors -> VALS]
        /\ \A x \in Acceptors : \A f \in Log(x) : f \in LogEntries /\ f.bal \in Ballots
    BY LogTyped DEF IInv, TypeOK
  <2>6. /\ maxBal'[a] = m.bal /\ hasAcc'[a] /\ accBal'[a] = m.bal /\ accVal'[a] = m.val
        /\ \A x \in Acceptors : x # a =>
             /\ maxBal'[x] = maxBal[x] /\ hasAcc'[x] = hasAcc[x]
             /\ accBal'[x] = accBal[x] /\ accVal'[x] = accVal[x]
    BY <1>7, <2>5
  <2> HIDE DEF e
  <2>7. \A f \in Log(a) : /\ f.kind = "LPromise" => Ble(f.bal, m.bal)
                          /\ f.kind = "LAccept"  => Ble(f.bal, m.bal)
    <3>1. \A f \in Log(a) :
            /\ f.kind = "LPromise" => Ble(f.bal, maxBal[a])
            /\ f.kind = "LAccept"  => Ble(f.bal, accBal[a]) /\ Ble(accBal[a], maxBal[a])
      BY DEF IInv, AcceptorInv, Log
    <3>2. Ble(maxBal[a], m.bal) BY <1>7, <2>3, <2>5, BltOrder DEF Ble
    <3> QED BY <2>3, <2>5, <3>1, <3>2, BltOrder DEF Ble
  <2>8. AcceptorInv'
    <3> SUFFICES ASSUME NEW x \in Acceptors
        PROVE  /\ \A f \in Log(x)' :
                    /\ f.kind = "LPromise" => Ble(f.bal, maxBal'[x])
                    /\ f.kind = "LAccept"  => hasAcc'[x] /\ Ble(f.bal, accBal'[x])
               /\ hasAcc'[x] => /\ Ble(accBal'[x], maxBal'[x])
                                /\ LAccept(accBal'[x], accVal'[x]) \in Log(x)'
      BY DEF AcceptorInv, Log
    <3>1. CASE x = a
      BY <2>1, <2>2, <2>6, <2>7, <3>1 DEF Ble, e
    <3>2. CASE x # a
      <4>1. /\ \A f \in Log(x) :
                 /\ f.kind = "LPromise" => Ble(f.bal, maxBal[x])
                 /\ f.kind = "LAccept"  => hasAcc[x] /\ Ble(f.bal, accBal[x])
            /\ hasAcc[x] => /\ Ble(accBal[x], maxBal[x])
                            /\ LAccept(accBal[x], accVal[x]) \in Log(x)
        BY DEF IInv, AcceptorInv, Log
      <4> QED BY <2>2, <2>6, <3>2, <4>1
    <3> QED BY <3>1, <3>2
  <2>9. Provenance'
    <3> SUFFICES ASSUME NEW q \in Proposers, NEW x \in Acceptors
        PROVE  /\ \A n \in Offered(q, x)' : n \in Decided(q)'
               /\ \A n \in Promised(q, x)' :
                    LPromise(n.bal, n.had, n.abal, n.aval) \in Log(x)'
               /\ \A n \in Answered(q, x)' : /\ n \in Offered(q, x)'
                                             /\ LAccept(n.bal, n.val) \in Log(x)'
               /\ \A f \in Log(x)' : f.kind = "LAccept" /\ f.bal.prop = q
                                       => Proposal(f.bal, f.val) \in Offered(q, x)'
      BY DEF Provenance, Offered, Decided, Promised, Answered, Log
    <3>1. /\ \A n \in Offered(q, x) : n \in Decided(q)
          /\ \A n \in Promised(q, x) :
               LPromise(n.bal, n.had, n.abal, n.aval) \in Log(x)
          /\ \A n \in Answered(q, x) : /\ n \in Offered(q, x)
                                       /\ LAccept(n.bal, n.val) \in Log(x)
          /\ \A f \in Log(x) : f.kind = "LAccept" /\ f.bal.prop = q
                                 => Proposal(f.bal, f.val) \in Offered(q, x)
      BY DEF IInv, Provenance, Offered, Decided, Promised, Answered, Log
    <3>2. \A n \in Answered(q, x)' : /\ n \in Offered(q, x)'
                                     /\ LAccept(n.bal, n.val) \in Log(x)'
      BY <1>3, <1>7, <2>2, <3>1 DEF e
    <3>3. \A f \in Log(x)' : f.kind = "LAccept" /\ f.bal.prop = q
                               => Proposal(f.bal, f.val) \in Offered(q, x)'
      BY <1>3, <2>1, <2>2, <2>3, <2>4, <3>1
    <3> QED BY <1>3, <2>2, <3>1, <3>2, <3>3
  <2>10. PromisesHold'
    <3> SUFFICES ASSUME NEW x \in Acceptors, NEW n \in Log(x)', n.kind = "LPromise"
        PROVE  /\ n.had => LAccept(n.abal, n.aval) \in Log(x)'
               /\ \A f \in Log(x)' : f.kind = "LAccept" /\ Blt(f.bal, n.bal)
                                       => n.had /\ Ble(f.bal, n.abal)
      BY DEF PromisesHold
    <3>1. n \in Log(x) BY <2>1, <2>2
    <3>2. /\ n.had => LAccept(n.abal, n.aval) \in Log(x)
          /\ \A f \in Log(x) : f.kind = "LAccept" /\ Blt(f.bal, n.bal)
                                 => n.had /\ Ble(f.bal, n.abal)
      BY <3>1 DEF IInv, PromisesHold
    <3>3. x = a => ~Blt(e.bal, n.bal)
      BY <2>1, <2>3, <2>5, <2>7, <3>1, BltOrder DEF Ble
    <3> QED BY <2>2, <3>2, <3>3
  <2>11. VotesDecided'
    BY <1>3, <2>1, <2>2, <2>3, <2>4 DEF IInv, VotesDecided
  <2>12. \A b, v : SafeAt(b, v) => SafeAt(b, v)'
    <3>1. \A x \in Acceptors : maxBal'[x] = maxBal[x] \/ Blt(maxBal[x], maxBal'[x])
      BY <1>7, <2>3, <2>5, <2>6, BltOrder
    <3>2. \A x \in Acceptors, c \in Ballots, w \in Values :
            LAccept(c, w) \in Log(x)' =>
              LAccept(c, w) \in Log(x) \/ ~Blt(c, maxBal[x])
      BY <1>7, <2>1, <2>2
    <3> QED BY <1>1, <3>1, <3>2, SafeStable DEF IInv
  <2>13. DecisionsSafe' BY <1>3, <2>12 DEF IInv, DecisionsSafe
  <2> QED BY <1>1, <1>4, <1>5, <2>8, <2>9, <2>10, <2>11, <2>13 DEF IInv
<1> QED BY <1>6, <1>7, OnAcceptEffect DEF IInv

LEMMA SendPrepareInv ==
  ASSUME IInv, NEW p \in Proposers, SendPrepare(p)
  PROVE  IInv'
<1>1. TypeOK' /\ ValueHeld'
  BY StepType DEF IInv, Next, ProposerStep
<1>2. UNCHANGED <<p1b, p2a, p2b, pdec, alog, maxBal, hasAcc, accBal, accVal, bal, got, val>>
  BY DEF SendPrepare, accVars
<1>3. /\ pc[p] = "prepare" /\ pc'[p] # "accept"
      /\ \A q \in Proposers : q # p => pc'[q] = pc[q]
  BY DEF SendPrepare, IInv, TypeOK
<1>4. /\ \A x \in Acceptors : Log(x)' = Log(x)
      /\ AcceptorInv' /\ PromisesHold'
      /\ \A b, v : SafeAt(b, v) => SafeAt(b, v)'
  BY <1>1, <1>2, LogsUntouched
<1>5. /\ \A q \in Proposers : Decided(q)' = Decided(q)
      /\ \A q \in Proposers, x \in Acceptors : Promised(q, x)' = Promised(q, x)
  BY <1>2 DEF Decided, Promised
<1>6. BallotsOwned' BY <1>2, <1>3, <1>5 DEF IInv, BallotsOwned
<1>7. Provenance' BY <1>2 DEF IInv, Provenance
<1>8. VotesDecided' BY <1>4, <1>5 DEF IInv, VotesDecided
<1>9. GatheredPromises' BY <1>2, <1>5, GatheredStable
<1>10. DecisionsSafe' BY <1>4, <1>5 DEF IInv, DecisionsSafe
<1> QED BY <1>1, <1>4, <1>6, <1>7, <1>8, <1>9, <1>10 DEF IInv

LEMMA CollectInv ==
  ASSUME IInv, NEW p \in Proposers, NEW a \in Acceptors, Collect(p, a)
  PROVE  IInv'
<1>1. TypeOK' /\ ValueHeld'
  BY StepType DEF IInv, Next, ProposerStep
<1>2. UNCHANGED <<p1b, p2a, p2b, pdec, alog, maxBal, hasAcc, accBal, accVal, pc, bal, val>>
  BY DEF Collect, accVars
<1>3. /\ \A x \in Acceptors : Log(x)' = Log(x)
      /\ AcceptorInv' /\ PromisesHold'
      /\ \A b, v : SafeAt(b, v) => SafeAt(b, v)'
  BY <1>1, <1>2, LogsUntouched
<1>4. /\ \A q \in Proposers : Decided(q)' = Decided(q)
      /\ \A q \in Proposers, x \in Acceptors : Promised(q, x)' = Promised(q, x)
  BY <1>2 DEF Decided, Promised
<1>5. BallotsOwned' BY <1>2, <1>4 DEF IInv, BallotsOwned
<1>6. Provenance' BY <1>2 DEF IInv, Provenance
<1>7. VotesDecided' BY <1>3, <1>4 DEF IInv, VotesDecided
<1>8. GatheredPromises'
  <2>0. /\ Oldest(p1b, n1b, p, a) \in Promises
        /\ Oldest(p1b, n1b, p, a) \in Promised(p, a)
    BY OldestType, OldestReceived DEF IInv, TypeOK, Collect, Promised
  <2>1. PICK m \in Promises : m = Oldest(p1b, n1b, p, a) /\ m \in Promised(p, a)
    BY <2>0
  <2> DEFINE g == [src |-> a, had |-> m.had, abal |-> m.abal, aval |-> m.aval]
  <2>2. CASE ~Counts(p, a, m)
    <3>1. UNCHANGED got BY <2>1, <2>2 DEF Collect
    <3> QED BY <1>2, <1>4, <3>1, GatheredStable
  <2>3. CASE Counts(p, a, m)
    <3>1. got' = [got EXCEPT ![p] = @ \cup {g}] BY <2>1, <2>3 DEF Collect
    <3>2. /\ g.src = a /\ Promise(bal[p], g.had, g.abal, g.aval) = m
      BY <2>1, <2>3 DEF Counts, Promise, Promises
    <3>3. \A h \in got[p] : h.src # a BY <2>3 DEF Counts, Sources
    <3> HIDE DEF g
    <3>4. got \in [Proposers -> SUBSET Reports] BY DEF IInv, TypeOK
    <3> SUFFICES ASSUME NEW q \in Proposers
        PROVE  /\ IsFiniteSet(got'[q])
               /\ \A x \in got'[q] :
                    Promise(bal[q], x.had, x.abal, x.aval) \in Promised(q, x.src)'
               /\ \A x, y \in got'[q] : x.src = y.src => x = y
      BY <1>2 DEF GatheredPromises
    <3>5. /\ IsFiniteSet(got[q])
          /\ \A x \in got[q] : Promise(bal[q], x.had, x.abal, x.aval) \in Promised(q, x.src)'
          /\ \A x, y \in got[q] : x.src = y.src => x = y
      <4>1. \A x \in got[q] : x.src \in Acceptors BY <3>4 DEF Reports
      <4> QED BY <1>4, <4>1 DEF IInv, GatheredPromises
    <3>6. CASE q # p
      <4>1. got'[q] = got[q] BY <3>1, <3>4, <3>6
      <4> QED BY <3>5, <4>1
    <3>7. CASE q = p
      <4>1. got'[q] = got[q] \cup {g} BY <3>1, <3>4, <3>7
      <4>2. IsFiniteSet(got'[q]) BY <3>5, <4>1, FS_AddElement
      <4>3. Promise(bal[q], g.had, g.abal, g.aval) \in Promised(q, g.src)'
        BY <1>4, <2>1, <3>2, <3>7
      <4> QED BY <3>2, <3>3, <3>5, <3>7, <4>1, <4>2, <4>3
    <3> QED BY <3>6, <3>7
  <2> QED BY <2>2, <2>3
<1>9. DecisionsSafe' BY <1>3, <1>4 DEF IInv, DecisionsSafe
<1> QED BY <1>1, <1>3, <1>5, <1>6, <1>7, <1>8, <1>9 DEF IInv

LEMMA CommitInv ==
  ASSUME IInv, NEW p \in Proposers, Commit(p)
  PROVE  IInv'
<1>1. TypeOK' /\ ValueHeld'
  BY StepType DEF IInv, Next, ProposerStep
<1>2. /\ UNCHANGED <<p1b, p2a, p2b, alog, maxBal, hasAcc, accBal, accVal, bal, got>>
      /\ pc[p] = "gather" /\ pc' = [pc EXCEPT ![p] = "accept"]
      /\ Cardinality(got[p]) = Need
  BY CommitEffect DEF IInv
<1>3. PICK v \in Values :
        /\ MayPropose(got[p], Want(p, bal[p].round), v)
        /\ val' = [val EXCEPT ![p] = v]
        /\ \A q \in Proposers : Decided(q)' =
             IF q = p THEN Decided(q) \cup {Proposal(bal[p], v)} ELSE Decided(q)
  BY CommitEffect DEF IInv
<1> DEFINE m == Proposal(bal[p], v)
<1>4. m.bal = bal[p] /\ m.val = v BY DEF Proposal
<1>5. \A q \in Proposers : Decided(q)' = IF q = p THEN Decided(q) \cup {m} ELSE Decided(q)
  BY <1>3
<1>6. /\ pc'[p] = "accept" /\ val'[p] = v
      /\ \A q \in Proposers : q # p => pc'[q] = pc[q] /\ val'[q] = val[q]
  BY <1>2, <1>3 DEF IInv, TypeOK
<1> HIDE DEF m
<1>7. /\ \A x \in Acceptors : Log(x)' = Log(x)
      /\ AcceptorInv' /\ PromisesHold'
      /\ \A b, w : SafeAt(b, w) => SafeAt(b, w)'
  BY <1>1, <1>2, LogsUntouched
<1>8. \A q \in Proposers, x \in Acceptors : Promised(q, x)' = Promised(q, x)
  BY <1>2 DEF Promised
<1>9. BallotsOwned'
  <2> SUFFICES ASSUME NEW q \in Proposers
      PROVE  /\ bal[q].prop = q
             /\ \A n \in Decided(q)' :
                  /\ n.bal.prop = q
                  /\ \/ n.bal.round < bal[q].round
                     \/ pc'[q] = "accept" /\ n = Proposal(bal[q], val'[q])
             /\ \A n1, n2 \in Decided(q)' : n1.bal = n2.bal => n1 = n2
             /\ pc'[q] = "accept" => Proposal(bal[q], val'[q]) \in Decided(q)'
    BY <1>2 DEF BallotsOwned
  <2>1. /\ bal[q].prop = q
        /\ \A n \in Decided(q) :
             /\ n.bal.prop = q
             /\ \/ n.bal.round < bal[q].round
                \/ pc[q] = "accept" /\ n = Proposal(bal[q], val[q])
        /\ \A n1, n2 \in Decided(q) : n1.bal = n2.bal => n1 = n2
        /\ pc[q] = "accept" => Proposal(bal[q], val[q]) \in Decided(q)
    BY DEF IInv, BallotsOwned
  <2>2. CASE q # p BY <1>5, <1>6, <2>1, <2>2
  <2>3. CASE q = p
    <3>1. m = Proposal(bal[q], val'[q]) BY <1>6, <2>3 DEF m
    <3>2. bal[q].round \in Nat BY DEF IInv, TypeOK, Ballots
    <3>3. \A n \in Decided(q) : n.bal.round < bal[q].round BY <1>2, <2>1, <2>3
    <3>4. \A n \in Decided(q) : n.bal # m.bal BY <1>4, <2>3, <3>2, <3>3
    <3> QED BY <1>4, <1>5, <1>6, <2>1, <2>3, <3>1, <3>3, <3>4
  <2> QED BY <2>2, <2>3
<1>10. Provenance'
  <2>1. \A q \in Proposers : Range(pdec[q]) \subseteq Range(pdec[q])'
    BY <1>5 DEF Decided
  <2>2. \A q \in Proposers, x \in Acceptors : \A n \in Range(p2a[q][x]) : n \in Range(pdec[q])'
    BY <2>1 DEF IInv, Provenance
  <2> QED BY <1>2, <2>2 DEF IInv, Provenance
<1>11. VotesDecided' BY <1>5, <1>7 DEF IInv, VotesDecided
<1>12. GatheredPromises' BY <1>2, <1>8, GatheredStable
<1>13. DecisionsSafe'
  <2>1. SafeAt(bal[p], v) BY <1>2, <1>3, CommitSafe
  <2> SUFFICES ASSUME NEW q \in Proposers, NEW n \in Decided(q)'
      PROVE  SafeAt(n.bal, n.val)'
    BY DEF DecisionsSafe
  <2>2. CASE n \in Decided(q)
    <3>1. SafeAt(n.bal, n.val) BY <2>2 DEF IInv, DecisionsSafe
    <3> QED BY <1>7, <3>1
  <2>3. CASE n = m
    <3>1. SafeAt(n.bal, n.val) BY <1>4, <2>1, <2>3
    <3> QED BY <1>7, <3>1
  <2> QED BY <1>5, <2>2, <2>3
<1> QED BY <1>1, <1>7, <1>9, <1>10, <1>11, <1>12, <1>13 DEF IInv

LEMMA SendAcceptInv ==
  ASSUME IInv, NEW p \in Proposers, SendAccept(p)
  PROVE  IInv'
<1>1. TypeOK' /\ ValueHeld'
  BY StepType DEF IInv, Next, ProposerStep
<1>2. val[p] \in Values BY DEF IInv, ValueHeld, SendAccept
<1>3. /\ UNCHANGED <<p1b, p2b, pdec, alog, maxBal, hasAcc, accBal, accVal>>
      /\ pc[p] = "accept"
      /\ \A q \in Proposers, x \in Acceptors :
           \/ Offered(q, x)' = Offered(q, x)
           \/ q = p /\ Offered(q, x)' = Offered(q, x) \cup {Proposal(bal[p], val[p])}
  BY <1>2, SendAcceptEffect DEF IInv
<1>4. /\ \A x \in Acceptors : Log(x)' = Log(x)
      /\ AcceptorInv' /\ PromisesHold'
      /\ \A b, w : SafeAt(b, w) => SafeAt(b, w)'
  BY <1>1, <1>3, LogsUntouched
<1>5. /\ \A q \in Proposers : Decided(q)' = Decided(q)
      /\ \A q \in Proposers, x \in Acceptors : Promised(q, x)' = Promised(q, x)
      /\ \A q \in Proposers, x \in Acceptors : Answered(q, x)' = Answered(q, x)
  BY <1>3 DEF Decided, Promised, Answered
<1>6. Provenance'
  <2> SUFFICES ASSUME NEW q \in Proposers, NEW x \in Acceptors
      PROVE  /\ \A n \in Offered(q, x)' : n \in Decided(q)
             /\ \A n \in Promised(q, x) :
                  LPromise(n.bal, n.had, n.abal, n.aval) \in Log(x)
             /\ \A n \in Answered(q, x) : /\ n \in Offered(q, x)'
                                          /\ LAccept(n.bal, n.val) \in Log(x)
             /\ \A f \in Log(x) : f.kind = "LAccept" /\ f.bal.prop = q
                                    => Proposal(f.bal, f.val) \in Offered(q, x)'
    BY <1>3 DEF Provenance, Offered, Decided, Promised, Answered, Log
  <2>1. /\ \A n \in Offered(q, x) : n \in Decided(q)
        /\ \A n \in Promised(q, x) :
             LPromise(n.bal, n.had, n.abal, n.aval) \in Log(x)
        /\ \A n \in Answered(q, x) : /\ n \in Offered(q, x)
                                     /\ LAccept(n.bal, n.val) \in Log(x)
        /\ \A f \in Log(x) : f.kind = "LAccept" /\ f.bal.prop = q
                               => Proposal(f.bal, f.val) \in Offered(q, x)
    BY DEF IInv, Provenance, Offered, Decided, Promised, Answered, Log
  <2>2. Proposal(bal[p], val[p]) \in Decided(p)
    BY <1>3 DEF IInv, BallotsOwned
  <2> QED BY <1>3, <2>1, <2>2
<1>7. VotesDecided' BY <1>4, <1>5 DEF IInv, VotesDecided
<1>8. DecisionsSafe' BY <1>4, <1>5 DEF IInv, DecisionsSafe
<1>9. BallotsOwned' /\ GatheredPromises'
  <2>1. CASE UNCHANGED <<pc, bal, got, val>>
    <3>1. BallotsOwned' BY <1>5, <2>1 DEF IInv, BallotsOwned
    <3> QED BY <1>5, <2>1, <3>1, GatheredStable
  <2>2. CASE /\ pc'  = [pc EXCEPT ![p] = "prepare"]
             /\ bal' = [bal EXCEPT ![p] = [round |-> bal[p].round + 1, prop |-> bal[p].prop]]
             /\ got' = [got EXCEPT ![p] = {}]
             /\ val' = [val EXCEPT ![p] = NoVal]
    <3>1. /\ pc'[p] = "prepare" /\ got'[p] = {}
          /\ bal'[p].round = bal[p].round + 1 /\ bal'[p].prop = bal[p].prop
          /\ \A q \in Proposers : q # p =>
               pc'[q] = pc[q] /\ bal'[q] = bal[q] /\ got'[q] = got[q] /\ val'[q] = val[q]
      BY <2>2 DEF IInv, TypeOK
    <3> SUFFICES ASSUME NEW q \in Proposers
        PROVE  /\ bal'[q].prop = q
               /\ \A n \in Decided(q) :
                    /\ n.bal.prop = q
                    /\ \/ n.bal.round < bal'[q].round
                       \/ pc'[q] = "accept" /\ n = Proposal(bal'[q], val'[q])
               /\ \A n1, n2 \in Decided(q) : n1.bal = n2.bal => n1 = n2
               /\ pc'[q] = "accept" => Proposal(bal'[q], val'[q]) \in Decided(q)
               /\ IsFiniteSet(got'[q])
               /\ \A g \in got'[q] :
                    Promise(bal'[q], g.had, g.abal, g.aval) \in Promised(q, g.src)'
               /\ \A g, h \in got'[q] : g.src = h.src => g = h
      BY <1>5 DEF BallotsOwned, GatheredPromises
    <3>2. /\ bal[q].prop = q
          /\ \A n \in Decided(q) :
               /\ n.bal.prop = q
               /\ \/ n.bal.round < bal[q].round
                  \/ pc[q] = "accept" /\ n = Proposal(bal[q], val[q])
          /\ \A n1, n2 \in Decided(q) : n1.bal = n2.bal => n1 = n2
          /\ pc[q] = "accept" => Proposal(bal[q], val[q]) \in Decided(q)
      BY DEF IInv, BallotsOwned
    <3>3. /\ IsFiniteSet(got[q])
          /\ \A g \in got[q] : Promise(bal[q], g.had, g.abal, g.aval) \in Promised(q, g.src)'
          /\ \A g, h \in got[q] : g.src = h.src => g = h
      <4>1. \A g \in got[q] : g.src \in Acceptors BY DEF IInv, TypeOK, Reports
      <4> QED BY <1>5, <4>1 DEF IInv, GatheredPromises
    <3>4. CASE q # p BY <3>1, <3>2, <3>3, <3>4
    <3>5. CASE q = p
      <4>1. \A n \in Decided(q) : n.bal.round < bal'[q].round
        <5>1. \A n \in Decided(q) : n.bal \in Ballots BY DecidedTyped DEF IInv
        <5>2. bal[q].round \in Nat /\ \A x \in Ballots : x.round \in Nat
          BY DEF IInv, TypeOK, Ballots
        <5>3. \A n \in Decided(q) : n.bal.round < bal[q].round \/ n.bal = bal[q]
          BY <3>2 DEF Proposal
        <5> QED BY <3>1, <3>5, <5>1, <5>2, <5>3
      <4> QED BY <3>1, <3>2, <3>5, <4>1, FS_EmptySet
    <3> QED BY <3>4, <3>5
  <2> QED BY <1>2, <2>1, <2>2, SendAcceptEffect DEF IInv
<1> QED BY <1>1, <1>4, <1>6, <1>7, <1>8, <1>9 DEF IInv

LEMMA StepInv == IInv /\ [Next]_vars => IInv'
<1> SUFFICES ASSUME IInv, [Next]_vars PROVE IInv'
  OBVIOUS
<1>1. CASE UNCHANGED vars
  BY <1>1 DEF vars, IInv, TypeOK, ValueHeld, AcceptorInv, Provenance, BallotsOwned,
     PromisesHold, VotesDecided, GatheredPromises, DecisionsSafe, SafeAt,
     Log, Promised, Offered, Answered, Decided
<1> QED BY <1>1, OnPrepareInv, OnAcceptInv, SendPrepareInv, CollectInv, CommitInv,
           SendAcceptInv DEF Next, AcceptorStep, ProposerStep

-----------------------------------------------------------------------------
(* The theorems.                                                           *)

LEMMA ChosenVoters ==
  ASSUME IInv, NEW m, m.bal.prop \in Proposers, Chosen(m)
  PROVE  \E q \in Quorums : \A a \in q : a \in Acceptors /\ LAccept(m.bal, m.val) \in Log(a)
<1>1. {a \in Acceptors : Accepted(a, m)} \in Quorums BY DEF Chosen
<1>2. \A a \in Acceptors : Accepted(a, m) => LAccept(m.bal, m.val) \in Log(a)
  BY DEF Accepted, IInv, Provenance, Log
<1> QED BY <1>1, <1>2

LEMMA CommitExtends ==
  ASSUME IInv, NEW m1 \in Committed, NEW m2 \in Committed,
         Chosen(m1), Blt(m1.bal, m2.bal)
  PROVE  m2.val = m1.val
<1>1. PICK p1 \in Proposers : m1 \in Decided(p1) BY DEF Committed, Decided
<1>2. PICK p2 \in Proposers : m2 \in Decided(p2) BY DEF Committed, Decided
<1>3. m1.bal.prop = p1 BY <1>1 DEF IInv, BallotsOwned
<1>4. m1.bal \in Ballots /\ m1.val \in Values BY <1>1, DecidedTyped DEF IInv
<1>5. SafeAt(m2.bal, m2.val) BY <1>2 DEF IInv, DecisionsSafe
<1>6. PICK q2 \in Quorums :
        \A a \in q2 : \A w \in Values : LAccept(m1.bal, w) \in Log(a) => w = m2.val
  BY <1>4, <1>5 DEF SafeAt
<1>7. PICK q1 \in Quorums : \A a \in q1 : LAccept(m1.bal, m1.val) \in Log(a)
  BY <1>1, <1>3, ChosenVoters
<1> QED BY <1>4, <1>6, <1>7, QuorumsMeet

LEMMA InvAgreement == IInv => Agreement /\ CommitsExtendChosen
<1> SUFFICES ASSUME IInv PROVE Agreement /\ CommitsExtendChosen
  OBVIOUS
<1>1. CommitsExtendChosen BY CommitExtends DEF CommitsExtendChosen
<1>2. ASSUME NEW m1 \in Committed, NEW m2 \in Committed, Chosen(m1), Chosen(m2)
      PROVE  m1.val = m2.val
  <2>1. PICK p1 \in Proposers : m1 \in Decided(p1) BY DEF Committed, Decided
  <2>2. PICK p2 \in Proposers : m2 \in Decided(p2) BY DEF Committed, Decided
  <2>3. m1.bal \in Ballots /\ m2.bal \in Ballots
    BY <2>1, <2>2, DecidedTyped DEF IInv
  <2>4. CASE m1.bal = m2.bal
    <3>1. p1 = p2 BY <2>1, <2>2, <2>4 DEF IInv, BallotsOwned
    <3> QED BY <2>1, <2>2, <2>4, <3>1 DEF IInv, BallotsOwned
  <2> QED BY <1>2, <2>3, <2>4, CommitExtends, BltOrder
<1> QED BY <1>1, <1>2 DEF Agreement

LEMMA InvHolds == Spec => []IInv
<1>1. Init => IInv BY InitInv
<1>2. IInv /\ [Next]_vars => IInv' BY StepInv
<1> QED BY <1>1, <1>2, PTL DEF Spec

(* Two values are never both chosen, whatever the number of acceptors,     *)
(* proposers and rounds (lemma_agreement).                                 *)
THEOREM AgreementHolds == Spec => []Agreement
<1>1. IInv => Agreement BY InvAgreement
<1> QED BY <1>1, InvHolds, PTL

(* A proposer that commits above a chosen proposal commits its value: the  *)
(* fold over the gathered reports finds it (lemma_safe_at).                *)
THEOREM CommitsExtendChosenHolds == Spec => []CommitsExtendChosen
<1>1. IInv => CommitsExtendChosen BY InvAgreement
<1> QED BY <1>1, InvHolds, PTL

(* The acceptor's three fields summarise its log (Acceptor::inv).          *)
THEOREM AcceptorInvHolds == Spec => []AcceptorInv
<1>1. IInv => AcceptorInv BY DEF IInv
<1> QED BY <1>1, InvHolds, PTL

(* Every answer finds what it answers in the record (Paxos::caused_by).    *)
THEOREM ProvenanceHolds == Spec => []Provenance
<1>1. IInv => Provenance BY DEF IInv
<1> QED BY <1>1, InvHolds, PTL

-----------------------------------------------------------------------------
(* Backing.  An acceptor promises a ballot once, so the promises that back *)
(* a commitment are neither contradicted nor joined by later ones.         *)

PromisedOnce ==
  \A p \in Proposers, a \in Acceptors :
    \A m, n \in Promised(p, a) : m.bal = n.bal => m = n

DecidedBacked == \A p \in Proposers : \A m \in Decided(p) : QuorumBacks(p, m.bal, m.val)

DecidedInOrder ==
  \A p \in Proposers : \A j \in 1 .. Len(pdec[p]) : \A i \in 1 .. j - 1 :
    Blt(pdec[p][i].bal, pdec[p][j].bal)

Backing == PromisedOnce /\ DecidedBacked /\ DecidedInOrder

(* Of promises, a step adds at most one, for a ballot not promised before. *)
LEMMA PromiseEffect ==
  ASSUME IInv, [Next]_vars, NEW q \in Proposers, NEW x \in Acceptors
  PROVE  \/ Promised(q, x)' = Promised(q, x)
         \/ \E m : /\ Promised(q, x)' = Promised(q, x) \cup {m}
                   /\ \A n \in Promised(q, x) : n.bal # m.bal
<1>1. CASE p1b' = p1b BY <1>1 DEF Promised
<1>2. CASE p1b' # p1b
  <2>1. PICK a \in Acceptors, p \in Proposers : OnPrepare(a, p)
    BY <1>2 DEF Next, AcceptorStep, ProposerStep, OnAccept, SendPrepare, Collect,
       Commit, SendAccept, vars
  <2>2. CASE UNCHANGED <<alog, p1b, maxBal>> BY <1>2, <2>2
  <2>3. ASSUME NEW b \in Ballots, Blt(maxBal[a], b), NEW m,
               m = Promise(b, hasAcc[a], accBal[a], accVal[a]),
               Promised(q, x)' = IF q = p /\ x = a THEN Promised(q, x) \cup {m}
                                                  ELSE Promised(q, x)
        PROVE  \/ Promised(q, x)' = Promised(q, x)
               \/ \E n : /\ Promised(q, x)' = Promised(q, x) \cup {n}
                         /\ \A o \in Promised(q, x) : o.bal # n.bal
    <3>1. m.bal = b BY <2>3 DEF Promise
    <3>2. ASSUME NEW n \in Promised(q, a) PROVE n.bal # b
      <4>1. LPromise(n.bal, n.had, n.abal, n.aval) \in Range(alog[a])
        BY DEF IInv, Provenance, Promised
      <4>2. PICK e \in Range(alog[a]) : e.kind = "LPromise" /\ e.bal = n.bal
        BY <4>1 DEF LPromise
      <4>3. Ble(n.bal, maxBal[a]) BY <4>2 DEF IInv, AcceptorInv
      <4>4. maxBal[a] \in Ballots BY DEF IInv, TypeOK
      <4>5. CASE n.bal = maxBal[a] BY <2>3, <4>4, <4>5, BltOrder
      <4>6. CASE Blt(n.bal, maxBal[a]) /\ n.bal = b BY <2>3, <4>4, <4>6, BltOrder
      <4> QED BY <4>3, <4>5, <4>6 DEF Ble
    <3> QED BY <2>3, <3>1, <3>2
  <2>4. PICK b \in Ballots :
          /\ Blt(maxBal[a], b)
          /\ \A r \in Proposers, y \in Acceptors : Promised(r, y)' =
               IF r = p /\ y = a
               THEN Promised(r, y) \cup {Promise(b, hasAcc[a], accBal[a], accVal[a])}
               ELSE Promised(r, y)
    BY <1>2, <2>1, OnPrepareEffect DEF IInv
  <2> QED BY <2>3, <2>4
<1> QED BY <1>1, <1>2

LEMMA PromisedOnceStep == IInv /\ PromisedOnce /\ [Next]_vars => PromisedOnce'
<1> SUFFICES ASSUME IInv, PromisedOnce, [Next]_vars, NEW q \in Proposers, NEW x \in Acceptors,
                    NEW m \in Promised(q, x)', NEW n \in Promised(q, x)', m.bal = n.bal
             PROVE  m = n
  BY DEF PromisedOnce
<1>1. CASE Promised(q, x)' = Promised(q, x) BY <1>1 DEF PromisedOnce
<1>2. ASSUME NEW o, Promised(q, x)' = Promised(q, x) \cup {o},
             \A r \in Promised(q, x) : r.bal # o.bal
      PROVE  m = n
  BY <1>2 DEF PromisedOnce
<1> QED BY <1>1, <1>2, PromiseEffect

(* The promises of q for ballot b to proposer p.                           *)
PromisesFor(p, b, q) == {m \in UNION {Promised(p, a) : a \in q} : m.bal = b}

BacksIt(p, b, v, q) ==
  LET accepted == {m \in PromisesFor(p, b, q) : m.had}
  IN /\ \A a \in q : \E m \in Promised(p, a) : m.bal = b
     /\ \/ accepted = {}
        \/ \E m \in accepted : /\ m.aval = v
                               /\ \A h \in accepted : Ble(h.abal, m.abal)

LEMMA BacksMeaning ==
  ASSUME NEW p, NEW b, NEW v
  PROVE  QuorumBacks(p, b, v) <=> \E q \in Quorums : BacksIt(p, b, v, q)
<1>1. ASSUME NEW q \in Quorums
      PROVE  (\A a \in q : \E m \in PromisesFor(p, b, q) : m \in Promised(p, a))
               <=> (\A a \in q : \E m \in Promised(p, a) : m.bal = b)
  BY DEF PromisesFor
<1> QED BY <1>1 DEF QuorumBacks, BacksIt, PromisesFor, Promised

LEMMA BackedStable ==
  ASSUME IInv, [Next]_vars, NEW p \in Proposers, NEW b, NEW v, QuorumBacks(p, b, v)
  PROVE  QuorumBacks(p, b, v)'
<1>1. PICK q \in Quorums : BacksIt(p, b, v, q) BY BacksMeaning
<1>2. ASSUME NEW a \in q
      PROVE  {m \in Promised(p, a)' : m.bal = b} = {m \in Promised(p, a) : m.bal = b}
  <2>1. a \in Acceptors BY DEF Quorums
  <2>2. PICK n \in Promised(p, a) : n.bal = b BY <1>1 DEF BacksIt
  <2>3. CASE Promised(p, a)' = Promised(p, a) BY <2>3
  <2>4. ASSUME NEW o, Promised(p, a)' = Promised(p, a) \cup {o},
               \A r \in Promised(p, a) : r.bal # o.bal
        PROVE  {m \in Promised(p, a)' : m.bal = b} = {m \in Promised(p, a) : m.bal = b}
    BY <2>2, <2>4
  <2> QED BY <2>1, <2>3, <2>4, PromiseEffect
<1>3. PromisesFor(p, b, q)' = PromisesFor(p, b, q)
  <2>1. ASSUME NEW m PROVE m \in PromisesFor(p, b, q)' <=> m \in PromisesFor(p, b, q)
    BY <1>2 DEF PromisesFor
  <2>2. /\ PromisesFor(p, b, q)' \subseteq PromisesFor(p, b, q)
        /\ PromisesFor(p, b, q) \subseteq PromisesFor(p, b, q)'
    BY <2>1
  <2> QED BY <2>2
<1>4. \A a \in q : \E m \in Promised(p, a)' : m.bal = b
  BY <1>1, <1>2 DEF BacksIt
<1>5. BacksIt(p, b, v, q)' BY <1>1, <1>3, <1>4 DEF BacksIt
<1>6. \A a \in q : \E m \in PromisesFor(p, b, q)' : m \in Promised(p, a)'
  BY <1>4 DEF PromisesFor
<1> QED BY <1>5, <1>6 DEF QuorumBacks, BacksIt, PromisesFor, Promised

(* The quorum a commitment has gathered backs it.                          *)
LEMMA GatheredBack ==
  ASSUME TypeOK, GatheredPromises, PromisedOnce, NEW p \in Proposers, NEW v \in Values,
         Cardinality(got[p]) = Need, MayPropose(got[p], Want(p, bal[p].round), v)
  PROVE  Sources(p) \in Quorums /\ BacksIt(p, bal[p], v, Sources(p))
<1> DEFINE q == Sources(p)
           PromiseOf(g) == Promise(bal[p], g.had, g.abal, g.aval)
<1>1. q \in Quorums BY SourcesQuorum
<1>2. \A g \in got[p] : g.src \in q /\ g.src \in Acceptors /\ PromiseOf(g) \in Promised(p, g.src)
  BY DEF GatheredPromises, Sources, TypeOK, Reports
<1>3. \A g : /\ PromiseOf(g).bal = bal[p] /\ PromiseOf(g).had = g.had
             /\ PromiseOf(g).abal = g.abal /\ PromiseOf(g).aval = g.aval
  BY DEF Promise
<1> HIDE DEF PromiseOf, q
<1>4. \A a \in q : \E g \in got[p] : g.src = a BY DEF q, Sources
<1>5. \A g \in got[p] : PromiseOf(g) \in PromisesFor(p, bal[p], q)
  BY <1>2, <1>3 DEF PromisesFor
<1>6. ASSUME NEW m \in PromisesFor(p, bal[p], q)
      PROVE  \E g \in got[p] : m = PromiseOf(g)
  <2>1. PICK a \in q : m \in Promised(p, a) /\ m.bal = bal[p] BY DEF PromisesFor
  <2>2. PICK g \in got[p] : g.src = a BY <1>4
  <2> QED BY <1>2, <1>3, <2>1, <2>2 DEF PromisedOnce
<1>7. \A a \in q : \E m \in Promised(p, a) : m.bal = bal[p] BY <1>2, <1>3, <1>4
<1>8. ASSUME {g \in got[p] : g.had} = {} PROVE BacksIt(p, bal[p], v, q)
  <2>1. {m \in PromisesFor(p, bal[p], q) : m.had} = {} BY <1>3, <1>6, <1>8
  <2> QED BY <1>7, <2>1 DEF BacksIt
<1>9. ASSUME {g \in got[p] : g.had} # {} PROVE BacksIt(p, bal[p], v, q)
  <2>1. PICK g \in got[p] : /\ g.had /\ g.aval = v
                            /\ \A h \in got[p] : h.had => Ble(h.abal, g.abal)
    BY <1>9 DEF MayPropose
  <2>2. \A h \in PromisesFor(p, bal[p], q) : h.had => Ble(h.abal, PromiseOf(g).abal)
    BY <1>3, <1>6, <2>1
  <2>3. /\ PromiseOf(g) \in PromisesFor(p, bal[p], q)
        /\ PromiseOf(g).had /\ PromiseOf(g).aval = v
    BY <1>3, <1>5, <2>1
  <2> QED BY <1>7, <2>2, <2>3 DEF BacksIt
<1>10. BacksIt(p, bal[p], v, q) BY <1>8, <1>9
<1> QED BY <1>1, <1>10 DEF q

LEMMA CommitBacked ==
  ASSUME IInv, PromisedOnce, NEW p \in Proposers, NEW v \in Values,
         Cardinality(got[p]) = Need, MayPropose(got[p], Want(p, bal[p].round), v)
  PROVE  QuorumBacks(p, bal[p], v)
BY GatheredBack, BacksMeaning DEF IInv

(* A commitment is added at the end of its log, at a higher ballot.        *)
LEMMA DecideEffect ==
  ASSUME IInv, [Next]_vars, NEW p \in Proposers
  PROVE  \/ pdec'[p] = pdec[p]
         \/ \E v \in Values :
              /\ Cardinality(got[p]) = Need
              /\ MayPropose(got[p], Want(p, bal[p].round), v)
              /\ pc[p] = "gather"
              /\ pdec'[p] = Append(pdec[p], Proposal(bal[p], v))
<1>1. CASE pdec' = pdec BY <1>1
<1>2. CASE pdec' # pdec
  <2>1. PICK q \in Proposers : Commit(q)
    BY <1>2 DEF Next, AcceptorStep, ProposerStep, OnPrepare, OnAccept, SendPrepare,
       Collect, SendAccept, vars
  <2>2. pdec \in [Proposers -> Seq(Proposals)] BY DEF IInv, TypeOK
  <2>3. PICK v \in Values :
          /\ MayPropose(got[q], Want(q, bal[q].round), v)
          /\ pdec' = [pdec EXCEPT ![q] = Append(@, Proposal(bal[q], v))]
    BY <2>1 DEF Commit
  <2> QED BY <2>1, <2>2, <2>3 DEF Commit
<1> QED BY <1>1, <1>2

LEMMA BackingInit == Init => Backing
BY DEF Init, ChanInit, Link, Backing, PromisedOnce, DecidedBacked, DecidedInOrder,
   Promised, Decided, Range

LEMMA BackingStep == IInv /\ Backing /\ [Next]_vars => Backing'
<1> SUFFICES ASSUME IInv, Backing, [Next]_vars PROVE Backing'
  OBVIOUS
<1>1. PromisedOnce' BY PromisedOnceStep DEF Backing
<1>2. ASSUME NEW p \in Proposers
      PROVE  /\ \A m \in Decided(p)' : QuorumBacks(p, m.bal, m.val)'
             /\ \A j \in 1 .. Len(pdec'[p]) : \A i \in 1 .. j - 1 :
                  Blt(pdec'[p][i].bal, pdec'[p][j].bal)
  <2>1. \A m \in Decided(p) : QuorumBacks(p, m.bal, m.val)'
    BY BackedStable DEF Backing, DecidedBacked
  <2>2. CASE pdec'[p] = pdec[p]
    BY <2>1, <2>2 DEF Backing, DecidedInOrder, Decided
  <2>3. ASSUME NEW v \in Values, Cardinality(got[p]) = Need, pc[p] = "gather",
               MayPropose(got[p], Want(p, bal[p].round), v),
               NEW c, c = Proposal(bal[p], v),
               pdec'[p] = Append(pdec[p], c)
        PROVE  /\ \A m \in Decided(p)' : QuorumBacks(p, m.bal, m.val)'
               /\ \A j \in 1 .. Len(pdec'[p]) : \A i \in 1 .. j - 1 :
                    Blt(pdec'[p][i].bal, pdec'[p][j].bal)
    <3>1. c \in Proposals /\ c.bal = bal[p] /\ c.val = v
      BY <2>3 DEF IInv, TypeOK, Proposal, Proposals
    <3>2. pdec[p] \in Seq(Proposals) /\ pdec'[p] = Append(pdec[p], c)
      BY <2>3 DEF IInv, TypeOK
    <3>3. QuorumBacks(p, c.bal, c.val)'
      <4>1. QuorumBacks(p, c.bal, c.val) BY <2>3, <3>1, CommitBacked DEF Backing
      <4> QED BY <4>1, BackedStable
    <3>4. Decided(p)' = Decided(p) \cup {c}
      BY <3>1, <3>2, RangeAppend DEF Decided
    <3>5. ASSUME NEW j \in 1 .. Len(pdec'[p]), NEW i \in 1 .. j - 1
          PROVE  Blt(pdec'[p][i].bal, pdec'[p][j].bal)
      <4>1. i \in 1 .. Len(pdec[p]) /\ pdec'[p][i] = pdec[p][i] BY <3>1, <3>2, <3>5
      <4>2. CASE j = Len(pdec[p]) + 1
        <5>1. pdec'[p][j] = c BY <3>1, <3>2, <4>2
        <5>2. pdec[p][i] \in Decided(p) /\ pdec[p][i] \in Proposals
          BY <3>2, <4>1 DEF Decided, Range
        <5>3. pdec[p][i].bal.round < bal[p].round
          BY <2>3, <5>2 DEF IInv, BallotsOwned
        <5> QED BY <3>1, <4>1, <5>1, <5>3 DEF Blt
      <4>3. CASE j # Len(pdec[p]) + 1
        <5>1. j \in 1 .. Len(pdec[p]) /\ pdec'[p][j] = pdec[p][j] BY <3>1, <3>2, <3>5, <4>3
        <5> QED BY <4>1, <5>1 DEF Backing, DecidedInOrder
      <4> QED BY <4>2, <4>3
    <3> QED BY <2>1, <3>3, <3>4, <3>5
  <2> QED BY <2>2, <2>3, DecideEffect
<1>3. DecidedBacked' /\ DecidedInOrder' BY <1>2 DEF DecidedBacked, DecidedInOrder
<1> QED BY <1>1, <1>3 DEF Backing

(* Every commitment is of the proposer's own, above its earlier ones, and  *)
(* backed for good by a quorum's promises (rec_decided_backed, log_ok).    *)
THEOREM CommitmentsBackedHolds == Spec => []CommitmentsBacked
<1>1. Init => Backing BY BackingInit
<1>2. IInv /\ Backing /\ [Next]_vars => Backing' BY BackingStep
<1>3. IInv /\ Backing => CommitmentsBacked
  <2> SUFFICES ASSUME IInv, Backing, NEW p \in Proposers, NEW j \in DOMAIN pdec[p]
               PROVE  LET m == pdec[p][j]
                      IN /\ m.bal.prop = p
                         /\ \A i \in 1 .. (j - 1) : Blt(pdec[p][i].bal, m.bal)
                         /\ QuorumBacks(p, m.bal, m.val)
    BY DEF CommitmentsBacked
  <2>1. pdec[p][j] \in Decided(p) BY DEF Decided, Range
  <2>2. pdec[p] \in Seq(Proposals) BY DEF IInv, TypeOK
  <2>3. j \in 1 .. Len(pdec[p]) BY <2>2
  <2> QED BY <2>1, <2>3 DEF IInv, BallotsOwned, Backing, DecidedBacked, DecidedInOrder
<1> QED BY <1>1, <1>2, <1>3, InvHolds, PTL DEF Spec

-----------------------------------------------------------------------------
(* Order.  What the histories say as sequences, beyond what they say as    *)
(* sets: an acceptor's log only takes what the entries before it allow     *)
(* (rec_alog_ok), what a proposer has gathered it has received, and while  *)
(* it sends its Accepts the commitment they rest on is its newest.         *)

Follows(e, f) ==
  /\ e.kind = "LPromise" /\ f.kind = "LPromise" => Blt(e.bal, f.bal)
  /\ e.kind = "LPromise" /\ f.kind = "LAccept"  => Ble(e.bal, f.bal)
  /\ e.kind = "LAccept"  /\ f.kind = "LPromise" => f.had /\ Ble(e.bal, f.abal)

IsStrict(e) == e.kind = "LPromise" /\ e.had => Blt(e.abal, e.bal)

LogInOrder(s) == \A j \in 1 .. Len(s) : \A i \in 1 .. j - 1 : Follows(s[i], s[j])

LogsInOrder ==
  \A a \in Acceptors : LogInOrder(alog[a]) /\ \A e \in Log(a) : IsStrict(e)

GatheredRead ==
  \A p \in Proposers : \A g \in got[p] : \E i \in 1 .. n1b[p][g.src] :
    /\ i <= Len(p1b[p][g.src])
    /\ p1b[p][g.src][i] = Promise(bal[p], g.had, g.abal, g.aval)

CommittedLast ==
  \A p \in Proposers : pc[p] = "accept" =>
    pdec[p] # <<>> /\ pdec[p][Len(pdec[p])] = Proposal(bal[p], val[p])

Order == LogsInOrder /\ GatheredRead /\ CommittedLast

LEMMA OrderInit == Init => Order
BY DEF Init, ChanInit, PropInit, Link, Order, LogsInOrder, LogInOrder, GatheredRead,
   CommittedLast, Log, Range

(* The two comparisons of the acceptor let exactly such an entry in.       *)
LEMMA PromiseAllowed ==
  ASSUME IInv, NEW a \in Acceptors, NEW b \in Ballots, WillPromise(a, b)
  PROVE  LET e == LPromise(b, hasAcc[a], accBal[a], accVal[a])
         IN  /\ IsStrict(e) /\ \A f \in Log(a) : Follows(f, e)
             /\ e.had => LAccept(e.abal, e.aval) \in Log(a)
<1> DEFINE e == LPromise(b, hasAcc[a], accBal[a], accVal[a])
<1>1. /\ e.kind = "LPromise" /\ e.bal = b /\ e.had = hasAcc[a]
      /\ e.abal = accBal[a] /\ e.aval = accVal[a]
  BY DEF LPromise
<1> HIDE DEF e
<1>2. maxBal[a] \in Ballots /\ accBal[a] \in Ballots /\ Blt(maxBal[a], b)
  BY DEF IInv, TypeOK, WillPromise
<1>3. IsStrict(e)
  BY <1>1, <1>2, BltOrder DEF IsStrict, IInv, AcceptorInv, Ble
<1>4. ASSUME NEW f \in Log(a) PROVE Follows(f, e)
  <2>1. f \in LogEntries /\ f.bal \in Ballots BY LogTyped DEF IInv
  <2>2. f.kind = "LPromise" => Blt(f.bal, b)
    BY <1>2, <2>1, BltOrder DEF IInv, AcceptorInv, Log, Ble
  <2>3. f.kind = "LAccept" => hasAcc[a] /\ Ble(f.bal, accBal[a])
    BY DEF IInv, AcceptorInv, Log
  <2> QED BY <1>1, <2>2, <2>3 DEF Follows
<1>5. e.had => LAccept(e.abal, e.aval) \in Log(a)
  BY <1>1 DEF IInv, AcceptorInv, Log
<1> QED BY <1>3, <1>4, <1>5 DEF e

LEMMA AcceptAllowed ==
  ASSUME IInv, NEW a \in Acceptors, NEW b \in Ballots, NEW v, WillAccept(a, b)
  PROVE  LET e == LAccept(b, v)
         IN  IsStrict(e) /\ \A f \in Log(a) : Follows(f, e)
<1> DEFINE e == LAccept(b, v)
<1>1. e.kind = "LAccept" /\ e.bal = b BY DEF LAccept
<1> HIDE DEF e
<1>2. maxBal[a] \in Ballots /\ Ble(maxBal[a], b)
  BY BltOrder DEF IInv, TypeOK, WillAccept, Ble
<1>3. ASSUME NEW f \in Log(a) PROVE Follows(f, e)
  <2>1. f.bal \in Ballots BY LogTyped DEF IInv
  <2>2. f.kind = "LPromise" => Ble(f.bal, maxBal[a])
    BY DEF IInv, AcceptorInv, Log
  <2> QED BY <1>1, <1>2, <2>1, <2>2, BltOrder DEF Follows, Ble
<1> QED BY <1>1, <1>3 DEF IsStrict, e

LEMMA InOrderAppend ==
  ASSUME NEW S, NEW s \in Seq(S), NEW e \in S, LogInOrder(s),
         \A f \in Range(s) : Follows(f, e)
  PROVE  LogInOrder(Append(s, e))
<1> SUFFICES ASSUME NEW j \in 1 .. Len(Append(s, e)), NEW i \in 1 .. j - 1
             PROVE  Follows(Append(s, e)[i], Append(s, e)[j])
  BY DEF LogInOrder
<1>1. i \in 1 .. Len(s) /\ Append(s, e)[i] = s[i] /\ s[i] \in Range(s) BY DEF Range
<1>2. CASE j = Len(s) + 1 BY <1>1, <1>2
<1>3. CASE j # Len(s) + 1
  <2>1. j \in 1 .. Len(s) /\ Append(s, e)[j] = s[j] BY <1>3
  <2> QED BY <1>1, <2>1 DEF LogInOrder
<1> QED BY <1>2, <1>3

LEMMA LogsInOrderStep == IInv /\ LogsInOrder /\ [Next]_vars => LogsInOrder'
<1> SUFFICES ASSUME IInv, LogsInOrder, [Next]_vars PROVE LogsInOrder'
  OBVIOUS
<1>0. alog \in [Acceptors -> Seq(LogEntries)] BY DEF IInv, TypeOK
<1>1. ASSUME NEW a \in Acceptors, NEW e \in LogEntries,
             alog' = [alog EXCEPT ![a] = Append(@, e)],
             IsStrict(e), \A f \in Log(a) : Follows(f, e)
      PROVE  LogsInOrder'
  <2> SUFFICES ASSUME NEW x \in Acceptors
               PROVE  LogInOrder(alog'[x]) /\ \A f \in Range(alog'[x]) : IsStrict(f)
    BY DEF LogsInOrder, Log
  <2>1. alog[x] \in Seq(LogEntries) BY <1>0
  <2>2. LogInOrder(alog[x]) /\ \A f \in Range(alog[x]) : IsStrict(f)
    BY DEF LogsInOrder, Log
  <2>3. CASE x # a BY <1>0, <1>1, <2>2, <2>3
  <2>4. CASE x = a
    <3>1. alog'[x] = Append(alog[x], e) BY <1>0, <1>1, <2>4
    <3>2. LogInOrder(Append(alog[x], e))
      BY <1>1, <2>1, <2>2, <2>4, InOrderAppend DEF Log
    <3>3. Range(Append(alog[x], e)) = Range(alog[x]) \cup {e} BY <2>1, RangeAppend
    <3> QED BY <1>1, <2>2, <3>1, <3>2, <3>3
  <2> QED BY <2>3, <2>4
<1>2. ASSUME alog' = alog PROVE LogsInOrder'
  BY <1>2 DEF LogsInOrder, Log
<1>3. ASSUME NEW a \in Acceptors, NEW p \in Proposers, OnPrepare(a, p) PROVE LogsInOrder'
  <2>1. CASE alog' = alog BY <1>2, <2>1
  <2>2. ASSUME NEW b \in Ballots, Blt(maxBal[a], b), NEW e,
               e = LPromise(b, hasAcc[a], accBal[a], accVal[a]),
               alog' = [alog EXCEPT ![a] = Append(@, e)]
        PROVE  LogsInOrder'
    <3>1. e \in LogEntries BY <2>2 DEF IInv, TypeOK, LPromise, LogEntries
    <3>2. IsStrict(e) /\ \A f \in Log(a) : Follows(f, e)
      BY <2>2, PromiseAllowed DEF WillPromise
    <3> QED BY <1>1, <2>2, <3>1, <3>2
  <2> QED BY <1>3, <2>1, <2>2, OnPrepareEffect DEF IInv
<1>4. ASSUME NEW a \in Acceptors, NEW p \in Proposers, OnAccept(a, p) PROVE LogsInOrder'
  <2>1. CASE alog' = alog BY <1>2, <2>1
  <2>2. ASSUME NEW m \in Proposals, ~Blt(m.bal, maxBal[a]), NEW e,
               e = LAccept(m.bal, m.val),
               alog' = [alog EXCEPT ![a] = Append(@, e)]
        PROVE  LogsInOrder'
    <3>1. m.bal \in Ballots /\ e \in LogEntries BY <2>2 DEF Proposals, LAccept, LogEntries
    <3>2. IsStrict(e) /\ \A f \in Log(a) : Follows(f, e)
      BY <2>2, <3>1, AcceptAllowed DEF WillAccept
    <3> QED BY <1>1, <2>2, <3>1, <3>2
  <2> QED BY <1>4, <2>1, <2>2, OnAcceptEffect DEF IInv
<1>5. CASE alog' = alog BY <1>2, <1>5
<1> QED BY <1>3, <1>4, <1>5
        DEF Next, AcceptorStep, ProposerStep, SendPrepare, Collect, Commit, SendAccept, vars

LEMMA PromisesKept ==
  ASSUME TypeOK, [Next]_vars, NEW q \in Proposers, NEW x \in Acceptors
  PROVE  /\ n1b'[q][x] >= n1b[q][x]
         /\ \A i \in 1 .. Len(p1b[q][x]) :
              i <= Len(p1b'[q][x]) /\ p1b'[q][x][i] = p1b[q][x][i]
<1>1. /\ p1b[q][x] \in Seq(Promises) /\ n1b[q][x] \in Nat
      /\ p1b \in [Proposers -> [Acceptors -> Seq(Promises)]]
      /\ n1b \in [Proposers -> [Acceptors -> Nat]]
  BY DEF TypeOK
<1>2. CASE p1b' = p1b
  <2>1. \/ n1b' = n1b
        \/ \E p \in Proposers, a \in Acceptors : n1b' = [n1b EXCEPT ![p][a] = @ + 1]
    BY DEF Next, AcceptorStep, ProposerStep, OnPrepare, OnAccept, SendPrepare, Collect,
       Commit, SendAccept, vars
  <2>2. CASE n1b' = n1b BY <1>1, <1>2, <2>2
  <2>3. ASSUME NEW p \in Proposers, NEW a \in Acceptors, n1b' = [n1b EXCEPT ![p][a] = @ + 1]
        PROVE  n1b'[q][x] >= n1b[q][x]
    <3>1. n1b'[q][x] = n1b[q][x] \/ n1b'[q][x] = n1b[q][x] + 1 BY <1>1, <2>3
    <3> QED BY <1>1, <3>1
  <2>4. n1b'[q][x] >= n1b[q][x] BY <2>1, <2>2, <2>3
  <2>5. \A i \in 1 .. Len(p1b[q][x]) : i <= Len(p1b[q][x]) BY <1>1
  <2> QED BY <1>2, <2>4, <2>5
<1>3. CASE p1b' # p1b
  <2>1. PICK a \in Acceptors, p \in Proposers : OnPrepare(a, p)
    BY <1>3 DEF Next, AcceptorStep, ProposerStep, OnAccept, SendPrepare, Collect,
       Commit, SendAccept, vars
  <2>2. n1b' = n1b BY <2>1 DEF OnPrepare
  <2>3. \E m : p1b' = [p1b EXCEPT ![p][a] = Append(@, m)]
    BY <1>3, <2>1 DEF OnPrepare
  <2>4. PICK m : p1b' = [p1b EXCEPT ![p][a] = Append(@, m)] BY <2>3
  <2>5. p1b'[q][x] = p1b[q][x] \/ p1b'[q][x] = Append(p1b[q][x], m)
    BY <1>1, <2>4
  <2>6. /\ n1b'[q][x] >= n1b[q][x]
        /\ \A i \in 1 .. Len(p1b[q][x]) :
             i <= Len(Append(p1b[q][x], m)) /\ Append(p1b[q][x], m)[i] = p1b[q][x][i]
    <3>1. p1b[q][x] \in Seq(Promises \cup {m}) BY <1>1
    <3> QED BY <1>1, <2>2, <3>1
  <2>7. \A i \in 1 .. Len(p1b[q][x]) : i <= Len(p1b[q][x]) BY <1>1
  <2> QED BY <2>5, <2>6, <2>7
<1> QED BY <1>2, <1>3

LEMMA GatheredReadStep == IInv /\ GatheredRead /\ [Next]_vars => GatheredRead'
<1> SUFFICES ASSUME IInv, GatheredRead, [Next]_vars, NEW q \in Proposers, NEW g \in got'[q]
             PROVE  \E i \in 1 .. n1b'[q][g.src] :
                      /\ i <= Len(p1b'[q][g.src])
                      /\ p1b'[q][g.src][i] = Promise(bal'[q], g.had, g.abal, g.aval)
  BY DEF GatheredRead
<1>1. /\ TypeOK /\ n1b \in [Proposers -> [Acceptors -> Nat]]
      /\ p1b \in [Proposers -> [Acceptors -> Seq(Promises)]]
      /\ got \in [Proposers -> SUBSET Reports]
  BY DEF IInv, TypeOK
<1>2. ASSUME g \in got[q], bal'[q] = bal[q]
      PROVE  \E i \in 1 .. n1b'[q][g.src] :
               /\ i <= Len(p1b'[q][g.src])
               /\ p1b'[q][g.src][i] = Promise(bal'[q], g.had, g.abal, g.aval)
  <2>1. PICK i \in 1 .. n1b[q][g.src] :
          /\ i <= Len(p1b[q][g.src])
          /\ p1b[q][g.src][i] = Promise(bal[q], g.had, g.abal, g.aval)
    BY <1>2 DEF GatheredRead
  <2>2. g.src \in Acceptors BY <1>1, <1>2 DEF Reports
  <2>3. p1b'[q][g.src] = p1b'[q][g.src] /\ p1b[q][g.src] \in Seq(Promises)
        /\ n1b[q][g.src] \in Nat
    BY <1>1, <2>2
  <2>4. i \in 1 .. Len(p1b[q][g.src]) BY <2>1, <2>3
  <2>5. n1b'[q][g.src] >= n1b[q][g.src] /\ i <= Len(p1b'[q][g.src])
        /\ p1b'[q][g.src][i] = p1b[q][g.src][i]
    BY <1>1, <2>2, <2>4, PromisesKept
  <2>6. n1b'[q][g.src] \in Nat
    <3>1. TypeOK' BY StepType DEF IInv
    <3> QED BY <2>2, <3>1 DEF TypeOK
  <2> QED BY <1>2, <2>1, <2>3, <2>5, <2>6
<1>3. CASE got'[q] = got[q] /\ bal'[q] = bal[q] BY <1>2, <1>3
<1>4. CASE got'[q] = {} BY <1>4
<1>5. ASSUME NEW a \in Acceptors, Collect(q, a)
      PROVE  \E i \in 1 .. n1b'[q][g.src] :
               /\ i <= Len(p1b'[q][g.src])
               /\ p1b'[q][g.src][i] = Promise(bal'[q], g.had, g.abal, g.aval)
  <2>1. p1b' = p1b /\ bal' = bal /\ n1b' = [n1b EXCEPT ![q][a] = @ + 1]
    BY <1>5 DEF Collect
  <2>2. PICK m : m = Oldest(p1b, n1b, q, a) OBVIOUS
  <2>3. CASE g \in got[q] BY <1>2, <2>1, <2>3
  <2>4. CASE g \notin got[q]
    <3>1. /\ m.bal = bal[q]
          /\ g = [src |-> a, had |-> m.had, abal |-> m.abal, aval |-> m.aval]
      BY <1>1, <1>5, <2>2, <2>4 DEF Collect, Counts
    <3>2. m = p1b[q][a][n1b[q][a] + 1] /\ n1b[q][a] + 1 <= Len(p1b[q][a])
      BY <1>1, <1>5, <2>2 DEF Collect, Pending, Oldest
    <3>3. m \in Promises /\ m \in [bal : Ballots, had : BOOLEAN, abal : Ballots, aval : VALS]
      BY <1>1, <1>5, <2>2, OldestType DEF Collect, Promises
    <3>4. m = Promise(bal[q], g.had, g.abal, g.aval)
      BY <3>1, <3>3 DEF Promise
    <3>5. n1b'[q][a] = n1b[q][a] + 1 /\ n1b[q][a] \in Nat /\ g.src = a
      BY <1>1, <2>1, <3>1
    <3>6. n1b[q][a] + 1 \in 1 .. n1b'[q][g.src] BY <3>5
    <3>7. /\ n1b[q][a] + 1 <= Len(p1b'[q][g.src])
          /\ p1b'[q][g.src][n1b[q][a] + 1] = Promise(bal'[q], g.had, g.abal, g.aval)
      BY <2>1, <3>2, <3>4, <3>5
    <3> QED BY <3>6, <3>7
  <2> QED BY <2>3, <2>4
<1>6. ASSUME NEW p \in Proposers, SendAccept(p)
      PROVE  got'[q] = {} \/ (got'[q] = got[q] /\ bal'[q] = bal[q])
  <2>1. bal \in [Proposers -> Ballots] BY DEF IInv, TypeOK
  <2>2. val[p] \in Values BY <1>6 DEF IInv, ValueHeld, SendAccept
  <2> QED BY <1>1, <1>6, <2>1, <2>2, SendAcceptEffect
<1>7. ASSUME NEW p \in Proposers, NEW a \in Acceptors, Collect(p, a), p # q
      PROVE  got'[q] = got[q] /\ bal'[q] = bal[q]
  BY <1>1, <1>7 DEF Collect
<1>8. CASE UNCHANGED <<got, bal>> BY <1>3, <1>8
<1> QED BY <1>3, <1>4, <1>5, <1>6, <1>7, <1>8
        DEF Next, AcceptorStep, ProposerStep, OnPrepare, OnAccept, SendPrepare, Commit, vars, propVars

LEMMA CommittedLastStep == IInv /\ CommittedLast /\ [Next]_vars => CommittedLast'
<1> SUFFICES ASSUME IInv, CommittedLast, [Next]_vars, NEW q \in Proposers, pc'[q] = "accept"
             PROVE  /\ pdec'[q] # <<>>
                    /\ pdec'[q][Len(pdec'[q])] = Proposal(bal'[q], val'[q])
  BY DEF CommittedLast
<1>1. /\ pc \in [Proposers -> {"prepare", "gather", "accept"}]
      /\ pdec \in [Proposers -> Seq(Proposals)]
      /\ bal \in [Proposers -> Ballots] /\ val \in [Proposers -> VALS]
  BY DEF IInv, TypeOK
<1>2. ASSUME UNCHANGED <<pdec, bal, val>>, pc[q] = "accept"
      PROVE  pdec'[q] # <<>> /\ pdec'[q][Len(pdec'[q])] = Proposal(bal'[q], val'[q])
  BY <1>2 DEF CommittedLast
<1>3. ASSUME NEW p \in Proposers, Commit(p)
      PROVE  pdec'[q] # <<>> /\ pdec'[q][Len(pdec'[q])] = Proposal(bal'[q], val'[q])
  <2>1. PICK v \in Values : /\ pdec' = [pdec EXCEPT ![p] = Append(@, Proposal(bal[p], v))]
                            /\ val' = [val EXCEPT ![p] = v]
    BY <1>3 DEF Commit
  <2>2. bal' = bal /\ pc' = [pc EXCEPT ![p] = "accept"] BY <1>3 DEF Commit
  <2>3. CASE p = q
    <3>1. pdec'[q] = Append(pdec[q], Proposal(bal[q], v)) /\ val'[q] = v
      BY <1>1, <2>1, <2>3
    <3>2. PICK m : m = Proposal(bal[q], v) OBVIOUS
    <3>3. m \in Proposals BY <1>1, <3>2 DEF Proposal, Proposals
    <3>4. Append(pdec[q], m) # <<>> /\ Append(pdec[q], m)[Len(Append(pdec[q], m))] = m
      <4>1. pdec[q] \in Seq(Proposals) BY <1>1
      <4>2. Len(Append(pdec[q], m)) = Len(pdec[q]) + 1 BY <3>3, <4>1
      <4> QED BY <3>3, <4>1, <4>2
    <3> QED BY <2>2, <3>1, <3>2, <3>4
  <2>4. CASE p # q
    <3>1. pdec'[q] = pdec[q] /\ val'[q] = val[q] /\ bal'[q] = bal[q] /\ pc[q] = "accept"
      BY <1>1, <2>1, <2>2, <2>4
    <3> QED BY <3>1 DEF CommittedLast
  <2> QED BY <2>3, <2>4
<1>4. ASSUME NEW p \in Proposers, SendAccept(p)
      PROVE  pdec'[q] # <<>> /\ pdec'[q][Len(pdec'[q])] = Proposal(bal'[q], val'[q])
  <2>1. val[p] \in Values BY <1>4 DEF IInv, ValueHeld, SendAccept
  <2>2. /\ pdec' = pdec
        /\ \/ UNCHANGED <<pc, bal, got, val>>
           \/ /\ pc'  = [pc EXCEPT ![p] = "prepare"]
              /\ bal' = [bal EXCEPT ![p] = [round |-> bal[p].round + 1, prop |-> bal[p].prop]]
              /\ val' = [val EXCEPT ![p] = NoVal]
    BY <1>4, <2>1, SendAcceptEffect DEF IInv
  <2>3. pc[q] = "accept" /\ bal'[q] = bal[q] /\ val'[q] = val[q] BY <1>1, <2>2
  <2> QED BY <2>2, <2>3 DEF CommittedLast
<1>5. ASSUME NEW p \in Proposers, SendPrepare(p)
      PROVE  UNCHANGED <<pdec, bal, val>> /\ pc[q] = "accept"
  BY <1>1, <1>5 DEF SendPrepare
<1>6. CASE UNCHANGED <<pdec, bal, val, pc>> BY <1>2, <1>6
<1> QED BY <1>2, <1>3, <1>4, <1>5, <1>6
        DEF Next, AcceptorStep, ProposerStep, OnPrepare, OnAccept, Collect, vars, propVars

LEMMA OrderStep == IInv /\ Order /\ [Next]_vars => Order'
BY LogsInOrderStep, GatheredReadStep, CommittedLastStep DEF Order

-----------------------------------------------------------------------------
(* The fold at the end of gather_quorum.  A majority of promises always    *)
(* yields a value to commit: the reports gathered so far have a highest    *)
(* one after every promise, and it reports a value somebody committed.     *)

Reported(p) == {g \in got[p] : g.had}

HighestKnown ==
  \A p \in Proposers :
    /\ Reported(p) = {} \/ \E g \in Reported(p) : \A h \in Reported(p) : Ble(h.abal, g.abal)
    /\ Cardinality(got[p]) \in 0 .. Need
    /\ pc[p] # "prepare" => bal[p].round <= LastRound[p]

MayCommit(p) == \E v \in Values : MayPropose(got[p], Want(p, bal[p].round), v)

GatheredMayCommit ==
  \A p \in Proposers : pc[p] = "gather" /\ Cardinality(got[p]) = Need => MayCommit(p)

LEMMA NeedIsNat == Need \in Nat /\ Need >= 1
BY NAccAssumption DEF Need

LEMMA HighestInit == Init => HighestKnown
<1> SUFFICES ASSUME Init PROVE HighestKnown OBVIOUS
<1>1. \A p \in Proposers : got[p] = {} /\ pc[p] = "prepare" BY DEF Init, PropInit
<1>2. Cardinality({}) = 0 BY FS_EmptySet
<1> QED BY <1>1, <1>2, NeedIsNat DEF HighestKnown, Reported

LEMMA CollectHighest ==
  ASSUME IInv, HighestKnown, NEW p \in Proposers, NEW a \in Acceptors, Collect(p, a)
  PROVE  HighestKnown'
<1>1. /\ UNCHANGED <<pc, bal>> /\ Cardinality(got[p]) < Need
      /\ got \in [Proposers -> SUBSET Reports]
  BY DEF Collect, IInv, TypeOK
<1>2. \/ got' = got
      \/ \E g \in Reports : got' = [got EXCEPT ![p] = @ \cup {g}]
  <2>1. PICK m \in Promises : m = Oldest(p1b, n1b, p, a)
    BY OldestType DEF IInv, TypeOK, Collect
  <2>2. [src |-> a, had |-> m.had, abal |-> m.abal, aval |-> m.aval] \in Reports
    BY DEF Promises, Reports
  <2> QED BY <2>1, <2>2 DEF Collect
<1>3. CASE got' = got BY <1>1, <1>3 DEF HighestKnown, Reported
<1>4. ASSUME NEW g \in Reports, got' = [got EXCEPT ![p] = @ \cup {g}] PROVE HighestKnown'
  <2>1. got'[p] = got[p] \cup {g} /\ \A q \in Proposers : q # p => got'[q] = got[q]
    BY <1>1, <1>4
  <2>2. Cardinality(got'[p]) \in 0 .. Need
    <3>1. IsFiniteSet(got[p]) BY DEF IInv, GatheredPromises
    <3>2. Cardinality(got'[p]) \in {Cardinality(got[p]), Cardinality(got[p]) + 1}
      BY <2>1, <3>1, FS_AddElement
    <3>3. Cardinality(got[p]) \in Nat BY <3>1, FS_CardinalityType
    <3> QED BY <1>1, <3>2, <3>3, NeedIsNat
  <2>3. \/ Reported(p)' = {}
        \/ \E h \in Reported(p)' : \A k \in Reported(p)' : Ble(k.abal, h.abal)
    <3> DEFINE new == Reported(p) \cup {g}
    <3>1. Reported(p)' = IF g.had THEN new ELSE Reported(p) BY <2>1 DEF Reported
    <3>2. \/ Reported(p) = {}
          \/ \E h \in Reported(p) : \A k \in Reported(p) : Ble(k.abal, h.abal)
      BY DEF HighestKnown
    <3>3. \A h \in Reported(p) \cup {g} : h.abal \in Ballots BY <1>1 DEF Reported, Reports
    <3>4. CASE Reported(p) = {}
      <4>1. Ble(g.abal, g.abal) BY DEF Ble
      <4> QED BY <3>1, <3>4, <4>1
    <3>5. ASSUME NEW h \in Reported(p), \A k \in Reported(p) : Ble(k.abal, h.abal)
          PROVE  \E t \in new : \A k \in new : Ble(k.abal, t.abal)
      <4>1. CASE Ble(g.abal, h.abal) BY <3>5, <4>1
      <4>2. CASE ~Ble(g.abal, h.abal)
        <5>1. Blt(h.abal, g.abal) BY <3>3, <4>2, BltOrder DEF Ble
        <5>2. \A k \in Reported(p) : Ble(k.abal, g.abal)
          BY <3>3, <3>5, <5>1, BltOrder DEF Ble
        <5>3. Ble(g.abal, g.abal) BY DEF Ble
        <5> QED BY <5>2, <5>3
      <4> QED BY <4>1, <4>2
    <3> HIDE DEF new
    <3> QED BY <3>1, <3>2, <3>4, <3>5
  <2>4. ASSUME NEW q \in Proposers, q # p
        PROVE  Reported(q)' = Reported(q) /\ got'[q] = got[q]
    BY <2>1, <2>4 DEF Reported
  <2>5. ASSUME NEW q \in Proposers
        PROVE  /\ \/ Reported(q)' = {}
                  \/ \E h \in Reported(q)' : \A k \in Reported(q)' : Ble(k.abal, h.abal)
               /\ Cardinality(got'[q]) \in 0 .. Need
    <3>1. CASE q = p BY <2>2, <2>3, <3>1
    <3>2. CASE q # p BY <2>4, <3>2 DEF HighestKnown
    <3> QED BY <3>1, <3>2
  <2> QED BY <1>1, <2>5 DEF HighestKnown
<1> QED BY <1>2, <1>3, <1>4

LEMMA HighestStep == IInv /\ HighestKnown /\ [Next]_vars => HighestKnown'
<1> SUFFICES ASSUME IInv, HighestKnown, [Next]_vars PROVE HighestKnown'
  OBVIOUS
<1>1. /\ got \in [Proposers -> SUBSET Reports] /\ bal \in [Proposers -> Ballots]
      /\ pc \in [Proposers -> {"prepare", "gather", "accept"}]
  BY DEF IInv, TypeOK
<1>2. ASSUME UNCHANGED <<got, bal>>,
             \A p \in Proposers : pc'[p] # "prepare" => bal[p].round <= LastRound[p]
      PROVE  HighestKnown'
  <2>1. \A p \in Proposers : Reported(p)' = Reported(p) BY <1>2 DEF Reported
  <2> QED BY <1>2, <2>1 DEF HighestKnown
<1>3. CASE UNCHANGED <<got, bal, pc>> BY <1>2, <1>3 DEF HighestKnown
<1>4. ASSUME NEW p \in Proposers, SendPrepare(p) PROVE HighestKnown'
  <2>1. UNCHANGED <<got, bal>> /\ bal[p].round <= LastRound[p] BY <1>4 DEF SendPrepare
  <2>2. \A q \in Proposers : q # p => pc'[q] = pc[q] BY <1>1, <1>4 DEF SendPrepare
  <2> QED BY <1>2, <2>1, <2>2 DEF HighestKnown
<1>5. ASSUME NEW p \in Proposers, Commit(p) PROVE HighestKnown'
  <2>1. UNCHANGED <<got, bal>> /\ pc[p] = "gather" BY <1>5 DEF Commit
  <2>2. \A q \in Proposers : q # p => pc'[q] = pc[q] BY <1>1, <1>5 DEF Commit
  <2> QED BY <1>2, <2>1, <2>2 DEF HighestKnown
<1>6. ASSUME NEW p \in Proposers, SendAccept(p) PROVE HighestKnown'
  <2>1. CASE UNCHANGED <<got, bal, pc>> BY <1>3, <2>1
  <2>2. CASE ~UNCHANGED <<got, bal, pc>>
    <3>1. /\ pc' = [pc EXCEPT ![p] = "prepare"] /\ got' = [got EXCEPT ![p] = {}]
          /\ bal' = [bal EXCEPT ![p].round = @ + 1]
      BY <1>6, <2>2 DEF SendAccept
    <3>2. ASSUME NEW q \in Proposers, q # p
          PROVE  /\ Reported(q)' = Reported(q) /\ got'[q] = got[q]
                 /\ pc'[q] = pc[q] /\ bal'[q] = bal[q]
      BY <1>1, <3>1, <3>2 DEF Reported
    <3>3. got'[p] = {} /\ Reported(p)' = {} /\ pc'[p] = "prepare" BY <1>1, <3>1 DEF Reported
    <3>4. Cardinality({}) = 0 BY FS_EmptySet
    <3>5. ASSUME NEW q \in Proposers
          PROVE  /\ \/ Reported(q)' = {}
                    \/ \E g \in Reported(q)' : \A h \in Reported(q)' : Ble(h.abal, g.abal)
                 /\ Cardinality(got'[q]) \in 0 .. Need
                 /\ pc'[q] # "prepare" => bal'[q].round <= LastRound[q]
      <4>1. CASE q = p BY <3>3, <3>4, <4>1, NeedIsNat
      <4>2. CASE q # p BY <3>2, <4>2 DEF HighestKnown
      <4> QED BY <4>1, <4>2
    <3> QED BY <3>5 DEF HighestKnown
  <2> QED BY <2>1, <2>2
<1>7. ASSUME NEW p \in Proposers, ProposerStep(p) PROVE HighestKnown'
  BY <1>4, <1>5, <1>6, <1>7, CollectHighest DEF ProposerStep
<1>8. ASSUME NEW a \in Acceptors, AcceptorStep(a) PROVE HighestKnown'
  BY <1>3, <1>8 DEF AcceptorStep, OnPrepare, OnAccept, propVars
<1> QED BY <1>3, <1>7, <1>8 DEF Next, vars

LEMMA HighestCommits == IInv /\ HighestKnown => GatheredMayCommit
<1> SUFFICES ASSUME IInv, HighestKnown, NEW p \in Proposers, pc[p] = "gather"
             PROVE  MayCommit(p)
  BY DEF GatheredMayCommit
<1>1. CASE Reported(p) = {}
  <2>1. bal[p].round \in Nat /\ bal[p].round <= LastRound[p] /\ LastRound[p] \in Nat
    BY LastRoundAssumption DEF IInv, TypeOK, Ballots, HighestKnown
  <2>2. Want(p, bal[p].round) \in Values BY <2>1, WantAssumption
  <2> QED BY <1>1, <2>2 DEF MayCommit, MayPropose, Reported
<1>2. ASSUME NEW g \in Reported(p), \A h \in Reported(p) : Ble(h.abal, g.abal)
      PROVE  MayCommit(p)
  <2>1. g \in got[p] /\ g.had BY DEF Reported
  <2>2. g.src \in Acceptors /\ LAccept(g.abal, g.aval) \in Log(g.src)
    BY <2>1, GatheredMeaning
  <2>3. PICK e : e = LAccept(g.abal, g.aval) OBVIOUS
  <2>4. e.kind = "LAccept" /\ e.bal = g.abal /\ e.val = g.aval BY <2>3, VoteFields
  <2>5. e.bal.prop \in Proposers /\ Proposal(e.bal, e.val) \in Decided(e.bal.prop)
    BY <2>2, <2>3, <2>4 DEF IInv, VotesDecided
  <2>6. Proposal(e.bal, e.val).val \in Values BY <2>5, DecidedTyped DEF IInv
  <2>7. g.aval \in Values BY <2>4, <2>6 DEF Proposal
  <2> QED BY <1>2, <2>1, <2>7 DEF MayCommit, MayPropose, Reported
<1> QED BY <1>1, <1>2 DEF HighestKnown

(* A proposer that has its majority of promises is never without a value   *)
(* to commit, whatever they report: gather_quorum returns one (paxos.rs's  *)
(* fold), and collect stops at the majority.                               *)
THEOREM GatheredMayCommitHolds == Spec => []GatheredMayCommit
<1>1. Init => IInv /\ HighestKnown BY InitInv, HighestInit
<1>2. (IInv /\ HighestKnown) /\ [Next]_vars => (IInv /\ HighestKnown)' BY StepInv, HighestStep
<1>3. IInv /\ HighestKnown => GatheredMayCommit BY HighestCommits
<1> QED BY <1>1, <1>2, <1>3, PTL DEF Spec

-----------------------------------------------------------------------------
(* Paxos as a whole.  The values chosen so far are the state of Consensus. *)

ChosenValues == {m.val : m \in {c \in Committed : Chosen(c)}}

Decision == INSTANCE Consensus WITH outcome <- ChosenValues

LEMMA CommittedTyped ==
  ASSUME TypeOK, NEW m \in Committed
  PROVE  /\ m \in Proposals
         /\ \E p \in Proposers : m \in Decided(p)
<1>1. PICK p \in Proposers : m \in Decided(p) BY DEF Committed, Decided
<1>2. pdec[p] \in Seq(Proposals) BY DEF TypeOK
<1> QED BY <1>1, <1>2 DEF Decided, Range

(* Logs and answers only grow.                                             *)
LEMMA AnswersKept ==
  ASSUME IInv, [Next]_vars
  PROVE  /\ \A p \in Proposers : Decided(p) \subseteq Decided(p)'
         /\ \A p \in Proposers, a \in Acceptors : Answered(p, a) \subseteq Answered(p, a)'
<1>0. TypeOK BY DEF IInv
<1>1. CASE UNCHANGED <<pdec, p2b>> BY <1>1 DEF Decided, Answered
<1>2. ASSUME NEW p \in Proposers, Commit(p)
      PROVE  /\ \A q \in Proposers : Decided(q) \subseteq Decided(q)'
             /\ p2b' = p2b
  BY <1>0, <1>2, CommitEffect DEF Commit
<1>3. ASSUME NEW a \in Acceptors, NEW p \in Proposers, OnAccept(a, p)
      PROVE  /\ pdec' = pdec
             /\ \A q \in Proposers, x \in Acceptors : Answered(q, x) \subseteq Answered(q, x)'
  <2>1. pdec' = pdec BY <1>3 DEF OnAccept
  <2>2. \/ UNCHANGED p2b
        \/ \A q \in Proposers, x \in Acceptors : Answered(q, x) \subseteq Answered(q, x)'
    BY <1>0, <1>3, OnAcceptEffect
  <2> QED BY <2>1, <2>2 DEF Answered
<1>4. CASE \/ \E a \in Acceptors, p \in Proposers : OnPrepare(a, p)
           \/ \E p \in Proposers : SendPrepare(p) \/ SendAccept(p)
           \/ \E p \in Proposers, a \in Acceptors : Collect(p, a)
           \/ UNCHANGED vars
  BY <1>1, <1>4 DEF OnPrepare, SendPrepare, SendAccept, Collect, vars
<1>5. (\E p \in Proposers : Commit(p)) =>
        /\ \A p \in Proposers : Decided(p) \subseteq Decided(p)'
        /\ \A p \in Proposers, a \in Acceptors : Answered(p, a) \subseteq Answered(p, a)'
  BY <1>2 DEF Answered
<1>6. (\E a \in Acceptors, p \in Proposers : OnAccept(a, p)) =>
        /\ \A p \in Proposers : Decided(p) \subseteq Decided(p)'
        /\ \A p \in Proposers, a \in Acceptors : Answered(p, a) \subseteq Answered(p, a)'
  BY <1>3 DEF Decided
<1> QED BY <1>4, <1>5, <1>6 DEF Next, AcceptorStep, ProposerStep

(* What is chosen stays chosen.                                            *)
LEMMA ChosenStays ==
  ASSUME IInv, IInv', [Next]_vars, NEW m \in Committed, Chosen(m)
  PROVE  m \in Committed' /\ Chosen(m)'
<1>1. PICK p \in Proposers : m \in Decided(p) BY CommittedTyped DEF IInv
<1>2. m \in Committed' BY <1>1, AnswersKept DEF Committed, Decided
<1>3. m.bal.prop = p BY <1>1 DEF IInv, BallotsOwned
<1> DEFINE before == {a \in Acceptors : Accepted(a, m)}
           after  == {a \in Acceptors : Accepted(a, m)'}
<1>4. before \subseteq after /\ after \subseteq Acceptors
  BY <1>3, AnswersKept DEF Accepted, Answered
<1>5. before \in Quorums BY DEF Chosen
<1>6. after = {a \in Acceptors : Accepted(a, m)}' OBVIOUS
<1> HIDE DEF before, after
<1>7. /\ IsFiniteSet(after) /\ IsFiniteSet(before)
      /\ Cardinality(before) <= Cardinality(after)
      /\ Cardinality(before) \in Nat /\ Cardinality(after) \in Nat
  BY <1>4, AcceptorsFinite, FS_Subset, FS_CardinalityType
<1>8. Cardinality(before) + Cardinality(before) > NAcc BY <1>5 DEF Quorums
<1>9. Cardinality(after) + Cardinality(after) > NAcc BY <1>7, <1>8, NAccAssumption
<1>10. after \in Quorums BY <1>4, <1>9 DEF Quorums
<1> QED BY <1>2, <1>6, <1>10 DEF Chosen

LEMMA ChosenTyped == IInv => Agreement /\ ChosenValues \subseteq Values
BY CommittedTyped, InvAgreement DEF IInv, ChosenValues, Proposals

LEMMA DecisionInit == Init => ChosenValues = {}
BY DEF Init, ChanInit, ChosenValues, Committed, Range

LEMMA DecisionStep ==
  IInv /\ IInv' /\ [Next]_vars => [\E v \in Values : Decision!Decide(v)]_ChosenValues
<1> SUFFICES ASSUME IInv, IInv', [Next]_vars, ChosenValues' # ChosenValues
             PROVE  \E v \in Values : Decision!Decide(v)
  OBVIOUS
<1>0. Agreement' /\ ChosenValues' \subseteq Values
  <2>1. (IInv => Agreement /\ ChosenValues \subseteq Values)' BY ChosenTyped, PTL
  <2> QED BY <2>1
<1>1. ChosenValues \subseteq ChosenValues' BY ChosenStays DEF ChosenValues
<1>2. \A v, w \in ChosenValues' : v = w
  BY <1>0 DEF ChosenValues, Agreement
<1>3. PICK v \in ChosenValues' : v \notin ChosenValues BY <1>1
<1>4. ChosenValues = {} /\ ChosenValues' = {v} BY <1>1, <1>2, <1>3
<1> QED BY <1>3, <1>4, <1>0 DEF Decision!Decide, Decision!Undecided

(* Paxos implements consensus: at most one value is ever chosen, and it is *)
(* never taken back, for any number of acceptors, proposers and rounds.    *)
THEOREM PaxosIsConsensus == Spec => Decision!Safe
<1>1. Init => Decision!Undecided BY DecisionInit DEF Decision!Undecided
<1> QED BY <1>1, InvHolds, DecisionStep, PTL DEF Spec, Decision!Safe
=============================================================================
