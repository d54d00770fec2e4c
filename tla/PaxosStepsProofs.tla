-------------------------- MODULE PaxosStepsProofs --------------------------
(***************************************************************************)
(* Handlers are atomic: the program of paxos.rs, one endpoint call at a    *)
(* time, implements Paxos, whatever the interleaving.  The refinement puts *)
(* a handler where its answer is sent; the invariant says that until then  *)
(* its comparison still holds and its log entry is still the last one.     *)
(* Then the program seen by the token machine: every step is one call, at  *)
(* which its gate holds and its witnesses are in hand, and record_inv and  *)
(* history_inv hold at every call.  Both come from what PaxosProofs proves *)
(* of the whole handlers, read through the refinement.                     *)
(* Last, the deployments, in which acceptors handle so many messages and   *)
(* no more: everything sent is handled, and what main returns is chosen.   *)
(***************************************************************************)
EXTENDS PaxosNet, PaxosSystem, PaxosProofs

n1aBar == Unread(n1a, {"logPromise", "promise"})
n2aBar == Unread(n2a, {"logAccept", "accepted"})

Answered1(a) == LPromise(InHand1(a), hasAcc[a], accBal[a], accVal[a])
Answered2(a) == LAccept(InHand2(a).bal, InHand2(a).val)

(* What a handler that has not answered yet may rely on.                   *)
Midway(a) ==
    /\ at[a] = "idle" => cur[a] = NoProp
    /\ at[a] # "idle" => cur[a] \in Proposers
    /\ at[a] \in {"logPromise", "promise"} =>
         /\ n1a[cur[a]][a] \in 1 .. Len(p1a[cur[a]][a])
         /\ WillPromise(a, InHand1(a))
    /\ at[a] \in {"logAccept", "accepted"} =>
         /\ n2a[cur[a]][a] \in 1 .. Len(p2a[cur[a]][a])
         /\ WillAccept(a, InHand2(a).bal)
    /\ at[a] = "promise"  => alog[a] # <<>> /\ alog[a][Len(alog[a])] = Answered1(a)
    /\ at[a] = "accepted" => alog[a] # <<>> /\ alog[a][Len(alog[a])] = Answered2(a)

HandType ==
    /\ at \in [Acceptors -> {"idle", "logPromise", "promise", "logAccept", "accepted"}]
    /\ cur \in [Acceptors -> Proposers \cup {NoProp}]

StepsInv == TypeOK /\ ValueHeld /\ HandType /\ \A a \in Acceptors : Midway(a)

LEMMA StepInitInv == StepInit => StepsInv
<1> SUFFICES ASSUME StepInit PROVE StepsInv
  OBVIOUS
<1>1. TypeOK /\ ValueHeld
  BY InitType, InitValueHeld DEF StepInit
<1>2. HandType
  BY DEF StepInit, HandType
<1>3. ASSUME NEW a \in Acceptors PROVE Midway(a)
  BY DEF StepInit, Midway
<1> QED
  BY <1>1, <1>2, <1>3 DEF StepsInv

-----------------------------------------------------------------------------
(* Proposers.  They add to what acceptors have not read and touch nothing  *)
(* else of theirs.                                                         *)

LEMMA LinkGrows ==
    ASSUME NEW S, NEW ch \in [Proposers -> [Acceptors -> Seq(S)]],
           NEW p \in Proposers, NEW a \in Acceptors, NEW m \in S,
           NEW q \in Proposers, NEW b \in Acceptors, NEW i \in 1 .. Len(ch[q][b])
    PROVE  LET new == [ch EXCEPT ![p][a] = Append(@, m)]
           IN i \in 1 .. Len(new[q][b]) /\ new[q][b][i] = ch[q][b][i]
  OBVIOUS

LEMMA ProposerEffect ==
    ASSUME TypeOK, ValueHeld, NEW p \in Proposers, ProposerStep(p)
    PROVE  /\ UNCHANGED <<n1a, n2a, alog, maxBal, hasAcc, accBal, accVal>>
           /\ \A q \in Proposers, b \in Acceptors : \A i \in 1 .. Len(p1a[q][b]) :
                i \in 1 .. Len(p1a'[q][b]) /\ p1a'[q][b][i] = p1a[q][b][i]
           /\ \A q \in Proposers, b \in Acceptors : \A i \in 1 .. Len(p2a[q][b]) :
                i \in 1 .. Len(p2a'[q][b]) /\ p2a'[q][b][i] = p2a[q][b][i]
<1>1. p1a \in [Proposers -> [Acceptors -> Seq(Ballots)]]
      /\ p2a \in [Proposers -> [Acceptors -> Seq(Proposals)]]
  BY DEF TypeOK
<1>2. CASE SendPrepare(p)
  <2>1. p1a' = [p1a EXCEPT ![p][idx[p]] = Append(@, bal[p])]
        /\ idx[p] \in Acceptors /\ bal[p] \in Ballots
    BY <1>2 DEF SendPrepare, TypeOK
  <2>2. p2a' = p2a /\ UNCHANGED <<n1a, n2a, alog, maxBal, hasAcc, accBal, accVal>>
    BY <1>2 DEF SendPrepare, accVars
  <2>3. \A q \in Proposers, b \in Acceptors : \A i \in 1 .. Len(p1a[q][b]) :
          i \in 1 .. Len(p1a'[q][b]) /\ p1a'[q][b][i] = p1a[q][b][i]
    BY <1>1, <2>1, LinkGrows
  <2> QED
    BY <2>2, <2>3
<1>3. CASE SendAccept(p)
  <2>1. p2a' = [p2a EXCEPT ![p][idx[p]] = Append(@, AcceptMsg(p))]
        /\ idx[p] \in Acceptors /\ AcceptMsg(p) \in Proposals
    BY <1>3 DEF SendAccept, TypeOK, ValueHeld, AcceptMsg, Proposal, Proposals
  <2>2. p1a' = p1a /\ UNCHANGED <<n1a, n2a, alog, maxBal, hasAcc, accBal, accVal>>
    BY <1>3 DEF SendAccept, accVars
  <2>3. \A q \in Proposers, b \in Acceptors : \A i \in 1 .. Len(p2a[q][b]) :
          i \in 1 .. Len(p2a'[q][b]) /\ p2a'[q][b][i] = p2a[q][b][i]
    BY <1>1, <2>1, LinkGrows
  <2> QED
    BY <2>2, <2>3
<1>4. CASE Commit(p) \/ \E a \in Acceptors : Collect(p, a)
  BY <1>4 DEF Commit, Collect, accVars
<1> QED
  BY <1>2, <1>3, <1>4 DEF ProposerStep

LEMMA ProposerInv ==
    ASSUME StepsInv, NEW p \in Proposers, ProposerCall(p)
    PROVE  StepsInv'
<1>1. ProposerStep(p) /\ at' = at /\ cur' = cur
  BY DEF ProposerCall
<1>2. TypeOK' /\ ValueHeld'
  BY <1>1, StepType DEF Next, StepsInv
<1>3. HandType'
  BY <1>1 DEF StepsInv, HandType
<1>4. ASSUME NEW a \in Acceptors PROVE Midway(a)'
  <2>1. Midway(a) /\ TypeOK /\ ValueHeld
    BY DEF StepsInv
  <2>2. UNCHANGED <<n1a, n2a, alog, maxBal, hasAcc, accBal, accVal>>
    BY <1>1, <2>1, ProposerEffect
  <2>3. at[a] \in {"logPromise", "promise"} =>
          /\ n1a[cur[a]][a] \in 1 .. Len(p1a'[cur[a]][a])
          /\ InHand1(a)' = InHand1(a)
    <3> SUFFICES ASSUME at[a] \in {"logPromise", "promise"}
                 PROVE  /\ n1a[cur[a]][a] \in 1 .. Len(p1a'[cur[a]][a])
                        /\ InHand1(a)' = InHand1(a)
      OBVIOUS
    <3>1. cur[a] \in Proposers /\ n1a[cur[a]][a] \in 1 .. Len(p1a[cur[a]][a])
      BY <2>1 DEF Midway
    <3> QED
      BY <3>1, <1>1, <2>1, <2>2, ProposerEffect DEF InHand1
  <2>4. at[a] \in {"logAccept", "accepted"} =>
          /\ n2a[cur[a]][a] \in 1 .. Len(p2a'[cur[a]][a])
          /\ InHand2(a)' = InHand2(a)
    <3> SUFFICES ASSUME at[a] \in {"logAccept", "accepted"}
                 PROVE  /\ n2a[cur[a]][a] \in 1 .. Len(p2a'[cur[a]][a])
                        /\ InHand2(a)' = InHand2(a)
      OBVIOUS
    <3>1. cur[a] \in Proposers /\ n2a[cur[a]][a] \in 1 .. Len(p2a[cur[a]][a])
      BY <2>1 DEF Midway
    <3> QED
      BY <3>1, <1>1, <2>1, <2>2, ProposerEffect DEF InHand2
  <2> QED
    BY <1>1, <2>1, <2>2, <2>3, <2>4 DEF Midway, WillPromise, WillAccept, Answered1, Answered2
<1> QED
  BY <1>2, <1>3, <1>4 DEF StepsInv

-----------------------------------------------------------------------------
(* Acceptors.  A handler only changes its own acceptor's state, so the     *)
(* others' handlers stand where they stood.                                *)

LEMMA OtherHandlers ==
    ASSUME HandType, NEW a \in Acceptors, NEW p, NEW where, Hold(a, p, where),
           NEW b \in Acceptors, b # a
    PROVE  at'[b] = at[b] /\ cur'[b] = cur[b]
  BY DEF HandType, Hold

LEMMA OwnHandler ==
    ASSUME HandType, NEW a \in Acceptors, NEW p, NEW where, Hold(a, p, where)
    PROVE  at'[a] = where /\ cur'[a] = p
  BY DEF HandType, Hold

LEMMA HandTyped ==
    ASSUME HandType, NEW a \in Acceptors, NEW p \in Proposers \cup {NoProp},
           NEW where \in {"idle", "logPromise", "promise", "logAccept", "accepted"},
           Hold(a, p, where)
    PROVE  HandType'
  BY DEF HandType, Hold

LEMMA RecvPrepareInv ==
    ASSUME StepsInv, NEW a \in Acceptors, NEW p \in Proposers, RecvPrepare(a, p)
    PROVE  StepsInv'
<1> DEFINE m == Oldest(p1a, n1a, p, a)
<1>1. TypeOK /\ ValueHeld /\ HandType /\ at[a] = "idle" /\ Pending(p1a, n1a, p, a)
  BY DEF StepsInv, RecvPrepare, Idle
<1>2. n1a' = [n1a EXCEPT ![p][a] = @ + 1]
      /\ UNCHANGED <<p1a, p1b, p2a, p2b, n1b, n2a, pdec, alog, accVars, propVars>>
  BY DEF RecvPrepare
<1>3. n1a \in [Proposers -> [Acceptors -> Nat]] /\ n1a' \in [Proposers -> [Acceptors -> Nat]]
  BY <1>1, <1>2, ReceiveType DEF TypeOK
<1>4. TypeOK' /\ ValueHeld'
  BY <1>1, <1>2, <1>3 DEF TypeOK, ValueHeld, accVars, propVars
<1>5. n1a'[p][a] = n1a[p][a] + 1
      /\ \A q \in Proposers, b \in Acceptors : b # a => n1a'[q][b] = n1a[q][b]
  BY <1>2, <1>3
<1>6. n1a'[p][a] \in 1 .. Len(p1a'[p][a]) /\ m = p1a'[p][a][n1a'[p][a]]
  <2>1. n1a[p][a] \in Nat /\ Len(p1a[p][a]) \in Nat
    BY <1>1, <1>3 DEF TypeOK
  <2> QED
    BY <1>1, <1>2, <1>5, <2>1 DEF Pending, Oldest
<1>7. ASSUME NEW b \in Acceptors, b # a, at'[b] = at[b], cur'[b] = cur[b]
      PROVE  Midway(b)'
  BY <1>2, <1>5, <1>7 DEF StepsInv, HandType, Midway, WillPromise, WillAccept, InHand1, InHand2,
        Answered1, Answered2, accVars
<1>8. CASE WillPromise(a, m)
  <2>1. Hold(a, p, "logPromise")
    BY <1>8 DEF RecvPrepare
  <2>2. at'[a] = "logPromise" /\ cur'[a] = p /\ HandType'
    BY <1>1, <2>1, OwnHandler, HandTyped
  <2>3. Midway(a)'
    BY <1>2, <1>6, <1>8, <2>2 DEF Midway, WillPromise, InHand1, accVars
  <2>4. ASSUME NEW b \in Acceptors PROVE Midway(b)'
    BY <1>1, <1>7, <2>1, <2>3, OtherHandlers
  <2> QED
    BY <1>4, <2>2, <2>4 DEF StepsInv
<1>9. CASE ~WillPromise(a, m)
  <2>1. at' = at /\ cur' = cur
    BY <1>9 DEF RecvPrepare
  <2>2. Midway(a)'
    BY <1>1, <2>1 DEF Midway, StepsInv
  <2> QED
    BY <1>1, <1>4, <1>7, <2>1, <2>2 DEF StepsInv, HandType
<1> QED
  BY <1>8, <1>9

LEMMA RecvAcceptInv ==
    ASSUME StepsInv, NEW a \in Acceptors, NEW p \in Proposers, RecvAccept(a, p)
    PROVE  StepsInv'
<1> DEFINE m == Oldest(p2a, n2a, p, a)
<1>1. TypeOK /\ ValueHeld /\ HandType /\ at[a] = "idle" /\ Pending(p2a, n2a, p, a)
  BY DEF StepsInv, RecvAccept, Idle
<1>2. n2a' = [n2a EXCEPT ![p][a] = @ + 1]
      /\ UNCHANGED <<p1a, p1b, p2a, p2b, n1a, n1b, pdec, alog, accVars, propVars>>
  BY DEF RecvAccept
<1>3. n2a \in [Proposers -> [Acceptors -> Nat]] /\ n2a' \in [Proposers -> [Acceptors -> Nat]]
  BY <1>1, <1>2, ReceiveType DEF TypeOK
<1>4. TypeOK' /\ ValueHeld'
  BY <1>1, <1>2, <1>3 DEF TypeOK, ValueHeld, accVars, propVars
<1>5. n2a'[p][a] = n2a[p][a] + 1
      /\ \A q \in Proposers, b \in Acceptors : b # a => n2a'[q][b] = n2a[q][b]
  BY <1>2, <1>3
<1>6. n2a'[p][a] \in 1 .. Len(p2a'[p][a]) /\ m = p2a'[p][a][n2a'[p][a]]
  <2>1. n2a[p][a] \in Nat /\ Len(p2a[p][a]) \in Nat
    BY <1>1, <1>3 DEF TypeOK
  <2> QED
    BY <1>1, <1>2, <1>5, <2>1 DEF Pending, Oldest
<1>7. ASSUME NEW b \in Acceptors, b # a, at'[b] = at[b], cur'[b] = cur[b]
      PROVE  Midway(b)'
  BY <1>2, <1>5, <1>7 DEF StepsInv, HandType, Midway, WillPromise, WillAccept, InHand1, InHand2,
        Answered1, Answered2, accVars
<1>8. CASE WillAccept(a, m.bal)
  <2>1. Hold(a, p, "logAccept")
    BY <1>8 DEF RecvAccept
  <2>2. at'[a] = "logAccept" /\ cur'[a] = p /\ HandType'
    BY <1>1, <2>1, OwnHandler, HandTyped
  <2>3. Midway(a)'
    BY <1>2, <1>6, <1>8, <2>2 DEF Midway, WillAccept, InHand2, accVars
  <2>4. ASSUME NEW b \in Acceptors PROVE Midway(b)'
    BY <1>1, <1>7, <2>1, <2>3, OtherHandlers
  <2> QED
    BY <1>4, <2>2, <2>4 DEF StepsInv
<1>9. CASE ~WillAccept(a, m.bal)
  <2>1. at' = at /\ cur' = cur
    BY <1>9 DEF RecvAccept
  <2>2. Midway(a)'
    BY <1>1, <2>1 DEF Midway, StepsInv
  <2> QED
    BY <1>1, <1>4, <1>7, <2>1, <2>2 DEF StepsInv, HandType
<1> QED
  BY <1>8, <1>9

LEMMA ReadType ==
    ASSUME NEW S, NEW ch \in [Proposers -> [Acceptors -> Seq(S)]],
           NEW p \in Proposers, NEW a \in Acceptors, NEW i \in 1 .. Len(ch[p][a])
    PROVE  ch[p][a][i] \in S
  OBVIOUS

(* What a handler has in hand is a message of its channel.                 *)
LEMMA InHandType ==
    ASSUME TypeOK, NEW a \in Acceptors, Midway(a), at[a] # "idle"
    PROVE  /\ at[a] \in {"logPromise", "promise"} => InHand1(a) \in Ballots
           /\ at[a] \in {"logAccept", "accepted"} => InHand2(a) \in Proposals
<1>1. cur[a] \in Proposers
  BY DEF Midway
<1>2. CASE at[a] \in {"logPromise", "promise"}
  <2>1. n1a[cur[a]][a] \in 1 .. Len(p1a[cur[a]][a])
    BY <1>2 DEF Midway
  <2>2. p1a \in [Proposers -> [Acceptors -> Seq(Ballots)]]
    BY DEF TypeOK
  <2> QED
    BY <1>1, <1>2, <2>1, <2>2, ReadType DEF InHand1
<1>3. CASE at[a] \in {"logAccept", "accepted"}
  <2>1. n2a[cur[a]][a] \in 1 .. Len(p2a[cur[a]][a])
    BY <1>3 DEF Midway
  <2>2. p2a \in [Proposers -> [Acceptors -> Seq(Proposals)]]
    BY DEF TypeOK
  <2> QED
    BY <1>1, <1>3, <2>1, <2>2, ReadType DEF InHand2
<1> QED
  BY <1>2, <1>3

LEMMA LogPromiseInv ==
    ASSUME StepsInv, NEW a \in Acceptors, LogPromise(a)
    PROVE  StepsInv'
<1> DEFINE e == Answered1(a)
<1>1. /\ TypeOK /\ ValueHeld /\ HandType /\ Midway(a)
      /\ at[a] = "logPromise" /\ cur[a] \in Proposers
  BY DEF StepsInv, LogPromise, Midway
<1>2. /\ alog' = [alog EXCEPT ![a] = Append(@, e)]
      /\ Hold(a, cur[a], "promise")
      /\ UNCHANGED <<p1a, p1b, p2a, p2b, n1a, n1b, n2a, pdec, accVars, propVars>>
  BY DEF LogPromise, Answered1
<1>3. alog \in [Acceptors -> Seq(LogEntries)] /\ e \in LogEntries
  <2>1. InHand1(a) \in Ballots
    BY <1>1, InHandType
  <2> QED
    BY <1>1, <2>1 DEF TypeOK, Answered1, LPromise, LogEntries
<1> HIDE DEF e
<1>4. alog' \in [Acceptors -> Seq(LogEntries)]
      /\ alog'[a] = Append(alog[a], e)
      /\ \A b \in Acceptors : b # a => alog'[b] = alog[b]
  BY <1>2, <1>3
<1>5. TypeOK' /\ ValueHeld'
  BY <1>1, <1>2, <1>4 DEF TypeOK, ValueHeld, accVars, propVars
<1>6. at'[a] = "promise" /\ cur'[a] = cur[a] /\ HandType'
  BY <1>1, <1>2, OwnHandler, HandTyped
<1>7. e' = e
  BY <1>2, <1>6 DEF e, Answered1, InHand1, accVars
<1>8. alog'[a] # <<>> /\ alog'[a][Len(alog'[a])] = e
  <2>1. alog[a] \in Seq(LogEntries)
    BY <1>3
  <2> QED
    BY <2>1, <1>3, <1>4
<1>9. Midway(a)'
  BY <1>1, <1>2, <1>6, <1>7, <1>8 DEF Midway, WillPromise, InHand1, accVars, e
<1>10. ASSUME NEW b \in Acceptors, b # a PROVE Midway(b)'
  <2>1. at'[b] = at[b] /\ cur'[b] = cur[b] /\ Midway(b)
    BY <1>1, <1>2, <1>10, OtherHandlers DEF StepsInv
  <2> QED
    BY <1>2, <1>4, <1>10, <2>1 DEF Midway, WillPromise, WillAccept, InHand1, InHand2,
       Answered1, Answered2, accVars
<1> QED
  BY <1>5, <1>6, <1>9, <1>10 DEF StepsInv

LEMMA LogAcceptInv ==
    ASSUME StepsInv, NEW a \in Acceptors, LogAccept(a)
    PROVE  StepsInv'
<1> DEFINE e == Answered2(a)
<1>1. /\ TypeOK /\ ValueHeld /\ HandType /\ Midway(a)
      /\ at[a] = "logAccept" /\ cur[a] \in Proposers
  BY DEF StepsInv, LogAccept, Midway
<1>2. /\ alog' = [alog EXCEPT ![a] = Append(@, e)]
      /\ Hold(a, cur[a], "accepted")
      /\ UNCHANGED <<p1a, p1b, p2a, p2b, n1a, n1b, n2a, pdec, accVars, propVars>>
  BY DEF LogAccept, Answered2
<1>3. alog \in [Acceptors -> Seq(LogEntries)] /\ e \in LogEntries
  <2>1. InHand2(a) \in Proposals
    BY <1>1, InHandType
  <2> QED
    BY <1>1, <2>1 DEF TypeOK, Answered2, LAccept, LogEntries, Proposals
<1> HIDE DEF e
<1>4. alog' \in [Acceptors -> Seq(LogEntries)]
      /\ alog'[a] = Append(alog[a], e)
      /\ \A b \in Acceptors : b # a => alog'[b] = alog[b]
  BY <1>2, <1>3
<1>5. TypeOK' /\ ValueHeld'
  BY <1>1, <1>2, <1>4 DEF TypeOK, ValueHeld, accVars, propVars
<1>6. at'[a] = "accepted" /\ cur'[a] = cur[a] /\ HandType'
  BY <1>1, <1>2, OwnHandler, HandTyped
<1>7. e' = e
  BY <1>2, <1>6 DEF e, Answered2, InHand2, accVars
<1>8. alog'[a] # <<>> /\ alog'[a][Len(alog'[a])] = e
  <2>1. alog[a] \in Seq(LogEntries)
    BY <1>3
  <2> QED
    BY <2>1, <1>3, <1>4
<1>9. Midway(a)'
  BY <1>1, <1>2, <1>6, <1>7, <1>8 DEF Midway, WillAccept, InHand2, accVars, e
<1>10. ASSUME NEW b \in Acceptors, b # a PROVE Midway(b)'
  <2>1. at'[b] = at[b] /\ cur'[b] = cur[b] /\ Midway(b)
    BY <1>1, <1>2, <1>10, OtherHandlers DEF StepsInv
  <2> QED
    BY <1>2, <1>4, <1>10, <2>1 DEF Midway, WillPromise, WillAccept, InHand1, InHand2,
       Answered1, Answered2, accVars
<1> QED
  BY <1>5, <1>6, <1>9, <1>10 DEF StepsInv

LEMMA SendPromiseInv ==
    ASSUME StepsInv, NEW a \in Acceptors, SendPromise(a)
    PROVE  StepsInv'
<1> DEFINE b == InHand1(a)
           m == Promise(b, hasAcc[a], accBal[a], accVal[a])
<1>1. /\ TypeOK /\ ValueHeld /\ HandType /\ Midway(a)
      /\ at[a] = "promise" /\ cur[a] \in Proposers
  BY DEF StepsInv, SendPromise, Midway
<1>2. /\ p1b' = [p1b EXCEPT ![cur[a]][a] = Append(@, m)]
      /\ maxBal' = [maxBal EXCEPT ![a] = b]
      /\ Hold(a, NoProp, "idle")
      /\ UNCHANGED <<p1a, p2a, p2b, n1a, n1b, n2a, pdec, alog, hasAcc, accBal, accVal, propVars>>
  BY DEF SendPromise
<1>3. b \in Ballots /\ m \in Promises
  <2>1. b \in Ballots
    BY <1>1, InHandType
  <2> QED
    BY <1>1, <2>1 DEF TypeOK, Promise, Promises
<1> HIDE DEF b, m
<1>4. p1b' \in [Proposers -> [Acceptors -> Seq(Promises)]]
      /\ maxBal' \in [Acceptors -> Ballots]
  BY <1>1, <1>2, <1>3, SendType DEF TypeOK
<1>5. TypeOK' /\ ValueHeld'
  BY <1>1, <1>2, <1>4 DEF TypeOK, ValueHeld, propVars
<1>6. at'[a] = "idle" /\ cur'[a] = NoProp /\ HandType'
  BY <1>1, <1>2, OwnHandler, HandTyped
<1>7. ASSUME NEW c \in Acceptors, c # a PROVE Midway(c)'
  <2>1. at'[c] = at[c] /\ cur'[c] = cur[c] /\ Midway(c)
    BY <1>1, <1>2, <1>7, OtherHandlers DEF StepsInv
  <2>2. maxBal'[c] = maxBal[c]
    BY <1>1, <1>2, <1>7 DEF TypeOK
  <2> QED
    BY <1>2, <1>7, <2>1, <2>2 DEF Midway, WillPromise, WillAccept, InHand1, InHand2,
       Answered1, Answered2
<1> QED
  BY <1>5, <1>6, <1>7 DEF StepsInv, Midway

LEMMA SendAcceptedInv ==
    ASSUME StepsInv, NEW a \in Acceptors, SendAccepted(a)
    PROVE  StepsInv'
<1> DEFINE h == InHand2(a)
           m == Proposal(h.bal, h.val)
<1>1. /\ TypeOK /\ ValueHeld /\ HandType /\ Midway(a)
      /\ at[a] = "accepted" /\ cur[a] \in Proposers
  BY DEF StepsInv, SendAccepted, Midway
<1>2. /\ p2b' = [p2b EXCEPT ![cur[a]][a] = Append(@, m)]
      /\ maxBal' = [maxBal EXCEPT ![a] = h.bal]
      /\ hasAcc' = [hasAcc EXCEPT ![a] = TRUE]
      /\ accBal' = [accBal EXCEPT ![a] = h.bal]
      /\ accVal' = [accVal EXCEPT ![a] = h.val]
      /\ Hold(a, NoProp, "idle")
      /\ UNCHANGED <<p1a, p1b, p2a, n1a, n1b, n2a, pdec, alog, propVars>>
  BY DEF SendAccepted
<1>3. h.bal \in Ballots /\ h.val \in VALS /\ m \in Proposals
  <2>1. h \in Proposals
    BY <1>1, InHandType
  <2> QED
    BY <2>1 DEF Proposal, Proposals, VALS
<1> HIDE DEF h, m
<1>4. p2b' \in [Proposers -> [Acceptors -> Seq(Proposals)]]
      /\ maxBal' \in [Acceptors -> Ballots] /\ hasAcc' \in [Acceptors -> BOOLEAN]
      /\ accBal' \in [Acceptors -> Ballots] /\ accVal' \in [Acceptors -> VALS]
  BY <1>1, <1>2, <1>3, SendType DEF TypeOK
<1>5. TypeOK' /\ ValueHeld'
  BY <1>1, <1>2, <1>4 DEF TypeOK, ValueHeld, propVars
<1>6. at'[a] = "idle" /\ cur'[a] = NoProp /\ HandType'
  BY <1>1, <1>2, OwnHandler, HandTyped
<1>7. ASSUME NEW c \in Acceptors, c # a PROVE Midway(c)'
  <2>1. at'[c] = at[c] /\ cur'[c] = cur[c] /\ Midway(c)
    BY <1>1, <1>2, <1>7, OtherHandlers DEF StepsInv
  <2>2. maxBal'[c] = maxBal[c] /\ hasAcc'[c] = hasAcc[c]
        /\ accBal'[c] = accBal[c] /\ accVal'[c] = accVal[c]
    BY <1>1, <1>2, <1>7 DEF TypeOK
  <2> QED
    BY <1>2, <1>7, <2>1, <2>2 DEF Midway, WillPromise, WillAccept, InHand1, InHand2,
       Answered1, Answered2
<1> QED
  BY <1>5, <1>6, <1>7 DEF StepsInv, Midway

LEMMA StepKeepsInv == StepsInv /\ [StepNext]_stepVars => StepsInv'
<1> SUFFICES ASSUME StepsInv, [StepNext]_stepVars PROVE StepsInv'
  OBVIOUS
<1>1. ASSUME NEW a \in Acceptors, AcceptorCall(a) PROVE StepsInv'
  BY <1>1, RecvPrepareInv, RecvAcceptInv, LogPromiseInv, SendPromiseInv, LogAcceptInv,
     SendAcceptedInv DEF AcceptorCall
<1>2. ASSUME NEW p \in Proposers, ProposerCall(p) PROVE StepsInv'
  BY <1>2, ProposerInv
<1>3. CASE UNCHANGED stepVars
  <2>1. TypeOK' /\ ValueHeld'
    BY <1>3, StepType DEF stepVars, StepsInv
  <2> QED
    BY <1>3, <2>1 DEF stepVars, vars, StepsInv, HandType, Midway, WillPromise, WillAccept,
       InHand1, InHand2, Answered1, Answered2
<1> QED
  BY <1>1, <1>2, <1>3 DEF StepNext

-----------------------------------------------------------------------------
(* The refinement.  A receive that goes on and a log entry are invisible;  *)
(* the answer is the whole handler.                                        *)

(* Nothing shows of handlers that stay where they are.                     *)
LEMMA BarSame ==
    ASSUME HandType, UNCHANGED <<at, cur>>
    PROVE  /\ n1a' = n1a => n1aBar' = n1aBar
           /\ n2a' = n2a => n2aBar' = n2aBar
           /\ alog' = alog => alogBar' = alogBar
  BY DEF n1aBar, n2aBar, alogBar, Unread, OnPhase

(* The instance counts as this module does.                                *)
LEMMA SameCardinality == \A S : Whole!Cardinality(S) = Cardinality(S)
  BY DEF Cardinality, Whole!Cardinality, IsFiniteSet, Whole!IsFiniteSet

LEMMA SameChoice ==
    /\ Whole!Need = Need
    /\ \A reports, want, v : Whole!MayPropose(reports, want, v) <=> MayPropose(reports, want, v)
  BY DEF Need, Whole!Need, MayPropose, Whole!MayPropose, Ble, Whole!Ble, Blt, Whole!Blt

LEMMA ProposerRefines ==
    ASSUME StepsInv, NEW p \in Proposers, ProposerCall(p)
    PROVE  Whole!ProposerStep(p)
<1>1. ProposerStep(p) /\ UNCHANGED <<at, cur>> /\ HandType
  BY DEF ProposerCall, StepsInv
<1>2. CASE SendPrepare(p)
  <2>1. UNCHANGED <<n1a, n2a, alog>>
    BY <1>2 DEF SendPrepare
  <2>2. n1aBar' = n1aBar /\ n2aBar' = n2aBar /\ alogBar' = alogBar
    BY <1>1, <2>1, BarSame
  <2>3. Whole!SendPrepare(p)
    BY <1>2, <2>2 DEF SendPrepare, Whole!SendPrepare, MoreAcceptors, Whole!MoreAcceptors,
       accVars, Whole!accVars, n1aBar, n2aBar
  <2> QED
    BY <2>3 DEF Whole!ProposerStep
<1>3. ASSUME NEW a \in Acceptors, Collect(p, a) PROVE Whole!ProposerStep(p)
  <2>1. UNCHANGED <<n1a, n2a, alog>>
    BY <1>3 DEF Collect
  <2>2. n1aBar' = n1aBar /\ n2aBar' = n2aBar /\ alogBar' = alogBar
    BY <1>1, <2>1, BarSame
  <2>3. Whole!Collect(p, a)
    BY <1>3, <2>2, SameCardinality, SameChoice DEF Collect, Whole!Collect, Pending, Whole!Pending,
       Oldest, Whole!Oldest, Counts, Whole!Counts, Sources, Whole!Sources,
       accVars, Whole!accVars, n1aBar, n2aBar
  <2> QED
    BY <2>3 DEF Whole!ProposerStep, Whole!Acceptors, Acceptors
<1>4. CASE Commit(p)
  <2>1. UNCHANGED <<n1a, n2a, alog>>
    BY <1>4 DEF Commit
  <2>2. n1aBar' = n1aBar /\ n2aBar' = n2aBar /\ alogBar' = alogBar
    BY <1>1, <2>1, BarSame
  <2>3. Whole!Commit(p)
    BY <1>4, <2>2, SameCardinality, SameChoice DEF Commit, Whole!Commit, Proposal, Whole!Proposal,
       accVars, Whole!accVars, n1aBar, n2aBar
  <2> QED
    BY <2>3 DEF Whole!ProposerStep
<1>5. CASE SendAccept(p)
  <2>1. UNCHANGED <<n1a, n2a, alog>>
    BY <1>5 DEF SendAccept
  <2>2. n1aBar' = n1aBar /\ n2aBar' = n2aBar /\ alogBar' = alogBar
    BY <1>1, <2>1, BarSame
  <2>3. Whole!SendAccept(p)
    BY <1>5, <2>2 DEF SendAccept, Whole!SendAccept, MoreAcceptors, Whole!MoreAcceptors,
       AcceptMsg, Whole!AcceptMsg, Proposal, Whole!Proposal, NoVal, Whole!NoVal,
       accVars, Whole!accVars, n1aBar, n2aBar
  <2> QED
    BY <2>3 DEF Whole!ProposerStep
<1> QED
  BY <1>1, <1>2, <1>3, <1>4, <1>5 DEF ProposerStep

(* Steps that do not show: the message still counts as unread, the entry   *)
(* as unwritten.                                                           *)
HiddenVars == <<n1aBar, n2aBar, alogBar, p1a, p1b, p2a, p2b, n1b, pdec,
                maxBal, hasAcc, accBal, accVal, pc, idx, bal, got, val>>

LEMMA HiddenIsStutter == UNCHANGED HiddenVars => UNCHANGED Whole!vars
  BY DEF HiddenVars, Whole!vars, n1aBar, n2aBar

LEMMA LogHidden ==
    ASSUME StepsInv, NEW a \in Acceptors, LogPromise(a) \/ LogAccept(a)
    PROVE  UNCHANGED Whole!vars
<1> DEFINE e == IF at[a] = "logPromise" THEN Answered1(a) ELSE Answered2(a)
           to == IF at[a] = "logPromise" THEN "promise" ELSE "accepted"
<1>1. /\ TypeOK /\ HandType /\ at[a] \in {"logPromise", "logAccept"}
      /\ alog' = [alog EXCEPT ![a] = Append(@, e)]
      /\ Hold(a, cur[a], to)
      /\ UNCHANGED <<p1a, p1b, p2a, p2b, n1a, n1b, n2a, pdec, accVars, propVars>>
  BY DEF StepsInv, LogPromise, LogAccept, Answered1, Answered2
<1> HIDE DEF e
<1>2. at'[a] = to /\ cur'[a] = cur[a]
      /\ \A b \in Acceptors : b # a => at'[b] = at[b] /\ cur'[b] = cur[b]
  BY <1>1, OwnHandler, OtherHandlers
<1>3. alogBar' = alogBar
  <2> SUFFICES ASSUME NEW b \in Acceptors PROVE alogBar'[b] = alogBar[b]
    BY DEF alogBar
  <2>1. alog \in [Acceptors -> Seq(LogEntries)]
    BY <1>1 DEF TypeOK
  <2>2. CASE b # a
    BY <1>1, <1>2, <2>1, <2>2 DEF alogBar
  <2>3. CASE b = a
    <3>1. alogBar[b] = alog[b]
      BY <1>1, <2>3 DEF alogBar
    <3>2. alogBar'[b] = SubSeq(Append(alog[b], e), 1, Len(Append(alog[b], e)) - 1)
      BY <1>1, <1>2, <2>1, <2>3 DEF alogBar
    <3>3. alog[b] \in Seq(LogEntries)
      BY <2>1
    <3>4. SubSeq(Append(alog[b], e), 1, Len(Append(alog[b], e)) - 1) = alog[b]
      BY <3>3
    <3> QED
      BY <3>1, <3>2, <3>4
  <2> QED
    BY <2>2, <2>3
<1>4. n1aBar' = n1aBar
  <2>1. \A b \in Acceptors : at'[b] \in {"logPromise", "promise"} <=> at[b] \in {"logPromise", "promise"}
    BY <1>1, <1>2
  <2> QED
    BY <1>1, <1>2, <2>1 DEF n1aBar, Unread, OnPhase
<1>5. n2aBar' = n2aBar
  <2>1. \A b \in Acceptors : at'[b] \in {"logAccept", "accepted"} <=> at[b] \in {"logAccept", "accepted"}
    BY <1>1, <1>2
  <2> QED
    BY <1>1, <1>2, <2>1 DEF n2aBar, Unread, OnPhase
<1> QED
  BY <1>1, <1>3, <1>4, <1>5, HiddenIsStutter DEF HiddenVars, accVars, propVars

LEMMA NoPropApart == \A p \in Proposers : p # NoProp
  BY ProposersAssumption DEF NoProp

LEMMA BumpOne ==
    ASSUME NEW f, NEW g, NEW p \in Proposers, NEW a \in Acceptors,
           f = [q \in Proposers |-> [b \in Acceptors |-> f[q][b]]],
           g = [q \in Proposers |-> [b \in Acceptors |-> g[q][b]]],
           \A q \in Proposers, b \in Acceptors :
             g[q][b] = IF q = p /\ b = a THEN f[q][b] + 1 ELSE f[q][b]
    PROVE  g = [f EXCEPT ![p][a] = @ + 1]
<1> DEFINE h == [f EXCEPT ![p][a] = @ + 1]
<1>1. h = [q \in Proposers |-> IF q = p THEN [f[q] EXCEPT ![a] = @ + 1] ELSE f[q]]
  OBVIOUS
<1>2. \A q \in Proposers, b \in Acceptors : h[q][b] = IF q = p /\ b = a THEN f[q][b] + 1 ELSE f[q][b]
  OBVIOUS
<1>3. h = [q \in Proposers |-> [b \in Acceptors |-> h[q][b]]]
  <2>1. \A q \in Proposers : f[q] = [b \in Acceptors |-> f[q][b]]
    OBVIOUS
  <2>2. \A q \in Proposers : h[q] = [b \in Acceptors |-> h[q][b]]
    BY <1>1, <2>1
  <2>3. h = [q \in Proposers |-> h[q]]
    BY <1>1
  <2> HIDE DEF h
  <2> QED
    BY <2>2, <2>3
<1> HIDE DEF h
<1>4. h = g
  BY <1>2, <1>3
<1> QED
  BY <1>4 DEF h

LEMMA LastEntryBack ==
    ASSUME NEW S, NEW s \in Seq(S), s # <<>>
    PROVE  Append(SubSeq(s, 1, Len(s) - 1), s[Len(s)]) = s
  OBVIOUS

LEMMA AppendOne ==
    ASSUME NEW f, NEW g, NEW a \in Acceptors, NEW e,
           f = [b \in Acceptors |-> f[b]], g = [b \in Acceptors |-> g[b]],
           g[a] = Append(f[a], e), \A b \in Acceptors : b # a => g[b] = f[b]
    PROVE  g = [f EXCEPT ![a] = Append(@, e)]
  OBVIOUS

LEMMA RecvPrepareRefines ==
    ASSUME StepsInv, NEW a \in Acceptors, NEW p \in Proposers, RecvPrepare(a, p)
    PROVE  Whole!OnPrepare(a, p) \/ UNCHANGED Whole!vars
<1> DEFINE m == Oldest(p1a, n1a, p, a)
<1>1. /\ TypeOK /\ HandType /\ at[a] = "idle" /\ Midway(a)
      /\ Pending(p1a, n1a, p, a)
      /\ n1a' = [n1a EXCEPT ![p][a] = @ + 1]
      /\ n2a' = n2a
      /\ UNCHANGED <<p1a, p1b, p2a, p2b, n1b, pdec, alog, accVars, propVars>>
  BY DEF StepsInv, RecvPrepare, Idle
<1>2. n1a \in [Proposers -> [Acceptors -> Nat]] /\ cur[a] = NoProp /\ p # NoProp
  <2>1. n1a \in [Proposers -> [Acceptors -> Nat]]
    BY <1>1 DEF TypeOK
  <2>2. cur[a] = NoProp
    BY <1>1 DEF Midway
  <2> QED
    BY <2>1, <2>2, NoPropApart
<1>3. CASE WillPromise(a, m)
  <2>1. Hold(a, p, "logPromise")
    BY <1>3 DEF RecvPrepare
  <2>2. at'[a] = "logPromise" /\ cur'[a] = p
        /\ \A b \in Acceptors : b # a => at'[b] = at[b] /\ cur'[b] = cur[b]
    BY <1>1, <2>1, OwnHandler, OtherHandlers
  <2>3. n1aBar' = n1aBar
    <3> SUFFICES ASSUME NEW q \in Proposers, NEW b \in Acceptors
                 PROVE  n1aBar'[q][b] = n1aBar[q][b]
      BY DEF n1aBar, Unread
    <3>1. n1a'[p][a] = n1a[p][a] + 1 /\ (q # p \/ b # a => n1a'[q][b] = n1a[q][b])
          /\ n1a[q][b] \in Nat /\ n1a[p][a] \in Nat
      BY <1>1, <1>2
    <3> QED
      BY <1>1, <1>2, <2>2, <3>1 DEF n1aBar, Unread, OnPhase
  <2>4. n2aBar' = n2aBar
    BY <1>1, <1>2, <2>2 DEF n2aBar, Unread, OnPhase
  <2>5. alogBar' = alogBar
    BY <1>1, <2>2 DEF alogBar
  <2> QED
    BY <1>1, <2>3, <2>4, <2>5, HiddenIsStutter DEF HiddenVars, accVars, propVars
<1>4. CASE ~WillPromise(a, m)
  <2>1. UNCHANGED <<at, cur>>
    BY <1>4 DEF RecvPrepare
  <2>2. n2aBar' = n2aBar /\ alogBar' = alogBar
    BY <1>1, <2>1, BarSame
  <2>3. n1aBar[p][a] = n1a[p][a]
    BY <1>1, <1>2 DEF n1aBar, Unread, OnPhase
  <2>4. n1aBar' = [n1aBar EXCEPT ![p][a] = @ + 1]
    <3>1. ASSUME NEW q \in Proposers, NEW b \in Acceptors
          PROVE  n1aBar'[q][b] = (IF q = p /\ b = a THEN n1aBar[q][b] + 1 ELSE n1aBar[q][b])
      <4>1. n1a'[p][a] = n1a[p][a] + 1 /\ (q # p \/ b # a => n1a'[q][b] = n1a[q][b])
        BY <1>1, <1>2
      <4> QED
        BY <1>1, <1>2, <2>1, <4>1 DEF n1aBar, Unread, OnPhase
    <3>2. n1aBar  = [q \in Proposers |-> [b \in Acceptors |-> n1aBar[q][b]]]
          /\ n1aBar' = [q \in Proposers |-> [b \in Acceptors |-> n1aBar'[q][b]]]
      BY DEF n1aBar, Unread
    <3> QED
      BY <3>1, <3>2, BumpOne
  <2>5. Whole!Pending(p1a, n1aBar, p, a) /\ Whole!Oldest(p1a, n1aBar, p, a) = m
    BY <1>1, <2>3 DEF Pending, Whole!Pending, Oldest, Whole!Oldest
  <2>6. ~Whole!WillPromise(a, Whole!Oldest(p1a, n1aBar, p, a))
    BY <1>4, <2>5 DEF WillPromise, Whole!WillPromise, WillAccept, Whole!WillAccept,
       Blt, Whole!Blt
  <2> QED
    BY <1>1, <2>2, <2>4, <2>5, <2>6 DEF Whole!OnPrepare, n1aBar, n2aBar, accVars, propVars,
       Whole!accVars, Whole!propVars
<1> QED
  BY <1>3, <1>4

LEMMA RecvAcceptRefines ==
    ASSUME StepsInv, NEW a \in Acceptors, NEW p \in Proposers, RecvAccept(a, p)
    PROVE  Whole!OnAccept(a, p) \/ UNCHANGED Whole!vars
<1> DEFINE m == Oldest(p2a, n2a, p, a)
<1>1. /\ TypeOK /\ HandType /\ at[a] = "idle" /\ Midway(a)
      /\ Pending(p2a, n2a, p, a)
      /\ n2a' = [n2a EXCEPT ![p][a] = @ + 1]
      /\ n1a' = n1a
      /\ UNCHANGED <<p1a, p1b, p2a, p2b, n1b, pdec, alog, accVars, propVars>>
  BY DEF StepsInv, RecvAccept, Idle
<1>2. n2a \in [Proposers -> [Acceptors -> Nat]] /\ cur[a] = NoProp /\ p # NoProp
  <2>1. n2a \in [Proposers -> [Acceptors -> Nat]]
    BY <1>1 DEF TypeOK
  <2>2. cur[a] = NoProp
    BY <1>1 DEF Midway
  <2> QED
    BY <2>1, <2>2, NoPropApart
<1>3. CASE WillAccept(a, m.bal)
  <2>1. Hold(a, p, "logAccept")
    BY <1>3 DEF RecvAccept
  <2>2. at'[a] = "logAccept" /\ cur'[a] = p
        /\ \A b \in Acceptors : b # a => at'[b] = at[b] /\ cur'[b] = cur[b]
    BY <1>1, <2>1, OwnHandler, OtherHandlers
  <2>3. n2aBar' = n2aBar
    <3> SUFFICES ASSUME NEW q \in Proposers, NEW b \in Acceptors
                 PROVE  n2aBar'[q][b] = n2aBar[q][b]
      BY DEF n2aBar, Unread
    <3>1. n2a'[p][a] = n2a[p][a] + 1 /\ (q # p \/ b # a => n2a'[q][b] = n2a[q][b])
          /\ n2a[q][b] \in Nat /\ n2a[p][a] \in Nat
      BY <1>1, <1>2
    <3> QED
      BY <1>1, <1>2, <2>2, <3>1 DEF n2aBar, Unread, OnPhase
  <2>4. n1aBar' = n1aBar
    BY <1>1, <1>2, <2>2 DEF n1aBar, Unread, OnPhase
  <2>5. alogBar' = alogBar
    BY <1>1, <2>2 DEF alogBar
  <2> QED
    BY <1>1, <2>3, <2>4, <2>5, HiddenIsStutter DEF HiddenVars, accVars, propVars
<1>4. CASE ~WillAccept(a, m.bal)
  <2>1. UNCHANGED <<at, cur>>
    BY <1>4 DEF RecvAccept
  <2>2. n1aBar' = n1aBar /\ alogBar' = alogBar
    BY <1>1, <2>1, BarSame
  <2>3. n2aBar[p][a] = n2a[p][a]
    BY <1>1, <1>2 DEF n2aBar, Unread, OnPhase
  <2>4. n2aBar' = [n2aBar EXCEPT ![p][a] = @ + 1]
    <3>1. ASSUME NEW q \in Proposers, NEW b \in Acceptors
          PROVE  n2aBar'[q][b] = (IF q = p /\ b = a THEN n2aBar[q][b] + 1 ELSE n2aBar[q][b])
      <4>1. n2a'[p][a] = n2a[p][a] + 1 /\ (q # p \/ b # a => n2a'[q][b] = n2a[q][b])
        BY <1>1, <1>2
      <4> QED
        BY <1>1, <1>2, <2>1, <4>1 DEF n2aBar, Unread, OnPhase
    <3>2. n2aBar  = [q \in Proposers |-> [b \in Acceptors |-> n2aBar[q][b]]]
          /\ n2aBar' = [q \in Proposers |-> [b \in Acceptors |-> n2aBar'[q][b]]]
      BY DEF n2aBar, Unread
    <3> QED
      BY <3>1, <3>2, BumpOne
  <2>5. Whole!Pending(p2a, n2aBar, p, a) /\ Whole!Oldest(p2a, n2aBar, p, a) = m
    BY <1>1, <2>3 DEF Pending, Whole!Pending, Oldest, Whole!Oldest
  <2>6. ~Whole!WillAccept(a, Whole!Oldest(p2a, n2aBar, p, a).bal)
    BY <1>4, <2>5 DEF WillPromise, Whole!WillPromise, WillAccept, Whole!WillAccept,
       Blt, Whole!Blt
  <2> QED
    BY <1>1, <2>2, <2>4, <2>5, <2>6 DEF Whole!OnAccept, n1aBar, n2aBar, accVars, propVars,
       Whole!accVars, Whole!propVars
<1> QED
  BY <1>3, <1>4

LEMMA SendPromiseRefines ==
    ASSUME StepsInv, NEW a \in Acceptors, SendPromise(a)
    PROVE  Whole!OnPrepare(a, cur[a])
<1> DEFINE p == cur[a]
           m == InHand1(a)
<1>1. /\ TypeOK /\ HandType /\ Midway(a) /\ at[a] = "promise" /\ p \in Proposers
      /\ UNCHANGED <<p1a, n1a, p2a, n2a, alog>>
      /\ Hold(a, NoProp, "idle")
  BY DEF StepsInv, Midway, SendPromise
<1>2. /\ n1a \in [Proposers -> [Acceptors -> Nat]] /\ p # NoProp
      /\ n1a[p][a] \in 1 .. Len(p1a[p][a])
      /\ alog \in [Acceptors -> Seq(LogEntries)]
  BY <1>1, ProposersAssumption DEF TypeOK, Midway, NoProp
<1>3. at'[a] = "idle" /\ cur'[a] = NoProp
      /\ \A b \in Acceptors : b # a => at'[b] = at[b] /\ cur'[b] = cur[b]
  BY <1>1, OwnHandler, OtherHandlers
<1>4. n1aBar[p][a] = n1a[p][a] - 1
  BY <1>1 DEF n1aBar, Unread, OnPhase
<1>5. n1aBar' = [n1aBar EXCEPT ![p][a] = @ + 1]
  <2>1. ASSUME NEW q \in Proposers, NEW b \in Acceptors
        PROVE  n1aBar'[q][b] = (IF q = p /\ b = a THEN n1aBar[q][b] + 1 ELSE n1aBar[q][b])
    <3>1. n1a[q][b] \in Nat
      BY <1>2
    <3> QED
      BY <1>1, <1>2, <1>3, <3>1 DEF n1aBar, Unread, OnPhase
  <2>2. n1aBar  = [q \in Proposers |-> [b \in Acceptors |-> n1aBar[q][b]]]
        /\ n1aBar' = [q \in Proposers |-> [b \in Acceptors |-> n1aBar'[q][b]]]
    BY DEF n1aBar, Unread
  <2>3. p \in Proposers
    BY <1>1
  <2> HIDE DEF p
  <2> QED
    BY <2>1, <2>2, <2>3, BumpOne
<1>6. n2aBar' = n2aBar
  BY <1>1, <1>2, <1>3 DEF n2aBar, Unread, OnPhase
<1>7. Whole!Pending(p1a, n1aBar, p, a) /\ Whole!Oldest(p1a, n1aBar, p, a) = m
  <2>1. n1a[p][a] \in Nat /\ n1a[p][a] - 1 + 1 = n1a[p][a]
    BY <1>1, <1>2
  <2> QED
    BY <1>1, <1>2, <1>4, <2>1 DEF Whole!Pending, Whole!Oldest, InHand1
<1>8. alogBar' = [alogBar EXCEPT ![a] = Append(@, Answered1(a))]
  <2> DEFINE e == Answered1(a)
  <2>1. alog[a] # <<>> /\ alog[a][Len(alog[a])] = e /\ alog[a] \in Seq(LogEntries)
    BY <1>1, <1>2 DEF Midway
  <2>2. Append(SubSeq(alog[a], 1, Len(alog[a]) - 1), alog[a][Len(alog[a])]) = alog[a]
    BY <2>1, LastEntryBack
  <2>3. alogBar[a] = SubSeq(alog[a], 1, Len(alog[a]) - 1) /\ alogBar'[a] = alog[a]
    BY <1>1, <1>3 DEF alogBar
  <2>4. \A b \in Acceptors : b # a => alogBar'[b] = alogBar[b]
    BY <1>1, <1>3 DEF alogBar
  <2>5. alogBar = [b \in Acceptors |-> alogBar[b]] /\ alogBar' = [b \in Acceptors |-> alogBar'[b]]
    BY DEF alogBar
  <2>6. alogBar'[a] = Append(alogBar[a], e)
    BY <2>1, <2>2, <2>3
  <2> HIDE DEF e
  <2>7. alogBar' = [alogBar EXCEPT ![a] = Append(@, e)]
    BY <2>4, <2>5, <2>6, AppendOne
  <2> QED
    BY <2>7 DEF e
<1>9. Whole!WillPromise(a, m)
  BY <1>1, <1>7 DEF Midway, WillPromise, Whole!WillPromise, WillAccept, Whole!WillAccept,
     Blt, Whole!Blt
<1> HIDE DEF m
<1> QED
  BY <1>1, <1>5, <1>6, <1>7, <1>8, <1>9 DEF SendPromise, Whole!OnPrepare, n1aBar, n2aBar, accVars, propVars,
     Whole!accVars, Whole!propVars, Answered1, LPromise, Whole!LPromise, Promise, Whole!Promise, m

LEMMA SendAcceptedRefines ==
    ASSUME StepsInv, NEW a \in Acceptors, SendAccepted(a)
    PROVE  Whole!OnAccept(a, cur[a])
<1> DEFINE p == cur[a]
           m == InHand2(a)
<1>1. /\ TypeOK /\ HandType /\ Midway(a) /\ at[a] = "accepted" /\ p \in Proposers
      /\ UNCHANGED <<p1a, n1a, p2a, n2a, alog>>
      /\ Hold(a, NoProp, "idle")
  BY DEF StepsInv, Midway, SendAccepted
<1>2. /\ n2a \in [Proposers -> [Acceptors -> Nat]] /\ p # NoProp
      /\ n2a[p][a] \in 1 .. Len(p2a[p][a])
      /\ alog \in [Acceptors -> Seq(LogEntries)]
  BY <1>1, ProposersAssumption DEF TypeOK, Midway, NoProp
<1>3. at'[a] = "idle" /\ cur'[a] = NoProp
      /\ \A b \in Acceptors : b # a => at'[b] = at[b] /\ cur'[b] = cur[b]
  BY <1>1, OwnHandler, OtherHandlers
<1>4. n2aBar[p][a] = n2a[p][a] - 1
  BY <1>1 DEF n2aBar, Unread, OnPhase
<1>5. n2aBar' = [n2aBar EXCEPT ![p][a] = @ + 1]
  <2>1. ASSUME NEW q \in Proposers, NEW b \in Acceptors
        PROVE  n2aBar'[q][b] = (IF q = p /\ b = a THEN n2aBar[q][b] + 1 ELSE n2aBar[q][b])
    <3>1. n2a[q][b] \in Nat
      BY <1>2
    <3> QED
      BY <1>1, <1>2, <1>3, <3>1 DEF n2aBar, Unread, OnPhase
  <2>2. n2aBar  = [q \in Proposers |-> [b \in Acceptors |-> n2aBar[q][b]]]
        /\ n2aBar' = [q \in Proposers |-> [b \in Acceptors |-> n2aBar'[q][b]]]
    BY DEF n2aBar, Unread
  <2>3. p \in Proposers
    BY <1>1
  <2> HIDE DEF p
  <2> QED
    BY <2>1, <2>2, <2>3, BumpOne
<1>6. n1aBar' = n1aBar
  BY <1>1, <1>2, <1>3 DEF n1aBar, Unread, OnPhase
<1>7. Whole!Pending(p2a, n2aBar, p, a) /\ Whole!Oldest(p2a, n2aBar, p, a) = m
  <2>1. n2a[p][a] \in Nat /\ n2a[p][a] - 1 + 1 = n2a[p][a]
    BY <1>1, <1>2
  <2> QED
    BY <1>1, <1>2, <1>4, <2>1 DEF Whole!Pending, Whole!Oldest, InHand2
<1>8. alogBar' = [alogBar EXCEPT ![a] = Append(@, Answered2(a))]
  <2> DEFINE e == Answered2(a)
  <2>1. alog[a] # <<>> /\ alog[a][Len(alog[a])] = e /\ alog[a] \in Seq(LogEntries)
    BY <1>1, <1>2 DEF Midway
  <2>2. Append(SubSeq(alog[a], 1, Len(alog[a]) - 1), alog[a][Len(alog[a])]) = alog[a]
    BY <2>1, LastEntryBack
  <2>3. alogBar[a] = SubSeq(alog[a], 1, Len(alog[a]) - 1) /\ alogBar'[a] = alog[a]
    BY <1>1, <1>3 DEF alogBar
  <2>4. \A b \in Acceptors : b # a => alogBar'[b] = alogBar[b]
    BY <1>1, <1>3 DEF alogBar
  <2>5. alogBar = [b \in Acceptors |-> alogBar[b]] /\ alogBar' = [b \in Acceptors |-> alogBar'[b]]
    BY DEF alogBar
  <2>6. alogBar'[a] = Append(alogBar[a], e)
    BY <2>1, <2>2, <2>3
  <2> HIDE DEF e
  <2>7. alogBar' = [alogBar EXCEPT ![a] = Append(@, e)]
    BY <2>4, <2>5, <2>6, AppendOne
  <2> QED
    BY <2>7 DEF e
<1>9. Whole!WillAccept(a, m.bal)
  BY <1>1, <1>7 DEF Midway, WillPromise, Whole!WillPromise, WillAccept, Whole!WillAccept,
     Blt, Whole!Blt
<1> HIDE DEF m
<1> QED
  BY <1>1, <1>5, <1>6, <1>7, <1>8, <1>9 DEF SendAccepted, Whole!OnAccept, n1aBar, n2aBar, accVars, propVars,
     Whole!accVars, Whole!propVars, Answered2, LAccept, Whole!LAccept, Proposal, Whole!Proposal, m

-----------------------------------------------------------------------------
LEMMA StepInitRefines == StepInit => Whole!Init
<1> SUFFICES ASSUME StepInit PROVE Whole!Init
  OBVIOUS
<1>1. Init /\ at = [a \in Acceptors |-> "idle"]
  BY DEF StepInit
<1>2. n1a = Link(0) /\ n2a = Link(0) /\ alog = [a \in Acceptors |-> <<>>]
  BY <1>1 DEF Init, ChanInit
<1>3. n1aBar = Link(0) /\ n2aBar = Link(0)
  BY <1>1, <1>2 DEF n1aBar, n2aBar, Unread, OnPhase, Link
<1>4. alogBar = [a \in Acceptors |-> <<>>]
  BY <1>1, <1>2 DEF alogBar
<1>5. Whole!ChanInit
  BY <1>1, <1>3, <1>4 DEF Init, ChanInit, Whole!ChanInit, Link, Whole!Link, n1aBar, n2aBar,
     Acceptors, Whole!Acceptors
<1>6. Whole!AccInit /\ Whole!PropInit
  BY <1>1 DEF Init, AccInit, PropInit, Whole!AccInit, Whole!PropInit, ZeroBallot,
     Whole!ZeroBallot, NoVal, Whole!NoVal, Acceptors, Whole!Acceptors
<1> QED
  BY <1>5, <1>6 DEF Whole!Init

LEMMA AcceptorRefines ==
    ASSUME StepsInv, NEW a \in Acceptors, AcceptorCall(a)
    PROVE  Whole!AcceptorStep(a) \/ UNCHANGED Whole!vars
<1>1. ASSUME NEW p \in Proposers, RecvPrepare(a, p)
      PROVE  Whole!AcceptorStep(a) \/ UNCHANGED Whole!vars
  BY <1>1, RecvPrepareRefines DEF Whole!AcceptorStep
<1>2. ASSUME NEW p \in Proposers, RecvAccept(a, p)
      PROVE  Whole!AcceptorStep(a) \/ UNCHANGED Whole!vars
  BY <1>2, RecvAcceptRefines DEF Whole!AcceptorStep
<1>3. CASE LogPromise(a) \/ LogAccept(a)
  BY <1>3, LogHidden
<1>4. CASE SendPromise(a)
  <2>1. cur[a] \in Proposers
    BY <1>4 DEF StepsInv, Midway, SendPromise
  <2> QED
    BY <1>4, <2>1, SendPromiseRefines DEF Whole!AcceptorStep
<1>5. CASE SendAccepted(a)
  <2>1. cur[a] \in Proposers
    BY <1>5 DEF StepsInv, Midway, SendAccepted
  <2> QED
    BY <1>5, <2>1, SendAcceptedRefines DEF Whole!AcceptorStep
<1> QED
  BY <1>1, <1>2, <1>3, <1>4, <1>5 DEF AcceptorCall

LEMMA StepRefines == StepsInv /\ [StepNext]_stepVars => [Whole!Next]_Whole!vars
<1> SUFFICES ASSUME StepsInv, [StepNext]_stepVars
             PROVE  Whole!Next \/ UNCHANGED Whole!vars
  OBVIOUS
<1>1. ASSUME NEW a \in Acceptors, AcceptorCall(a)
      PROVE  Whole!Next \/ UNCHANGED Whole!vars
  BY <1>1, AcceptorRefines DEF Whole!Next, Whole!Acceptors, Acceptors
<1>2. ASSUME NEW p \in Proposers, ProposerCall(p)
      PROVE  Whole!Next \/ UNCHANGED Whole!vars
  BY <1>2, ProposerRefines DEF Whole!Next
<1>3. CASE UNCHANGED stepVars
  BY <1>3, HiddenIsStutter DEF stepVars, vars, HiddenVars, n1aBar, n2aBar, alogBar,
     Unread, OnPhase
<1> QED
  BY <1>1, <1>2, <1>3 DEF StepNext

(* The program, one endpoint call at a time, does what Paxos says: the     *)
(* acceptors' handlers (on_prepare, on_accept) may be taken as atomic for  *)
(* every number of acceptors and proposers.                                *)
THEOREM StepsImplementPaxos == StepSpec => ImplementsPaxos
<1>1. StepInit => StepsInv
  BY StepInitInv
<1>2. StepsInv /\ [StepNext]_stepVars => StepsInv'
  BY StepKeepsInv
<1>3. StepInit => Whole!Init
  BY StepInitRefines
<1>4. StepsInv /\ [StepNext]_stepVars => [Whole!Next]_Whole!vars
  BY StepRefines
<1> QED
  BY <1>1, <1>2, <1>3, <1>4, PTL DEF StepSpec, ImplementsPaxos, Whole!Spec

-----------------------------------------------------------------------------
(***************************************************************************)
(* What is proved of Paxos, read through the refinement.                   *)
(***************************************************************************)
Proved == INSTANCE PaxosProofs WITH
    n1a  <- Unread(n1a, {"logPromise", "promise"}),
    n2a  <- Unread(n2a, {"logAccept", "accepted"}),
    alog <- alogBar

LEMMA SameInit == Whole!Init => Proved!Init
BY DEF Whole!Init, Proved!Init, Whole!AccInit, Proved!AccInit, Whole!PropInit,
   Proved!PropInit, Whole!ChanInit, Proved!ChanInit, Whole!ZeroBallot, Proved!ZeroBallot,
   Whole!NoVal, Proved!NoVal, Whole!Link, Proved!Link, Whole!Acceptors, Proved!Acceptors

LEMMA SameNext == [Whole!Next]_Whole!vars => [Proved!Next]_Proved!vars
<1>1. UNCHANGED Whole!vars => UNCHANGED Proved!vars BY DEF Whole!vars, Proved!vars
<1>2. ASSUME NEW a \in Acceptors, Whole!AcceptorStep(a) PROVE Proved!AcceptorStep(a)
  <2>1. ASSUME NEW p \in Proposers, Whole!OnPrepare(a, p) PROVE Proved!OnPrepare(a, p)
    BY <2>1 DEF Whole!OnPrepare, Proved!OnPrepare, Whole!Pending, Proved!Pending,
       Whole!Oldest, Proved!Oldest, Whole!WillPromise, Proved!WillPromise, Whole!LPromise,
       Proved!LPromise, Whole!Promise, Proved!Promise, Whole!propVars, Proved!propVars,
       Whole!Blt, Proved!Blt
  <2>2. ASSUME NEW p \in Proposers, Whole!OnAccept(a, p) PROVE Proved!OnAccept(a, p)
    BY <2>2 DEF Whole!OnAccept, Proved!OnAccept, Whole!Pending, Proved!Pending,
       Whole!Oldest, Proved!Oldest, Whole!WillAccept, Proved!WillAccept, Whole!LAccept,
       Proved!LAccept, Whole!Proposal, Proved!Proposal, Whole!propVars, Proved!propVars,
       Whole!accVars, Proved!accVars, Whole!Blt, Proved!Blt
  <2> QED BY <1>2, <2>1, <2>2 DEF Whole!AcceptorStep, Proved!AcceptorStep
<1>3. ASSUME NEW p \in Proposers, Whole!ProposerStep(p) PROVE Proved!ProposerStep(p)
  <2>1. Whole!SendPrepare(p) => Proved!SendPrepare(p)
    BY DEF Whole!SendPrepare, Proved!SendPrepare, Whole!MoreAcceptors,
       Proved!MoreAcceptors, Whole!accVars, Proved!accVars
  <2>2. Whole!SendAccept(p) => Proved!SendAccept(p)
    BY DEF Whole!SendAccept, Proved!SendAccept, Whole!MoreAcceptors, Proved!MoreAcceptors,
       Whole!accVars, Proved!accVars, Whole!AcceptMsg, Proved!AcceptMsg, Whole!Proposal,
       Proved!Proposal, Whole!NoVal, Proved!NoVal
  <2>3. ASSUME NEW a \in Acceptors, Whole!Collect(p, a) PROVE Proved!Collect(p, a)
    BY <2>3 DEF Whole!Collect, Proved!Collect, Whole!Need, Proved!Need, Whole!Pending,
       Proved!Pending, Whole!Oldest, Proved!Oldest, Whole!Counts, Proved!Counts,
       Whole!Sources, Proved!Sources, Whole!accVars, Proved!accVars, Whole!Cardinality,
       Proved!Cardinality
  <2>4. Whole!Commit(p) => Proved!Commit(p)
    BY DEF Whole!Commit, Proved!Commit, Whole!Need, Proved!Need, Whole!MayPropose,
       Proved!MayPropose, Whole!Proposal, Proved!Proposal, Whole!Ble, Proved!Ble,
       Whole!Blt, Proved!Blt, Whole!accVars, Proved!accVars, Whole!Cardinality,
       Proved!Cardinality
  <2> QED BY <1>3, <2>1, <2>2, <2>3, <2>4
          DEF Whole!ProposerStep, Proved!ProposerStep, Whole!Acceptors, Acceptors,
              Proved!Acceptors
<1> QED BY <1>1, <1>2, <1>3
        DEF Whole!Next, Proved!Next, Whole!Acceptors, Proved!Acceptors, Acceptors

NetInv == StepsInv /\ Proved!IInv /\ Proved!Backing /\ Proved!Order

LEMMA NetInvHolds == StepSpec => []NetInv
<1>1. StepInit => NetInv
  BY StepInitInv, StepInitRefines, SameInit, Proved!InitInv, Proved!BackingInit,
     Proved!OrderInit, NAccAssumption, ProposersAssumption, LastRoundAssumption,
     WantAssumption DEF NetInv
<1>2. NetInv /\ [StepNext]_stepVars => NetInv'
  <2> SUFFICES ASSUME NetInv, [StepNext]_stepVars PROVE NetInv'
    OBVIOUS
  <2>1. StepsInv' BY StepKeepsInv DEF NetInv
  <2>2. [Proved!Next]_Proved!vars BY StepRefines, SameNext DEF NetInv
  <2>3. Proved!IInv' /\ Proved!Backing' /\ Proved!Order'
    BY <2>2, Proved!StepInv, Proved!BackingStep, Proved!OrderStep, NAccAssumption,
       ProposersAssumption, LastRoundAssumption, WantAssumption DEF NetInv
  <2> QED BY <2>1, <2>3 DEF NetInv
<1> QED BY <1>1, <1>2, PTL DEF StepSpec

ProposerFacts ==
  /\ BallotsOwned /\ GatheredPromises /\ GatheredRead /\ CommittedLast
  /\ PromisedOnce /\ DecidedInOrder

LEMMA SameProposers == NetInv => ProposerFacts
<1> SUFFICES ASSUME NetInv PROVE ProposerFacts
  OBVIOUS
<1>1. BallotsOwned
  BY DEF NetInv, Proved!IInv, BallotsOwned, Proved!BallotsOwned, Decided, Proved!Decided,
     Range, Proved!Range, Proposal, Proved!Proposal
<1>2. GatheredPromises
  BY DEF NetInv, Proved!IInv, GatheredPromises, Proved!GatheredPromises, Promised,
     Proved!Promised, Range, Proved!Range, Promise, Proved!Promise, IsFiniteSet,
     Proved!IsFiniteSet
<1>3. GatheredRead
  BY DEF NetInv, Proved!Order, GatheredRead, Proved!GatheredRead, Promise, Proved!Promise
<1>4. CommittedLast
  BY DEF NetInv, Proved!Order, CommittedLast, Proved!CommittedLast, Proposal,
     Proved!Proposal
<1>5. PromisedOnce
  BY DEF NetInv, Proved!Backing, PromisedOnce, Proved!PromisedOnce, Promised,
     Proved!Promised, Range, Proved!Range, Acceptors, Proved!Acceptors
<1>6. DecidedInOrder
  BY DEF NetInv, Proved!Backing, DecidedInOrder, Proved!DecidedInOrder, Blt, Proved!Blt
<1> QED BY <1>1, <1>2, <1>3, <1>4, <1>5, <1>6 DEF ProposerFacts

-----------------------------------------------------------------------------
(* Logs.  A log is its barred one and, between the entry and the answer,   *)
(* that entry.                                                             *)

LEMMA BarredLog ==
  ASSUME NetInv, NEW a \in Acceptors
  PROVE  /\ alog[a] \in Seq(LogEntries) /\ alogBar[a] \in Seq(LogEntries)
         /\ at[a] \notin {"promise", "accepted"} => alog[a] = alogBar[a]
         /\ at[a] = "promise"  => /\ alog[a] = Append(alogBar[a], Answered1(a))
                                  /\ Answered1(a) \in LogEntries
         /\ at[a] = "accepted" => /\ alog[a] = Append(alogBar[a], Answered2(a))
                                  /\ Answered2(a) \in LogEntries
<1>1. alog[a] \in Seq(LogEntries) /\ Midway(a)
  BY DEF NetInv, StepsInv, TypeOK
<1>2. CASE at[a] \notin {"promise", "accepted"}
  BY <1>1, <1>2 DEF alogBar
<1>3. CASE at[a] \in {"promise", "accepted"}
  <2>1. PICK e : /\ e = alog[a][Len(alog[a])]
                 /\ at[a] = "promise" => e = Answered1(a)
                 /\ at[a] = "accepted" => e = Answered2(a)
    BY <1>1, <1>3 DEF Midway
  <2>2. alog[a] # <<>> BY <1>1, <1>3 DEF Midway
  <2>3. alogBar[a] = SubSeq(alog[a], 1, Len(alog[a]) - 1) BY <1>3 DEF alogBar
  <2>4. alogBar[a] \in Seq(LogEntries) /\ e \in LogEntries BY <1>1, <2>1, <2>2, <2>3
  <2>5. alog[a] = Append(alogBar[a], e) BY <1>1, <2>1, <2>2, <2>3, LastEntryBack
  <2> QED BY <1>1, <1>3, <2>1, <2>4, <2>5
<1> QED BY <1>2, <1>3

(* What the whole handlers keep in a log, said of the barred log.          *)
LEMMA BarredLogHolds ==
  ASSUME NetInv, NEW a \in Acceptors, NEW L, L = Range(alogBar[a])
  PROVE  /\ LogInOrder(alogBar[a])
         /\ \A e \in L : /\ IsStrict(e)
                         /\ e.kind = "LPromise" /\ e.had => LAccept(e.abal, e.aval) \in L
                         /\ e.kind = "LAccept" => /\ e.bal.prop \in Proposers
                                                  /\ Proposal(e.bal, e.val)
                                                       \in Range(p2a[e.bal.prop][a])
<1>1. a \in Proved!Acceptors BY DEF Acceptors, Proved!Acceptors
<1>2. Proved!Log(a) = L BY DEF Proved!Log, Proved!Range, Range
<1>3. LogInOrder(alogBar[a])
  BY <1>1 DEF NetInv, Proved!Order, Proved!LogsInOrder, Proved!LogInOrder, LogInOrder,
     Proved!Follows, Follows, Proved!Blt, Blt, Proved!Ble, Ble
<1>4. ASSUME NEW e \in L PROVE IsStrict(e)
  BY <1>1, <1>2, <1>4 DEF NetInv, Proved!Order, Proved!LogsInOrder, Proved!IsStrict,
     IsStrict, Proved!Blt, Blt
<1>5. ASSUME NEW e \in L, e.kind = "LPromise", e.had PROVE LAccept(e.abal, e.aval) \in L
  BY <1>1, <1>2, <1>5 DEF NetInv, Proved!IInv, Proved!PromisesHold, Proved!LAccept, LAccept
<1>6. ASSUME NEW e \in L, e.kind = "LAccept"
      PROVE  e.bal.prop \in Proposers /\ Proposal(e.bal, e.val) \in Range(p2a[e.bal.prop][a])
  <2>1. e.bal.prop \in Proposers
    BY <1>1, <1>2, <1>6 DEF NetInv, Proved!IInv, Proved!VotesDecided
  <2>2. Proposal(e.bal, e.val) \in Range(p2a[e.bal.prop][a])
    BY <1>1, <1>6, <2>1 DEF NetInv, Proved!IInv, Proved!Provenance, Proved!Proposal,
       Proposal, Proved!Range, Range
  <2> QED BY <2>1, <2>2
<1> QED BY <1>3, <1>4, <1>5, <1>6

(* What the comparisons let into a log, said of the barred log.            *)
LEMMA PromiseMayFollow ==
  ASSUME NetInv, NEW a \in Acceptors, NEW b \in Ballots, WillPromise(a, b),
         NEW e, e = LPromise(b, hasAcc[a], accBal[a], accVal[a])
  PROVE  /\ IsStrict(e) /\ \A f \in Range(alogBar[a]) : Follows(f, e)
         /\ e.had => LAccept(e.abal, e.aval) \in Range(alogBar[a])
<1>1. /\ a \in Proved!Acceptors /\ b \in Proved!Ballots /\ Proved!WillPromise(a, b)
      /\ Proved!IInv
  BY DEF Acceptors, Proved!Acceptors, Ballots, Proved!Ballots, WillPromise,
     Proved!WillPromise, Blt, Proved!Blt, NetInv
<1>2. e = Proved!LPromise(b, hasAcc[a], accBal[a], accVal[a])
  BY DEF LPromise, Proved!LPromise
<1>3. /\ Proved!IsStrict(e) /\ \A f \in Proved!Log(a) : Proved!Follows(f, e)
      /\ e.had => Proved!LAccept(e.abal, e.aval) \in Proved!Log(a)
  BY <1>1, <1>2, Proved!PromiseAllowed, NAccAssumption, ProposersAssumption,
     LastRoundAssumption, WantAssumption
<1> QED BY <1>3 DEF Proved!Log, Proved!Range, Range, Proved!Follows, Follows,
        Proved!IsStrict, IsStrict, Proved!Blt, Blt, Proved!Ble, Ble, Proved!LAccept, LAccept

LEMMA AcceptMayFollow ==
  ASSUME NetInv, NEW a \in Acceptors, NEW b \in Ballots, NEW v, WillAccept(a, b),
         NEW e, e = LAccept(b, v)
  PROVE  IsStrict(e) /\ \A f \in Range(alogBar[a]) : Follows(f, e)
<1>1. /\ a \in Proved!Acceptors /\ b \in Proved!Ballots /\ Proved!WillAccept(a, b)
      /\ Proved!IInv
  BY DEF Acceptors, Proved!Acceptors, Ballots, Proved!Ballots, WillAccept,
     Proved!WillAccept, Blt, Proved!Blt, NetInv
<1>2. e = Proved!LAccept(b, v)
  BY DEF LAccept, Proved!LAccept
<1>3. Proved!IsStrict(e) /\ \A f \in Proved!Log(a) : Proved!Follows(f, e)
  BY <1>1, <1>2, Proved!AcceptAllowed, NAccAssumption, ProposersAssumption,
     LastRoundAssumption, WantAssumption
<1> QED BY <1>3 DEF Proved!Log, Proved!Range, Range, Proved!Follows, Follows,
        Proved!IsStrict, IsStrict, Proved!Blt, Blt, Proved!Ble, Ble

(* The message a handler that will accept was called with was committed.   *)
LEMMA InHandOffered ==
  ASSUME NetInv, NEW a \in Acceptors, at[a] \in {"logAccept", "accepted"}
  PROVE  /\ cur[a] \in Proposers /\ InHand2(a) \in Proposals
         /\ n2a[cur[a]][a] \in 1 .. Len(p2a[cur[a]][a])
         /\ InHand2(a) \in Offered(cur[a], a) /\ InHand2(a) \in Decided(cur[a])
         /\ InHand2(a).bal.prop = cur[a]
<1>1. Midway(a) /\ TypeOK BY DEF NetInv, StepsInv
<1>2. /\ cur[a] \in Proposers /\ InHand2(a) \in Proposals
      /\ n2a[cur[a]][a] \in 1 .. Len(p2a[cur[a]][a])
  BY <1>1, InHandType DEF Midway
<1>3. p2a[cur[a]][a] \in Seq(Proposals) BY <1>1, <1>2 DEF TypeOK
<1>4. InHand2(a) \in Offered(cur[a], a) BY <1>2, <1>3 DEF InHand2, Offered, Range
<1>5. InHand2(a) \in Decided(cur[a])
  BY <1>2, <1>4 DEF NetInv, Proved!IInv, Proved!Provenance, Offered, Decided, Range,
     Proved!Range, Acceptors, Proved!Acceptors
<1>6. InHand2(a).bal.prop = cur[a]
  BY <1>2, <1>5, SameProposers DEF ProposerFacts, BallotsOwned
<1> QED BY <1>2, <1>4, <1>5, <1>6

(* An entry waiting for its answer is one the log may hold.                *)
LEMMA WaitingEntry ==
  ASSUME NetInv, NEW a \in Acceptors, at[a] \in {"promise", "accepted"}
  PROVE  \E e \in LogEntries :
           /\ alog[a] = Append(alogBar[a], e)
           /\ IsStrict(e) /\ \A f \in Range(alogBar[a]) : Follows(f, e)
           /\ e.kind = "LPromise" /\ e.had => LAccept(e.abal, e.aval) \in Range(alogBar[a])
           /\ e.kind = "LAccept" => /\ e.bal.prop \in Proposers
                                    /\ Proposal(e.bal, e.val) \in Range(p2a[e.bal.prop][a])
<1>1. Midway(a) /\ TypeOK BY DEF NetInv, StepsInv
<1>2. CASE at[a] = "promise"
  <2>1. PICK e : e = Answered1(a) OBVIOUS
  <2>2. InHand1(a) \in Ballots /\ WillPromise(a, InHand1(a))
    BY <1>1, <1>2, InHandType DEF Midway
  <2>3. /\ e = LPromise(InHand1(a), hasAcc[a], accBal[a], accVal[a])
        /\ e.kind = "LPromise"
    BY <2>1 DEF Answered1, LPromise
  <2>4. alog[a] = Append(alogBar[a], e) /\ e \in LogEntries
    BY <1>2, <2>1, BarredLog
  <2> QED BY <2>2, <2>3, <2>4, PromiseMayFollow
<1>3. CASE at[a] = "accepted"
  <2>1. PICK e : e = Answered2(a) OBVIOUS
  <2>2. /\ InHand2(a) \in Proposals /\ InHand2(a).bal \in Ballots
        /\ WillAccept(a, InHand2(a).bal)
    BY <1>1, <1>3, InHandType DEF Midway, Proposals
  <2>3. /\ e = LAccept(InHand2(a).bal, InHand2(a).val)
        /\ e.kind = "LAccept" /\ e.bal = InHand2(a).bal /\ e.val = InHand2(a).val
    BY <2>1 DEF Answered2, LAccept
  <2>4. alog[a] = Append(alogBar[a], e) /\ e \in LogEntries
    BY <1>3, <2>1, BarredLog
  <2>5. Proposal(e.bal, e.val) = InHand2(a) BY <2>2, <2>3 DEF Proposal, Proposals
  <2>6. e.bal.prop \in Proposers /\ Proposal(e.bal, e.val) \in Range(p2a[e.bal.prop][a])
    BY <1>3, <2>3, <2>5, InHandOffered DEF Offered
  <2> QED BY <2>2, <2>3, <2>4, <2>6, AcceptMayFollow
<1> QED BY <1>2, <1>3

LEMMA LogHolds ==
  ASSUME NetInv, NEW a \in Acceptors
  PROVE  /\ LogInOrder(alog[a]) /\ Range(alogBar[a]) \subseteq Log(a)
         /\ \A e \in Log(a) :
              /\ IsStrict(e)
              /\ e.kind = "LPromise" /\ e.had => LAccept(e.abal, e.aval) \in Log(a)
              /\ e.kind = "LAccept" => /\ e.bal.prop \in Proposers
                                       /\ Proposal(e.bal, e.val) \in Offered(e.bal.prop, a)
<1>1. alogBar[a] \in Seq(LogEntries) BY BarredLog
<1>2. CASE at[a] \notin {"promise", "accepted"}
  BY <1>2, BarredLog, BarredLogHolds DEF Log, Offered
<1>3. CASE at[a] \in {"promise", "accepted"}
  <2>1. PICK e \in LogEntries :
           /\ alog[a] = Append(alogBar[a], e)
           /\ IsStrict(e) /\ \A f \in Range(alogBar[a]) : Follows(f, e)
           /\ e.kind = "LPromise" /\ e.had => LAccept(e.abal, e.aval) \in Range(alogBar[a])
           /\ e.kind = "LAccept" => /\ e.bal.prop \in Proposers
                                    /\ Proposal(e.bal, e.val) \in Range(p2a[e.bal.prop][a])
    BY <1>3, WaitingEntry
  <2>2. Log(a) = Range(alogBar[a]) \cup {e} BY <1>1, <2>1, RangeAppend DEF Log
  <2>3. LogInOrder(alog[a]) BY <1>1, <2>1, BarredLogHolds, InOrderAppend
  <2> QED BY <2>1, <2>2, <2>3, BarredLogHolds DEF Offered
<1> QED BY <1>2, <1>3

LEMMA ChannelsHold ==
  ASSUME NetInv, NEW p \in Proposers, NEW a \in Acceptors
  PROVE  /\ \A m \in Promised(p, a) : LPromise(m.bal, m.had, m.abal, m.aval) \in Log(a)
         /\ \A m \in Answered(p, a) : /\ m \in Offered(p, a)
                                      /\ LAccept(m.bal, m.val) \in Log(a)
         /\ \A m \in Offered(p, a) : m \in Decided(p)
<1>1. a \in Proved!Acceptors BY DEF Acceptors, Proved!Acceptors
<1>2. Proved!Provenance BY DEF NetInv, Proved!IInv
<1>3. \A m \in Promised(p, a) : LPromise(m.bal, m.had, m.abal, m.aval) \in Range(alogBar[a])
  BY <1>1, <1>2 DEF Proved!Provenance, Promised, Range, Proved!Range, LPromise, Proved!LPromise
<1>4. \A m \in Answered(p, a) : /\ m \in Offered(p, a)
                                /\ LAccept(m.bal, m.val) \in Range(alogBar[a])
  BY <1>1, <1>2 DEF Proved!Provenance, Answered, Offered, Range, Proved!Range, LAccept,
     Proved!LAccept
<1>5. \A m \in Offered(p, a) : m \in Decided(p)
  BY <1>1, <1>2 DEF Proved!Provenance, Decided, Offered, Range, Proved!Range
<1> QED BY <1>3, <1>4, <1>5, LogHolds

-----------------------------------------------------------------------------
(* The record, channel by channel.                                         *)

LEMMA ChannelNames ==
  /\ \A p : Pdec(p).fam = "pdec" /\ Pdec(p).ix[1] = p
  /\ \A a : Alog(a).fam = "alog" /\ Alog(a).ix[1] = a
  /\ \A p, a : P1a(p, a).fam = "p1a" /\ P1a(p, a).ix[1] = p /\ P1a(p, a).ix[2] = a
  /\ \A p, a : P1b(p, a).fam = "p1b" /\ P1b(p, a).ix[1] = p /\ P1b(p, a).ix[2] = a
  /\ \A p, a : P2a(p, a).fam = "p2a" /\ P2a(p, a).ix[1] = p /\ P2a(p, a).ix[2] = a
  /\ \A p, a : P2b(p, a).fam = "p2b" /\ P2b(p, a).ix[1] = p /\ P2b(p, a).ix[2] = a
BY DEF Pdec, Alog, P1a, P1b, P2a, P2b

LEMMA ChannelKinds ==
  ASSUME NEW c \in Chans
  PROVE  \/ \E p \in Proposers : c = Pdec(p)
         \/ \E a \in Acceptors : c = Alog(a)
         \/ \E p \in Proposers, a \in Acceptors :
              c = P1a(p, a) \/ c = P1b(p, a) \/ c = P2a(p, a) \/ c = P2b(p, a)
BY DEF Chans

LEMMA OurChannels ==
  /\ \A p \in Proposers : Pdec(p) \in Chans
  /\ \A a \in Acceptors : Alog(a) \in Chans
  /\ \A p \in Proposers, a \in Acceptors :
       P1a(p, a) \in Chans /\ P1b(p, a) \in Chans /\ P2a(p, a) \in Chans /\ P2b(p, a) \in Chans
<1> DEFINE Pair(p, a) == {P1a(p, a), P1b(p, a), P2a(p, a), P2b(p, a)}
           pairs == {Pair(p, a) : p \in Proposers, a \in Acceptors}
           links == UNION pairs
<1>1. ASSUME NEW p \in Proposers, NEW a \in Acceptors, NEW c,
             c \in {P1a(p, a), P1b(p, a), P2a(p, a), P2b(p, a)}
      PROVE  c \in links
  <2>1. c \in Pair(p, a) BY <1>1
  <2> HIDE DEF Pair
  <2>2. Pair(p, a) \in pairs OBVIOUS
  <2> QED BY <2>1, <2>2
<1>2. links \subseteq Chans BY DEF Chans
<1> HIDE DEF links
<1>3. \A p \in Proposers, a \in Acceptors :
        P1a(p, a) \in links /\ P1b(p, a) \in links /\ P2a(p, a) \in links /\ P2b(p, a) \in links
  BY <1>1
<1>4. (\A p \in Proposers : Pdec(p) \in Chans) /\ \A a \in Acceptors : Alog(a) \in Chans
  BY DEF Chans
<1> QED BY <1>2, <1>3, <1>4

LEMMA ChannelHistories ==
  /\ \A p : SentOn(Pdec(p)) = pdec[p]
  /\ \A a : SentOn(Alog(a)) = alog[a]
  /\ \A p, a : /\ SentOn(P1a(p, a)) = p1a[p][a] /\ SentOn(P1b(p, a)) = p1b[p][a]
               /\ SentOn(P2a(p, a)) = p2a[p][a] /\ SentOn(P2b(p, a)) = p2b[p][a]
<1>1. ASSUME NEW p PROVE SentOn(Pdec(p)) = pdec[p]
  BY ChannelNames DEF SentOn
<1>2. ASSUME NEW a PROVE SentOn(Alog(a)) = alog[a]
  BY ChannelNames DEF SentOn
<1>3. ASSUME NEW p, NEW a
      PROVE  /\ SentOn(P1a(p, a)) = p1a[p][a] /\ SentOn(P1b(p, a)) = p1b[p][a]
             /\ SentOn(P2a(p, a)) = p2a[p][a] /\ SentOn(P2b(p, a)) = p2b[p][a]
  BY ChannelNames DEF SentOn
<1> QED BY <1>1, <1>2, <1>3

LEMMA HistoriesTyped ==
  ASSUME TypeOK, NEW c \in Chans
  PROVE  \E S : SentOn(c) \in Seq(S)
<1>1. ASSUME NEW p \in Proposers, c = Pdec(p) PROVE SentOn(c) \in Seq(Proposals)
  BY <1>1, ChannelHistories DEF TypeOK
<1>2. ASSUME NEW a \in Acceptors, c = Alog(a) PROVE SentOn(c) \in Seq(LogEntries)
  BY <1>2, ChannelHistories DEF TypeOK
<1>3. ASSUME NEW p \in Proposers, NEW a \in Acceptors, c = P1a(p, a)
      PROVE  SentOn(c) \in Seq(Ballots)
  BY <1>3, ChannelHistories DEF TypeOK
<1>4. ASSUME NEW p \in Proposers, NEW a \in Acceptors, c = P1b(p, a)
      PROVE  SentOn(c) \in Seq(Promises)
  BY <1>4, ChannelHistories DEF TypeOK
<1>5. ASSUME NEW p \in Proposers, NEW a \in Acceptors, c = P2a(p, a) \/ c = P2b(p, a)
      PROVE  SentOn(c) \in Seq(Proposals)
  BY <1>5, ChannelHistories DEF TypeOK
<1> QED BY <1>1, <1>2, <1>3, <1>4, <1>5, ChannelKinds

LEMMA RecordMember ==
  ASSUME NEW e
  PROVE  e \in Record <=> \E c \in Chans : \E i \in DOMAIN SentOn(c) : e = Witness(c, i)
BY DEF Record

LEMMA OnRecord ==
  ASSUME NEW e \in Record
  PROVE  \E i \in DOMAIN SentOn(e[1]) :
           /\ e[1] \in Chans /\ e[2] = i - 1 /\ e[3] = SentOn(e[1])[i]
           /\ e[3] \in Range(SentOn(e[1]))
<1>0. PICK c \in Chans : \E i \in DOMAIN SentOn(c) : e = Witness(c, i) BY RecordMember
<1>1. PICK i \in DOMAIN SentOn(c) : e = Witness(c, i) BY <1>0
<1>2. e[1] = c /\ e[2] = i - 1 /\ e[3] = SentOn(c)[i] BY <1>1 DEF Witness
<1> QED BY <1>1, <1>2 DEF Range

LEMMA SaidOnRecord ==
  ASSUME NEW c \in Chans, NEW m
  PROVE  Said(Record, c, m) <=> m \in Range(SentOn(c))
<1>1. ASSUME Said(Record, c, m) PROVE m \in Range(SentOn(c))
  BY <1>1, OnRecord DEF Said
<1>2. ASSUME m \in Range(SentOn(c)) PROVE Said(Record, c, m)
  <2>1. PICK i \in DOMAIN SentOn(c) : m = SentOn(c)[i] BY <1>2 DEF Range
  <2>2. Witness(c, i) \in Record BY RecordMember
  <2>3. Witness(c, i)[1] = c /\ Witness(c, i)[3] = m BY <2>1 DEF Witness
  <2> QED BY <2>2, <2>3 DEF Said
<1> QED BY <1>1, <1>2

(* A witness by its family.                                                *)
LEMMA WitnessKinds ==
  ASSUME NEW e \in Record
  PROVE  /\ e[1].fam = "pdec" => \E p \in Proposers : e[1] = Pdec(p) /\ e[3] \in Decided(p)
         /\ e[1].fam = "alog" => \E a \in Acceptors : e[1] = Alog(a) /\ e[3] \in Log(a)
         /\ e[1].fam = "p1b" => \E p \in Proposers, a \in Acceptors :
                                  e[1] = P1b(p, a) /\ e[3] \in Promised(p, a)
         /\ e[1].fam = "p2a" => \E p \in Proposers, a \in Acceptors :
                                  e[1] = P2a(p, a) /\ e[3] \in Offered(p, a)
         /\ e[1].fam = "p2b" => \E p \in Proposers, a \in Acceptors :
                                  e[1] = P2b(p, a) /\ e[3] \in Answered(p, a)
<1>1. e[1] \in Chans /\ e[3] \in Range(SentOn(e[1])) BY OnRecord
<1>2. ASSUME NEW p \in Proposers, e[1] = Pdec(p) PROVE e[1].fam = "pdec" /\ e[3] \in Decided(p)
  BY <1>1, <1>2, ChannelNames, ChannelHistories DEF Decided
<1>3. ASSUME NEW a \in Acceptors, e[1] = Alog(a) PROVE e[1].fam = "alog" /\ e[3] \in Log(a)
  BY <1>1, <1>3, ChannelNames, ChannelHistories DEF Log
<1>4. ASSUME NEW p \in Proposers, NEW a \in Acceptors
      PROVE  /\ e[1] = P1a(p, a) => e[1].fam = "p1a"
             /\ e[1] = P1b(p, a) => e[1].fam = "p1b" /\ e[3] \in Promised(p, a)
             /\ e[1] = P2a(p, a) => e[1].fam = "p2a" /\ e[3] \in Offered(p, a)
             /\ e[1] = P2b(p, a) => e[1].fam = "p2b" /\ e[3] \in Answered(p, a)
  BY <1>1, ChannelNames, ChannelHistories DEF Promised, Offered, Answered
<1> QED BY <1>1, <1>2, <1>3, <1>4, ChannelKinds

LEMMA RecordShape == TypeOK => RecFunctional(Record)
<1> SUFFICES ASSUME TypeOK, NEW e \in Record, NEW f \in Record, e[1] = f[1], e[2] = f[2]
             PROVE  e[3] = f[3]
  BY DEF RecFunctional
<1>1. PICK i \in DOMAIN SentOn(e[1]) : e[2] = i - 1 /\ e[3] = SentOn(e[1])[i] /\ e[1] \in Chans
  BY OnRecord
<1>2. PICK j \in DOMAIN SentOn(f[1]) : f[2] = j - 1 /\ f[3] = SentOn(f[1])[j] BY OnRecord
<1>3. PICK S : SentOn(e[1]) \in Seq(S) BY <1>1, HistoriesTyped
<1>4. i \in 1 .. Len(SentOn(e[1])) /\ j \in 1 .. Len(SentOn(e[1])) BY <1>1, <1>2, <1>3
<1>5. i - 1 = j - 1 BY <1>1, <1>2
<1>6. i = j BY <1>4, <1>5
<1> QED BY <1>1, <1>2, <1>6

-----------------------------------------------------------------------------
(* record_inv, clause by clause.                                           *)

LEMMA BackedClauses ==
  NetInv => RecAcceptedBacked(Record) /\ RecAcceptBacked(Record) /\ RecDecidedUnique(Record)
<1> SUFFICES ASSUME NetInv
             PROVE  RecAcceptedBacked(Record) /\ RecAcceptBacked(Record) /\ RecDecidedUnique(Record)
  OBVIOUS
<1>1. ASSUME NEW e \in On(Record, "p2b") PROVE Said(Record, P2a(e[1].ix[1], e[1].ix[2]), e[3])
  <2>1. PICK p \in Proposers, a \in Acceptors : e[1] = P2b(p, a) /\ e[3] \in Answered(p, a)
    BY WitnessKinds DEF On
  <2>2. e[1].ix[1] = p /\ e[1].ix[2] = a BY <2>1, ChannelNames
  <2>3. e[3] \in Range(SentOn(P2a(p, a)))
    BY <2>1, ChannelsHold, ChannelHistories DEF Offered
  <2> QED BY <2>2, <2>3, OurChannels, SaidOnRecord
<1>2. ASSUME NEW e \in On(Record, "p2a") PROVE Said(Record, Pdec(e[1].ix[1]), e[3])
  <2>1. PICK p \in Proposers, a \in Acceptors : e[1] = P2a(p, a) /\ e[3] \in Offered(p, a)
    BY WitnessKinds DEF On
  <2>2. e[1].ix[1] = p BY <2>1, ChannelNames
  <2>3. e[3] \in Range(SentOn(Pdec(p)))
    BY <2>1, ChannelsHold, ChannelHistories DEF Decided
  <2> QED BY <2>2, <2>3, OurChannels, SaidOnRecord
<1>3. ASSUME NEW e \in On(Record, "pdec"), NEW f \in On(Record, "pdec"),
             e[1] = f[1], e[3].bal = f[3].bal
      PROVE  e[3] = f[3]
  <2>1. PICK p \in Proposers : e[1] = Pdec(p) /\ e[3] \in Decided(p) BY WitnessKinds DEF On
  <2>2. PICK q \in Proposers : f[1] = Pdec(q) /\ f[3] \in Decided(q) BY WitnessKinds DEF On
  <2>3. Pdec(p).ix[1] = p /\ Pdec(q).ix[1] = q /\ Pdec(p) = Pdec(q)
    BY <1>3, <2>1, <2>2, ChannelNames
  <2>4. p = q BY <2>3
  <2> QED BY <1>3, <2>1, <2>2, <2>4, SameProposers DEF ProposerFacts, BallotsOwned
<1> QED BY <1>1, <1>2, <1>3 DEF RecAcceptedBacked, RecAcceptBacked, RecDecidedUnique

LEMMA LogClause == NetInv => RecAlogOk(Record)
<1> SUFFICES ASSUME NetInv, NEW e \in On(Record, "alog"), NEW f \in On(Record, "alog"),
                    e[1] = f[1], e[2] < f[2]
             PROVE  Follows(e[3], f[3])
  BY DEF RecAlogOk, Follows
<1>1. e \in Record /\ f \in Record BY DEF On
<1>2. PICK a \in Acceptors : e[1] = Alog(a) BY <1>1, WitnessKinds DEF On
<1>3. SentOn(e[1]) = alog[a] /\ SentOn(f[1]) = alog[a] BY <1>2, ChannelHistories
<1>4. PICK i \in DOMAIN alog[a] : e[2] = i - 1 /\ e[3] = alog[a][i] BY <1>1, <1>3, OnRecord
<1>5. PICK j \in DOMAIN alog[a] : f[2] = j - 1 /\ f[3] = alog[a][j] BY <1>1, <1>3, OnRecord
<1>6. alog[a] \in Seq(LogEntries) BY BarredLog
<1>7. j \in 1 .. Len(alog[a]) /\ i \in 1 .. j - 1
  <2>1. i \in 1 .. Len(alog[a]) /\ j \in 1 .. Len(alog[a]) BY <1>4, <1>5, <1>6
  <2>2. i - 1 < j - 1 BY <1>4, <1>5
  <2> QED BY <2>1, <2>2
<1> QED BY <1>4, <1>5, <1>7, LogHolds DEF LogInOrder

LEMMA LoggedClauses ==
  NetInv => RecPromiseLogged(Record) /\ RecAcceptedLogged(Record) /\ RecLacceptBacked(Record)
<1> SUFFICES ASSUME NetInv
             PROVE  RecPromiseLogged(Record) /\ RecAcceptedLogged(Record) /\ RecLacceptBacked(Record)
  OBVIOUS
<1>1. ASSUME NEW e \in On(Record, "p1b")
      PROVE  Said(Record, Alog(e[1].ix[2]), LPromise(e[3].bal, e[3].had, e[3].abal, e[3].aval))
  <2>1. PICK p \in Proposers, a \in Acceptors : e[1] = P1b(p, a) /\ e[3] \in Promised(p, a)
    BY WitnessKinds DEF On
  <2>2. e[1].ix[2] = a BY <2>1, ChannelNames
  <2>3. LPromise(e[3].bal, e[3].had, e[3].abal, e[3].aval) \in Range(SentOn(Alog(a)))
    BY <2>1, ChannelsHold, ChannelHistories DEF Log
  <2> QED BY <2>2, <2>3, OurChannels, SaidOnRecord
<1>2. ASSUME NEW e \in On(Record, "p2b")
      PROVE  Said(Record, Alog(e[1].ix[2]), LAccept(e[3].bal, e[3].val))
  <2>1. PICK p \in Proposers, a \in Acceptors : e[1] = P2b(p, a) /\ e[3] \in Answered(p, a)
    BY WitnessKinds DEF On
  <2>2. e[1].ix[2] = a BY <2>1, ChannelNames
  <2>3. LAccept(e[3].bal, e[3].val) \in Range(SentOn(Alog(a)))
    BY <2>1, ChannelsHold, ChannelHistories DEF Log
  <2> QED BY <2>2, <2>3, OurChannels, SaidOnRecord
<1>3. ASSUME NEW e \in On(Record, "alog"), e[3].kind = "LAccept"
      PROVE  Said(Record, P2a(e[3].bal.prop, e[1].ix[1]), Proposal(e[3].bal, e[3].val))
  <2>1. PICK a \in Acceptors : e[1] = Alog(a) /\ e[3] \in Log(a) BY WitnessKinds DEF On
  <2>2. e[1].ix[1] = a BY <2>1, ChannelNames
  <2>3. PICK p \in Proposers : p = e[3].bal.prop BY <1>3, <2>1, LogHolds
  <2>4. Proposal(e[3].bal, e[3].val) \in Range(SentOn(P2a(p, a)))
    BY <1>3, <2>1, <2>3, LogHolds, ChannelHistories DEF Offered
  <2> QED BY <2>2, <2>3, <2>4, OurChannels, SaidOnRecord
<1> QED BY <1>1, <1>2, <1>3 DEF RecPromiseLogged, RecAcceptedLogged, RecLacceptBacked

LEMMA ReportClauses == NetInv => RecPromiseStrict(Record) /\ RecReportLogged(Record)
<1> SUFFICES ASSUME NetInv, NEW e \in Reporting(Record)
             PROVE  /\ Blt(e[3].abal, e[3].bal)
                    /\ Said(Record, e[1], LAccept(e[3].abal, e[3].aval))
  BY DEF RecPromiseStrict, RecReportLogged
<1>1. /\ e \in Record /\ e[1].fam = "alog" /\ e[3].kind = "LPromise" /\ e[3].had
  BY DEF Reporting, On
<1>2. PICK a \in Acceptors : e[1] = Alog(a) /\ e[3] \in Log(a) BY <1>1, WitnessKinds
<1>3. IsStrict(e[3]) /\ LAccept(e[3].abal, e[3].aval) \in Log(a) BY <1>1, <1>2, LogHolds
<1>4. LAccept(e[3].abal, e[3].aval) \in Range(SentOn(Alog(a)))
  BY <1>3, ChannelHistories DEF Log
<1> QED BY <1>1, <1>2, <1>3, <1>4, OurChannels, SaidOnRecord DEF IsStrict

(* A set of witnesses holds of acceptor a just the promises of ballot b    *)
(* that a made: then it backs what the histories back.                     *)
LEMMA BacksSame ==
  ASSUME NEW ws, NEW p, NEW b, NEW v, NEW q \in Quorums,
         \A a \in q : PromisedFor(ws, p, a, b) = {m \in Promised(p, a) : m.bal = b},
         BacksIt(p, b, v, q)
  PROVE  BacksAt(ws, p, b, v, q)
<1>1. UNION {PromisedFor(ws, p, a, b) : a \in q} = PromisesFor(p, b, q)
  BY DEF PromisesFor
<1>2. \A a \in q : PromisedFor(ws, p, a, b) # {} BY DEF BacksIt
<1> QED BY <1>1, <1>2 DEF BacksIt, BacksAt

LEMMA RecordPromises ==
  ASSUME NEW p \in Proposers, NEW a \in Acceptors, NEW b
  PROVE  PromisedFor(Record, p, a, b) = {m \in Promised(p, a) : m.bal = b}
<1>1. ASSUME NEW m PROVE m \in PromisedFor(Record, p, a, b) <=> Said(Record, P1b(p, a), m) /\ m.bal = b
  BY DEF PromisedFor, Said
<1>2. ASSUME NEW m PROVE Said(Record, P1b(p, a), m) <=> m \in Promised(p, a)
  BY SaidOnRecord, OurChannels, ChannelHistories DEF Promised
<1> QED BY <1>1, <1>2

LEMMA SameQuorums == Proved!Quorums = Quorums
BY DEF Proved!Quorums, Quorums, Proved!Acceptors, Acceptors, Proved!Cardinality, Cardinality,
   Proved!IsFiniteSet, IsFiniteSet

LEMMA DecidedClause == NetInv => RecDecidedBacked(Record)
<1> SUFFICES ASSUME NetInv, NEW e \in On(Record, "pdec")
             PROVE  RecordBacks(Record, e[1].ix[1], e[3].bal, e[3].val)
  BY DEF RecDecidedBacked
<1>1. PICK p \in Proposers : e[1] = Pdec(p) /\ e[3] \in Decided(p) BY WitnessKinds DEF On
<1>2. e[1].ix[1] = p BY <1>1, ChannelNames
<1>3. PICK b, v : b = e[3].bal /\ v = e[3].val OBVIOUS
<1>4. Proved!QuorumBacks(p, b, v)
  BY <1>1, <1>3 DEF NetInv, Proved!Backing, Proved!DecidedBacked, Proved!Decided, Decided,
     Proved!Range, Range
<1>5. QuorumBacks(p, b, v)
  BY <1>4, SameQuorums DEF Proved!QuorumBacks, QuorumBacks, Proved!Range, Range, Proved!Ble,
     Ble, Proved!Blt, Blt
<1>6. PICK q \in Quorums : BacksIt(p, b, v, q) BY <1>5, BacksMeaning
<1>7. \A a \in q : PromisedFor(Record, p, a, b) = {m \in Promised(p, a) : m.bal = b}
  BY RecordPromises DEF Quorums
<1>8. BacksAt(Record, p, b, v, q) BY <1>6, <1>7, BacksSame
<1> QED BY <1>2, <1>3, <1>8 DEF RecordBacks

LEMMA HistoryClause == NetInv => PaxosHistoryInv(History)
<1> SUFFICES ASSUME NetInv, NEW p \in Proposers, NEW x \in DOMAIN History[Pdec(p)],
                    NEW y \in DOMAIN History[Pdec(p)], x < y
             PROVE  Blt(History[Pdec(p)][x].bal, History[Pdec(p)][y].bal)
  BY DEF PaxosHistoryInv
<1>1. History[Pdec(p)] = pdec[p] BY OurChannels, ChannelHistories DEF History
<1>2. pdec[p] \in Seq(Proposals) BY DEF NetInv, StepsInv, TypeOK
<1>3. y \in 1 .. Len(pdec[p]) /\ x \in 1 .. y - 1 BY <1>1, <1>2
<1> QED BY <1>1, <1>3, SameProposers DEF ProposerFacts, DecidedInOrder

(* record_inv and history_inv hold of the program at every call, in the    *)
(* middle of a handler too, for any number of acceptors and proposers.     *)
THEOREM RecordInvAlways == StepSpec => []RecordInvHolds
<1>1. NetInv => RecordInvHolds
  BY BackedClauses, LogClause, LoggedClauses, ReportClauses, DecidedClause, HistoryClause,
     RecordShape DEF RecordInvHolds, PaxosRecordInv, NetInv, StepsInv
<1> QED BY <1>1, NetInvHolds, PTL

-----------------------------------------------------------------------------
(* One call of the machine.  A step that touches the channel c alone, by   *)
(* a send or a receive the machine allows there, is one call.              *)

Only(c) == \A d \in Chans \ {c} : SentOn(d)' = SentOn(d) /\ CountOn(d)' = CountOn(d)

LEMMA HistoriesNext ==
  /\ \A p : SentOn(Pdec(p))' = pdec'[p]
  /\ \A a : SentOn(Alog(a))' = alog'[a]
  /\ \A p, a : /\ SentOn(P1a(p, a))' = p1a'[p][a] /\ SentOn(P1b(p, a))' = p1b'[p][a]
               /\ SentOn(P2a(p, a))' = p2a'[p][a] /\ SentOn(P2b(p, a))' = p2b'[p][a]
<1>1. ASSUME NEW p PROVE SentOn(Pdec(p))' = pdec'[p]
  BY ChannelNames DEF SentOn
<1>2. ASSUME NEW a PROVE SentOn(Alog(a))' = alog'[a]
  BY ChannelNames DEF SentOn
<1>3. ASSUME NEW p, NEW a
      PROVE  /\ SentOn(P1a(p, a))' = p1a'[p][a] /\ SentOn(P1b(p, a))' = p1b'[p][a]
             /\ SentOn(P2a(p, a))' = p2a'[p][a] /\ SentOn(P2b(p, a))' = p2b'[p][a]
  BY ChannelNames DEF SentOn
<1> QED BY <1>1, <1>2, <1>3

LEMMA ChannelCounts ==
  /\ \A p : CountOn(Pdec(p)) = 0
  /\ \A a : CountOn(Alog(a)) = 0
  /\ \A p, a : /\ CountOn(P1a(p, a)) = n1a[p][a] /\ CountOn(P1b(p, a)) = n1b[p][a]
               /\ CountOn(P2a(p, a)) = n2a[p][a] /\ CountOn(P2b(p, a)) = 0
<1>1. ASSUME NEW p PROVE CountOn(Pdec(p)) = 0
  BY ChannelNames DEF CountOn
<1>2. ASSUME NEW a PROVE CountOn(Alog(a)) = 0
  BY ChannelNames DEF CountOn
<1>3. ASSUME NEW p, NEW a
      PROVE  /\ CountOn(P1a(p, a)) = n1a[p][a] /\ CountOn(P1b(p, a)) = n1b[p][a]
             /\ CountOn(P2a(p, a)) = n2a[p][a] /\ CountOn(P2b(p, a)) = 0
  BY ChannelNames DEF CountOn
<1> QED BY <1>1, <1>2, <1>3

LEMMA CountsNext ==
  /\ \A p : CountOn(Pdec(p))' = 0
  /\ \A a : CountOn(Alog(a))' = 0
  /\ \A p, a : /\ CountOn(P1a(p, a))' = n1a'[p][a] /\ CountOn(P1b(p, a))' = n1b'[p][a]
               /\ CountOn(P2a(p, a))' = n2a'[p][a] /\ CountOn(P2b(p, a))' = 0
<1>1. ASSUME NEW p PROVE CountOn(Pdec(p))' = 0
  BY ChannelNames DEF CountOn
<1>2. ASSUME NEW a PROVE CountOn(Alog(a))' = 0
  BY ChannelNames DEF CountOn
<1>3. ASSUME NEW p, NEW a
      PROVE  /\ CountOn(P1a(p, a))' = n1a'[p][a] /\ CountOn(P1b(p, a))' = n1b'[p][a]
             /\ CountOn(P2a(p, a))' = n2a'[p][a] /\ CountOn(P2b(p, a))' = 0
  BY ChannelNames DEF CountOn
<1> QED BY <1>1, <1>2, <1>3

LEMMA OnlyOne ==
  ASSUME NEW c \in Chans,
         \A p \in Proposers : Pdec(p) # c => pdec'[p] = pdec[p],
         \A a \in Acceptors : Alog(a) # c => alog'[a] = alog[a],
         \A p \in Proposers, a \in Acceptors :
           /\ P1a(p, a) # c => p1a'[p][a] = p1a[p][a] /\ n1a'[p][a] = n1a[p][a]
           /\ P1b(p, a) # c => p1b'[p][a] = p1b[p][a] /\ n1b'[p][a] = n1b[p][a]
           /\ P2a(p, a) # c => p2a'[p][a] = p2a[p][a] /\ n2a'[p][a] = n2a[p][a]
           /\ P2b(p, a) # c => p2b'[p][a] = p2b[p][a]
  PROVE  Only(c)
<1> SUFFICES ASSUME NEW d \in Chans, d # c
             PROVE  SentOn(d)' = SentOn(d) /\ CountOn(d)' = CountOn(d)
  BY DEF Only
<1>1. ASSUME NEW p \in Proposers, d = Pdec(p)
      PROVE  SentOn(d)' = SentOn(d) /\ CountOn(d)' = CountOn(d)
  BY <1>1, ChannelHistories, HistoriesNext, ChannelCounts, CountsNext
<1>2. ASSUME NEW a \in Acceptors, d = Alog(a)
      PROVE  SentOn(d)' = SentOn(d) /\ CountOn(d)' = CountOn(d)
  BY <1>2, ChannelHistories, HistoriesNext, ChannelCounts, CountsNext
<1>3. ASSUME NEW p \in Proposers, NEW a \in Acceptors,
             d = P1a(p, a) \/ d = P1b(p, a) \/ d = P2a(p, a) \/ d = P2b(p, a)
      PROVE  SentOn(d)' = SentOn(d) /\ CountOn(d)' = CountOn(d)
  BY <1>3, ChannelHistories, HistoriesNext, ChannelCounts, CountsNext
<1> QED BY <1>1, <1>2, <1>3, ChannelKinds

LEMMA CountsTyped ==
  ASSUME TypeOK, NEW c \in Chans
  PROVE  CountOn(c) \in Nat
<1>1. ASSUME NEW p \in Proposers, c = Pdec(p) PROVE CountOn(c) \in Nat
  BY <1>1, ChannelCounts
<1>2. ASSUME NEW a \in Acceptors, c = Alog(a) PROVE CountOn(c) \in Nat
  BY <1>2, ChannelCounts
<1>3. ASSUME NEW p \in Proposers, NEW a \in Acceptors,
             c = P1a(p, a) \/ c = P1b(p, a) \/ c = P2a(p, a) \/ c = P2b(p, a)
      PROVE  CountOn(c) \in Nat
  BY <1>3, ChannelCounts DEF TypeOK
<1> QED BY <1>1, <1>2, <1>3, ChannelKinds

OneCall ==
  LET touched == Touched
  IN \E c \in touched : touched = {c} /\ (SendsOnce(c) \/ ReceivesOnce(c))

LEMMA Receives ==
  ASSUME TypeOK, NEW c \in Chans, Only(c), CountOn(c) < Len(SentOn(c)),
         CountOn(c)' = CountOn(c) + 1, SentOn(c)' = SentOn(c)
  PROVE  OneCall
<1>1. PICK S : SentOn(c) \in Seq(S) BY HistoriesTyped
<1>2. PICK n, s : n = CountOn(c) /\ s = SentOn(c) OBVIOUS
<1>3. n \in Nat /\ s \in Seq(S) /\ n + 1 \in 1 .. Len(s) BY <1>1, <1>2, CountsTyped
<1>4. Len(SubSeq(s, 1, n)) = n BY <1>3
<1>5. <<c, n, s[n + 1]>> \in Record
  <2>1. Witness(c, n + 1) = <<c, n, s[n + 1]>> BY <1>2, <1>3 DEF Witness
  <2>2. n + 1 \in DOMAIN SentOn(c) BY <1>2, <1>3
  <2> QED BY <2>1, <2>2, RecordMember
<1>6. Received[c] = SubSeq(s, 1, n) /\ c \in DOMAIN Received BY <1>2 DEF Received
<1>7. Net!MayReceive(c, CountOn(c), SentOn(c)[CountOn(c) + 1])
  BY <1>2, <1>4, <1>5, <1>6 DEF Net!MayReceive, Fifo
<1>8. ReceivesOnce(c) BY <1>7 DEF ReceivesOnce
<1>9. CountOn(c)' # CountOn(c) BY <1>2, <1>3
<1>10. Touched = {c} BY <1>9 DEF Touched, Only
<1> QED BY <1>8, <1>10 DEF OneCall

LEMMA Sends ==
  ASSUME TypeOK, NEW c \in Chans, NEW m, Only(c),
         SentOn(c)' = Append(SentOn(c), m), CountOn(c)' = CountOn(c),
         Presented(c, m) \subseteq Record, PaxosGate(c, SentOn(c), m),
         PaxosNeedsCause(c, m) => PaxosCausedBy(c, m, Presented(c, m))
  PROVE  OneCall
<1>1. PICK S : SentOn(c) \in Seq(S) BY HistoriesTyped
<1>2. SentOn(c) \in Seq(S \cup {m}) BY <1>1
<1>3. PICK s : s = SentOn(c) OBVIOUS
<1>4. s \in Seq(S \cup {m}) BY <1>2, <1>3
<1>5. Last(Append(s, m)) = m /\ Append(s, m) # s BY <1>4 DEF Last
<1>6. c \in DOMAIN History /\ History[c] = SentOn(c) BY DEF History
<1>7. Net!MaySend(c, m, Presented(c, m)) BY <1>6 DEF Net!MaySend
<1>8. Last(SentOn(c)') = m BY <1>3, <1>5
<1>9. SendsOnce(c) BY <1>7, <1>8 DEF SendsOnce
<1>10. Touched = {c} BY <1>3, <1>5 DEF Touched, Only
<1> QED BY <1>9, <1>10 DEF OneCall

LEMMA AtLink ==
  ASSUME NEW T, NEW f \in [Proposers -> [Acceptors -> T]],
         NEW p \in Proposers, NEW a \in Acceptors, NEW x
  PROVE  /\ [f EXCEPT ![p][a] = x][p][a] = x
         /\ \A q \in Proposers, b \in Acceptors :
              q # p \/ b # a => [f EXCEPT ![p][a] = x][q][b] = f[q][b]
OBVIOUS

(* The paxos Protocol's operators, channel by channel.                     *)
LEMMA Gates ==
  ASSUME NEW p, NEW a, NEW s, NEW m
  PROVE  /\ PaxosGate(Pdec(p), s, m)
              <=> m.bal.prop = p /\ \A e \in Earlier(s) : Blt(e.bal, m.bal)
         /\ PaxosGate(Alog(a), s, m)
              <=> IF m.kind = "LPromise" THEN GatePromise(s, m) ELSE GateAccept(s, m)
         /\ PaxosGate(P1a(p, a), s, m) <=> m.prop = p
         /\ PaxosGate(P1b(p, a), s, m)
         /\ PaxosGate(P2a(p, a), s, m) <=> m.bal.prop = p
         /\ PaxosGate(P2b(p, a), s, m) <=> m.bal.prop = p
<1>1. PaxosGate(Pdec(p), s, m)
        <=> m.bal.prop = p /\ \A e \in Earlier(s) : Blt(e.bal, m.bal)
  BY ChannelNames DEF PaxosGate, IsPdec, IsAlog, IsP1b
<1>2. PaxosGate(Alog(a), s, m)
        <=> IF m.kind = "LPromise" THEN GatePromise(s, m) ELSE GateAccept(s, m)
  BY ChannelNames DEF PaxosGate, IsPdec, IsAlog, IsP1b
<1>3. PaxosGate(P1a(p, a), s, m) <=> m.prop = p
  BY ChannelNames DEF PaxosGate, IsPdec, IsAlog, IsP1b
<1>4. PaxosGate(P1b(p, a), s, m)
  BY ChannelNames DEF PaxosGate, IsPdec, IsAlog, IsP1b
<1>5. PaxosGate(P2a(p, a), s, m) <=> m.bal.prop = p
  BY ChannelNames DEF PaxosGate, IsPdec, IsAlog, IsP1b
<1>6. PaxosGate(P2b(p, a), s, m) <=> m.bal.prop = p
  BY ChannelNames DEF PaxosGate, IsPdec, IsAlog, IsP1b
<1> QED BY <1>1, <1>2, <1>3, <1>4, <1>5, <1>6

LEMMA Hands ==
  ASSUME NEW p, NEW a, NEW m
  PROVE  /\ Presented(Pdec(p), m) = Collected(p)
         /\ Presented(Alog(a), m) = IF m.kind = "LAccept" THEN {Handed(a)} ELSE {}
         /\ Presented(P1a(p, a), m) = {}
         /\ Presented(P1b(p, a), m) = {Newest(Alog(a))}
         /\ Presented(P2a(p, a), m) = {Newest(Pdec(p))}
         /\ Presented(P2b(p, a), m) = {Handed(a), Newest(Alog(a))}
<1>1. Presented(Pdec(p), m) = Collected(p)
  BY ChannelNames DEF Presented, IsPdec, IsP2a, IsP1b, IsP2b, IsAlog
<1>2. Presented(Alog(a), m) = IF m.kind = "LAccept" THEN {Handed(a)} ELSE {}
  BY ChannelNames DEF Presented, IsPdec, IsP2a, IsP1b, IsP2b, IsAlog
<1>3. Presented(P1a(p, a), m) = {}
  BY ChannelNames DEF Presented, IsPdec, IsP2a, IsP1b, IsP2b, IsAlog
<1>4. Presented(P1b(p, a), m) = {Newest(Alog(a))}
  BY ChannelNames DEF Presented, IsPdec, IsP2a, IsP1b, IsP2b, IsAlog
<1>5. Presented(P2a(p, a), m) = {Newest(Pdec(p))}
  BY ChannelNames DEF Presented, IsPdec, IsP2a, IsP1b, IsP2b, IsAlog
<1>6. Presented(P2b(p, a), m) = {Handed(a), Newest(Alog(a))}
  BY ChannelNames DEF Presented, IsPdec, IsP2a, IsP1b, IsP2b, IsAlog
<1> QED BY <1>1, <1>2, <1>3, <1>4, <1>5, <1>6

Justified(c, m, ws) == PaxosNeedsCause(c, m) => PaxosCausedBy(c, m, ws)

LEMMA Causes ==
  ASSUME NEW p, NEW a, NEW m, NEW ws
  PROVE  /\ RecordBacks(ws, p, m.bal, m.val) => Justified(Pdec(p), m, ws)
         /\ (m.kind = "LAccept" => Said(ws, P2a(m.bal.prop, a), Proposal(m.bal, m.val)))
              => Justified(Alog(a), m, ws)
         /\ Justified(P1a(p, a), m, ws)
         /\ Said(ws, Alog(a), LPromise(m.bal, m.had, m.abal, m.aval))
              => Justified(P1b(p, a), m, ws)
         /\ Said(ws, Pdec(p), m) => Justified(P2a(p, a), m, ws)
         /\ Said(ws, P2a(p, a), m) /\ Said(ws, Alog(a), LAccept(m.bal, m.val))
              => Justified(P2b(p, a), m, ws)
<1> USE ChannelNames DEF Justified, PaxosNeedsCause, PaxosCausedBy, IsPdec, IsP2a, IsP2b,
        IsP1b, IsAlog
<1>1. RecordBacks(ws, p, m.bal, m.val) => Justified(Pdec(p), m, ws)
  OBVIOUS
<1>2. (m.kind = "LAccept" => Said(ws, P2a(m.bal.prop, a), Proposal(m.bal, m.val)))
        => Justified(Alog(a), m, ws)
  OBVIOUS
<1>3. Justified(P1a(p, a), m, ws)
  OBVIOUS
<1>4. Said(ws, Alog(a), LPromise(m.bal, m.had, m.abal, m.aval)) => Justified(P1b(p, a), m, ws)
  OBVIOUS
<1>5. Said(ws, Pdec(p), m) => Justified(P2a(p, a), m, ws)
  OBVIOUS
<1>6. Said(ws, P2a(p, a), m) /\ Said(ws, Alog(a), LAccept(m.bal, m.val))
        => Justified(P2b(p, a), m, ws)
  OBVIOUS
<1> QED BY <1>1, <1>2, <1>3, <1>4, <1>5, <1>6

LEMMA NewestWitness ==
  ASSUME TypeOK, NEW c \in Chans, SentOn(c) # <<>>
  PROVE  /\ Newest(c) \in Record
         /\ Said({Newest(c)}, c, SentOn(c)[Len(SentOn(c))])
<1>1. PICK S : SentOn(c) \in Seq(S) BY HistoriesTyped
<1>2. PICK i : i = Len(SentOn(c)) OBVIOUS
<1>3. i \in DOMAIN SentOn(c) BY <1>1, <1>2
<1>4. Newest(c) = Witness(c, i) BY <1>2 DEF Newest
<1>5. Newest(c) \in Record BY <1>3, <1>4, RecordMember
<1>6. Newest(c)[1] = c /\ Newest(c)[3] = SentOn(c)[i] BY <1>4 DEF Witness
<1> QED BY <1>2, <1>5, <1>6 DEF Said

LEMMA SaidMore ==
  ASSUME NEW ws, NEW more, NEW c, NEW m, Said(ws, c, m), ws \subseteq more
  PROVE  Said(more, c, m)
BY DEF Said

-----------------------------------------------------------------------------
(* Receives.                                                               *)

LEMMA RecvPrepareCall ==
  ASSUME TypeOK, NEW a \in Acceptors, NEW p \in Proposers, RecvPrepare(a, p)
  PROVE  OneCall
<1> DEFINE c == P1a(p, a)
<1>1. /\ n1a' = [n1a EXCEPT ![p][a] = n1a[p][a] + 1] /\ n1a[p][a] < Len(p1a[p][a])
      /\ UNCHANGED <<p1a, p1b, p2a, p2b, n1b, n2a, pdec, alog>>
  BY DEF RecvPrepare, Pending
<1>2. n1a'[p][a] = n1a[p][a] + 1
      /\ \A q \in Proposers, b \in Acceptors : q # p \/ b # a => n1a'[q][b] = n1a[q][b]
  BY <1>1, AtLink DEF TypeOK
<1>3. c \in Chans BY OurChannels
<1>4. \A q, b : P1a(q, b) # c => q # p \/ b # a OBVIOUS
<1>5. CountOn(c) = n1a[p][a] /\ CountOn(c)' = n1a'[p][a] /\ SentOn(c) = p1a[p][a]
      /\ SentOn(c)' = p1a'[p][a]
  BY ChannelHistories, HistoriesNext, ChannelCounts, CountsNext
<1> HIDE DEF c
<1>6. Only(c) BY <1>1, <1>2, <1>3, <1>4, OnlyOne
<1> QED BY <1>1, <1>2, <1>3, <1>5, <1>6, Receives

LEMMA RecvAcceptCall ==
  ASSUME TypeOK, NEW a \in Acceptors, NEW p \in Proposers, RecvAccept(a, p)
  PROVE  OneCall
<1> DEFINE c == P2a(p, a)
<1>1. /\ n2a' = [n2a EXCEPT ![p][a] = n2a[p][a] + 1] /\ n2a[p][a] < Len(p2a[p][a])
      /\ UNCHANGED <<p1a, p1b, p2a, p2b, n1a, n1b, pdec, alog>>
  BY DEF RecvAccept, Pending
<1>2. n2a'[p][a] = n2a[p][a] + 1
      /\ \A q \in Proposers, b \in Acceptors : q # p \/ b # a => n2a'[q][b] = n2a[q][b]
  BY <1>1, AtLink DEF TypeOK
<1>3. c \in Chans BY OurChannels
<1>4. \A q, b : P2a(q, b) # c => q # p \/ b # a OBVIOUS
<1>5. CountOn(c) = n2a[p][a] /\ CountOn(c)' = n2a'[p][a] /\ SentOn(c) = p2a[p][a]
      /\ SentOn(c)' = p2a'[p][a]
  BY ChannelHistories, HistoriesNext, ChannelCounts, CountsNext
<1> HIDE DEF c
<1>6. Only(c) BY <1>1, <1>2, <1>3, <1>4, OnlyOne
<1> QED BY <1>1, <1>2, <1>3, <1>5, <1>6, Receives

LEMMA CollectCall ==
  ASSUME TypeOK, NEW p \in Proposers, NEW a \in Acceptors, Collect(p, a)
  PROVE  OneCall
<1> DEFINE c == P1b(p, a)
<1>1. /\ n1b' = [n1b EXCEPT ![p][a] = n1b[p][a] + 1] /\ n1b[p][a] < Len(p1b[p][a])
      /\ UNCHANGED <<p1a, p1b, p2a, p2b, n1a, n2a, pdec, alog>>
  BY DEF Collect, Pending
<1>2. n1b'[p][a] = n1b[p][a] + 1
      /\ \A q \in Proposers, b \in Acceptors : q # p \/ b # a => n1b'[q][b] = n1b[q][b]
  BY <1>1, AtLink DEF TypeOK
<1>3. c \in Chans BY OurChannels
<1>4. \A q, b : P1b(q, b) # c => q # p \/ b # a OBVIOUS
<1>5. CountOn(c) = n1b[p][a] /\ CountOn(c)' = n1b'[p][a] /\ SentOn(c) = p1b[p][a]
      /\ SentOn(c)' = p1b'[p][a]
  BY ChannelHistories, HistoriesNext, ChannelCounts, CountsNext
<1> HIDE DEF c
<1>6. Only(c) BY <1>1, <1>2, <1>3, <1>4, OnlyOne
<1> QED BY <1>1, <1>2, <1>3, <1>5, <1>6, Receives

-----------------------------------------------------------------------------
(* A proposer's sends.                                                     *)

LEMMA SendPrepareCall ==
  ASSUME NetInv, NEW p \in Proposers, NEW a \in Acceptors, a = idx[p], SendPrepare(p)
  PROVE  OneCall
<1> DEFINE c == P1a(p, a)
<1>0. TypeOK BY DEF NetInv, StepsInv
<1>1. PICK m : m = bal[p] OBVIOUS
<1>2. /\ p1a' = [p1a EXCEPT ![p][a] = Append(p1a[p][a], m)]
      /\ UNCHANGED <<p1b, p2a, p2b, n1a, n1b, n2a, pdec, alog>>
  BY <1>1 DEF SendPrepare
<1>3. p1a'[p][a] = Append(p1a[p][a], m)
      /\ \A q \in Proposers, b \in Acceptors : q # p \/ b # a => p1a'[q][b] = p1a[q][b]
  BY <1>0, <1>2, AtLink DEF TypeOK
<1>4. c \in Chans BY OurChannels
<1>5. \A q, b : P1a(q, b) # c => q # p \/ b # a OBVIOUS
<1>6. CountOn(c) = n1a[p][a] /\ CountOn(c)' = n1a'[p][a] /\ SentOn(c) = p1a[p][a]
      /\ SentOn(c)' = p1a'[p][a]
  BY ChannelHistories, HistoriesNext, ChannelCounts, CountsNext
<1>7. m.prop = p BY <1>1, SameProposers DEF ProposerFacts, BallotsOwned
<1>8. PaxosGate(c, SentOn(c), m) /\ Presented(c, m) = {} /\ Justified(c, m, Presented(c, m))
  BY <1>7, Gates, Hands, Causes
<1> HIDE DEF c
<1>9. Only(c) BY <1>2, <1>3, <1>4, <1>5, OnlyOne
<1> QED BY <1>0, <1>2, <1>3, <1>4, <1>6, <1>8, <1>9, Sends DEF Justified

LEMMA SendAcceptCall ==
  ASSUME NetInv, NEW p \in Proposers, NEW a \in Acceptors, a = idx[p], SendAccept(p)
  PROVE  OneCall
<1> DEFINE c == P2a(p, a)
<1>0. TypeOK BY DEF NetInv, StepsInv
<1>1. PICK m : m = AcceptMsg(p) OBVIOUS
<1>2. /\ p2a' = [p2a EXCEPT ![p][a] = Append(p2a[p][a], m)] /\ pc[p] = "accept"
      /\ UNCHANGED <<p1a, p1b, p2b, n1a, n1b, n2a, pdec, alog>>
  BY <1>1 DEF SendAccept
<1>3. p2a'[p][a] = Append(p2a[p][a], m)
      /\ \A q \in Proposers, b \in Acceptors : q # p \/ b # a => p2a'[q][b] = p2a[q][b]
  BY <1>0, <1>2, AtLink DEF TypeOK
<1>4. c \in Chans /\ Pdec(p) \in Chans BY OurChannels
<1>5. \A q, b : P2a(q, b) # c => q # p \/ b # a OBVIOUS
<1>6. CountOn(c) = n2a[p][a] /\ CountOn(c)' = n2a'[p][a] /\ SentOn(c) = p2a[p][a]
      /\ SentOn(c)' = p2a'[p][a] /\ SentOn(Pdec(p)) = pdec[p]
  BY ChannelHistories, HistoriesNext, ChannelCounts, CountsNext
<1>7. m.bal.prop = p
  BY <1>1, SameProposers DEF ProposerFacts, BallotsOwned, AcceptMsg, Proposal
<1>8. pdec[p] # <<>> /\ pdec[p][Len(pdec[p])] = m
  BY <1>1, <1>2, SameProposers DEF ProposerFacts, CommittedLast, AcceptMsg
<1>9. Newest(Pdec(p)) \in Record /\ Said({Newest(Pdec(p))}, Pdec(p), m)
  BY <1>0, <1>4, <1>6, <1>8, NewestWitness
<1>10. /\ PaxosGate(c, SentOn(c), m) /\ Presented(c, m) = {Newest(Pdec(p))}
       /\ Justified(c, m, Presented(c, m))
  <2>1. PaxosGate(c, SentOn(c), m) BY <1>7, Gates
  <2>2. Presented(c, m) = {Newest(Pdec(p))} BY Hands
  <2>3. Justified(c, m, {Newest(Pdec(p))}) BY <1>9, Causes
  <2> QED BY <2>1, <2>2, <2>3
<1> HIDE DEF c
<1>11. Only(c) BY <1>2, <1>3, <1>4, <1>5, OnlyOne
<1>12. Presented(c, m) \subseteq Record BY <1>9, <1>10
<1> QED BY <1>0, <1>2, <1>3, <1>4, <1>6, <1>10, <1>11, <1>12, Sends DEF Justified

LEMMA CollectedPromises ==
  ASSUME TypeOK, ProposerFacts, NEW p \in Proposers, NEW a \in Sources(p)
  PROVE  PromisedFor(Collected(p), p, a, bal[p]) = {m \in Promised(p, a) : m.bal = bal[p]}
<1> DEFINE c == P1b(p, a)
<1>0. PICK g \in got[p] : g.src = a BY DEF Sources
<1>1. a \in Acceptors BY <1>0 DEF TypeOK, Reports
<1>2. c \in Chans /\ SentOn(c) = p1b[p][a] /\ c.ix[2] = a
  BY <1>1, OurChannels, ChannelHistories, ChannelNames
<1>3. ASSUME NEW m \in PromisedFor(Collected(p), p, a, bal[p])
      PROVE  m \in Promised(p, a) /\ m.bal = bal[p]
  <2>1. PICK e \in Collected(p) : e[1] = c /\ e[3] = m /\ e[3].bal = bal[p]
    BY <1>3 DEF PromisedFor
  <2>2. e \in Record BY <2>1 DEF Collected
  <2>3. m \in Range(SentOn(c)) BY <2>1, <2>2, OnRecord
  <2> QED BY <1>2, <2>1, <2>3 DEF Promised
<1>4. ASSUME NEW m \in Promised(p, a), m.bal = bal[p]
      PROVE  m \in PromisedFor(Collected(p), p, a, bal[p])
  <2>1. PICK i \in 1 .. n1b[p][a] : /\ i <= Len(p1b[p][a])
                                    /\ p1b[p][a][i] = Promise(bal[p], g.had, g.abal, g.aval)
    BY <1>0 DEF ProposerFacts, GatheredRead
  <2>2. i \in DOMAIN p1b[p][a] /\ n1b[p][a] \in Nat BY <1>1, <2>1 DEF TypeOK
  <2>3. p1b[p][a][i] \in Promised(p, a) /\ p1b[p][a][i].bal = bal[p]
    BY <2>1, <2>2 DEF Promised, Range, Promise
  <2>4. p1b[p][a][i] = m BY <1>1, <1>4, <2>3 DEF ProposerFacts, PromisedOnce
  <2>5. PICK e : e = Witness(c, i) OBVIOUS
  <2>6. e \in Record BY <1>2, <2>2, <2>5, RecordMember
  <2>7. e[1] = c /\ e[2] = i - 1 /\ e[3] = m BY <1>2, <2>4, <2>5 DEF Witness
  <2>8. e[2] < n1b[p][a] BY <2>2, <2>7
  <2>9. e[1] \in {P1b(p, b) : b \in Sources(p)} BY <2>7
  <2>10. e \in Collected(p) BY <1>2, <1>4, <2>6, <2>7, <2>8, <2>9 DEF Collected
  <2> QED BY <1>4, <2>7, <2>10 DEF PromisedFor
<1> QED BY <1>3, <1>4

LEMMA CommitCall ==
  ASSUME NetInv, NEW p \in Proposers, Commit(p)
  PROVE  OneCall
<1> DEFINE c == Pdec(p)
<1>0. TypeOK /\ ProposerFacts BY SameProposers DEF NetInv, StepsInv
<1>1. PICK v \in Values : /\ MayPropose(got[p], Want(p, bal[p].round), v)
                          /\ pdec' = [pdec EXCEPT ![p] = Append(@, Proposal(bal[p], v))]
  BY DEF Commit
<1>2. PICK m : m = Proposal(bal[p], v) OBVIOUS
<1>3. /\ pdec'[p] = Append(pdec[p], m) /\ \A q \in Proposers : q # p => pdec'[q] = pdec[q]
      /\ UNCHANGED <<p1a, p1b, p2a, p2b, n1a, n1b, n2a, alog>>
  BY <1>0, <1>1, <1>2 DEF Commit, TypeOK
<1>4. c \in Chans BY OurChannels
<1>5. \A q : Pdec(q) # c => q # p OBVIOUS
<1>6. CountOn(c) = 0 /\ CountOn(c)' = 0 /\ SentOn(c) = pdec[p] /\ SentOn(c)' = pdec'[p]
  BY ChannelHistories, HistoriesNext, ChannelCounts, CountsNext
<1>7. m.bal = bal[p] /\ m.val = v /\ m.bal.prop = p
  BY <1>0, <1>2 DEF ProposerFacts, BallotsOwned, Proposal
<1>8. \A e \in Earlier(pdec[p]) : Blt(e.bal, m.bal)
  BY <1>0, <1>7 DEF Commit, ProposerFacts, BallotsOwned, Decided, Earlier, Blt
<1>9. Sources(p) \in Quorums /\ BacksIt(p, bal[p], v, Sources(p))
  BY <1>0, <1>1, GatheredBack DEF Commit, ProposerFacts
<1>10. RecordBacks(Collected(p), p, m.bal, m.val)
  <2>1. PICK q, b, ws : q = Sources(p) /\ b = bal[p] /\ ws = Collected(p) OBVIOUS
  <2>2. \A a \in q : PromisedFor(ws, p, a, b) = {x \in Promised(p, a) : x.bal = b}
    BY <1>0, <2>1, CollectedPromises
  <2>3. q \in Quorums /\ BacksIt(p, b, v, q) BY <1>9, <2>1
  <2>4. BacksAt(ws, p, b, v, q) BY <2>2, <2>3, BacksSame
  <2> QED BY <1>7, <2>1, <2>3, <2>4 DEF RecordBacks
<1>11. /\ PaxosGate(c, SentOn(c), m) /\ Presented(c, m) = Collected(p)
       /\ Justified(c, m, Presented(c, m))
  <2>1. PICK s : s = SentOn(c) OBVIOUS
  <2>2. PaxosGate(c, s, m) <=> m.bal.prop = p /\ \A e \in Earlier(s) : Blt(e.bal, m.bal)
    BY Gates
  <2>3. PaxosGate(c, s, m) BY <1>6, <1>7, <1>8, <2>1, <2>2
  <2>4. Presented(c, m) = Collected(p) BY Hands
  <2>5. Justified(c, m, Collected(p)) BY <1>10, Causes
  <2> QED BY <2>1, <2>3, <2>4, <2>5
<1>12. Collected(p) \subseteq Record BY DEF Collected
<1> HIDE DEF c
<1>13. Only(c) BY <1>3, <1>4, <1>5, OnlyOne
<1>14. Presented(c, m) \subseteq Record BY <1>11, <1>12
<1> QED BY <1>0, <1>3, <1>4, <1>6, <1>11, <1>13, <1>14, Sends DEF Justified

-----------------------------------------------------------------------------
(* An acceptor's entries and answers.                                      *)

LEMMA KindsOfEntry ==
  ASSUME NetInv, NEW a \in Acceptors, NEW e \in Earlier(alog[a])
  PROVE  e.kind \in {"LPromise", "LAccept"}
<1>1. alog[a] \in Seq(LogEntries) BY BarredLog
<1>2. e \in LogEntries BY <1>1 DEF Earlier, Range
<1> QED BY <1>2 DEF LogEntries

LEMMA EntryAdded ==
  ASSUME TypeOK, NEW a \in Acceptors, NEW m,
         alog' = [alog EXCEPT ![a] = Append(alog[a], m)],
         UNCHANGED <<p1a, p1b, p2a, p2b, n1a, n1b, n2a, pdec>>
  PROVE  /\ Only(Alog(a)) /\ SentOn(Alog(a)) = alog[a]
         /\ SentOn(Alog(a))' = Append(SentOn(Alog(a)), m)
         /\ CountOn(Alog(a))' = CountOn(Alog(a))
<1> DEFINE c == Alog(a)
<1>1. alog'[a] = Append(alog[a], m) /\ \A b \in Acceptors : b # a => alog'[b] = alog[b]
  BY DEF TypeOK
<1>2. c \in Chans BY OurChannels
<1>3. \A b : Alog(b) # c => b # a OBVIOUS
<1>4. SentOn(c) = alog[a] /\ SentOn(c)' = alog'[a] /\ CountOn(c) = 0 /\ CountOn(c)' = 0
  BY ChannelHistories, HistoriesNext, ChannelCounts, CountsNext
<1> HIDE DEF c
<1>5. Only(c) BY <1>1, <1>2, <1>3, OnlyOne
<1> QED BY <1>1, <1>4, <1>5 DEF c

LEMMA LogPromiseCall ==
  ASSUME NetInv, NEW a \in Acceptors, LogPromise(a)
  PROVE  OneCall
<1>0. TypeOK /\ Midway(a) /\ at[a] = "logPromise" BY DEF NetInv, StepsInv, LogPromise
<1>1. PICK m : m = LPromise(InHand1(a), hasAcc[a], accBal[a], accVal[a]) OBVIOUS
<1>2. /\ alog' = [alog EXCEPT ![a] = Append(alog[a], m)]
      /\ UNCHANGED <<p1a, p1b, p2a, p2b, n1a, n1b, n2a, pdec>>
  BY <1>1 DEF LogPromise
<1>3. InHand1(a) \in Ballots /\ WillPromise(a, InHand1(a))
  BY <1>0, InHandType DEF Midway
<1>4. alogBar[a] = alog[a] BY <1>0, BarredLog
<1>5. /\ IsStrict(m) /\ \A f \in Range(alog[a]) : Follows(f, m)
      /\ m.had => LAccept(m.abal, m.aval) \in Range(alog[a])
  BY <1>1, <1>3, <1>4, PromiseMayFollow
<1>6. m.kind = "LPromise" BY <1>1 DEF LPromise
<1>7. GatePromise(alog[a], m)
  BY <1>5, <1>6, KindsOfEntry DEF GatePromise, IsStrict, Follows, Earlier
<1>8. PICK c : c = Alog(a) OBVIOUS
<1>9. c \in Chans BY <1>8, OurChannels
<1>10. /\ Only(c) /\ SentOn(c) = alog[a] /\ SentOn(c)' = Append(SentOn(c), m)
       /\ CountOn(c)' = CountOn(c)
  BY <1>0, <1>2, <1>8, EntryAdded
<1>11. PaxosGate(c, SentOn(c), m)
  <2>1. PICK s : s = SentOn(c) OBVIOUS
  <2>2. PaxosGate(c, s, m)
          <=> IF m.kind = "LPromise" THEN GatePromise(s, m) ELSE GateAccept(s, m)
    BY <1>8, Gates
  <2>3. PaxosGate(c, s, m) BY <1>6, <1>7, <1>10, <2>1, <2>2
  <2> QED BY <2>1, <2>3
<1>12. Presented(c, m) = {} BY <1>6, <1>8, Hands
<1>13. Justified(c, m, Presented(c, m)) BY <1>6, <1>8, Causes
<1> QED BY <1>0, <1>9, <1>10, <1>11, <1>12, <1>13, Sends DEF Justified

(* The witness recv_any returned with the Accept in hand.                  *)
LEMMA HandedAccept ==
  ASSUME NetInv, NEW a \in Acceptors, at[a] \in {"logAccept", "accepted"}
  PROVE  LET m == InHand2(a)
         IN /\ Handed(a) \in Record
            /\ Said({Handed(a)}, P2a(m.bal.prop, a), Proposal(m.bal, m.val))
<1>1. PICK p, m : p = cur[a] /\ m = InHand2(a) OBVIOUS
<1>2. /\ p \in Proposers /\ m \in Proposals /\ n2a[p][a] \in 1 .. Len(p2a[p][a])
      /\ m.bal.prop = p
  BY <1>1, InHandOffered
<1>3. PICK c, i : c = P2a(p, a) /\ i = n2a[p][a] OBVIOUS
<1>4. SentOn(c) = p2a[p][a] /\ c \in Chans BY <1>2, <1>3, ChannelHistories, OurChannels
<1>5. p2a[p][a] \in Seq(Proposals) BY <1>2 DEF NetInv, StepsInv, TypeOK
<1>6. i \in DOMAIN SentOn(c) /\ SentOn(c)[i] = m
  BY <1>1, <1>2, <1>3, <1>4, <1>5 DEF InHand2
<1>7. Handed(a) = Witness(c, i) BY <1>1, <1>3 DEF Handed
<1>8. Handed(a) \in Record BY <1>4, <1>6, <1>7, RecordMember
<1>9. Handed(a)[1] = c /\ Handed(a)[3] = m BY <1>6, <1>7 DEF Witness
<1>10. m = Proposal(m.bal, m.val) BY <1>2 DEF Proposal, Proposals
<1>11. Said({Handed(a)}, c, m) BY <1>9 DEF Said
<1> QED BY <1>1, <1>2, <1>3, <1>8, <1>10, <1>11

LEMMA LogAcceptCall ==
  ASSUME NetInv, NEW a \in Acceptors, LogAccept(a)
  PROVE  OneCall
<1>0. TypeOK /\ Midway(a) /\ at[a] = "logAccept" BY DEF NetInv, StepsInv, LogAccept
<1>1. PICK m : m = LAccept(InHand2(a).bal, InHand2(a).val) OBVIOUS
<1>2. /\ alog' = [alog EXCEPT ![a] = Append(alog[a], m)]
      /\ UNCHANGED <<p1a, p1b, p2a, p2b, n1a, n1b, n2a, pdec>>
  BY <1>1 DEF LogAccept
<1>3. InHand2(a) \in Proposals /\ InHand2(a).bal \in Ballots /\ WillAccept(a, InHand2(a).bal)
  BY <1>0, InHandType DEF Midway, Proposals
<1>4. alogBar[a] = alog[a] BY <1>0, BarredLog
<1>5. \A f \in Range(alog[a]) : Follows(f, m)
  BY <1>1, <1>3, <1>4, AcceptMayFollow
<1>6. m.kind = "LAccept" /\ m.bal = InHand2(a).bal /\ m.val = InHand2(a).val
  BY <1>1 DEF LAccept
<1>7. GateAccept(alog[a], m)
  BY <1>5, <1>6 DEF GateAccept, Follows, Earlier
<1>8. PICK c : c = Alog(a) OBVIOUS
<1>9. c \in Chans BY <1>8, OurChannels
<1>10. /\ Only(c) /\ SentOn(c) = alog[a] /\ SentOn(c)' = Append(SentOn(c), m)
       /\ CountOn(c)' = CountOn(c)
  BY <1>0, <1>2, <1>8, EntryAdded
<1>11. PaxosGate(c, SentOn(c), m)
  <2>1. PICK s : s = SentOn(c) OBVIOUS
  <2>2. PaxosGate(c, s, m)
          <=> IF m.kind = "LPromise" THEN GatePromise(s, m) ELSE GateAccept(s, m)
    BY <1>8, Gates
  <2>3. PaxosGate(c, s, m) BY <1>6, <1>7, <1>10, <2>1, <2>2
  <2> QED BY <2>1, <2>3
<1>12. Presented(c, m) = {Handed(a)} BY <1>6, <1>8, Hands
<1>13. /\ Handed(a) \in Record
       /\ Said({Handed(a)}, P2a(m.bal.prop, a), Proposal(m.bal, m.val))
  BY <1>0, <1>3, <1>6, HandedAccept
<1>14. Justified(c, m, Presented(c, m)) BY <1>8, <1>12, <1>13, Causes
<1>15. Presented(c, m) \subseteq Record BY <1>12, <1>13
<1> QED BY <1>0, <1>9, <1>10, <1>11, <1>14, <1>15, Sends DEF Justified

LEMMA SendPromiseCall ==
  ASSUME NetInv, NEW a \in Acceptors, NEW p, p = cur[a], SendPromise(a)
  PROVE  OneCall
<1>0. TypeOK /\ Midway(a) /\ at[a] = "promise" /\ p \in Proposers
  BY DEF NetInv, StepsInv, SendPromise, Midway
<1>1. PICK m : m = Promise(InHand1(a), hasAcc[a], accBal[a], accVal[a]) OBVIOUS
<1>2. /\ p1b' = [p1b EXCEPT ![p][a] = Append(p1b[p][a], m)]
      /\ UNCHANGED <<p1a, p2a, p2b, n1a, n1b, n2a, pdec, alog>>
  BY <1>1 DEF SendPromise
<1>3. p1b'[p][a] = Append(p1b[p][a], m)
      /\ \A q \in Proposers, b \in Acceptors : q # p \/ b # a => p1b'[q][b] = p1b[q][b]
  <2>1. p1b \in [Proposers -> [Acceptors -> Seq(Promises)]] BY <1>0 DEF TypeOK
  <2>2. PICK t : t = Append(p1b[p][a], m) OBVIOUS
  <2>3. p1b' = [p1b EXCEPT ![p][a] = t] BY <1>2, <2>2
  <2>4. /\ [p1b EXCEPT ![p][a] = t][p][a] = t
        /\ \A q \in Proposers, b \in Acceptors :
             q # p \/ b # a => [p1b EXCEPT ![p][a] = t][q][b] = p1b[q][b]
    BY <1>0, <2>1, AtLink
  <2> QED BY <2>2, <2>3, <2>4
<1>4. PICK c : c = P1b(p, a) OBVIOUS
<1>5. c \in Chans /\ Alog(a) \in Chans BY <1>0, <1>4, OurChannels
<1>6. \A q, b : P1b(q, b) # c => q # p \/ b # a BY <1>4
<1>7. CountOn(c) = n1b[p][a] /\ CountOn(c)' = n1b'[p][a] /\ SentOn(c) = p1b[p][a]
      /\ SentOn(c)' = p1b'[p][a] /\ SentOn(Alog(a)) = alog[a]
  BY <1>4, ChannelHistories, HistoriesNext, ChannelCounts, CountsNext
<1>8. alog[a] # <<>> /\ alog[a][Len(alog[a])] = LPromise(m.bal, m.had, m.abal, m.aval)
  BY <1>0, <1>1 DEF Midway, Answered1, Promise
<1>9. /\ Newest(Alog(a)) \in Record
      /\ Said({Newest(Alog(a))}, Alog(a), LPromise(m.bal, m.had, m.abal, m.aval))
  BY <1>0, <1>5, <1>7, <1>8, NewestWitness
<1>10. PaxosGate(c, SentOn(c), m) BY <1>4, Gates
<1>11. Presented(c, m) = {Newest(Alog(a))} BY <1>4, Hands
<1>12. Justified(c, m, Presented(c, m)) BY <1>4, <1>9, <1>11, Causes
<1>13. Only(c) BY <1>2, <1>3, <1>5, <1>6, OnlyOne
<1>14. Presented(c, m) \subseteq Record BY <1>9, <1>11
<1> QED BY <1>0, <1>2, <1>3, <1>5, <1>7, <1>10, <1>12, <1>13, <1>14, Sends DEF Justified

LEMMA SendAcceptedCall ==
  ASSUME NetInv, NEW a \in Acceptors, NEW p, p = cur[a], SendAccepted(a)
  PROVE  OneCall
<1>0. TypeOK /\ Midway(a) /\ at[a] = "accepted" /\ p \in Proposers
  BY DEF NetInv, StepsInv, SendAccepted, Midway
<1>1. PICK m : m = Proposal(InHand2(a).bal, InHand2(a).val) OBVIOUS
<1>2. /\ p2b' = [p2b EXCEPT ![p][a] = Append(p2b[p][a], m)]
      /\ UNCHANGED <<p1a, p1b, p2a, n1a, n1b, n2a, pdec, alog>>
  BY <1>1 DEF SendAccepted
<1>3. p2b'[p][a] = Append(p2b[p][a], m)
      /\ \A q \in Proposers, b \in Acceptors : q # p \/ b # a => p2b'[q][b] = p2b[q][b]
  <2>1. p2b \in [Proposers -> [Acceptors -> Seq(Proposals)]] BY <1>0 DEF TypeOK
  <2>2. PICK t : t = Append(p2b[p][a], m) OBVIOUS
  <2>3. p2b' = [p2b EXCEPT ![p][a] = t] BY <1>2, <2>2
  <2>4. /\ [p2b EXCEPT ![p][a] = t][p][a] = t
        /\ \A q \in Proposers, b \in Acceptors :
             q # p \/ b # a => [p2b EXCEPT ![p][a] = t][q][b] = p2b[q][b]
    BY <1>0, <2>1, AtLink
  <2> QED BY <2>2, <2>3, <2>4
<1>4. PICK c : c = P2b(p, a) OBVIOUS
<1>5. c \in Chans /\ Alog(a) \in Chans BY <1>0, <1>4, OurChannels
<1>6. \A q, b : P2b(q, b) # c => q # p \/ b # a BY <1>4
<1>7. CountOn(c) = 0 /\ CountOn(c)' = 0 /\ SentOn(c) = p2b[p][a]
      /\ SentOn(c)' = p2b'[p][a] /\ SentOn(Alog(a)) = alog[a]
  BY <1>4, ChannelHistories, HistoriesNext, ChannelCounts, CountsNext
<1>8. m.bal = InHand2(a).bal /\ m.val = InHand2(a).val /\ m = Proposal(m.bal, m.val)
  BY <1>1 DEF Proposal
<1>9. alog[a] # <<>> /\ alog[a][Len(alog[a])] = LAccept(m.bal, m.val)
  BY <1>0, <1>8 DEF Midway, Answered2
<1>10. /\ Newest(Alog(a)) \in Record
       /\ Said({Newest(Alog(a))}, Alog(a), LAccept(m.bal, m.val))
  BY <1>0, <1>5, <1>7, <1>9, NewestWitness
<1>11. InHand2(a).bal.prop = p BY <1>0, InHandOffered
<1>12. Handed(a) \in Record /\ Said({Handed(a)}, P2a(p, a), m)
  BY <1>0, <1>1, <1>11, HandedAccept
<1>13. PaxosGate(c, SentOn(c), m) BY <1>4, <1>8, <1>11, Gates
<1>14. Presented(c, m) = {Handed(a), Newest(Alog(a))} BY <1>4, Hands
<1>15. Said(Presented(c, m), P2a(p, a), m) /\ Said(Presented(c, m), Alog(a), LAccept(m.bal, m.val))
  <2>1. PICK ws : ws = Presented(c, m) OBVIOUS
  <2>2. {Handed(a)} \subseteq ws /\ {Newest(Alog(a))} \subseteq ws BY <1>14, <2>1
  <2>3. Said(ws, P2a(p, a), m) BY <1>12, <2>2, SaidMore
  <2>4. Said(ws, Alog(a), LAccept(m.bal, m.val)) BY <1>10, <2>2, SaidMore
  <2> QED BY <2>1, <2>3, <2>4
<1>16. Justified(c, m, Presented(c, m)) BY <1>4, <1>15, Causes
<1>17. Only(c) BY <1>2, <1>3, <1>5, <1>6, OnlyOne
<1>18. Presented(c, m) \subseteq Record BY <1>10, <1>12, <1>14
<1> QED BY <1>0, <1>2, <1>3, <1>5, <1>7, <1>13, <1>16, <1>17, <1>18, Sends DEF Justified

-----------------------------------------------------------------------------
LEMMA StepIsOneCall == NetInv /\ StepNext => OneCall
<1> SUFFICES ASSUME NetInv, StepNext PROVE OneCall
  OBVIOUS
<1>0. TypeOK BY DEF NetInv, StepsInv
<1>1. ASSUME NEW a \in Acceptors, AcceptorCall(a) PROVE OneCall
  <2>1. ASSUME NEW p \in Proposers, RecvPrepare(a, p) \/ RecvAccept(a, p) PROVE OneCall
    BY <1>0, <2>1, RecvPrepareCall, RecvAcceptCall
  <2>2. CASE LogPromise(a) BY <2>2, LogPromiseCall
  <2>3. CASE LogAccept(a) BY <2>3, LogAcceptCall
  <2>4. CASE SendPromise(a) BY <2>4, SendPromiseCall
  <2>5. CASE SendAccepted(a) BY <2>5, SendAcceptedCall
  <2> QED BY <1>1, <2>1, <2>2, <2>3, <2>4, <2>5 DEF AcceptorCall
<1>2. ASSUME NEW p \in Proposers, ProposerStep(p) PROVE OneCall
  <2>0. idx[p] \in Acceptors BY <1>0 DEF TypeOK
  <2>1. CASE SendPrepare(p) BY <2>0, <2>1, SendPrepareCall
  <2>2. CASE SendAccept(p) BY <2>0, <2>2, SendAcceptCall
  <2>3. CASE Commit(p) BY <2>3, CommitCall
  <2>4. ASSUME NEW a \in Acceptors, Collect(p, a) PROVE OneCall
    BY <1>0, <2>4, CollectCall
  <2> QED BY <1>2, <2>1, <2>2, <2>3, <2>4 DEF ProposerStep
<1> QED BY <1>1, <1>2 DEF StepNext, ProposerCall

(* Every step of the program, of any number of acceptors and proposers, is *)
(* one call of the machine with the gate and the witnesses that call asks  *)
(* for: the sends of on_prepare, on_accept and commit never lack either.   *)
THEOREM OneCallHolds == StepSpec => OneCallAtATime
<1>1. NetInv /\ [StepNext]_stepVars => [OneCall]_stepVars
  BY StepIsOneCall
<1> QED BY <1>1, NetInvHolds, PTL DEF StepSpec, OneCallAtATime, OneCall

-----------------------------------------------------------------------------
(* The deployments.  One proposer speaks and an acceptor takes 2 * rounds  *)
(* messages: the invariant counts what is out and what has been taken.     *)

Turn(p) == bal[p].round

PreparesOut(p, a) == IF pc[p] = "prepare" /\ idx[p] <= a THEN Turn(p) - 1 ELSE Turn(p)
AcceptsOut(p, a)  == IF pc[p] = "accept" /\ a < idx[p] THEN Turn(p) ELSE Turn(p) - 1
Commitments(p)    == IF pc[p] = "accept" THEN Turn(p) ELSE Turn(p) - 1

BallotAt(p, r) == [round |-> r, prop |-> p]

SysType ==
  /\ dep \in Deployments /\ handled \in [Acceptors -> Nat]
  /\ main \in {"rounds", "joining", "returned"}

Silent(l) ==
  \A p \in Proposers \ {l}, a \in Acceptors : p1a[p][a] = <<>> /\ p2a[p][a] = <<>>

InTurn(l) ==
  /\ Turn(l) \in 1 .. dep.rounds + 1
  /\ Turn(l) = dep.rounds + 1 => pc[l] = "prepare" /\ idx[l] = 0
  /\ pc[l] = "gather" => idx[l] = 0

Sendings(l) ==
  \A a \in Acceptors :
    /\ Len(p1a[l][a]) = PreparesOut(l, a)
    /\ Len(p2a[l][a]) = AcceptsOut(l, a)
    /\ \A i \in 1 .. Len(p1a[l][a]) : p1a[l][a][i] = BallotAt(l, i)
    /\ \A i \in 1 .. Len(p2a[l][a]) : p2a[l][a][i].bal = BallotAt(l, i)

Results(l) ==
  /\ Len(pdec[l]) = Commitments(l)
  /\ \A i \in 1 .. Len(pdec[l]) : pdec[l][i].bal.round = i
  /\ pdec[l] # <<>> => pdec[l][Len(pdec[l])].val = ret

(* Of the acceptors: an Accept of the last round is never refused, for     *)
(* there is no higher ballot.                                              *)
Turns(l) ==
  \A a \in Acceptors :
    /\ n1a[l][a] <= Len(p1a[l][a]) /\ n2a[l][a] <= Len(p2a[l][a])
    /\ a \in dep.live => handled[a] = n1a[l][a] + n2a[l][a]
    /\ a \notin dep.live => p1b[l][a] = <<>>
    /\ Ble(maxBal[a], BallotAt(l, dep.rounds))
    /\ n2a[l][a] = dep.rounds => p2a[l][a][dep.rounds] \in Range(p2b[l][a])

Joining(l) ==
  /\ main # "rounds" => Turn(l) = dep.rounds + 1
  /\ main = "returned" => \A a \in dep.live : Exited(a)

DeployInv(l) == Silent(l) /\ InTurn(l) /\ Sendings(l) /\ Results(l) /\ Turns(l) /\ Joining(l)

SysInv == IInv /\ Backing /\ SysType /\ \A l \in {dep.leader} : DeployInv(l)

LEMMA DeployTyped ==
  ASSUME SysType
  PROVE  /\ dep.leader \in Proposers /\ dep.live \subseteq Acceptors
         /\ dep.rounds \in Nat /\ dep.rounds >= 1
<1>1. /\ dep.leader \in Proposers /\ dep.live \subseteq Acceptors
      /\ dep.rounds \in 1 .. LastRound[dep.leader]
  BY DeployAssumption DEF SysType
<1>2. LastRound[dep.leader] \in Nat BY <1>1, LastRoundAssumption
<1> QED BY <1>1, <1>2

LEMMA SysIsPaxos == SysType /\ [SysNext]_sysVars => [Next]_vars
<1> SUFFICES ASSUME SysType, [SysNext]_sysVars PROVE [Next]_vars
  OBVIOUS
<1>1. dep.leader \in Proposers BY DeployTyped
<1>2. ASSUME NEW a \in Acceptors, Drive(a) PROVE Next BY <1>2 DEF Drive, Next
<1>3. CASE Round BY <1>1, <1>3 DEF Round, Next
<1>4. CASE RoundsDone \/ Join \/ Returned \/ UNCHANGED sysVars
  BY <1>4 DEF RoundsDone, Join, Returned, sysVars
<1> QED BY <1>2, <1>3, <1>4 DEF SysNext

LEMMA OutBounds ==
  ASSUME TypeOK, SysType, NEW l \in Proposers, InTurn(l), NEW a \in Acceptors
  PROVE  PreparesOut(l, a) \in 0 .. dep.rounds /\ AcceptsOut(l, a) \in 0 .. dep.rounds
<1>1. dep.rounds \in Nat /\ a \in Nat /\ a >= 0
  BY DeployTyped, NAccAssumption DEF Acceptors
<1>2. PICK r, n, i, w : r = Turn(l) /\ n = dep.rounds /\ i = idx[l] /\ w = pc[l] OBVIOUS
<1>3. n \in Nat /\ r \in 1 .. n + 1 /\ (r = n + 1 => w = "prepare" /\ i = 0)
  BY <1>1, <1>2 DEF InTurn
<1>4. r = n + 1 => PreparesOut(l, a) = n /\ AcceptsOut(l, a) = n
  BY <1>1, <1>2, <1>3 DEF PreparesOut, AcceptsOut
<1>5. r # n + 1 => r \in 1 .. n BY <1>3
<1>6. PreparesOut(l, a) \in {r, r - 1} /\ AcceptsOut(l, a) \in {r, r - 1}
  BY <1>2 DEF PreparesOut, AcceptsOut
<1> QED BY <1>2, <1>3, <1>4, <1>5, <1>6

LEMMA InitDeploy == SysInit => SysInv
<1> SUFFICES ASSUME SysInit PROVE SysInv
  OBVIOUS
<1>1. IInv /\ Backing BY InitInv, BackingInit DEF SysInit
<1>2. SysType BY DEF SysInit, SysType
<1>3. ASSUME NEW l \in Proposers, l = dep.leader PROVE DeployInv(l)
  <2>1. dep.rounds \in Nat /\ dep.rounds >= 1 BY <1>2, DeployTyped
  <2>2. \A a \in Acceptors : a >= 0 BY NAccAssumption DEF Acceptors
  <2>3. /\ bal[l] = BallotAt(l, 1) /\ pc[l] = "prepare" /\ idx[l] = 0 /\ pdec[l] = <<>>
        /\ Turn(l) = 1
    BY DEF SysInit, Init, PropInit, ChanInit, BallotAt, Turn
  <2>4. \A p \in Proposers, a \in Acceptors :
          /\ p1a[p][a] = <<>> /\ p2a[p][a] = <<>> /\ p1b[p][a] = <<>>
          /\ n1a[p][a] = 0 /\ n2a[p][a] = 0
    BY DEF SysInit, Init, ChanInit, Link
  <2>5. \A a \in Acceptors : maxBal[a] = ZeroBallot /\ handled[a] = 0
    BY DEF SysInit, Init, AccInit
  <2>6. Silent(l) BY <2>4 DEF Silent
  <2>7. InTurn(l) BY <2>1, <2>3 DEF InTurn
  <2>8. Sendings(l) BY <2>2, <2>3, <2>4 DEF Sendings, PreparesOut, AcceptsOut
  <2>9. Results(l) BY <2>3 DEF Results, Commitments
  <2>10. Turns(l)
    <3>1. Ble(ZeroBallot, BallotAt(l, dep.rounds))
      BY <2>1 DEF Ble, Blt, ZeroBallot, BallotAt
    <3>2. dep.rounds # 0 /\ Len(<<>>) = 0 BY <2>1
    <3>3. ASSUME NEW a \in Acceptors
          PROVE  /\ n1a[l][a] <= Len(p1a[l][a]) /\ n2a[l][a] <= Len(p2a[l][a])
                 /\ handled[a] = n1a[l][a] + n2a[l][a] /\ p1b[l][a] = <<>>
                 /\ Ble(maxBal[a], BallotAt(l, dep.rounds)) /\ n2a[l][a] # dep.rounds
      BY <2>4, <2>5, <3>1, <3>2
    <3> QED BY <3>3 DEF Turns
  <2>11. Joining(l) BY DEF Joining, SysInit
  <2> QED BY <2>6, <2>7, <2>8, <2>9, <2>10, <2>11 DEF DeployInv
<1> QED BY <1>1, <1>2, <1>3, DeployTyped DEF SysInv

-----------------------------------------------------------------------------
(* A driver's turn.                                                        *)

LEMMA TakesLeaders ==
  ASSUME IInv, SysType, NEW l \in Proposers, DeployInv(l), NEW a \in Acceptors,
         NEW p \in Proposers, OnPrepare(a, p) \/ OnAccept(a, p)
  PROVE  p = l
<1>1. n1a[p][a] \in Nat /\ n2a[p][a] \in Nat BY DEF IInv, TypeOK
<1>2. n1a[p][a] < Len(p1a[p][a]) \/ n2a[p][a] < Len(p2a[p][a])
  BY DEF OnPrepare, OnAccept, Pending
<1>3. p # l => p1a[p][a] = <<>> /\ p2a[p][a] = <<>> BY DEF DeployInv, Silent
<1> QED BY <1>1, <1>2, <1>3

LEMMA TakesPrepare ==
  ASSUME IInv, SysType, NEW l \in Proposers, l = dep.leader, DeployInv(l), NEW a \in Acceptors,
         Drive(a), OnPrepare(a, l)
  PROVE  Turns(l)'
<1>1. /\ TypeOK /\ dep' = dep /\ UNCHANGED <<p1a, p2a, n2a, p2b>>
      /\ n1a' = [n1a EXCEPT ![l][a] = n1a[l][a] + 1] /\ n1a[l][a] < Len(p1a[l][a])
      /\ handled' = [handled EXCEPT ![a] = handled[a] + 1] /\ a \in dep.live
  BY DEF IInv, Drive, OnPrepare, Pending
<1>2. /\ n1a'[l][a] = n1a[l][a] + 1 /\ handled'[a] = handled[a] + 1
      /\ \A b \in Acceptors : b # a => n1a'[l][b] = n1a[l][b] /\ handled'[b] = handled[b]
      /\ n1a[l][a] \in Nat /\ n2a[l][a] \in Nat /\ Len(p1a[l][a]) \in Nat
  <2>1. /\ n1a \in [Proposers -> [Acceptors -> Nat]] /\ n2a \in [Proposers -> [Acceptors -> Nat]]
        /\ p1a \in [Proposers -> [Acceptors -> Seq(Ballots)]]
    BY <1>1 DEF TypeOK
  <2>2. n1a[l][a] \in Nat /\ n2a[l][a] \in Nat /\ Len(p1a[l][a]) \in Nat
    <3>1. p1a[l][a] \in Seq(Ballots) BY <2>1
    <3> QED BY <2>1, <3>1
  <2>3. n1a'[l][a] = n1a[l][a] + 1 /\ \A b \in Acceptors : b # a => n1a'[l][b] = n1a[l][b]
    BY <1>1, <2>1
  <2>4. handled'[a] = handled[a] + 1 /\ \A b \in Acceptors : b # a => handled'[b] = handled[b]
    BY <1>1 DEF SysType
  <2> QED BY <2>2, <2>3, <2>4
<1>3. PICK m : m = p1a[l][a][n1a[l][a] + 1] OBVIOUS
<1>4. m = BallotAt(l, n1a[l][a] + 1)
  BY <1>1, <1>2, <1>3 DEF DeployInv, Sendings
<1>5. Len(p1a[l][a]) <= dep.rounds /\ dep.rounds \in Nat
  BY <1>1, OutBounds, DeployTyped DEF DeployInv, Sendings
<1>6. Ble(m, BallotAt(l, dep.rounds))
  <2>1. n1a[l][a] + 1 < dep.rounds \/ n1a[l][a] + 1 = dep.rounds BY <1>1, <1>2, <1>5
  <2> QED BY <1>4, <2>1 DEF Ble, Blt, BallotAt
<1>7. \/ UNCHANGED <<p1b, maxBal>>
      \/ /\ maxBal' = [maxBal EXCEPT ![a] = m]
         /\ \E x : p1b' = [p1b EXCEPT ![l][a] = Append(p1b[l][a], x)]
  BY <1>3 DEF OnPrepare, Oldest
<1>8. ASSUME NEW b \in Acceptors
      PROVE  /\ Ble(maxBal'[b], BallotAt(l, dep.rounds))
             /\ b # a => p1b'[l][b] = p1b[l][b]
  <2>1. maxBal'[b] = maxBal[b] \/ maxBal'[b] = m BY <1>1, <1>7 DEF TypeOK
  <2>2. b # a => p1b'[l][b] = p1b[l][b]
    <3>1. CASE p1b' = p1b BY <3>1
    <3>2. ASSUME NEW x, p1b' = [p1b EXCEPT ![l][a] = Append(p1b[l][a], x)]
          PROVE  b # a => p1b'[l][b] = p1b[l][b]
      <4>1. p1b \in [Proposers -> [Acceptors -> Seq(Promises)]] BY <1>1 DEF TypeOK
      <4>2. PICK s : s = Append(p1b[l][a], x) OBVIOUS
      <4> QED BY <3>2, <4>1, <4>2, AtLink
    <3> QED BY <1>7, <3>1, <3>2
  <2>3. Ble(maxBal[b], BallotAt(l, dep.rounds)) BY DEF DeployInv, Turns
  <2> QED BY <1>6, <2>1, <2>2, <2>3
<1>9. ASSUME NEW b \in Acceptors
      PROVE  /\ n1a'[l][b] <= Len(p1a[l][b]) /\ n2a[l][b] <= Len(p2a[l][b])
             /\ b \in dep.live => handled'[b] = n1a'[l][b] + n2a[l][b]
             /\ b \notin dep.live => p1b'[l][b] = <<>>
             /\ n2a[l][b] = dep.rounds => p2a[l][b][dep.rounds] \in Range(p2b[l][b])
  <2>1. CASE b = a
    <3>1. handled[a] = n1a[l][a] + n2a[l][a] /\ n2a[l][a] <= Len(p2a[l][a])
          /\ (n2a[l][a] = dep.rounds => p2a[l][a][dep.rounds] \in Range(p2b[l][a]))
      BY <1>1 DEF DeployInv, Turns
    <3> QED BY <1>1, <1>2, <2>1, <3>1
  <2>2. CASE b # a
    BY <1>1, <1>2, <1>8, <2>2 DEF DeployInv, Turns
  <2> QED BY <2>1, <2>2
<1> QED BY <1>1, <1>8, <1>9 DEF Turns, BallotAt, Range, Ble, Blt

LEMMA TakesAccept ==
  ASSUME IInv, SysType, NEW l \in Proposers, l = dep.leader, DeployInv(l), NEW a \in Acceptors,
         Drive(a), OnAccept(a, l)
  PROVE  Turns(l)'
<1>1. /\ TypeOK /\ dep' = dep /\ UNCHANGED <<p1a, p2a, n1a, p1b>>
      /\ n2a' = [n2a EXCEPT ![l][a] = n2a[l][a] + 1] /\ n2a[l][a] < Len(p2a[l][a])
      /\ handled' = [handled EXCEPT ![a] = handled[a] + 1] /\ a \in dep.live
  BY DEF IInv, Drive, OnAccept, Pending
<1>2. /\ n2a'[l][a] = n2a[l][a] + 1 /\ handled'[a] = handled[a] + 1
      /\ \A b \in Acceptors : b # a => n2a'[l][b] = n2a[l][b] /\ handled'[b] = handled[b]
      /\ n1a[l][a] \in Nat /\ n2a[l][a] \in Nat /\ Len(p2a[l][a]) \in Nat
  <2>1. /\ n1a \in [Proposers -> [Acceptors -> Nat]] /\ n2a \in [Proposers -> [Acceptors -> Nat]]
        /\ p2a \in [Proposers -> [Acceptors -> Seq(Proposals)]]
    BY <1>1 DEF TypeOK
  <2>2. n1a[l][a] \in Nat /\ n2a[l][a] \in Nat /\ Len(p2a[l][a]) \in Nat
    <3>1. p2a[l][a] \in Seq(Proposals) BY <2>1
    <3> QED BY <2>1, <3>1
  <2>3. n2a'[l][a] = n2a[l][a] + 1 /\ \A b \in Acceptors : b # a => n2a'[l][b] = n2a[l][b]
    BY <1>1, <2>1
  <2>4. handled'[a] = handled[a] + 1 /\ \A b \in Acceptors : b # a => handled'[b] = handled[b]
    BY <1>1 DEF SysType
  <2> QED BY <2>2, <2>3, <2>4
<1>3. PICK m : m = p2a[l][a][n2a[l][a] + 1] OBVIOUS
<1>4. m.bal = BallotAt(l, n2a[l][a] + 1) /\ m \in Proposals
  <2>1. n2a[l][a] + 1 \in 1 .. Len(p2a[l][a]) BY <1>1, <1>2
  <2>2. p2a[l][a] \in Seq(Proposals) BY <1>1 DEF TypeOK
  <2> QED BY <1>3, <2>1, <2>2 DEF DeployInv, Sendings
<1>5. Len(p2a[l][a]) <= dep.rounds /\ dep.rounds \in Nat
  BY <1>1, OutBounds, DeployTyped DEF DeployInv, Sendings
<1>6. Ble(m.bal, BallotAt(l, dep.rounds))
  <2>1. n2a[l][a] + 1 < dep.rounds \/ n2a[l][a] + 1 = dep.rounds BY <1>1, <1>2, <1>5
  <2> QED BY <1>4, <2>1 DEF Ble, Blt, BallotAt
<1>7. \/ ~WillAccept(a, m.bal) /\ UNCHANGED <<p2b, maxBal>>
      \/ /\ maxBal' = [maxBal EXCEPT ![a] = m.bal]
         /\ p2b' = [p2b EXCEPT ![l][a] = Append(p2b[l][a], Proposal(m.bal, m.val))]
  BY <1>3 DEF OnAccept, Oldest, accVars
<1>8. ASSUME NEW b \in Acceptors
      PROVE  /\ Ble(maxBal'[b], BallotAt(l, dep.rounds))
             /\ b # a => p2b'[l][b] = p2b[l][b]
  <2>1. maxBal'[b] = maxBal[b] \/ maxBal'[b] = m.bal BY <1>1, <1>7 DEF TypeOK
  <2>2. b # a => p2b'[l][b] = p2b[l][b]
    <3>1. CASE p2b' = p2b BY <3>1
    <3>2. ASSUME NEW x, p2b' = [p2b EXCEPT ![l][a] = Append(p2b[l][a], x)]
          PROVE  b # a => p2b'[l][b] = p2b[l][b]
      <4>1. p2b \in [Proposers -> [Acceptors -> Seq(Proposals)]] BY <1>1 DEF TypeOK
      <4>2. PICK s : s = Append(p2b[l][a], x) OBVIOUS
      <4> QED BY <3>2, <4>1, <4>2, AtLink
    <3> QED BY <1>7, <3>1, <3>2
  <2>3. Ble(maxBal[b], BallotAt(l, dep.rounds)) BY DEF DeployInv, Turns
  <2> QED BY <1>6, <2>1, <2>2, <2>3
<1>9. n2a[l][a] + 1 = dep.rounds => m \in Range(p2b'[l][a])
  <2> SUFFICES ASSUME n2a[l][a] + 1 = dep.rounds PROVE m \in Range(p2b'[l][a])
    OBVIOUS
  <2>1. m.bal = BallotAt(l, dep.rounds) /\ Ble(maxBal[a], m.bal) /\ maxBal[a] \in Ballots
    BY <1>1, <1>4 DEF DeployInv, Turns, TypeOK
  <2>2. m.bal \in Ballots BY <1>4 DEF Proposals
  <2>3. WillAccept(a, m.bal) BY <2>1, <2>2, BltOrder DEF Ble, WillAccept
  <2>4. PICK x : x = Proposal(m.bal, m.val) OBVIOUS
  <2>5. p2b \in [Proposers -> [Acceptors -> Seq(Proposals)]] BY <1>1 DEF TypeOK
  <2>6. p2b'[l][a] = Append(p2b[l][a], x) BY <1>7, <2>3, <2>4, <2>5
  <2>7. x = m BY <1>4, <2>4 DEF Proposal, Proposals
  <2> QED BY <1>4, <2>5, <2>6, <2>7, RangeAppend
<1>10. ASSUME NEW b \in Acceptors
      PROVE  /\ n1a[l][b] <= Len(p1a[l][b]) /\ n2a'[l][b] <= Len(p2a[l][b])
             /\ b \in dep.live => handled'[b] = n1a[l][b] + n2a'[l][b]
             /\ b \notin dep.live => p1b[l][b] = <<>>
             /\ n2a'[l][b] = dep.rounds => p2a[l][b][dep.rounds] \in Range(p2b'[l][b])
  <2>1. CASE b = a
    <3>1. handled[a] = n1a[l][a] + n2a[l][a] /\ n1a[l][a] <= Len(p1a[l][a])
      BY <1>1 DEF DeployInv, Turns
    <3>2. n2a'[l][a] = dep.rounds => p2a[l][a][dep.rounds] \in Range(p2b'[l][a])
      BY <1>2, <1>3, <1>9
    <3>3. n2a'[l][a] <= Len(p2a[l][a]) /\ handled'[a] = n1a[l][a] + n2a'[l][a]
      BY <1>1, <1>2, <3>1
    <3> QED BY <1>1, <2>1, <3>1, <3>2, <3>3
  <2>2. CASE b # a
    BY <1>1, <1>2, <1>8, <2>2 DEF DeployInv, Turns
  <2> QED BY <2>1, <2>2
<1> QED BY <1>1, <1>8, <1>10 DEF Turns, BallotAt, Range, Ble, Blt

LEMMA DriveDeploy ==
  ASSUME IInv, SysType, NEW l \in Proposers, l = dep.leader, DeployInv(l), NEW a \in Acceptors,
         Drive(a)
  PROVE  DeployInv(l)' /\ SysType'
<1>1. PICK p \in Proposers : OnPrepare(a, p) \/ OnAccept(a, p)
  BY DEF Drive, AcceptorStep
<1>2. p = l BY <1>1, TakesLeaders
<1>3. UNCHANGED <<p1a, p2a, pdec, pc, idx, bal, dep, main, ret>>
  BY <1>1 DEF Drive, OnPrepare, OnAccept, propVars
<1>4. SysType' BY <1>3 DEF SysType, Drive
<1>5. Turns(l)' BY <1>1, <1>2, TakesPrepare, TakesAccept
<1>6. Silent(l)' BY <1>3 DEF DeployInv, Silent
<1>7. InTurn(l)' BY <1>3 DEF DeployInv, InTurn, Turn
<1>8. Sendings(l)' BY <1>3 DEF DeployInv, Sendings, PreparesOut, AcceptsOut, Turn, BallotAt
<1>9. Results(l)' BY <1>3 DEF DeployInv, Results, Commitments, Turn
<1>10. main # "returned"
  <2>1. Budget \in Nat /\ handled[a] \in Nat /\ a \in dep.live /\ handled[a] < Budget
    BY DeployTyped DEF Budget, SysType, Drive
  <2> QED BY <2>1 DEF DeployInv, Joining, Exited
<1>11. Joining(l)' BY <1>3, <1>10 DEF DeployInv, Joining, Turn
<1> QED BY <1>4, <1>5, <1>6, <1>7, <1>8, <1>9, <1>11 DEF DeployInv

-----------------------------------------------------------------------------
(* The leader's steps.                                                     *)

LEMMA LinkLengths ==
  ASSUME TypeOK, NEW p \in Proposers, NEW a \in Acceptors
  PROVE  /\ n1a[p][a] \in Nat /\ n2a[p][a] \in Nat
         /\ Len(p1a[p][a]) \in Nat /\ Len(p2a[p][a]) \in Nat
<1>1. p1a[p][a] \in Seq(Ballots) /\ p2a[p][a] \in Seq(Proposals) BY DEF TypeOK
<1>2. n1a[p][a] \in Nat /\ n2a[p][a] \in Nat BY DEF TypeOK
<1> QED BY <1>1, <1>2

LEMMA TurnsKept ==
  ASSUME IInv, SysType, NEW l \in Proposers, DeployInv(l),
         UNCHANGED <<n1a, n2a, p1b, p2b, maxBal, handled, dep>>,
         \A a \in Acceptors :
           /\ Len(p1a[l][a]) <= Len(p1a'[l][a]) /\ Len(p2a[l][a]) <= Len(p2a'[l][a])
           /\ Len(p1a'[l][a]) \in Nat /\ Len(p2a'[l][a]) \in Nat
           /\ \A i \in 1 .. Len(p2a[l][a]) : p2a'[l][a][i] = p2a[l][a][i]
  PROVE  Turns(l)'
<1>1. ASSUME NEW a \in Acceptors
      PROVE  /\ n1a[l][a] <= Len(p1a'[l][a]) /\ n2a[l][a] <= Len(p2a'[l][a])
             /\ n2a[l][a] = dep.rounds => p2a'[l][a][dep.rounds] \in Range(p2b[l][a])
  <2>1. /\ n1a[l][a] <= Len(p1a[l][a]) /\ n2a[l][a] <= Len(p2a[l][a])
        /\ n2a[l][a] = dep.rounds => p2a[l][a][dep.rounds] \in Range(p2b[l][a])
    BY DEF DeployInv, Turns
  <2>2. /\ n1a[l][a] \in Nat /\ n2a[l][a] \in Nat
        /\ Len(p1a[l][a]) \in Nat /\ Len(p2a[l][a]) \in Nat
        /\ dep.rounds \in Nat /\ dep.rounds >= 1
    BY DeployTyped, LinkLengths DEF IInv
  <2>3. n2a[l][a] = dep.rounds => dep.rounds \in 1 .. Len(p2a[l][a]) BY <2>1, <2>2
  <2>4. n2a[l][a] = dep.rounds => p2a'[l][a][dep.rounds] = p2a[l][a][dep.rounds] BY <2>3
  <2>5. n2a[l][a] = dep.rounds => p2a'[l][a][dep.rounds] \in Range(p2b[l][a])
    BY <2>1, <2>4
  <2>6. PICK i1, i2 : i1 = Len(p1a[l][a]) /\ i2 = Len(p2a[l][a]) OBVIOUS
  <2>7. PICK j1, j2 : j1 = Len(p1a'[l][a]) /\ j2 = Len(p2a'[l][a]) OBVIOUS
  <2>8. i1 <= j1 /\ i2 <= j2 /\ j1 \in Nat /\ j2 \in Nat BY <2>6, <2>7
  <2>9. n1a[l][a] <= j1 /\ n2a[l][a] <= j2 BY <2>1, <2>2, <2>6, <2>8
  <2> QED BY <2>5, <2>7, <2>9
<1> QED BY <1>1 DEF DeployInv, Turns, BallotAt, Range, Ble, Blt

(* A send to acceptor a0: the other links of the leader, and the others'   *)
(* links, are as they were.                                                *)
LEMMA LinkAdded ==
  ASSUME NEW S, NEW f \in [Proposers -> [Acceptors -> Seq(S)]], NEW g,
         NEW l \in Proposers, NEW a0 \in Acceptors, NEW m \in S,
         g = [f EXCEPT ![l][a0] = Append(f[l][a0], m)]
  PROVE  /\ \A p \in Proposers \ {l}, a \in Acceptors : g[p][a] = f[p][a]
         /\ \A a \in Acceptors \ {a0} : g[l][a] = f[l][a]
         /\ Len(g[l][a0]) = Len(f[l][a0]) + 1
         /\ g[l][a0][Len(f[l][a0]) + 1] = m
         /\ \A a \in Acceptors : /\ Len(f[l][a]) <= Len(g[l][a])
                                 /\ Len(f[l][a]) \in Nat /\ Len(g[l][a]) \in Nat
                                 /\ \A i \in 1 .. Len(f[l][a]) : g[l][a][i] = f[l][a][i]
<1>1. PICK s : s = f[l][a0] OBVIOUS
<1>2. s \in Seq(S) BY <1>1
<1>3. PICK t : t = Append(s, m) OBVIOUS
<1>4. /\ t \in Seq(S) /\ Len(t) = Len(s) + 1 /\ t[Len(s) + 1] = m
      /\ \A i \in 1 .. Len(s) : t[i] = s[i]
  BY <1>2, <1>3
<1>5. g[l][a0] = t /\ \A q \in Proposers, b \in Acceptors : q # l \/ b # a0 => g[q][b] = f[q][b]
  BY <1>1, <1>3, AtLink
<1>6. \A a \in Acceptors : Len(f[l][a]) \in Nat OBVIOUS
<1>7. Len(s) \in Nat BY <1>2
<1> QED BY <1>1, <1>4, <1>5, <1>6, <1>7

LEMMA BallotInPlay ==
  ASSUME IInv, NEW l \in Proposers
  PROVE  bal[l] = BallotAt(l, Turn(l))
BY DEF IInv, TypeOK, BallotsOwned, Ballots, BallotAt, Turn

LEMMA SendPrepareDeploy ==
  ASSUME IInv, SysType, NEW l \in Proposers, l = dep.leader, DeployInv(l),
         main = "rounds", Turn(l) <= dep.rounds, SendPrepare(l),
         UNCHANGED <<dep, handled, main, ret>>
  PROVE  DeployInv(l)'
<1>0. TypeOK BY DEF IInv
<1>1. PICK a0 : a0 = idx[l] OBVIOUS
<1>2. PICK b : b = bal[l] OBVIOUS
<1>3. /\ a0 \in Acceptors /\ b \in Ballots /\ a0 \in Nat /\ a0 < NAcc /\ NAcc \in Nat
      /\ p1a \in [Proposers -> [Acceptors -> Seq(Ballots)]]
  <2>1. a0 \in Acceptors /\ b \in Ballots BY <1>0, <1>1, <1>2 DEF TypeOK
  <2>2. a0 \in Nat /\ a0 < NAcc /\ NAcc \in Nat BY <2>1, NAccAssumption DEF Acceptors
  <2> QED BY <1>0, <2>1, <2>2 DEF TypeOK
<1>4. p1a' = [p1a EXCEPT ![l][a0] = Append(p1a[l][a0], b)]
      /\ UNCHANGED <<p1b, p2a, p2b, n1a, n1b, n2a, pdec, bal, got, val, maxBal>>
      /\ pc[l] = "prepare"
  BY <1>1, <1>2 DEF SendPrepare, accVars
<1>5. \/ /\ a0 + 1 < NAcc /\ idx'[l] = a0 + 1 /\ pc'[l] = "prepare"
      \/ /\ ~(a0 + 1 < NAcc) /\ idx'[l] = 0 /\ pc'[l] = "gather"
  BY <1>0, <1>1, <1>4 DEF SendPrepare, MoreAcceptors, TypeOK
<1>6. /\ \A p \in Proposers \ {l}, a \in Acceptors : p1a'[p][a] = p1a[p][a]
      /\ \A a \in Acceptors \ {a0} : p1a'[l][a] = p1a[l][a]
      /\ Len(p1a'[l][a0]) = Len(p1a[l][a0]) + 1
      /\ p1a'[l][a0][Len(p1a[l][a0]) + 1] = b
      /\ \A a \in Acceptors :
           /\ Len(p1a[l][a]) <= Len(p1a'[l][a])
           /\ Len(p1a[l][a]) \in Nat /\ Len(p1a'[l][a]) \in Nat
           /\ \A i \in 1 .. Len(p1a[l][a]) : p1a'[l][a][i] = p1a[l][a][i]
  BY <1>3, <1>4, LinkAdded
<1>7. PICK r : r = Turn(l) OBVIOUS
<1>8. r \in Nat /\ r >= 1 /\ Turn(l)' = r /\ b = BallotAt(l, r)
  BY <1>0, <1>2, <1>4, <1>7, BallotInPlay, DeployTyped DEF Turn, DeployInv, InTurn
<1>9. \A a \in Acceptors : a \in Nat /\ a < NAcc BY NAccAssumption DEF Acceptors
<1>10. ASSUME NEW a \in Acceptors
       PROVE  /\ Len(p1a'[l][a]) = PreparesOut(l, a)' /\ Len(p2a'[l][a]) = AcceptsOut(l, a)'
              /\ \A i \in 1 .. Len(p1a'[l][a]) : p1a'[l][a][i] = BallotAt(l, i)
  <2>1. /\ Len(p1a[l][a]) = IF a0 <= a THEN r - 1 ELSE r
        /\ Len(p2a[l][a]) = r - 1
        /\ \A i \in 1 .. Len(p1a[l][a]) : p1a[l][a][i] = BallotAt(l, i)
    BY <1>1, <1>4, <1>7 DEF DeployInv, Sendings, PreparesOut, AcceptsOut
  <2>2. AcceptsOut(l, a)' = r - 1
    BY <1>5, <1>8 DEF AcceptsOut
  <2>3. PreparesOut(l, a)' = IF a0 + 1 <= a THEN r - 1 ELSE r
    BY <1>3, <1>5, <1>8, <1>9 DEF PreparesOut
  <2>4. CASE a = a0
    <3>1. Len(p1a[l][a]) = r - 1 /\ Len(p1a'[l][a]) = r BY <1>3, <1>6, <1>8, <2>1, <2>4
    <3>2. p1a'[l][a][r] = BallotAt(l, r) BY <1>6, <1>8, <2>4, <3>1
    <3>3. \A i \in 1 .. r : i = r \/ i \in 1 .. r - 1 BY <1>8
    <3> QED BY <1>3, <1>4, <1>6, <1>8, <2>1, <2>2, <2>3, <2>4, <3>1, <3>2, <3>3
  <2>5. CASE a # a0
    <3>1. a0 <= a <=> a0 + 1 <= a BY <1>3, <1>9, <2>5
    <3> QED BY <1>4, <1>6, <2>1, <2>2, <2>3, <2>5, <3>1
  <2> QED BY <2>4, <2>5
<1>11. Sendings(l)' BY <1>4, <1>10 DEF DeployInv, Sendings, BallotAt
<1>12. Silent(l)' BY <1>4, <1>6 DEF DeployInv, Silent
<1>13. InTurn(l)' BY <1>5, <1>7, <1>8, DeployTyped DEF DeployInv, InTurn
<1>14. Results(l)' BY <1>4, <1>5, <1>7, <1>8 DEF DeployInv, Results, Commitments
<1>15. Turns(l)'
  <2>1. \A a \in Acceptors : Len(p1a[l][a]) \in Nat /\ Len(p2a[l][a]) \in Nat
    BY LinkLengths DEF IInv
  <2>2. \A a \in Acceptors :
          /\ Len(p1a[l][a]) <= Len(p1a'[l][a]) /\ Len(p2a[l][a]) <= Len(p2a'[l][a])
          /\ Len(p1a'[l][a]) \in Nat /\ Len(p2a'[l][a]) \in Nat
          /\ \A i \in 1 .. Len(p2a[l][a]) : p2a'[l][a][i] = p2a[l][a][i]
    BY <1>4, <1>6, <2>1
  <2>3. UNCHANGED <<n1a, n2a, p1b, p2b, maxBal, handled, dep>> BY <1>4
  <2> QED BY <2>2, <2>3, TurnsKept
<1>16. Joining(l)' BY DEF Joining
<1> QED BY <1>11, <1>12, <1>13, <1>14, <1>15, <1>16 DEF DeployInv

LEMMA SendAcceptDeploy ==
  ASSUME IInv, SysType, NEW l \in Proposers, l = dep.leader, DeployInv(l),
         main = "rounds", Turn(l) <= dep.rounds, SendAccept(l),
         UNCHANGED <<dep, handled, main, ret>>
  PROVE  DeployInv(l)'
<1>0. TypeOK BY DEF IInv
<1>1. PICK a0 : a0 = idx[l] OBVIOUS
<1>2. PICK m : m = AcceptMsg(l) OBVIOUS
<1>3. /\ a0 \in Acceptors /\ a0 \in Nat /\ a0 < NAcc /\ NAcc \in Nat /\ pc[l] = "accept"
      /\ p2a \in [Proposers -> [Acceptors -> Seq(Proposals)]]
  BY <1>0, <1>1, NAccAssumption DEF TypeOK, Acceptors, SendAccept
<1>4. m \in Proposals /\ m.bal = bal[l]
  BY <1>2, <1>3 DEF IInv, TypeOK, ValueHeld, AcceptMsg, Proposal, Proposals
<1>5. p2a' = [p2a EXCEPT ![l][a0] = Append(p2a[l][a0], m)]
      /\ UNCHANGED <<p1a, p1b, p2b, n1a, n1b, n2a, pdec, maxBal>>
  BY <1>1, <1>2 DEF SendAccept, accVars
<1>6. PICK r : r = Turn(l) OBVIOUS
<1>7. r \in Nat /\ r >= 1 /\ m.bal = BallotAt(l, r)
  BY <1>0, <1>4, <1>6, BallotInPlay, DeployTyped DEF DeployInv, InTurn
<1>8. \/ /\ a0 + 1 < NAcc /\ idx'[l] = a0 + 1 /\ pc'[l] = "accept" /\ Turn(l)' = r
      \/ /\ ~(a0 + 1 < NAcc) /\ idx'[l] = 0 /\ pc'[l] = "prepare" /\ Turn(l)' = r + 1
  <2>1. /\ idx \in [Proposers -> Acceptors] /\ bal \in [Proposers -> Ballots]
        /\ pc \in [Proposers -> {"prepare", "gather", "accept"}]
    BY <1>0 DEF TypeOK
  <2>2. bal[l] \in Ballots /\ [bal[l] EXCEPT !.round = @ + 1].round = bal[l].round + 1
    BY <2>1 DEF Ballots
  <2>3. CASE a0 + 1 < NAcc
    BY <1>1, <1>3, <1>6, <2>1, <2>3 DEF SendAccept, MoreAcceptors, Turn
  <2>4. CASE ~(a0 + 1 < NAcc)
    BY <1>1, <1>6, <2>1, <2>2, <2>4 DEF SendAccept, MoreAcceptors, Turn
  <2> QED BY <2>3, <2>4
<1>9. /\ \A p \in Proposers \ {l}, a \in Acceptors : p2a'[p][a] = p2a[p][a]
      /\ \A a \in Acceptors \ {a0} : p2a'[l][a] = p2a[l][a]
      /\ Len(p2a'[l][a0]) = Len(p2a[l][a0]) + 1
      /\ p2a'[l][a0][Len(p2a[l][a0]) + 1] = m
      /\ \A a \in Acceptors :
           /\ Len(p2a[l][a]) <= Len(p2a'[l][a])
           /\ Len(p2a[l][a]) \in Nat /\ Len(p2a'[l][a]) \in Nat
           /\ \A i \in 1 .. Len(p2a[l][a]) : p2a'[l][a][i] = p2a[l][a][i]
  BY <1>3, <1>4, <1>5, LinkAdded
<1>10. \A a \in Acceptors : a \in Nat /\ a < NAcc BY NAccAssumption DEF Acceptors
<1>11. ASSUME NEW a \in Acceptors
       PROVE  /\ Len(p1a'[l][a]) = PreparesOut(l, a)' /\ Len(p2a'[l][a]) = AcceptsOut(l, a)'
              /\ \A i \in 1 .. Len(p2a'[l][a]) : p2a'[l][a][i].bal = BallotAt(l, i)
  <2>1. /\ Len(p1a[l][a]) = r /\ Len(p2a[l][a]) = IF a < a0 THEN r ELSE r - 1
        /\ \A i \in 1 .. Len(p2a[l][a]) : p2a[l][a][i].bal = BallotAt(l, i)
    BY <1>1, <1>3, <1>6 DEF DeployInv, Sendings, PreparesOut, AcceptsOut
  <2>2. PreparesOut(l, a)' = r
    BY <1>7, <1>8, <1>10 DEF PreparesOut
  <2>3. AcceptsOut(l, a)' = IF a < a0 + 1 THEN r ELSE r - 1
    BY <1>3, <1>7, <1>8, <1>10 DEF AcceptsOut
  <2>4. CASE a = a0
    <3>1. Len(p2a[l][a]) = r - 1 /\ Len(p2a'[l][a]) = r BY <1>3, <1>7, <1>9, <2>1, <2>4
    <3>2. p2a'[l][a][r].bal = BallotAt(l, r) BY <1>7, <1>9, <2>4, <3>1
    <3>3. \A i \in 1 .. r : i = r \/ i \in 1 .. r - 1 BY <1>7
    <3> QED BY <1>3, <1>5, <1>7, <1>9, <2>1, <2>2, <2>3, <2>4, <3>1, <3>2, <3>3
  <2>5. CASE a # a0
    <3>1. a < a0 <=> a < a0 + 1 BY <1>3, <1>10, <2>5
    <3> QED BY <1>5, <1>9, <2>1, <2>2, <2>3, <2>5, <3>1
  <2> QED BY <2>4, <2>5
<1>12. Sendings(l)' BY <1>5, <1>11 DEF DeployInv, Sendings, BallotAt
<1>13. Silent(l)' BY <1>5, <1>9 DEF DeployInv, Silent
<1>14. InTurn(l)' BY <1>6, <1>7, <1>8, DeployTyped DEF DeployInv, InTurn
<1>15. Results(l)' BY <1>3, <1>5, <1>6, <1>7, <1>8 DEF DeployInv, Results, Commitments
<1>16. Turns(l)'
  <2>1. \A a \in Acceptors : Len(p1a[l][a]) \in Nat /\ Len(p2a[l][a]) \in Nat
    BY LinkLengths DEF IInv
  <2>2. \A a \in Acceptors :
          /\ Len(p1a[l][a]) <= Len(p1a'[l][a]) /\ Len(p2a[l][a]) <= Len(p2a'[l][a])
          /\ Len(p1a'[l][a]) \in Nat /\ Len(p2a'[l][a]) \in Nat
          /\ \A i \in 1 .. Len(p2a[l][a]) : p2a'[l][a][i] = p2a[l][a][i]
    BY <1>5, <1>9, <2>1
  <2>3. UNCHANGED <<n1a, n2a, p1b, p2b, maxBal, handled, dep>> BY <1>5
  <2> QED BY <2>2, <2>3, TurnsKept
<1>17. Joining(l)' BY DEF Joining
<1> QED BY <1>12, <1>13, <1>14, <1>15, <1>16, <1>17 DEF DeployInv

LEMMA CommitDeploy ==
  ASSUME IInv, SysType, NEW l \in Proposers, l = dep.leader, DeployInv(l),
         main = "rounds", Turn(l) <= dep.rounds, Commit(l),
         ret' = (IF pdec'[l] # pdec[l] THEN val'[l] ELSE ret),
         UNCHANGED <<dep, handled, main>>
  PROVE  DeployInv(l)'
<1>0. TypeOK BY DEF IInv
<1>1. PICK v \in Values : /\ pdec' = [pdec EXCEPT ![l] = Append(@, Proposal(bal[l], v))]
                          /\ val' = [val EXCEPT ![l] = v]
  BY DEF Commit
<1>2. PICK m : m = Proposal(bal[l], v) OBVIOUS
<1>3. PICK r : r = Turn(l) OBVIOUS
<1>4. r \in Nat /\ r >= 1 /\ m.bal.round = r /\ m.val = v
  BY <1>0, <1>2, <1>3, DeployTyped DEF DeployInv, InTurn, Proposal, Turn
<1>5. /\ UNCHANGED <<p1a, p1b, p2a, p2b, n1a, n1b, n2a, maxBal, idx, bal, got>>
      /\ pc[l] = "gather" /\ pc'[l] = "accept" /\ idx[l] = 0
  BY <1>0 DEF Commit, accVars, DeployInv, InTurn, TypeOK
<1>6. PICK s, t : s = pdec[l] /\ t = pdec'[l] OBVIOUS
<1>7. /\ s \in Seq(Proposals) /\ m \in Proposals /\ t = Append(s, m)
      /\ Len(s) = r - 1 /\ val'[l] = v
      /\ \A i \in 1 .. Len(s) : s[i].bal.round = i
  BY <1>0, <1>1, <1>2, <1>3, <1>5, <1>6
     DEF TypeOK, Proposal, Proposals, DeployInv, Results, Commitments
<1>8. /\ Len(t) = r /\ t[r] = m /\ t # s
      /\ \A i \in 1 .. r : t[i].bal.round = i
  <2>1. Len(t) = r /\ t[r] = m /\ \A i \in 1 .. Len(s) : t[i] = s[i] BY <1>4, <1>7
  <2>2. Len(t) # Len(s) BY <1>4, <1>7, <2>1
  <2>3. \A i \in 1 .. r : i = r \/ i \in 1 .. Len(s) BY <1>4, <1>7
  <2> QED BY <1>4, <1>7, <2>1, <2>2, <2>3
<1>9. Results(l)'
  BY <1>3, <1>4, <1>5, <1>6, <1>7, <1>8 DEF Results, Commitments, Turn
<1>10. Sendings(l)'
  <2>1. \A a \in Acceptors : a >= 0 /\ ~(a < 0) BY NAccAssumption DEF Acceptors
  <2> QED BY <1>5, <2>1 DEF DeployInv, Sendings, PreparesOut, AcceptsOut, Turn, BallotAt
<1>11. Silent(l)' BY <1>5 DEF DeployInv, Silent
<1>12. InTurn(l)' BY <1>3, <1>4, <1>5, DeployTyped DEF DeployInv, InTurn, Turn
<1>13. Turns(l)'
  <2>1. \A a \in Acceptors : Len(p1a[l][a]) \in Nat /\ Len(p2a[l][a]) \in Nat
    BY LinkLengths DEF IInv
  <2> QED BY <1>5, <2>1, TurnsKept
<1>14. Joining(l)' BY DEF Joining
<1> QED BY <1>9, <1>10, <1>11, <1>12, <1>13, <1>14 DEF DeployInv

LEMMA CollectDeploy ==
  ASSUME IInv, SysType, NEW l \in Proposers, l = dep.leader, DeployInv(l), main = "rounds",
         NEW a \in Acceptors, Collect(l, a), UNCHANGED <<dep, handled, main, ret>>
  PROVE  DeployInv(l)'
<1>1. UNCHANGED <<p1a, p1b, p2a, p2b, n1a, n2a, pdec, maxBal, pc, idx, bal, val>>
  BY DEF Collect, accVars
<1>2. Turns(l)'
  <2>1. \A x \in Acceptors : Len(p1a[l][x]) \in Nat /\ Len(p2a[l][x]) \in Nat
    BY LinkLengths DEF IInv
  <2> QED BY <1>1, <2>1, TurnsKept
<1>3. Silent(l)' BY <1>1 DEF DeployInv, Silent
<1>4. InTurn(l)' BY <1>1 DEF DeployInv, InTurn, Turn
<1>5. Sendings(l)' BY <1>1 DEF DeployInv, Sendings, PreparesOut, AcceptsOut, Turn, BallotAt
<1>6. Results(l)' BY <1>1 DEF DeployInv, Results, Commitments, Turn
<1>7. Joining(l)' BY DEF Joining
<1> QED BY <1>2, <1>3, <1>4, <1>5, <1>6, <1>7 DEF DeployInv

LEMMA RoundDeploy ==
  ASSUME IInv, SysType, NEW l \in Proposers, l = dep.leader, DeployInv(l), Round
  PROVE  DeployInv(l)'
<1>1. /\ main = "rounds" /\ Turn(l) <= dep.rounds /\ ProposerStep(l)
      /\ ret' = (IF pdec'[l] # pdec[l] THEN val'[l] ELSE ret)
      /\ UNCHANGED <<dep, handled, main>>
  BY DEF Round, RoundsLeft, Turn
<1>2. CASE SendPrepare(l)
  <2>1. ret' = ret BY <1>1, <1>2 DEF SendPrepare
  <2> QED BY <1>1, <1>2, <2>1, SendPrepareDeploy
<1>3. CASE SendAccept(l)
  <2>1. ret' = ret BY <1>1, <1>3 DEF SendAccept
  <2> QED BY <1>1, <1>3, <2>1, SendAcceptDeploy
<1>4. CASE Commit(l) BY <1>1, <1>4, CommitDeploy
<1>5. ASSUME NEW a \in Acceptors, Collect(l, a) PROVE DeployInv(l)'
  <2>1. ret' = ret BY <1>1, <1>5 DEF Collect
  <2> QED BY <1>1, <1>5, <2>1, CollectDeploy
<1> QED BY <1>1, <1>2, <1>3, <1>4, <1>5 DEF ProposerStep

LEMMA EndDeploy ==
  ASSUME IInv, SysType, NEW l \in Proposers, l = dep.leader, DeployInv(l),
         RoundsDone \/ Join \/ Returned \/ UNCHANGED sysVars
  PROVE  DeployInv(l)' /\ SysType'
<1>1. UNCHANGED <<p1a, p2a, p1b, p2b, n1a, n2a, pdec, maxBal, pc, idx, bal, dep, handled, ret>>
  BY DEF RoundsDone, Join, Returned, sysVars, vars
<1>2. SysType' BY <1>1 DEF SysType, RoundsDone, Join, Returned, sysVars
<1>3. Turns(l)'
  <2>1. \A a \in Acceptors : Len(p1a[l][a]) \in Nat /\ Len(p2a[l][a]) \in Nat
    BY LinkLengths DEF IInv
  <2> QED BY <1>1, <2>1, TurnsKept
<1>4. Silent(l)' BY <1>1 DEF DeployInv, Silent
<1>5. InTurn(l)' BY <1>1 DEF DeployInv, InTurn, Turn
<1>6. Sendings(l)' BY <1>1 DEF DeployInv, Sendings, PreparesOut, AcceptsOut, Turn, BallotAt
<1>7. Results(l)' BY <1>1 DEF DeployInv, Results, Commitments, Turn
<1>8. Joining(l)'
  <2>1. CASE RoundsDone
    <3>1. /\ main' = "joining" /\ ~(Turn(l) <= dep.rounds) BY <2>1 DEF RoundsDone, RoundsLeft, Turn
    <3>2. Turn(l) = dep.rounds + 1 BY <3>1, DeployTyped DEF DeployInv, InTurn
    <3> QED BY <1>1, <3>1, <3>2 DEF Joining, Turn
  <2>2. CASE Join
    BY <1>1, <2>2 DEF Join, Joining, DeployInv, Turn, Exited, Budget
  <2>3. CASE Returned \/ UNCHANGED sysVars
    BY <1>1, <2>3 DEF Returned, sysVars, Joining, DeployInv, Turn, Exited, Budget
  <2> QED BY <2>1, <2>2, <2>3
<1> QED BY <1>2, <1>3, <1>4, <1>5, <1>6, <1>7, <1>8 DEF DeployInv

LEMMA StepDeploy == SysInv /\ [SysNext]_sysVars => SysInv'
<1> SUFFICES ASSUME SysInv, [SysNext]_sysVars PROVE SysInv'
  OBVIOUS
<1>1. IInv /\ Backing /\ SysType BY DEF SysInv
<1>2. IInv' /\ Backing' BY <1>1, SysIsPaxos, StepInv, BackingStep
<1>3. PICK l \in Proposers : l = dep.leader BY <1>1, DeployTyped
<1>4. DeployInv(l) BY <1>3 DEF SysInv
<1>5. DeployInv(l)' /\ SysType' /\ dep' = dep
  <2>1. ASSUME NEW a \in Acceptors, Drive(a) PROVE DeployInv(l)' /\ SysType' /\ dep' = dep
    BY <1>1, <1>3, <1>4, <2>1, DriveDeploy DEF Drive
  <2>2. CASE Round
    <3>1. SysType' /\ dep' = dep BY <1>1, <2>2 DEF Round, SysType
    <3> QED BY <1>1, <1>3, <1>4, <2>2, <3>1, RoundDeploy
  <2>3. CASE RoundsDone \/ Join \/ Returned \/ UNCHANGED sysVars
    <3>1. dep' = dep BY <2>3 DEF RoundsDone, Join, Returned, sysVars
    <3> QED BY <1>1, <1>3, <1>4, <2>3, <3>1, EndDeploy
  <2> QED BY <2>1, <2>2, <2>3 DEF SysNext
<1>6. \A k \in {dep'.leader} : DeployInv(k)' BY <1>3, <1>5
<1> QED BY <1>2, <1>5, <1>6 DEF SysInv

LEMMA SysInvHolds == SysSpec => []SysInv
BY InitDeploy, StepDeploy, PTL DEF SysSpec

(* A deployment is Paxos: what is proved of it, agreement for one, holds   *)
(* of deploy_paxos and deploy_paxos_two with any number of acceptors.      *)
THEOREM DeploymentsArePaxos == SysSpec => Spec
<1>1. SysInit => Init BY DEF SysInit
<1>2. SysInv /\ [SysNext]_sysVars => [Next]_vars BY SysIsPaxos DEF SysInv
<1> QED BY <1>1, <1>2, SysInvHolds, PTL DEF SysSpec, Spec

(* run() handles 2 * rounds messages and that is all there will ever be:   *)
(* no send reaches an acceptor that has dropped its mailbox.               *)
THEOREM NoSendToExitedHolds == SysSpec => NoSendToExited
<1> DEFINE NoSend == /\ \A a \in Acceptors, p \in Proposers :
                          Exited(a) => p1a'[p][a] = p1a[p][a] /\ p2a'[p][a] = p2a[p][a]
                     /\ main = "returned" => UNCHANGED <<p1b, p2b>>
<1>1. SysInv /\ [SysNext]_sysVars => [NoSend]_sysVars
  <2> SUFFICES ASSUME SysInv, SysNext PROVE NoSend
    OBVIOUS
  <2>0. IInv /\ SysType /\ TypeOK BY DEF SysInv, IInv
  <2>1. PICK l \in Proposers : l = dep.leader BY <2>0, DeployTyped
  <2>2. DeployInv(l) BY <2>1 DEF SysInv
  <2>3. dep.rounds \in Nat /\ dep.rounds >= 1 BY <2>0, DeployTyped
  <2>4. ASSUME NEW a \in Acceptors, Drive(a) PROVE NoSend
    <3>1. p1a' = p1a /\ p2a' = p2a BY <2>4 DEF Drive, AcceptorStep, OnPrepare, OnAccept
    <3>2. main # "returned"
      <4>1. Budget \in Nat /\ handled[a] \in Nat /\ a \in dep.live /\ handled[a] < Budget
        BY <2>0, <2>3, <2>4 DEF Budget, SysType, Drive
      <4> QED BY <2>2, <4>1 DEF DeployInv, Joining, Exited
    <3> QED BY <3>1, <3>2
  <2>5. CASE Round
    <3>1. main = "rounds" /\ Turn(l) <= dep.rounds /\ ProposerStep(l)
      BY <2>1, <2>5 DEF Round, RoundsLeft, Turn
    <3>2. ASSUME NEW a \in Acceptors, Exited(a), a = idx[l]
          PROVE  ~SendPrepare(l) /\ ~SendAccept(l)
      <4>1. /\ n1a[l][a] \in Nat /\ n2a[l][a] \in Nat
            /\ Len(p1a[l][a]) \in Nat /\ Len(p2a[l][a]) \in Nat
        BY <2>0, LinkLengths
      <4>2. /\ n1a[l][a] <= Len(p1a[l][a]) /\ n2a[l][a] <= Len(p2a[l][a])
            /\ n1a[l][a] + n2a[l][a] = 2 * dep.rounds
        BY <2>2, <3>2 DEF Exited, Budget, DeployInv, Turns
      <4>3. PICK r, n, x, y : r = Turn(l) /\ n = dep.rounds /\ x = Len(p1a[l][a])
                              /\ y = Len(p2a[l][a])
        OBVIOUS
      <4>4. x + y >= 2 * n /\ r \in Nat /\ r <= n /\ r >= 1 /\ n \in Nat
        <5>1. r \in Nat /\ r <= n /\ r >= 1 /\ n \in Nat
          BY <2>2, <2>3, <3>1, <4>3 DEF DeployInv, InTurn
        <5>2. PICK u, v : u = n1a[l][a] /\ v = n2a[l][a] OBVIOUS
        <5>3. u \in Nat /\ v \in Nat /\ x \in Nat /\ y \in Nat BY <4>1, <4>3, <5>2
        <5>4. u <= x /\ v <= y /\ u + v = 2 * n BY <4>2, <4>3, <5>2
        <5> QED BY <5>1, <5>3, <5>4
      <4>5. x = PreparesOut(l, a) /\ y = AcceptsOut(l, a) /\ a \in Nat
        BY <2>2, <4>3, NAccAssumption DEF DeployInv, Sendings, Acceptors
      <4>6. SendPrepare(l) => x = r - 1 /\ y = r - 1
        BY <3>2, <4>3, <4>5 DEF SendPrepare, PreparesOut, AcceptsOut
      <4>7. SendAccept(l) => x = r /\ y = r - 1
        BY <3>2, <4>3, <4>5 DEF SendAccept, PreparesOut, AcceptsOut
      <4> QED BY <4>4, <4>6, <4>7
    <3>3. ASSUME NEW a \in Acceptors, NEW p \in Proposers, Exited(a)
          PROVE  p1a'[p][a] = p1a[p][a] /\ p2a'[p][a] = p2a[p][a]
      <4>1. CASE SendPrepare(l)
        <5>1. a # idx[l] BY <3>2, <3>3, <4>1
        <5>2. PICK a0, m : a0 = idx[l] /\ m = Append(p1a[l][a0], bal[l]) OBVIOUS
        <5>3. p1a \in [Proposers -> [Acceptors -> Seq(Ballots)]] /\ a0 \in Acceptors
          BY <2>0, <5>2 DEF TypeOK
        <5>4. p1a' = [p1a EXCEPT ![l][a0] = m] /\ p2a' = p2a BY <4>1, <5>2 DEF SendPrepare
        <5> QED BY <5>1, <5>2, <5>3, <5>4, AtLink
      <4>2. CASE SendAccept(l)
        <5>1. a # idx[l] BY <3>2, <3>3, <4>2
        <5>2. PICK a0, m : a0 = idx[l] /\ m = Append(p2a[l][a0], AcceptMsg(l)) OBVIOUS
        <5>3. p2a \in [Proposers -> [Acceptors -> Seq(Proposals)]] /\ a0 \in Acceptors
          BY <2>0, <5>2 DEF TypeOK
        <5>4. p2a' = [p2a EXCEPT ![l][a0] = m] /\ p1a' = p1a BY <4>2, <5>2 DEF SendAccept
        <5> QED BY <5>1, <5>2, <5>3, <5>4, AtLink
      <4>3. CASE Commit(l) \/ \E b \in Acceptors : Collect(l, b)
        BY <4>3 DEF Commit, Collect
      <4> QED BY <3>1, <4>1, <4>2, <4>3 DEF ProposerStep
    <3> QED BY <3>1, <3>3
  <2>6. CASE RoundsDone \/ Join \/ Returned
    BY <2>6 DEF RoundsDone, Join, Returned, sysVars, vars
  <2> QED BY <2>4, <2>5, <2>6 DEF SysNext
<1> QED BY <1>1, SysInvHolds, PTL DEF SysSpec, NoSendToExited

(* The value main returns has been chosen: with all their turns taken, the *)
(* live acceptors have handled the Accept of the last round, and it was    *)
(* never refused; and a quorum is live, or nothing would be committed.     *)
THEOREM ReturnsChosenHolds == SysSpec => []ReturnsChosen
<1>1. SysInv => ReturnsChosen
  <2> SUFFICES ASSUME SysInv, main = "returned"
               PROVE  \E m \in Range(pdec[dep.leader]) : Chosen(m) /\ m.val = ret
    BY DEF ReturnsChosen
  <2>0. IInv /\ SysType /\ TypeOK /\ Backing BY DEF SysInv, IInv
  <2>1. PICK l \in Proposers : l = dep.leader BY <2>0, DeployTyped
  <2>2. DeployInv(l) BY <2>1 DEF SysInv
  <2>3. PICK n : n = dep.rounds OBVIOUS
  <2>4. n \in Nat /\ n >= 1 BY <2>0, <2>3, DeployTyped
  <2>5. Turn(l) = n + 1 /\ pc[l] = "prepare" /\ \A a \in dep.live : Exited(a)
    BY <2>2, <2>3 DEF DeployInv, InTurn, Joining
  <2>6. pdec[l] \in Seq(Proposals) /\ Len(pdec[l]) = n
    <3>1. Commitments(l) = n BY <2>4, <2>5 DEF Commitments
    <3> QED BY <2>0, <2>2, <3>1 DEF TypeOK, DeployInv, Results
  <2>7. PICK m : m = pdec[l][n] OBVIOUS
  <2>8. /\ m \in Decided(l) /\ m.val = ret /\ m.bal.round = n /\ m.bal.prop = l
        /\ m \in Proposals
    <3>1. n \in 1 .. Len(pdec[l]) /\ pdec[l] # <<>> BY <2>4, <2>6
    <3>2. m \in Decided(l) /\ m \in Proposals BY <2>6, <2>7, <3>1 DEF Decided, Range
    <3> QED BY <2>0, <2>2, <2>6, <2>7, <3>1, <3>2 DEF DeployInv, Results, IInv, BallotsOwned
  <2>9. m.bal = BallotAt(l, n) BY <2>8 DEF Proposals, Ballots, BallotAt
  <2>10. ASSUME NEW a \in Acceptors, a \in dep.live PROVE Accepted(a, m)
    <3>1. /\ n1a[l][a] \in Nat /\ n2a[l][a] \in Nat
          /\ Len(p1a[l][a]) \in Nat /\ Len(p2a[l][a]) \in Nat
      BY <2>0, LinkLengths
    <3>2. /\ n1a[l][a] <= Len(p1a[l][a]) /\ n2a[l][a] <= Len(p2a[l][a])
          /\ n1a[l][a] + n2a[l][a] = 2 * n
      BY <2>2, <2>3, <2>5, <2>10 DEF Exited, Budget, DeployInv, Turns
    <3>3. Len(p1a[l][a]) <= n /\ Len(p2a[l][a]) <= n
      BY <2>0, <2>1, <2>2, <2>3, <2>4, OutBounds DEF DeployInv, Sendings
    <3>4. n2a[l][a] = n /\ n \in 1 .. Len(p2a[l][a])
      <4>1. PICK u, v, x, y : /\ u = n1a[l][a] /\ v = n2a[l][a]
                              /\ x = Len(p1a[l][a]) /\ y = Len(p2a[l][a])
        OBVIOUS
      <4>2. u \in Nat /\ v \in Nat /\ x \in Nat /\ y \in Nat BY <3>1, <4>1
      <4>3. u <= x /\ v <= y /\ u + v = 2 * n /\ x <= n /\ y <= n
        BY <3>2, <3>3, <4>1
      <4>4. v = n /\ y = n BY <2>4, <4>2, <4>3
      <4> QED BY <2>4, <4>1, <4>4
    <3>5. PICK x : x = p2a[l][a][n] OBVIOUS
    <3>6. x \in Range(p2b[l][a]) /\ x.bal = BallotAt(l, n)
      BY <2>2, <2>3, <3>4, <3>5 DEF DeployInv, Turns, Sendings
    <3>7. x \in Range(p2a[l][a])
      <4>1. p2a[l][a] \in Seq(Proposals) BY <2>0 DEF TypeOK
      <4> QED BY <3>4, <3>5, <4>1 DEF Range
    <3>8. x \in Decided(l) BY <2>0, <3>7 DEF IInv, Provenance, Decided
    <3>9. x = m BY <2>0, <2>8, <2>9, <3>6, <3>8 DEF IInv, BallotsOwned
    <3> QED BY <2>8, <3>6, <3>9 DEF Accepted
  <2>11. PICK q \in Quorums : BacksIt(l, m.bal, m.val, q)
    BY <2>0, <2>8, BacksMeaning DEF Backing, DecidedBacked
  <2>12. q \subseteq Acceptors /\ q \subseteq dep.live
    <3>1. q \subseteq Acceptors BY DEF Quorums
    <3>2. ASSUME NEW a \in q, a \notin dep.live PROVE FALSE
      <4>1. Promised(l, a) # {} BY <2>11, <3>2 DEF BacksIt
      <4>2. p1b[l][a] = <<>> BY <2>2, <3>1, <3>2 DEF DeployInv, Turns
      <4> QED BY <4>1, <4>2 DEF Promised, Range
    <3> QED BY <3>1, <3>2
  <2>13. Chosen(m)
    <3> DEFINE voters == {a \in Acceptors : Accepted(a, m)}
    <3>1. q \subseteq voters /\ voters \subseteq Acceptors BY <2>10, <2>12
    <3> HIDE DEF voters
    <3>2. /\ IsFiniteSet(voters) /\ IsFiniteSet(q)
          /\ Cardinality(q) <= Cardinality(voters)
          /\ Cardinality(q) \in Nat /\ Cardinality(voters) \in Nat
      BY <3>1, AcceptorsFinite, FS_Subset, FS_CardinalityType
    <3>3. Cardinality(q) + Cardinality(q) > NAcc BY DEF Quorums
    <3>4. Cardinality(voters) + Cardinality(voters) > NAcc BY <3>2, <3>3, NAccAssumption
    <3>5. voters \in Quorums BY <3>1, <3>4 DEF Quorums
    <3> QED BY <3>5 DEF Chosen, voters
  <2> QED BY <2>1, <2>8, <2>13 DEF Decided
<1> QED BY <1>1, SysInvHolds, PTL

-----------------------------------------------------------------------------
(* Nobody waits for good.  The acceptors a deployment starts answer every  *)
(* Prepare they handle in time, and what the proposer has read of the      *)
(* answers to the ballot in play it has counted.                           *)

Answers(l) ==
  \A a \in Acceptors :
    /\ maxBal[a].round <= n1a[l][a] \/ maxBal[a].round <= n2a[l][a]
    /\ \A i \in 1 .. Len(p1b[l][a]) :
         p1b[l][a][i].bal.prop = l /\ p1b[l][a][i].bal.round <= n1a[l][a]
    /\ n1a[l][a] = Turn(l) /\ n2a[l][a] < Turn(l) =>
         \E i \in 1 .. Len(p1b[l][a]) : p1b[l][a][i].bal.round = Turn(l)

Counted(l) ==
  \A a \in Acceptors :
    /\ n1b[l][a] <= Len(p1b[l][a])
    /\ \A i \in 1 .. n1b[l][a] : p1b[l][a][i].bal.round = Turn(l) => a \in Sources(l)

AnswersInv == HighestKnown /\ \A l \in {dep.leader} : Answers(l) /\ Counted(l)

(* The guards of the threads of a deployment, as their actions have them.  *)
MayDrive(a) ==
  /\ handled[a] < Budget
  /\ \E p \in Proposers : Pending(p1a, n1a, p, a) \/ Pending(p2a, n2a, p, a)

MayGoOn(l) ==
  \/ pc[l] = "prepare" /\ Turn(l) <= LastRound[l]
  \/ pc[l] = "accept"
  \/ pc[l] = "gather" /\ Cardinality(got[l]) < Need
       /\ \E a \in Acceptors : Pending(p1b, n1b, l, a)
  \/ pc[l] = "gather" /\ Cardinality(got[l]) = Need /\ MayCommit(l)

MainMay ==
  \/ main = "rounds" /\ (RoundsLeft => MayGoOn(dep.leader))
  \/ main = "joining" /\ \A a \in dep.live : Exited(a)

SomebodyMay == main = "returned" \/ MainMay \/ \E a \in dep.live : MayDrive(a)

(* deploy_paxos requires it: 2 <= live, of three acceptors.               *)
QuorumsLive == \A d \in Deployments : Cardinality(d.live) >= Need

LEMMA AnswersInit == SysInit => AnswersInv
<1> SUFFICES ASSUME SysInit PROVE AnswersInv OBVIOUS
<1>1. HighestKnown BY HighestInit DEF SysInit
<1>2. ASSUME NEW l \in {dep.leader}, NEW a \in Acceptors
      PROVE  /\ p1b[l][a] = <<>> /\ n1a[l][a] = 0 /\ n2a[l][a] = 0 /\ n1b[l][a] = 0
             /\ maxBal[a].round = 0 /\ Turn(l) = 1
  BY DeployAssumption DEF SysInit, Init, ChanInit, AccInit, PropInit, Link, ZeroBallot, Turn
<1> QED BY <1>1, <1>2 DEF AnswersInv, Answers, Counted

LEMMA PrepareAnswered ==
  ASSUME IInv, SysType, NEW l \in Proposers, DeployInv(l), Answers(l), Counted(l),
         NEW a \in Acceptors, OnPrepare(a, l)
  PROVE  Answers(l)' /\ Counted(l)'
<1>1. /\ TypeOK /\ UNCHANGED <<n2a, n1b, bal, got>> /\ n1a[l][a] < Len(p1a[l][a])
      /\ n1a' = [n1a EXCEPT ![l][a] = n1a[l][a] + 1]
  BY DEF IInv, OnPrepare, Pending, propVars
<1>2. /\ n1a'[l][a] = n1a[l][a] + 1 /\ n1a[l][a] \in Nat /\ n2a[l][a] \in Nat
      /\ Len(p1a[l][a]) \in Nat
      /\ \A b \in Acceptors \ {a} : n1a'[l][b] = n1a[l][b]
  BY <1>1, LinkLengths DEF TypeOK
<1>3. PICK m : m = p1a[l][a][n1a[l][a] + 1] OBVIOUS
<1>4. PICK k : k = n1a[l][a] + 1 OBVIOUS
<1>5. m = BallotAt(l, k) /\ k \in Nat
  BY <1>1, <1>2, <1>3, <1>4 DEF DeployInv, Sendings
<1>6. PICK s : s = p1b[l][a] OBVIOUS
<1>7. /\ s \in Seq(Promises) /\ p1b \in [Proposers -> [Acceptors -> Seq(Promises)]]
      /\ maxBal \in [Acceptors -> Ballots]
  BY <1>1, <1>6 DEF TypeOK
<1>8. \/ ~WillPromise(a, m) /\ UNCHANGED <<p1b, maxBal>>
      \/ /\ maxBal' = [maxBal EXCEPT ![a] = m]
         /\ p1b' = [p1b EXCEPT ![l][a] = Append(s, Promise(m, hasAcc[a], accBal[a], accVal[a]))]
  BY <1>3, <1>6 DEF OnPrepare, Oldest
<1>9. /\ maxBal[a].round <= n1a[l][a] \/ maxBal[a].round <= n2a[l][a]
      /\ \A i \in 1 .. Len(s) : s[i].bal.prop = l /\ s[i].bal.round <= n1a[l][a]
      /\ n1b[l][a] <= Len(s)
      /\ \A i \in 1 .. n1b[l][a] : s[i].bal.round = Turn(l) => a \in Sources(l)
  BY <1>6 DEF Answers, Counted
<1>10. maxBal[a].round \in Nat /\ Turn(l) \in Nat /\ n1b[l][a] \in Nat
  <2>1. maxBal[a] \in Ballots /\ bal[l] \in Ballots BY <1>1 DEF TypeOK
  <2>2. n1b[l][a] \in Nat BY <1>1 DEF TypeOK
  <2> QED BY <2>1, <2>2 DEF Ballots, Turn
<1>11. Turn(l)' = Turn(l) /\ Sources(l)' = Sources(l) BY <1>1 DEF Turn, Sources
<1>12. \A b \in Acceptors \ {a} : p1b'[l][b] = p1b[l][b] /\ maxBal'[b] = maxBal[b]
  <2>1. PICK x : x = Append(s, Promise(m, hasAcc[a], accBal[a], accVal[a])) OBVIOUS
  <2> QED BY <1>7, <1>8, <2>1, AtLink
<1>13. PICK t : t = p1b'[l][a] OBVIOUS
<1>14. /\ maxBal'[a].round <= k \/ maxBal'[a].round <= n2a[l][a]
       /\ \A i \in 1 .. Len(t) : t[i].bal.prop = l /\ t[i].bal.round <= k
       /\ k = Turn(l) /\ n2a[l][a] < Turn(l) =>
            \E i \in 1 .. Len(t) : t[i].bal.round = Turn(l)
       /\ n1b[l][a] <= Len(t)
       /\ \A i \in 1 .. n1b[l][a] : t[i] = s[i]
  <2>1. CASE ~WillPromise(a, m) /\ UNCHANGED <<p1b, maxBal>>
    <3>1. t = s /\ maxBal' = maxBal BY <1>6, <1>13, <2>1
    <3>2. Len(s) \in Nat BY <1>7
    <3>3. ~(k = Turn(l) /\ n2a[l][a] < Turn(l))
      <4>1. m.round = k BY <1>5 DEF BallotAt
      <4>2. ~(maxBal[a].round < k) BY <2>1, <4>1 DEF WillPromise, Blt
      <4> QED BY <1>2, <1>4, <1>9, <1>10, <4>2
    <3>4. \A i \in 1 .. Len(s) : s[i].bal.prop = l /\ s[i].bal.round <= k
      <4> SUFFICES ASSUME NEW i \in 1 .. Len(s) PROVE s[i].bal.prop = l /\ s[i].bal.round <= k
        OBVIOUS
      <4>1. s[i] \in Promises BY <1>7
      <4>2. s[i].bal.round \in Nat BY <4>1 DEF Promises, Ballots
      <4> QED BY <1>2, <1>4, <1>9, <4>2
    <3>5. maxBal[a].round <= k \/ maxBal[a].round <= n2a[l][a] BY <1>2, <1>4, <1>9, <1>10
    <3> QED BY <1>9, <3>1, <3>3, <3>4, <3>5
  <2>2. CASE /\ maxBal' = [maxBal EXCEPT ![a] = m]
             /\ p1b' = [p1b EXCEPT ![l][a] = Append(s, Promise(m, hasAcc[a], accBal[a], accVal[a]))]
    <3>1. PICK x : x = Promise(m, hasAcc[a], accBal[a], accVal[a]) OBVIOUS
    <3>2. x.bal.prop = l /\ x.bal.round = k BY <1>5, <3>1 DEF Promise, BallotAt
    <3>3. t = Append(s, x) BY <1>7, <1>13, <2>2, <3>1
    <3>4. maxBal'[a].round = k BY <1>5, <1>7, <2>2 DEF BallotAt
    <3>5. /\ Len(s) \in Nat /\ Len(t) = Len(s) + 1 /\ t[Len(s) + 1] = x
          /\ \A i \in 1 .. Len(s) : t[i] = s[i] /\ s[i] \in Promises
      <4>1. s \in Seq(Promises \cup {x}) BY <1>7
      <4> QED BY <1>7, <3>3, <4>1
    <3>6. ASSUME NEW i \in 1 .. Len(t) PROVE t[i].bal.prop = l /\ t[i].bal.round <= k
      <4>1. CASE i = Len(s) + 1 BY <1>5, <3>2, <3>5, <4>1
      <4>2. CASE i \in 1 .. Len(s)
        <5>1. t[i] = s[i] /\ s[i].bal.round \in Nat BY <3>5, <4>2 DEF Promises, Ballots
        <5> QED BY <1>2, <1>4, <1>9, <4>2, <5>1
      <4> QED BY <3>5, <4>1, <4>2
    <3>7. Len(s) + 1 \in 1 .. Len(t) BY <3>5
    <3>8. \A i \in 1 .. n1b[l][a] : i \in 1 .. Len(s) BY <1>9, <1>10, <3>5
    <3>9. n1b[l][a] <= Len(t) BY <1>9, <1>10, <3>5
    <3> QED BY <1>5, <3>2, <3>4, <3>5, <3>6, <3>7, <3>8, <3>9
  <2> QED BY <1>8, <2>1, <2>2
<1>15. ASSUME NEW b \in Acceptors, b # a
       PROVE  /\ n1a'[l][b] = n1a[l][b] /\ n2a' = n2a /\ n1b' = n1b
              /\ p1b'[l][b] = p1b[l][b] /\ maxBal'[b] = maxBal[b]
  BY <1>1, <1>2, <1>12, <1>15
<1>16. Answers(l)'
  <2> SUFFICES ASSUME NEW b \in Acceptors
      PROVE  /\ maxBal'[b].round <= n1a'[l][b] \/ maxBal'[b].round <= n2a'[l][b]
             /\ \A i \in 1 .. Len(p1b'[l][b]) :
                  p1b'[l][b][i].bal.prop = l /\ p1b'[l][b][i].bal.round <= n1a'[l][b]
             /\ n1a'[l][b] = Turn(l) /\ n2a'[l][b] < Turn(l) =>
                  \E i \in 1 .. Len(p1b'[l][b]) : p1b'[l][b][i].bal.round = Turn(l)
    BY <1>11 DEF Answers
  <2>1. CASE b = a
    <3>1. n1a'[l][b] = k /\ n2a' = n2a /\ p1b'[l][b] = t BY <1>1, <1>2, <1>4, <1>13, <2>1
    <3> QED BY <1>14, <2>1, <3>1
  <2>2. CASE b # a BY <1>15, <2>2 DEF Answers
  <2> QED BY <2>1, <2>2
<1>17. Counted(l)'
  BY <1>1, <1>9, <1>11, <1>13, <1>14, <1>15 DEF Counted
<1> QED BY <1>16, <1>17

LEMMA AcceptAnswered ==
  ASSUME IInv, SysType, NEW l \in Proposers, DeployInv(l), Answers(l), Counted(l),
         NEW a \in Acceptors, OnAccept(a, l)
  PROVE  Answers(l)' /\ Counted(l)'
<1>1. /\ TypeOK /\ UNCHANGED <<n1a, p1b, n1b, bal, got>> /\ n2a[l][a] < Len(p2a[l][a])
      /\ n2a' = [n2a EXCEPT ![l][a] = n2a[l][a] + 1]
  <2>1. UNCHANGED <<n1b, bal, got>>
    BY DEF OnAccept, propVars, Pending, IInv, TypeOK
  <2> QED BY <2>1 DEF IInv, OnAccept, Pending
<1>2. /\ n2a'[l][a] = n2a[l][a] + 1 /\ n1a[l][a] \in Nat /\ n2a[l][a] \in Nat
      /\ Len(p2a[l][a]) \in Nat
      /\ \A b \in Acceptors \ {a} : n2a'[l][b] = n2a[l][b]
  BY <1>1, LinkLengths DEF TypeOK
<1>3. PICK m : m = p2a[l][a][n2a[l][a] + 1] OBVIOUS
<1>4. m.bal = BallotAt(l, n2a[l][a] + 1)
  BY <1>1, <1>2, <1>3 DEF DeployInv, Sendings
<1>5. \/ maxBal' = maxBal
      \/ maxBal' = [maxBal EXCEPT ![a] = m.bal]
  BY <1>3 DEF OnAccept, Oldest, accVars
<1>6. maxBal \in [Acceptors -> Ballots] /\ Turn(l) \in Nat BY <1>1 DEF TypeOK, Ballots, Turn
<1>7. maxBal'[a].round <= n1a[l][a] \/ maxBal'[a].round <= n2a[l][a] + 1
  <2>1. CASE maxBal' = maxBal
    <3>1. maxBal[a].round \in Nat BY <1>6 DEF Ballots
    <3>2. maxBal[a].round <= n1a[l][a] \/ maxBal[a].round <= n2a[l][a] BY DEF Answers
    <3> QED BY <1>2, <2>1, <3>1, <3>2
  <2>2. CASE maxBal' = [maxBal EXCEPT ![a] = m.bal]
    <3>1. maxBal'[a].round = n2a[l][a] + 1 BY <1>4, <1>6, <2>2 DEF BallotAt
    <3> QED BY <1>2, <3>1
  <2> QED BY <1>5, <2>1, <2>2
<1>8. \A b \in Acceptors \ {a} : maxBal'[b] = maxBal[b] BY <1>5, <1>6
<1>9. Turn(l)' = Turn(l) /\ Sources(l)' = Sources(l) BY <1>1 DEF Turn, Sources
<1>10. n2a'[l][a] < Turn(l) => n2a[l][a] < Turn(l) BY <1>2, <1>6
<1>11. ASSUME NEW b \in Acceptors, b # a
       PROVE  n2a'[l][b] = n2a[l][b] /\ maxBal'[b] = maxBal[b]
  BY <1>2, <1>8, <1>11
<1>12. ASSUME NEW b \in Acceptors
       PROVE  /\ maxBal'[b].round <= n1a[l][b] \/ maxBal'[b].round <= n2a'[l][b]
              /\ n2a'[l][b] < Turn(l) => n2a[l][b] < Turn(l)
  <2>1. CASE b = a BY <1>2, <1>7, <1>10, <2>1
  <2>2. CASE b # a BY <1>11, <2>2 DEF Answers
  <2> QED BY <2>1, <2>2
<1>13. Answers(l)' BY <1>1, <1>9, <1>12 DEF Answers
<1>14. Counted(l)' BY <1>1, <1>9 DEF Counted
<1> QED BY <1>13, <1>14

LEMMA CollectCounts ==
  ASSUME IInv, SysType, NEW l \in Proposers, Answers(l), Counted(l),
         NEW a \in Acceptors, Collect(l, a)
  PROVE  Answers(l)' /\ Counted(l)'
<1>1. /\ TypeOK /\ UNCHANGED <<n1a, n2a, p1b, maxBal, bal>> /\ n1b[l][a] < Len(p1b[l][a])
      /\ n1b' = [n1b EXCEPT ![l][a] = n1b[l][a] + 1]
  BY DEF IInv, Collect, accVars, Pending
<1>2. Answers(l)' BY <1>1 DEF Answers, Turn
<1>3. PICK m : m = p1b[l][a][n1b[l][a] + 1] OBVIOUS
<1>4. /\ n1b'[l][a] = n1b[l][a] + 1 /\ n1b[l][a] \in Nat /\ Len(p1b[l][a]) \in Nat
      /\ \A b \in Acceptors \ {a} : n1b'[l][b] = n1b[l][b]
      /\ p1b[l][a] \in Seq(Promises) /\ got \in [Proposers -> SUBSET Reports]
  <2>1. p1b[l][a] \in Seq(Promises) BY <1>1 DEF TypeOK
  <2>2. n1b \in [Proposers -> [Acceptors -> Nat]] /\ got \in [Proposers -> SUBSET Reports]
    BY <1>1 DEF TypeOK
  <2>3. n1b'[l][a] = n1b[l][a] + 1 /\ \A b \in Acceptors \ {a} : n1b'[l][b] = n1b[l][b]
    BY <1>1, <2>2
  <2> QED BY <2>1, <2>2, <2>3
<1>5. m.bal.prop = l /\ m \in Promises
  <2>1. n1b[l][a] + 1 \in 1 .. Len(p1b[l][a]) BY <1>1, <1>4
  <2> QED BY <1>3, <1>4, <2>1 DEF Answers
<1>6. m.bal.round = Turn(l) => m.bal = bal[l]
  BY <1>5, BallotInPlay DEF Promises, Ballots, BallotAt
<1>7. /\ got'[l] = got[l] \/ \E g : g.src = a /\ got'[l] = got[l] \cup {g}
      /\ m.bal = bal[l] => a \in Sources(l) \/ \E g \in got'[l] : g.src = a
  <2>1. CASE Counts(l, a, m)
    <3>1. got' = [got EXCEPT ![l] = @ \cup
             {[src |-> a, had |-> m.had, abal |-> m.abal, aval |-> m.aval]}]
      BY <1>3, <2>1 DEF Collect, Oldest
    <3>2. PICK g : g = [src |-> a, had |-> m.had, abal |-> m.abal, aval |-> m.aval] OBVIOUS
    <3>3. got'[l] = got[l] \cup {g} /\ g.src = a BY <1>4, <3>1, <3>2
    <3> QED BY <3>3
  <2>2. CASE ~Counts(l, a, m) BY <1>3, <2>2 DEF Collect, Oldest, Counts
  <2> QED BY <2>1, <2>2
<1>8. /\ Sources(l) \subseteq Sources(l)'
      /\ m.bal.round = Turn(l) => a \in Sources(l)'
  BY <1>6, <1>7 DEF Sources
<1>9. ASSUME NEW b \in Acceptors
      PROVE  /\ n1b'[l][b] <= Len(p1b[l][b])
             /\ \A i \in 1 .. n1b'[l][b] : p1b[l][b][i].bal.round = Turn(l) => b \in Sources(l)'
  <2>1. /\ n1b[l][b] <= Len(p1b[l][b])
        /\ \A i \in 1 .. n1b[l][b] : p1b[l][b][i].bal.round = Turn(l) => b \in Sources(l)'
    BY <1>8 DEF Counted
  <2>2. CASE b # a BY <1>4, <2>1, <2>2
  <2>3. CASE b = a
    <3>1. \A i \in 1 .. n1b[l][a] + 1 : i = n1b[l][a] + 1 \/ i \in 1 .. n1b[l][a] BY <1>4
    <3> QED BY <1>1, <1>3, <1>4, <1>8, <2>1, <2>3, <3>1
  <2> QED BY <2>2, <2>3
<1>10. Counted(l)' BY <1>1, <1>9 DEF Counted, Turn
<1> QED BY <1>2, <1>10

(* With the next ballot everything read before is for another ballot.      *)
LEMMA SendAcceptAnswers ==
  ASSUME IInv, SysType, NEW l \in Proposers, DeployInv(l), Answers(l), Counted(l), SendAccept(l)
  PROVE  Answers(l)' /\ Counted(l)'
<1>1. TypeOK /\ UNCHANGED <<n1a, n2a, n1b, p1b, maxBal>> /\ pc[l] = "accept"
  BY DEF IInv, SendAccept, accVars
<1>2. CASE UNCHANGED <<bal, got>> BY <1>1, <1>2 DEF Answers, Counted, Turn, Sources
<1>3. CASE bal' = [bal EXCEPT ![l].round = @ + 1]
  <2>1. Turn(l)' = Turn(l) + 1 /\ Turn(l) \in Nat
    BY <1>1, <1>3 DEF TypeOK, Ballots, Turn
  <2>2. ASSUME NEW a \in Acceptors
        PROVE  /\ n1a[l][a] # Turn(l)'
               /\ \A i \in 1 .. n1b[l][a] : p1b[l][a][i].bal.round # Turn(l)'
    <3>1. n1a[l][a] <= Len(p1a[l][a]) /\ Len(p1a[l][a]) = Turn(l)
      BY <1>1 DEF DeployInv, Turns, Sendings, PreparesOut
    <3>2. n1a[l][a] \in Nat /\ n1b[l][a] \in Nat /\ p1b[l][a] \in Seq(Promises)
      BY <1>1 DEF TypeOK
    <3>3. n1a[l][a] <= Turn(l) BY <3>1
    <3>4. ASSUME NEW i \in 1 .. n1b[l][a] PROVE p1b[l][a][i].bal.round # Turn(l)'
      <4>1. n1b[l][a] <= Len(p1b[l][a]) BY DEF Counted
      <4>2. Len(p1b[l][a]) \in Nat BY <3>2
      <4>3. i \in 1 .. Len(p1b[l][a]) BY <3>2, <4>1, <4>2
      <4>4. p1b[l][a][i].bal.round <= n1a[l][a] /\ p1b[l][a][i] \in Promises
        BY <3>2, <4>3 DEF Answers
      <4>5. p1b[l][a][i].bal.round \in Nat BY <4>4 DEF Promises, Ballots
      <4> QED BY <2>1, <3>2, <3>3, <4>4, <4>5
    <3> QED BY <2>1, <3>2, <3>3, <3>4
  <2>3. Answers(l)' BY <1>1, <2>2 DEF Answers
  <2>4. Counted(l)' BY <1>1, <2>2 DEF Counted
  <2> QED BY <2>3, <2>4
<1> QED BY <1>2, <1>3 DEF SendAccept

LEMMA AnswersStep == SysInv /\ AnswersInv /\ [SysNext]_sysVars => AnswersInv'
<1> SUFFICES ASSUME SysInv, AnswersInv, [SysNext]_sysVars PROVE AnswersInv'
  OBVIOUS
<1>1. IInv /\ SysType BY DEF SysInv
<1>2. HighestKnown' BY <1>1, SysIsPaxos, HighestStep DEF AnswersInv
<1>3. PICK l \in Proposers : l = dep.leader BY <1>1, DeployTyped
<1>4. DeployInv(l) /\ Answers(l) /\ Counted(l) BY <1>3 DEF SysInv, AnswersInv
<1>6. ASSUME NEW a \in Acceptors, Drive(a) PROVE Answers(l)' /\ Counted(l)' /\ dep' = dep
  <2>1. PICK p \in Proposers : OnPrepare(a, p) \/ OnAccept(a, p)
    BY <1>6 DEF Drive, AcceptorStep
  <2>2. p = l BY <1>1, <1>4, <2>1, TakesLeaders
  <2> QED BY <1>1, <1>4, <1>6, <2>1, <2>2, PrepareAnswered, AcceptAnswered DEF Drive
<1>7. ASSUME Round PROVE Answers(l)' /\ Counted(l)' /\ dep' = dep
  <2>1. ProposerStep(l) /\ dep' = dep BY <1>3, <1>7 DEF Round
  <2>2. CASE SendPrepare(l) \/ Commit(l)
    <3>1. UNCHANGED <<n1a, n2a, n1b, p1b, maxBal, bal, got>>
      BY <2>2 DEF SendPrepare, Commit, accVars
    <3> QED BY <1>4, <2>1, <3>1 DEF Answers, Counted, Turn, Sources
  <2>3. CASE SendAccept(l) BY <1>1, <1>4, <2>1, <2>3, SendAcceptAnswers
  <2>4. ASSUME NEW a \in Acceptors, Collect(l, a) PROVE Answers(l)' /\ Counted(l)'
    BY <1>1, <1>4, <2>4, CollectCounts
  <2>5. Answers(l)' /\ Counted(l)' BY <2>1, <2>2, <2>3, <2>4 DEF ProposerStep
  <2> QED BY <2>1, <2>5
<1>9. Answers(l)' /\ Counted(l)' /\ dep' = dep
  <2>1. CASE RoundsDone \/ Join \/ Returned \/ UNCHANGED sysVars
    <3>1. UNCHANGED <<n1a, n2a, n1b, p1b, maxBal, bal, got, dep>>
      BY <2>1 DEF RoundsDone, Join, Returned, sysVars, vars
    <3> QED BY <1>4, <3>1 DEF Answers, Counted, Turn, Sources
  <2> QED BY <1>6, <1>7, <2>1 DEF SysNext
<1> QED BY <1>2, <1>3, <1>9 DEF AnswersInv

LEMMA AnswersHold == SysSpec => [](SysInv /\ AnswersInv)
<1>1. SysInit => SysInv /\ AnswersInv BY InitDeploy, AnswersInit
<1>2. (SysInv /\ AnswersInv) /\ [SysNext]_sysVars => (SysInv /\ AnswersInv)'
  BY StepDeploy, AnswersStep
<1> QED BY <1>1, <1>2, PTL DEF SysSpec

(* Fewer reports than Need: some live acceptor has not been counted.       *)
LEMMA SomebodyUncounted ==
  ASSUME QuorumsLive, IInv, SysType, NEW p \in Proposers, Cardinality(got[p]) < Need
  PROVE  \E a \in dep.live : a \notin Sources(p)
<1> SUFFICES ASSUME dep.live \subseteq Sources(p) PROVE FALSE
  OBVIOUS
<1> DEFINE f == [g \in got[p] |-> g.src]
<1>1. /\ IsFiniteSet(got[p])
      /\ \A g, h \in got[p] : g.src = h.src => g = h
      /\ got[p] \subseteq Reports
  BY DEF IInv, GatheredPromises, TypeOK
<1>2. f \in Bijection(got[p], Sources(p))
  BY <1>1 DEF Sources, Bijection, Injection, Surjection, IsInjective
<1>3. Cardinality(Sources(p)) = Cardinality(got[p])
  BY <1>1, <1>2, FS_Bijection DEF ExistsBijection
<1>4. Sources(p) \subseteq Acceptors BY <1>1 DEF Sources, Reports
<1>5. /\ IsFiniteSet(Sources(p)) /\ Cardinality(dep.live) <= Cardinality(Sources(p))
      /\ Cardinality(dep.live) \in Nat /\ Cardinality(Sources(p)) \in Nat
  BY <1>4, AcceptorsFinite, FS_Subset, FS_CardinalityType
<1>6. Cardinality(dep.live) >= Need BY DEF QuorumsLive, SysType
<1> QED BY <1>3, <1>5, <1>6, NeedIsNat

(* An acceptor with turns left has a message to take, as long as a Prepare *)
(* or an Accept of the leader is unread.                                   *)
LEMMA UnreadMayDrive ==
  ASSUME SysInv, NEW l \in Proposers, l = dep.leader, NEW a \in dep.live,
         \/ n1a[l][a] < Turn(l) /\ Turn(l) <= dep.rounds /\ pc[l] = "gather"
         \/ Turn(l) = dep.rounds + 1 /\ ~Exited(a)
  PROVE  MayDrive(a)
<1>0. IInv /\ TypeOK /\ SysType /\ DeployInv(l) /\ a \in Acceptors
  BY DeployTyped DEF SysInv, IInv
<1>1. PICK u, v, x, y, r, n : /\ u = n1a[l][a] /\ v = n2a[l][a] /\ n = dep.rounds
                              /\ x = Len(p1a[l][a]) /\ y = Len(p2a[l][a]) /\ r = Turn(l)
  OBVIOUS
<1>2. u \in Nat /\ v \in Nat /\ x \in Nat /\ y \in Nat /\ n \in Nat /\ r \in Nat
  BY <1>0, <1>1, LinkLengths, DeployTyped DEF TypeOK, Ballots, Turn
<1>3. u <= x /\ v <= y /\ handled[a] = u + v BY <1>0, <1>1 DEF DeployInv, Turns
<1>4. \/ u < r /\ r <= n /\ x = r /\ y = r - 1
      \/ r = n + 1 /\ x = n /\ y = n /\ handled[a] # 2 * n
  <2>1. CASE n1a[l][a] < Turn(l) /\ Turn(l) <= dep.rounds /\ pc[l] = "gather"
    BY <1>0, <1>1, <2>1 DEF DeployInv, Sendings, PreparesOut, AcceptsOut
  <2>2. CASE Turn(l) = dep.rounds + 1 /\ ~Exited(a)
    <3>1. pc[l] = "prepare" /\ idx[l] = 0 /\ a >= 0
      BY <1>0, <2>2, NAccAssumption DEF DeployInv, InTurn, Acceptors
    <3>2. x = r - 1 /\ y = r - 1
      BY <1>0, <1>1, <3>1 DEF DeployInv, Sendings, PreparesOut, AcceptsOut
    <3> QED BY <1>1, <1>2, <2>2, <3>2 DEF Exited, Budget
  <2> QED BY <2>1, <2>2
<1>5. handled[a] < 2 * n /\ (u < x \/ v < y) BY <1>2, <1>3, <1>4
<1> QED BY <1>1, <1>5 DEF MayDrive, Budget, Pending

(* A live acceptor that has taken every Prepare and whose answers have all *)
(* been read has been counted.                                             *)
LEMMA ReadIsCounted ==
  ASSUME SysInv, AnswersInv, NEW l \in Proposers, l = dep.leader, NEW a \in Acceptors,
         pc[l] = "gather", n1a[l][a] = Turn(l), ~Pending(p1b, n1b, l, a)
  PROVE  a \in Sources(l)
<1>0. IInv /\ TypeOK /\ SysType /\ DeployInv(l) /\ Answers(l) /\ Counted(l)
  BY DEF SysInv, IInv, AnswersInv
<1>1. n2a[l][a] <= Len(p2a[l][a]) /\ Len(p2a[l][a]) = Turn(l) - 1
  BY <1>0 DEF DeployInv, Turns, Sendings, AcceptsOut
<1>2. n2a[l][a] \in Nat /\ Turn(l) \in Nat /\ n1b[l][a] \in Nat /\ Len(p1b[l][a]) \in Nat
  <2>1. n2a[l][a] \in Nat /\ n1b[l][a] \in Nat /\ p1b[l][a] \in Seq(Promises)
    BY <1>0 DEF TypeOK
  <2>2. bal[l] \in Ballots BY <1>0 DEF TypeOK
  <2> QED BY <2>1, <2>2 DEF Ballots, Turn
<1>3. n2a[l][a] < Turn(l)
  <2>1. n2a[l][a] <= Turn(l) - 1 BY <1>1
  <2> QED BY <1>2, <2>1
<1>4. PICK i \in 1 .. Len(p1b[l][a]) : p1b[l][a][i].bal.round = Turn(l)
  BY <1>0, <1>3 DEF Answers
<1>5. i \in 1 .. n1b[l][a]
  <2>1. ~(n1b[l][a] < Len(p1b[l][a])) BY DEF Pending
  <2> QED BY <1>2, <2>1
<1> QED BY <1>0, <1>4, <1>5 DEF Counted

(* With a majority live nobody ever waits in vain: until main returns, one *)
(* of the threads can take its next step, whatever order the messages were *)
(* taken in.  This is the safety half of Terminates, for any number of     *)
(* acceptors, proposers and rounds; SomebodyMay spells out the guards of   *)
(* Drive, Round, RoundsDone and Join.                                      *)
THEOREM DeploymentsNeverStick ==
  ASSUME QuorumsLive
  PROVE  SysSpec => []SomebodyMay
<1>1. SysInv /\ AnswersInv => SomebodyMay
  <2> SUFFICES ASSUME SysInv, AnswersInv, main # "returned", ~MainMay
               PROVE  \E a \in dep.live : MayDrive(a)
    BY DEF SomebodyMay
  <2>0. IInv /\ TypeOK /\ SysType /\ HighestKnown BY DEF SysInv, IInv, AnswersInv
  <2>1. PICK l \in Proposers : l = dep.leader BY <2>0, DeployTyped
  <2>2. DeployInv(l) BY <2>1 DEF SysInv
  <2>3. PICK r, n : r = Turn(l) /\ n = dep.rounds OBVIOUS
  <2>4. /\ r \in Nat /\ n \in Nat /\ n <= LastRound[l] /\ LastRound[l] \in Nat
        /\ dep.live \subseteq Acceptors
    <3>1. bal[l] \in Ballots BY <2>0 DEF TypeOK
    <3>2. n \in 1 .. LastRound[l] BY <2>0, <2>1, <2>3, DeployAssumption DEF SysType
    <3> QED BY <2>0, <2>3, <3>1, <3>2, LastRoundAssumption, DeployTyped DEF Ballots, Turn
  <2>5. CASE main = "rounds"
    <3>1. r <= n /\ ~MayGoOn(l)
      BY <2>1, <2>3, <2>5 DEF MainMay, RoundsLeft, Turn
    <3>2. pc[l] = "gather"
      <4>1. pc[l] \in {"prepare", "gather", "accept"} BY <2>0 DEF TypeOK
      <4> QED BY <2>3, <2>4, <3>1, <4>1 DEF MayGoOn
    <3>3. Cardinality(got[l]) < Need
      <4>1. Cardinality(got[l]) = Need => MayCommit(l)
        BY <2>0, <3>2, HighestCommits DEF GatheredMayCommit
      <4>2. Cardinality(got[l]) \in 0 .. Need BY <2>0 DEF HighestKnown
      <4> QED BY <3>1, <3>2, <4>1, <4>2, NeedIsNat DEF MayGoOn
    <3>4. PICK a \in dep.live : a \notin Sources(l)
      BY <2>0, <3>3, SomebodyUncounted
    <3>5. a \in Acceptors /\ ~Pending(p1b, n1b, l, a)
      BY <2>4, <3>1, <3>2, <3>3 DEF MayGoOn
    <3>6. n1a[l][a] # r BY <2>1, <2>3, <3>2, <3>4, <3>5, ReadIsCounted
    <3>7. n1a[l][a] < r
      <4>1. n1a[l][a] <= Len(p1a[l][a]) /\ Len(p1a[l][a]) = r
        BY <2>2, <2>3, <3>2, <3>5 DEF DeployInv, Turns, Sendings, PreparesOut
      <4>2. n1a[l][a] \in Nat BY <2>0, <3>5 DEF TypeOK
      <4>3. n1a[l][a] <= r BY <4>1
      <4> QED BY <2>4, <3>6, <4>2, <4>3
    <3> QED BY <2>1, <2>3, <3>1, <3>2, <3>7, UnreadMayDrive
  <2>6. CASE main = "joining"
    <3>1. PICK a \in dep.live : ~Exited(a) BY <2>6 DEF MainMay
    <3>2. Turn(l) = dep.rounds + 1 BY <2>2, <2>6 DEF DeployInv, Joining
    <3> QED BY <2>1, <3>1, <3>2, UnreadMayDrive
  <2> QED BY <2>0, <2>5, <2>6 DEF SysType
<1> QED BY <1>1, AnswersHold, PTL

-----------------------------------------------------------------------------
(* Nor does a deployment go on for ever: turns and messages are only ever  *)
(* spent, and there are so many of each and no more.                       *)

AnswersFewer == \A p \in Proposers, a \in Acceptors : Len(p1b[p][a]) <= n1a[p][a]

Stage == IF main = "rounds" THEN 0 ELSE IF main = "joining" THEN 1 ELSE 2

WithinBudget ==
  \A l \in {dep.leader} :
    /\ Len(pdec[l]) \in 0 .. dep.rounds
    /\ \A a \in Acceptors :
         /\ Len(p1a[l][a]) \in 0 .. dep.rounds /\ Len(p2a[l][a]) \in 0 .. dep.rounds
         /\ n1b[l][a] \in 0 .. dep.rounds
         /\ a \in dep.live => handled[a] \in 0 .. Budget

NothingBack(l) ==
  /\ dep' = dep /\ Stage <= Stage' /\ Len(pdec[l]) <= Len(pdec'[l])
  /\ \A a \in Acceptors :
       /\ Len(p1a[l][a]) <= Len(p1a'[l][a]) /\ Len(p2a[l][a]) <= Len(p2a'[l][a])
       /\ n1b[l][a] <= n1b'[l][a] /\ handled[a] <= handled'[a]

SomethingSpent(l) ==
  \/ Stage < Stage' \/ Len(pdec[l]) < Len(pdec'[l])
  \/ \E a \in Acceptors :
       \/ Len(p1a[l][a]) < Len(p1a'[l][a]) \/ Len(p2a[l][a]) < Len(p2a'[l][a])
       \/ n1b[l][a] < n1b'[l][a] \/ (a \in dep.live /\ handled[a] < handled'[a])

Spending == \A l \in {dep.leader} : NothingBack(l) /\ SomethingSpent(l)

LEMMA AnswersFewerStep == TypeOK /\ AnswersFewer /\ [Next]_vars => AnswersFewer'
<1> SUFFICES ASSUME TypeOK, AnswersFewer, [Next]_vars PROVE AnswersFewer'
  OBVIOUS
<1>1. CASE UNCHANGED <<p1b, n1a>> BY <1>1 DEF AnswersFewer
<1>2. ASSUME NEW a \in Acceptors, NEW p \in Proposers, OnPrepare(a, p) PROVE AnswersFewer'
  <2>1. n1a' = [n1a EXCEPT ![p][a] = n1a[p][a] + 1] BY <1>2 DEF OnPrepare
  <2>2. PICK m : \/ p1b' = p1b
                 \/ p1b' = [p1b EXCEPT ![p][a] = Append(p1b[p][a], m)]
    BY <1>2 DEF OnPrepare
  <2>3. PICK t : t = Append(p1b[p][a], m) OBVIOUS
  <2>4. p1b \in [Proposers -> [Acceptors -> Seq(Promises)]] /\ n1a \in [Proposers -> [Acceptors -> Nat]]
    BY DEF TypeOK
  <2>5. /\ n1a'[p][a] = n1a[p][a] + 1 /\ (p1b'[p][a] = p1b[p][a] \/ p1b'[p][a] = t)
        /\ \A q \in Proposers, b \in Acceptors :
             q # p \/ b # a => n1a'[q][b] = n1a[q][b] /\ p1b'[q][b] = p1b[q][b]
    BY <2>1, <2>2, <2>3, <2>4, AtLink
  <2>6. Len(t) = Len(p1b[p][a]) + 1 /\ Len(p1b[p][a]) \in Nat
    <3>1. PICK s : s = p1b[p][a] OBVIOUS
    <3>2. s \in Seq(Promises \cup {m}) BY <2>4, <3>1
    <3>3. Len(Append(s, m)) = Len(s) + 1 /\ Len(s) \in Nat BY <3>2
    <3> QED BY <2>3, <3>1, <3>3
  <2>7. ASSUME NEW q \in Proposers, NEW b \in Acceptors
        PROVE  Len(p1b'[q][b]) <= n1a'[q][b]
    <3>1. Len(p1b[q][b]) <= n1a[q][b] BY DEF AnswersFewer
    <3>2. CASE q = p /\ b = a BY <2>4, <2>5, <2>6, <3>1, <3>2
    <3>3. CASE q # p \/ b # a BY <2>5, <3>1, <3>3
    <3> QED BY <3>2, <3>3
  <2> QED BY <2>7 DEF AnswersFewer
<1> QED
  BY <1>1, <1>2 DEF Next, AcceptorStep, ProposerStep, OnAccept, SendPrepare, Collect, Commit,
                    SendAccept, vars

LEMMA AnswersFewerHolds == Spec => [](TypeOK /\ AnswersFewer)
<1>1. Init => AnswersFewer BY DEF Init, ChanInit, Link, AnswersFewer
<1> QED BY <1>1, TypeCorrect, AnswersFewerStep, PTL DEF Spec

LEMMA BudgetKept ==
  ASSUME SysInv, AnswersInv, AnswersFewer
  PROVE  WithinBudget
<1>1. PICK l \in Proposers : l = dep.leader BY DeployTyped DEF SysInv
<1>2. /\ TypeOK /\ SysType /\ DeployInv(l) /\ Counted(l)
      /\ dep.rounds \in Nat /\ dep.rounds >= 1
  BY <1>1, DeployTyped DEF SysInv, IInv, AnswersInv
<1>3. ASSUME NEW a \in Acceptors
      PROVE  /\ Len(p1a[l][a]) \in 0 .. dep.rounds /\ Len(p2a[l][a]) \in 0 .. dep.rounds
             /\ n1b[l][a] \in 0 .. dep.rounds
             /\ a \in dep.live => handled[a] \in 0 .. Budget
  <2>1. Len(p1a[l][a]) \in 0 .. dep.rounds /\ Len(p2a[l][a]) \in 0 .. dep.rounds
    BY <1>2, OutBounds DEF DeployInv, Sendings
  <2>2. /\ n1a[l][a] \in 0 .. dep.rounds /\ n2a[l][a] \in 0 .. dep.rounds
    BY <1>2, <2>1, LinkLengths DEF DeployInv, Turns
  <2>3. n1b[l][a] \in Nat /\ Len(p1b[l][a]) \in Nat
    <3>1. p1b[l][a] \in Seq(Promises) BY <1>2 DEF TypeOK
    <3> QED BY <1>2, <3>1 DEF TypeOK
  <2>4. n1b[l][a] <= Len(p1b[l][a]) /\ Len(p1b[l][a]) <= n1a[l][a]
    BY <1>2 DEF Counted, AnswersFewer
  <2>5. n1b[l][a] \in 0 .. dep.rounds BY <1>2, <2>2, <2>3, <2>4
  <2>6. a \in dep.live => handled[a] = n1a[l][a] + n2a[l][a] BY <1>2 DEF DeployInv, Turns
  <2> QED BY <1>2, <2>1, <2>2, <2>5, <2>6 DEF Budget
<1>4. Len(pdec[l]) \in 0 .. dep.rounds
  <2>1. PICK r : r = Turn(l) OBVIOUS
  <2>2. r \in 1 .. dep.rounds + 1 /\ (r = dep.rounds + 1 => pc[l] = "prepare")
    BY <1>2, <2>1 DEF DeployInv, InTurn
  <2>3. Len(pdec[l]) = IF pc[l] = "accept" THEN r ELSE r - 1
    BY <1>2, <2>1 DEF DeployInv, Results, Commitments
  <2> QED BY <1>2, <2>2, <2>3
<1> QED BY <1>1, <1>3, <1>4 DEF WithinBudget

LEMMA StepSpends ==
  ASSUME SysInv, SysNext, sysVars' # sysVars
  PROVE  Spending
<1>1. PICK l \in Proposers : l = dep.leader BY DeployTyped DEF SysInv
<1>2. /\ TypeOK /\ SysType
      /\ p1a \in [Proposers -> [Acceptors -> Seq(Ballots)]]
      /\ p2a \in [Proposers -> [Acceptors -> Seq(Proposals)]]
      /\ n1b \in [Proposers -> [Acceptors -> Nat]] /\ handled \in [Acceptors -> Nat]
      /\ pdec[l] \in Seq(Proposals)
  BY DEF SysInv, IInv, TypeOK, SysType
<1>3. /\ Stage \in Nat /\ Len(pdec[l]) \in Nat
      /\ \A a \in Acceptors : /\ Len(p1a[l][a]) \in Nat /\ Len(p2a[l][a]) \in Nat
                              /\ n1b[l][a] \in Nat /\ handled[a] \in Nat
  <2>1. \A a \in Acceptors : Len(p1a[l][a]) \in Nat /\ Len(p2a[l][a]) \in Nat
    BY <1>2, LinkLengths
  <2> QED BY <1>2, <2>1 DEF Stage
<1>4. ASSUME NEW a \in Acceptors, Drive(a) PROVE NothingBack(l) /\ SomethingSpent(l)
  <2>1. /\ a \in dep.live /\ handled' = [handled EXCEPT ![a] = handled[a] + 1]
        /\ UNCHANGED <<dep, main, pdec, p1a, p2a, n1b>>
    BY <1>4 DEF Drive, AcceptorStep, OnPrepare, OnAccept
  <2>2. handled'[a] = handled[a] + 1 /\ \A b \in Acceptors : b # a => handled'[b] = handled[b]
    BY <1>2, <2>1
  <2>3. Stage' = Stage BY <2>1 DEF Stage
  <2> QED BY <1>3, <2>1, <2>2, <2>3 DEF NothingBack, SomethingSpent
<1>5. ASSUME Round PROVE NothingBack(l) /\ SomethingSpent(l)
  <2>1. ProposerStep(l) /\ UNCHANGED <<dep, handled, main>> /\ Stage' = Stage
    BY <1>1, <1>5 DEF Round, Stage
  <2>2. CASE SendPrepare(l)
    <3>1. PICK k, m : k = idx[l] /\ m = bal[l] OBVIOUS
    <3>2. k \in Acceptors /\ m \in Ballots BY <1>2, <3>1 DEF TypeOK
    <3>3. /\ p1a' = [p1a EXCEPT ![l][k] = Append(p1a[l][k], m)]
          /\ UNCHANGED <<p2a, n1b, pdec>>
      BY <2>2, <3>1 DEF SendPrepare
    <3>4. /\ Len(p1a'[l][k]) = Len(p1a[l][k]) + 1
          /\ \A a \in Acceptors : Len(p1a[l][a]) <= Len(p1a'[l][a])
      BY <1>2, <3>2, <3>3, LinkAdded
    <3> QED BY <1>3, <2>1, <3>2, <3>3, <3>4 DEF NothingBack, SomethingSpent
  <2>3. CASE SendAccept(l)
    <3>1. PICK k, m : k = idx[l] /\ m = AcceptMsg(l) OBVIOUS
    <3>2. k \in Acceptors /\ pc[l] = "accept" BY <1>2, <2>3, <3>1 DEF TypeOK, SendAccept
    <3>3. m \in Proposals
      BY <3>1, <3>2 DEF SysInv, IInv, TypeOK, ValueHeld, AcceptMsg, Proposal, Proposals
    <3>4. /\ p2a' = [p2a EXCEPT ![l][k] = Append(p2a[l][k], m)]
          /\ UNCHANGED <<p1a, n1b, pdec>>
      BY <2>3, <3>1 DEF SendAccept
    <3>5. /\ Len(p2a'[l][k]) = Len(p2a[l][k]) + 1
          /\ \A a \in Acceptors : Len(p2a[l][a]) <= Len(p2a'[l][a])
      BY <1>2, <3>2, <3>3, <3>4, LinkAdded
    <3>6. SomethingSpent(l) BY <1>3, <3>2, <3>5 DEF SomethingSpent
    <3>7. UNCHANGED <<p1a, n1b, pdec>> BY <3>4
    <3>8. NothingBack(l) BY <1>3, <2>1, <3>5, <3>7 DEF NothingBack
    <3> QED BY <3>6, <3>8
  <2>4. CASE Commit(l)
    <3>1. PICK v \in Values : pdec' = [pdec EXCEPT ![l] = Append(pdec[l], Proposal(bal[l], v))]
      BY <2>4 DEF Commit
    <3>2. UNCHANGED <<p1a, p2a, n1b>> BY <2>4 DEF Commit
    <3>3. PICK s, m : s = pdec[l] /\ m = Proposal(bal[l], v) OBVIOUS
    <3>4. s \in Seq(Proposals) /\ s \in Seq(Proposals \cup {m}) /\ pdec'[l] = Append(s, m)
      BY <1>2, <3>1, <3>3 DEF TypeOK
    <3>5. Len(Append(s, m)) = Len(s) + 1 BY <3>4
    <3>6. Len(pdec'[l]) = Len(pdec[l]) + 1 BY <3>3, <3>4, <3>5
    <3> QED BY <1>3, <2>1, <3>2, <3>6 DEF NothingBack, SomethingSpent
  <2>5. ASSUME NEW a \in Acceptors, Collect(l, a) PROVE NothingBack(l) /\ SomethingSpent(l)
    <3>1. n1b' = [n1b EXCEPT ![l][a] = n1b[l][a] + 1] /\ UNCHANGED <<p1a, p2a, pdec>>
      BY <2>5 DEF Collect
    <3>2. n1b'[l][a] = n1b[l][a] + 1 /\ \A b \in Acceptors : b # a => n1b'[l][b] = n1b[l][b]
      BY <1>2, <3>1
    <3> QED BY <1>3, <2>1, <3>1, <3>2 DEF NothingBack, SomethingSpent
  <2> QED BY <2>1, <2>2, <2>3, <2>4, <2>5 DEF ProposerStep
<1>6. ASSUME RoundsDone \/ Join PROVE NothingBack(l) /\ SomethingSpent(l)
  <2>1. UNCHANGED <<dep, handled, pdec, p1a, p2a, n1b>>
    BY <1>6 DEF RoundsDone, Join, vars
  <2>2. Stage < Stage' /\ Stage <= Stage' BY <1>6 DEF RoundsDone, Join, Stage
  <2>3. NothingBack(l) BY <1>3, <2>1, <2>2 DEF NothingBack
  <2> QED BY <2>2, <2>3 DEF SomethingSpent
<1> QED BY <1>1, <1>4, <1>5, <1>6 DEF SysNext, Returned, Spending

(* Every step of a deployment spends a turn or a message, and there are at *)
(* most `rounds` or 2 * rounds of each kind: no execution is infinite.     *)
(* With DeploymentsNeverStick, main returns if its threads are scheduled:  *)
(* fairness is all that Terminates still needs.                            *)
THEOREM DeploymentsEnd == SysSpec => []WithinBudget /\ [][Spending]_sysVars
<1>1. SysInv /\ AnswersInv /\ AnswersFewer => WithinBudget BY BudgetKept
<1>2. SysInv /\ [SysNext]_sysVars => [Spending]_sysVars BY StepSpends
<1>3. SysSpec => [](SysInv /\ AnswersInv) /\ [](TypeOK /\ AnswersFewer)
  BY AnswersHold, DeploymentsArePaxos, AnswersFewerHolds, PTL
<1> QED BY <1>1, <1>2, <1>3, PTL DEF SysSpec

-----------------------------------------------------------------------------
(* Every deployment, budgets and joins included, implements consensus.     *)
THEOREM DeploymentsAreConsensus == SysSpec => Decision!Safe
  BY DeploymentsArePaxos, PaxosIsConsensus
=============================================================================
