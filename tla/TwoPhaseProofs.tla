--------------------------- MODULE TwoPhaseProofs ---------------------------
(***************************************************************************)
(* Two-phase commit for any number of participants and turns: a turn       *)
(* commits exactly when everyone votes yes, it then has heard everyone in  *)
(* that turn, and broadcasting and gathering amounts to one remote call    *)
(* after the other.                                                        *)
(***************************************************************************)
EXTENDS TwoPhaseFanout, FiniteSetTheorems, TLAPS

Shape ==
    /\ size \in Nat \ {0} /\ rounds \in Nat /\ done \in 0 .. rounds
    /\ vote \in [Parts -> BOOLEAN]
    /\ prep \in [Parts -> Nat] /\ taken \in [Parts -> Nat] /\ got \in [Parts -> Nat]
    /\ rsp \in [Parts -> Seq(BOOLEAN)]
    /\ asked \in 0 .. size /\ slot \in 0 .. size
    /\ all_yes \in BOOLEAN /\ committed \in BOOLEAN

(* A vote is received after it is sent, sent after its Prepare is taken,   *)
(* and that is after the Prepare was sent.                                 *)
InOrder ==
    \A j \in Parts : /\ got[j] <= Len(rsp[j]) /\ Len(rsp[j]) <= taken[j]
                     /\ taken[j] <= prep[j]

(* One Prepare to everyone in every turn.                                  *)
OnePrepare == \A j \in Parts : prep[j] = IF j < asked THEN done + 1 ELSE done

(* Stale or not, a vote is its participant's vote (TpcfTok::gate).         *)
Honest == \A j \in Parts : \A n \in DOMAIN rsp[j] : rsp[j][n] = vote[j]

(* The loop invariant of the collecting phase.                             *)
Collecting ==
    /\ slot > 0 => asked = size
    /\ all_yes <=> \A j \in Parts : j < slot => vote[j]

Unanimous == \A j \in Parts : vote[j]

(* Without a No every turn collects every vote.                            *)
NothingLeft == Unanimous => \A j \in Parts : got[j] = IF j < slot THEN done + 1 ELSE done

Outcome ==
    /\ done = 0 => committed = FALSE
    /\ done > 0 => (committed <=> Unanimous)

Inv ==
    /\ Shape /\ InOrder /\ OnePrepare /\ Honest
    /\ Collecting /\ NothingLeft /\ Outcome

LEMMA InitInv == Init => Inv
<1> SUFFICES ASSUME Init PROVE Inv
  OBVIOUS
<1>1. Shape
  BY SizeAssumption DEF Init, Shape, Parts
<1>2. InOrder /\ OnePrepare /\ Honest
  BY <1>1 DEF Init, InOrder, OnePrepare, Honest, Parts
<1>3. Collecting /\ NothingLeft /\ Outcome
  BY <1>1 DEF Init, Collecting, NothingLeft, Outcome, Parts
<1> QED
  BY <1>1, <1>2, <1>3 DEF Inv

LEMMA ParticipantInv ==
    ASSUME Inv, NEW j \in Parts, Participant(j)
    PROVE  Inv'
<1>1. CASE RecvPrepare(j)
  <2>1. Shape'
    <3>1. taken' \in [Parts -> Nat]
      BY <1>1 DEF RecvPrepare, Inv, Shape
    <3> QED
      BY <1>1, <3>1 DEF RecvPrepare, Inv, Shape, Parts
  <2>2. InOrder'
    <3>1. /\ taken'[j] = taken[j] + 1
          /\ \A i \in Parts : i # j => taken'[i] = taken[i]
      BY <1>1 DEF RecvPrepare, Inv, Shape
    <3>2. \A i \in Parts : Len(rsp[i]) \in Nat /\ taken[i] \in Nat /\ prep[i] \in Nat
      BY DEF Inv, Shape
    <3> QED
      BY <1>1, <3>1, <3>2 DEF RecvPrepare, Inv, InOrder, Parts
  <2>3. OnePrepare' /\ Honest' /\ Collecting' /\ NothingLeft' /\ Outcome'
    BY <1>1 DEF RecvPrepare, Inv, OnePrepare, Honest, Collecting, NothingLeft,
                Outcome, Unanimous, Parts
  <2> QED
    BY <2>1, <2>2, <2>3 DEF Inv
<1>2. CASE SendVote(j)
  <2>1. rsp[j] \in Seq(BOOLEAN) /\ vote[j] \in BOOLEAN
    BY DEF Inv, Shape
  <2>2. /\ rsp'[j] = Append(rsp[j], vote[j]) /\ rsp'[j] \in Seq(BOOLEAN)
        /\ Len(rsp'[j]) = Len(rsp[j]) + 1 /\ Len(rsp[j]) \in Nat
        /\ \A n \in DOMAIN rsp'[j] :
             (n \in DOMAIN rsp[j] /\ rsp'[j][n] = rsp[j][n]) \/ rsp'[j][n] = vote[j]
        /\ \A i \in Parts : i # j => rsp'[i] = rsp[i]
    <3>1. /\ rsp'[j] = Append(rsp[j], vote[j])
          /\ \A i \in Parts : i # j => rsp'[i] = rsp[i]
      BY <1>2 DEF SendVote, Inv, Shape
    <3> QED
      BY <2>1, <3>1
  <2>3. Shape'
    <3>1. rsp' \in [Parts -> Seq(BOOLEAN)]
      BY <1>2, <2>1, <2>2 DEF SendVote, Inv, Shape
    <3> QED
      BY <1>2, <3>1 DEF SendVote, Inv, Shape, Parts
  <2>4. InOrder'
    <3>1. \A i \in Parts : Len(rsp[i]) \in Nat /\ taken[i] \in Nat /\ got[i] \in Nat
      BY DEF Inv, Shape
    <3> QED
      BY <1>2, <2>2, <3>1 DEF SendVote, MayVote, Inv, InOrder, Parts
  <2>5. Honest'
    BY <1>2, <2>2 DEF SendVote, Inv, Honest, Parts
  <2>6. OnePrepare' /\ Collecting' /\ NothingLeft' /\ Outcome'
    BY <1>2 DEF SendVote, Inv, OnePrepare, Collecting, NothingLeft,
                Outcome, Unanimous, Parts
  <2> QED
    BY <2>3, <2>4, <2>5, <2>6 DEF Inv
<1> QED
  BY <1>1, <1>2 DEF Participant

LEMMA BroadcastInv ==
    ASSUME Inv, Broadcast
    PROVE  Inv'
<1>1. /\ done < rounds /\ asked < size /\ asked' = asked + 1
      /\ prep' = [prep EXCEPT ![asked] = @ + 1]
      /\ UNCHANGED <<size, vote, rounds, done, taken, rsp, got, slot, all_yes, committed>>
  BY DEF Broadcast, Everyone
<1>2. asked \in Parts /\ size \in Nat /\ asked \in Nat
  BY <1>1 DEF Inv, Shape, Parts
<1>3. Shape'
  <2>1. prep' \in [Parts -> Nat]
    BY <1>1, <1>2 DEF Inv, Shape
  <2>2. asked' \in 0 .. size
    BY <1>1, <1>2
  <2> QED
    BY <1>1, <2>1, <2>2 DEF Inv, Shape, Parts
<1>4. /\ prep'[asked] = prep[asked] + 1 /\ prep[asked] = done
      /\ \A i \in Parts : i # asked => prep'[i] = prep[i]
  BY <1>1, <1>2 DEF Inv, Shape, OnePrepare
<1>5. InOrder'
  <2>1. \A i \in Parts : taken[i] \in Nat /\ prep[i] \in Nat
    BY DEF Inv, Shape
  <2> QED
    BY <1>1, <1>4, <2>1 DEF Inv, InOrder, Parts
<1>6. OnePrepare'
  <2>1. \A i \in Parts : i \in Nat
    BY <1>2 DEF Parts
  <2>2. done \in Nat
    BY DEF Inv, Shape
  <2> QED
    BY <1>1, <1>2, <1>4, <2>1, <2>2 DEF Inv, OnePrepare, Parts
<1>7. Collecting'
  <2>1. ~(slot > 0)
    BY <1>1, <1>2 DEF Inv, Collecting
  <2> QED
    BY <1>1, <2>1 DEF Inv, Collecting, Parts
<1>8. Honest' /\ NothingLeft' /\ Outcome'
  BY <1>1 DEF Inv, Honest, NothingLeft, Outcome, Unanimous, Parts
<1> QED
  BY <1>3, <1>5, <1>6, <1>7, <1>8 DEF Inv

(* What the next slot delivers is its participant's vote.                  *)
LEMMA CollectedVote ==
    ASSUME Inv, Collect
    PROVE  /\ slot \in Parts /\ all_yes = TRUE /\ all_yes' = vote[slot]
           /\ slot' = slot + 1 /\ got' = [got EXCEPT ![slot] = @ + 1]
           /\ asked = size /\ got[slot] + 1 \in 1 .. rounds
<1>1. /\ slot < size /\ all_yes /\ got[slot] < Len(rsp[slot]) /\ asked = size /\ done < rounds
      /\ all_yes' = rsp[slot][got[slot] + 1]
      /\ slot' = slot + 1 /\ got' = [got EXCEPT ![slot] = @ + 1]
  BY DEF Collect, More, Everyone
<1>2. slot \in Parts
  BY <1>1 DEF Inv, Shape, Parts
<1>3. /\ rsp[slot] \in Seq(BOOLEAN) /\ got[slot] \in Nat /\ taken[slot] \in Nat
      /\ prep[slot] \in Nat /\ done \in Nat /\ rounds \in Nat
  BY <1>2 DEF Inv, Shape
<1>4. got[slot] + 1 \in DOMAIN rsp[slot]
  BY <1>1, <1>3
<1>5. prep[slot] = done + 1
  BY <1>1, <1>2 DEF Inv, OnePrepare
<1>6. got[slot] + 1 \in 1 .. rounds
  BY <1>1, <1>2, <1>3, <1>5 DEF Inv, InOrder
<1> QED
  BY <1>1, <1>2, <1>4, <1>6 DEF Inv, Shape, Honest

LEMMA CollectInv ==
    ASSUME Inv, Collect
    PROVE  Inv'
<1>1. /\ slot \in Parts /\ all_yes = TRUE /\ all_yes' = vote[slot]
      /\ slot' = slot + 1 /\ got' = [got EXCEPT ![slot] = @ + 1] /\ asked = size
      /\ got[slot] < Len(rsp[slot])
      /\ UNCHANGED <<size, vote, rounds, done, prep, taken, rsp, asked, committed>>
  BY CollectedVote DEF Collect
<1>2. size \in Nat /\ slot \in Nat /\ slot < size /\ Parts' = Parts
      /\ \A i \in Parts : i \in Nat /\ got[i] \in Nat /\ Len(rsp[i]) \in Nat
  BY <1>1 DEF Inv, Shape, Parts
<1>3. Shape'
  BY <1>1, <1>2 DEF Inv, Shape, Parts
<1>4. got'[slot] = got[slot] + 1 /\ \A i \in Parts : i # slot => got'[i] = got[i]
  BY <1>1 DEF Inv, Shape
<1>5. InOrder'
  BY <1>1, <1>2, <1>4 DEF Inv, InOrder
<1>6. Collecting'
  <2>1. all_yes' <=> \A i \in Parts : i < slot + 1 => vote[i]
    <3>1. \A i \in Parts : i < slot => vote[i]
      BY <1>1 DEF Inv, Collecting
    <3>2. \A i \in Parts : i < slot + 1 <=> i < slot \/ i = slot
      BY <1>2
    <3>3. vote[slot] \in BOOLEAN
      BY <1>1 DEF Inv, Shape
    <3> QED
      BY <1>1, <3>1, <3>2, <3>3
  <2> QED
    BY <2>1, <1>1, <1>2 DEF Inv, Collecting
<1>7. NothingLeft'
  BY <1>1, <1>2, <1>4 DEF Inv, NothingLeft, Unanimous
<1>8. OnePrepare' /\ Honest' /\ Outcome'
  BY <1>1, <1>2 DEF Inv, OnePrepare, Honest, Outcome, Unanimous
<1> QED
  BY <1>3, <1>5, <1>6, <1>7, <1>8 DEF Inv

LEMMA FinishInv ==
    ASSUME Inv, Finish
    PROVE  Inv'
<1>1. /\ done < rounds /\ asked = size /\ ~(slot < size /\ all_yes)
      /\ committed' = all_yes /\ done' = done + 1
      /\ asked' = 0 /\ slot' = 0 /\ all_yes' = TRUE
      /\ UNCHANGED <<size, vote, rounds, prep, taken, rsp, got>>
  BY DEF Finish, More, FirstSlot, Everyone
<1>2. size \in Nat /\ slot \in Nat /\ slot <= size /\ done \in Nat /\ Parts' = Parts
      /\ \A i \in Parts : i \in Nat /\ i < size
  BY <1>1 DEF Inv, Shape, Parts
<1>3. Shape'
  BY <1>1, <1>2 DEF Inv, Shape, Parts
<1>4. all_yes <=> Unanimous
  <2>1. CASE all_yes
    <3>1. slot = size
      BY <1>1, <1>2, <2>1
    <3> QED
      BY <2>1, <3>1, <1>2 DEF Inv, Collecting, Unanimous
  <2>2. CASE ~all_yes
    BY <2>2 DEF Inv, Collecting, Unanimous
  <2> QED
    BY <2>1, <2>2
<1>5. OnePrepare'
  BY <1>1, <1>2 DEF Inv, OnePrepare
<1>6. Collecting' /\ Outcome'
  BY <1>1, <1>2, <1>4 DEF Collecting, Outcome, Unanimous
<1>7. NothingLeft'
  <2>1. Unanimous => slot = size
    BY <1>1, <1>2, <1>4
  <2> QED
    BY <2>1, <1>1, <1>2 DEF Inv, NothingLeft, Unanimous
<1>8. InOrder' /\ Honest'
  BY <1>1, <1>2 DEF Inv, InOrder, Honest
<1> QED
  BY <1>3, <1>5, <1>6, <1>7, <1>8 DEF Inv

LEMMA StepInv == Inv /\ [Next]_vars => Inv'
<1> SUFFICES ASSUME Inv, [Next]_vars PROVE Inv'
  OBVIOUS
<1>1. CASE Join \/ UNCHANGED vars
  <2>1. /\ size' = size /\ vote' = vote /\ rounds' = rounds /\ done' = done
        /\ prep' = prep /\ taken' = taken /\ rsp' = rsp /\ got' = got
        /\ asked' = asked /\ slot' = slot /\ all_yes' = all_yes /\ committed' = committed
    BY <1>1 DEF Join, vars
  <2>2. Parts' = Parts
    BY <2>1 DEF Parts
  <2>3. Shape' /\ InOrder' /\ OnePrepare' /\ Honest'
    BY <2>1, <2>2 DEF Inv, Shape, InOrder, OnePrepare, Honest
  <2>4. Collecting' /\ NothingLeft' /\ Outcome'
    BY <2>1, <2>2 DEF Inv, Collecting, NothingLeft, Outcome, Unanimous
  <2> QED
    BY <2>3, <2>4 DEF Inv
<1>2. CASE \E j \in Parts : Participant(j)
  BY <1>2, ParticipantInv
<1>3. CASE Broadcast \/ Collect \/ Finish
  BY <1>3, BroadcastInv, CollectInv, FinishInv
<1> QED
  BY <1>1, <1>2, <1>3 DEF Next, Coordinator

(* Commit exactly on unanimity, for every deployment and every interleaving*)
(* of its threads, stale votes of earlier turns included.                  *)
THEOREM CommitIsUnanimous == Spec => []CommitIffAllYes
<1>1. Inv => CommitIffAllYes
  BY DEF Inv, Outcome, Unanimous, CommitIffAllYes
<1> QED
  BY <1>1, InitInv, StepInv, PTL DEF Spec

(* After a turn that committed no request and no vote is under way.        *)
THEOREM CommitLeavesNothing == Spec => []CommitIsFresh
<1>1. Inv => CommitIsFresh
  <2> SUFFICES ASSUME Inv, committed, asked = 0, NEW j \in Parts
               PROVE  prep[j] = done /\ taken[j] = done /\ Len(rsp[j]) = done /\ got[j] = done
    BY DEF CommitIsFresh
  <2>1. /\ size \in Nat \ {0} /\ slot \in Nat /\ done \in Nat /\ j \in Nat
        /\ prep[j] \in Nat /\ taken[j] \in Nat /\ Len(rsp[j]) \in Nat /\ got[j] \in Nat
    BY DEF Inv, Shape, Parts
  <2>2. Unanimous /\ slot = 0
    BY <2>1 DEF Inv, Outcome, Collecting
  <2>3. prep[j] = done /\ got[j] = done
    BY <2>1, <2>2 DEF Inv, OnePrepare, NothingLeft
  <2> QED
    BY <2>1, <2>3 DEF Inv, InOrder
<1> QED
  BY <1>1, InitInv, StepInv, PTL DEF Spec

-----------------------------------------------------------------------------
(* The refinement.                                                         *)

LEMMA ReceivedFinite == Inv => IsFiniteSet(Received)
<1> SUFFICES ASSUME Inv PROVE IsFiniteSet(Received)
  OBVIOUS
<1>1. IsFiniteSet(Parts) /\ IsFiniteSet(1 .. rounds)
  BY FS_Interval DEF Inv, Shape, Parts
<1>2. IsFiniteSet(Parts \X (1 .. rounds))
  BY <1>1, FS_Product
<1> QED
  BY <1>2, FS_Subset DEF Received

(* Collecting a vote is a call: it uses up one reply channel.              *)
LEMMA CollectRefines ==
    ASSUME Inv, Collect
    PROVE  Calls!Call
<1>1. /\ slot \in Parts /\ all_yes' = vote[slot] /\ slot' = slot + 1
      /\ got' = [got EXCEPT ![slot] = @ + 1] /\ got[slot] + 1 \in 1 .. rounds
  BY CollectedVote
<1> DEFINE new == <<slot, got[slot] + 1>>
<1>2. got \in [Parts -> Nat] /\ rounds \in Nat
  BY DEF Inv, Shape
<1>3. Parts' = Parts /\ rounds' = rounds
  BY DEF Collect, Parts
<1>4. Received' = Received \cup {new}
  <2>1. /\ got'[slot] = got[slot] + 1
        /\ \A i \in Parts : i # slot => got'[i] = got[i]
    BY <1>1, <1>2
  <2>2. ASSUME NEW i \in Parts, NEW n \in 1 .. rounds
        PROVE  n <= got'[i] <=> n <= got[i] \/ <<i, n>> = new
    BY <1>1, <1>2, <2>1
  <2>3. Received' = {v \in Parts \X (1 .. rounds) : v[2] <= got'[v[1]]}
    BY <1>3 DEF Received
  <2>4. new \in Parts \X (1 .. rounds)
    BY <1>1
  <2> QED
    BY <2>2, <2>3, <2>4 DEF Received
<1>5. new \notin Received
  BY <1>1, <1>2 DEF Received
<1>6. Cardinality(Received') = Cardinality(Received) + 1
  BY <1>4, <1>5, ReceivedFinite, FS_AddElement
<1> QED
  BY <1>1, <1>6 DEF Collect, More, Calls!Call, Calls!More

(* Every run of the deployed protocol is a run of the sequence of calls.   *)
THEOREM FanoutImplementsCalls == Spec => Calls!Spec
<1>1. Init => Calls!Init
  <2> SUFFICES ASSUME Init PROVE Calls!Init
    OBVIOUS
  <2>1. Received = {}
    BY DEF Init, Received, Parts
  <2>2. Cardinality(Received) = 0
    BY <2>1, FS_EmptySet
  <2> QED
    BY <2>2 DEF Init, Calls!Init
<1>2. Inv /\ [Next]_vars => [Calls!Next]_(Calls!vars)
  <2> SUFFICES ASSUME Inv, [Next]_vars PROVE [Calls!Next]_(Calls!vars)
    OBVIOUS
  <2>1. CASE Collect
    BY <2>1, CollectRefines DEF Calls!Next
  <2>2. CASE Finish
    <3>1. Received' = Received
      BY <2>2 DEF Finish, Received, Parts
    <3> QED
      BY <2>2, <3>1 DEF Finish, More, FirstSlot, Calls!Next, Calls!Return, Calls!More
  <2>3. CASE Broadcast \/ Join \/ (\E j \in Parts : Participant(j)) \/ UNCHANGED vars
    <3>1. Received' = Received
      BY <2>3 DEF Broadcast, Join, Participant, RecvPrepare, SendVote, vars, Received, Parts
    <3> QED
      BY <2>3, <3>1 DEF Broadcast, Join, Participant, RecvPrepare, SendVote, vars, Calls!vars
  <2> QED
    BY <2>1, <2>2, <2>3 DEF Next, Coordinator
<1> QED
  BY <1>1, <1>2, InitInv, StepInv, PTL DEF Spec, Calls!Spec

-----------------------------------------------------------------------------
(* Nobody waits for what is not coming.                                    *)

(* No vote is received, and nobody is asked, ahead of its turn.            *)
NotAhead ==
    /\ joined \in 0 .. size
    /\ done = rounds => asked = 0
    /\ \A j \in Parts : got[j] <= IF j < slot THEN done + 1 ELSE done

LEMMA NotAheadStep == Inv /\ NotAhead /\ [Next]_vars => NotAhead'
<1> SUFFICES ASSUME Inv, NotAhead, [Next]_vars PROVE NotAhead'
  OBVIOUS
<1>1. /\ size \in Nat \ {0} /\ done \in Nat /\ slot \in Nat
      /\ \A i \in Parts : i \in Nat /\ got[i] \in Nat
  BY DEF Inv, Shape, Parts
<1>2. CASE Collect
  <2>1. /\ slot \in Parts /\ slot' = slot + 1 /\ got' = [got EXCEPT ![slot] = @ + 1]
        /\ done < rounds /\ UNCHANGED <<size, done, joined, rounds>>
    BY <1>2, CollectedVote DEF Collect
  <2>2. got'[slot] = got[slot] + 1 /\ \A i \in Parts : i # slot => got'[i] = got[i]
    BY <2>1 DEF Inv, Shape
  <2> QED
    BY <1>1, <2>1, <2>2 DEF NotAhead, Parts
<1>3. CASE Finish
  <2>1. /\ done' = done + 1 /\ slot' = 0 /\ asked' = 0 /\ UNCHANGED <<size, got, joined>>
    BY <1>3 DEF Finish, FirstSlot
  <2> QED
    BY <1>1, <2>1 DEF NotAhead, Parts
<1>4. CASE Join
  BY <1>1, <1>4 DEF Join, NotAhead, Parts
<1>5. CASE Broadcast
  <2>1. rounds \in Nat /\ done < rounds /\ UNCHANGED <<size, rounds, done, slot, got, joined>>
    BY <1>5 DEF Broadcast, Inv, Shape
  <2> QED
    BY <1>1, <2>1 DEF NotAhead, Parts
<1>6. CASE (\E j \in Parts : Participant(j)) \/ UNCHANGED vars
  BY <1>6 DEF Participant, RecvPrepare, SendVote, vars, NotAhead, Parts
<1> QED
  BY <1>2, <1>3, <1>4, <1>5, <1>6 DEF Next, Coordinator

LEMMA NotAheadHolds == Spec => [](Inv /\ NotAhead)
<1>1. Init => NotAhead
  BY InitInv DEF Init, NotAhead, Parts, Inv, Shape
<1> QED
  BY <1>1, InitInv, StepInv, NotAheadStep, PTL DEF Spec

(* Who the main thread waits for: the participant of the slot it collects  *)
(* from, or of the thread it joins next.                                   *)
Awaited == IF done < rounds THEN slot ELSE size - 1 - joined

MainCanMove ==
    \/ done < rounds /\ asked < size /\ Running(asked)
    \/ done < rounds /\ asked = size /\ (More => got[slot] < Len(rsp[slot]))
    \/ done = rounds /\ ~Running(Awaited)

CanMove(j) ==
    \/ MayVote(j)
    \/ Running(j) /\ taken[j] = Len(rsp[j]) /\ taken[j] < prep[j]

NobodyWaitsInVain == joined < size => MainCanMove \/ (Awaited \in Parts /\ CanMove(Awaited))

(* Until every thread is joined, the main thread has a step to take, or    *)
(* the very participant it waits for has.  A request goes to a thread that *)
(* has not ended, so sending it does not panic.  Whoever is waited for was *)
(* sent a request in this turn, and its answer is not the stale one of a   *)
(* turn that ended at the first No.  This holds of any number of           *)
(* participants and turns, and leaves to EveryoneJoined only that threads  *)
(* that can run do.                                                        *)
THEOREM NobodyWaits == Spec => []NobodyWaitsInVain
<1>1. Inv /\ NotAhead => NobodyWaitsInVain
  <2> SUFFICES ASSUME Inv, NotAhead, joined < size, ~MainCanMove
               PROVE  Awaited \in Parts /\ CanMove(Awaited)
    BY DEF NobodyWaitsInVain
  <2>1. /\ size \in Nat \ {0} /\ rounds \in Nat /\ done \in 0 .. rounds /\ slot \in 0 .. size
        /\ asked \in 0 .. size /\ joined \in 0 .. size
        /\ \A i \in Parts : Len(rsp[i]) \in Nat /\ taken[i] \in Nat /\ prep[i] \in Nat
                            /\ got[i] \in Nat
    BY DEF Inv, Shape, NotAhead, Parts
  <2>2. CASE done < rounds
    <3>0. asked = size
      <4>1. ASSUME asked < size PROVE Running(asked)
        <5>1. PICK j \in Parts : j = asked
          BY <2>1, <4>1 DEF Parts
        <5>2. prep[j] = done /\ Len(rsp[j]) <= taken[j] /\ taken[j] <= prep[j]
          BY <2>1, <5>1 DEF Inv, OnePrepare, InOrder
        <5> QED
          BY <2>1, <2>2, <5>1, <5>2 DEF Running
      <4> QED
        BY <2>1, <2>2, <4>1 DEF MainCanMove
    <3>1. More /\ ~(got[slot] < Len(rsp[slot])) /\ Awaited = slot
      BY <2>1, <2>2, <3>0 DEF MainCanMove, Awaited
    <3>2. slot \in Parts /\ slot < asked
      BY <2>1, <3>0, <3>1 DEF More, Parts
    <3>3. prep[slot] = done + 1 /\ got[slot] <= done
      BY <2>1, <3>0, <3>2 DEF Inv, OnePrepare, NotAhead
    <3>4. Len(rsp[slot]) <= done /\ Len(rsp[slot]) <= taken[slot]
      BY <2>1, <3>1, <3>2, <3>3 DEF Inv, InOrder
    <3> QED
      BY <2>1, <2>2, <3>1, <3>2, <3>3, <3>4 DEF CanMove, MayVote, Running
  <2>3. CASE done = rounds
    <3>1. Awaited = size - 1 - joined /\ Awaited \in Parts
      BY <2>1, <2>3 DEF Awaited, Parts
    <3>2. Len(rsp[Awaited]) < rounds
      BY <2>1, <2>3 DEF MainCanMove, Running
    <3>3. PICK j \in Parts : j = Awaited
      BY <3>1
    <3>4. prep[j] = done
      <4>1. asked = 0 /\ j \in Nat
        BY <2>1, <2>3 DEF NotAhead, Parts
      <4> QED
        BY <4>1 DEF Inv, OnePrepare
    <3>5. Len(rsp[j]) <= taken[j] /\ taken[j] <= prep[j]
      BY DEF Inv, InOrder
    <3> QED
      BY <2>1, <2>3, <3>1, <3>2, <3>3, <3>4, <3>5 DEF CanMove, MayVote, Running
  <2> QED
    BY <2>1, <2>2, <2>3
<1> QED
  BY <1>1, NotAheadHolds, PTL

(* The messages and turns of a deployment, which are only ever spent.      *)
InTurns ==
    /\ done \in 0 .. rounds /\ joined \in 0 .. size
    /\ \A j \in Parts : /\ prep[j] \in 0 .. rounds /\ taken[j] \in 0 .. rounds
                        /\ Len(rsp[j]) \in 0 .. rounds /\ got[j] \in 0 .. rounds

NothingBack ==
    /\ UNCHANGED <<size, rounds>> /\ done <= done' /\ joined <= joined'
    /\ \A j \in Parts : /\ prep[j] <= prep'[j] /\ taken[j] <= taken'[j]
                        /\ Len(rsp[j]) <= Len(rsp'[j]) /\ got[j] <= got'[j]

SomethingSpent ==
    \/ done < done' \/ joined < joined'
    \/ \E j \in Parts : \/ prep[j] < prep'[j] \/ taken[j] < taken'[j]
                        \/ Len(rsp[j]) < Len(rsp'[j]) \/ got[j] < got'[j]

(* Every step of a thread uses up a turn or a message and there are at     *)
(* most rounds of each per participant: no execution is infinite.  As      *)
(* nobody waits in vain either, the deployment ends with every thread      *)
(* joined if the threads are scheduled, which is all of EveryoneJoined     *)
(* that rests on fairness.                                                 *)
THEOREM TurnsRunOut == Spec => []InTurns /\ [][NothingBack /\ SomethingSpent]_vars
<1>1. Inv /\ NotAhead => InTurns
  <2> SUFFICES ASSUME Inv, NotAhead PROVE InTurns
    OBVIOUS
  <2>1. /\ size \in Nat /\ rounds \in Nat /\ done \in 0 .. rounds /\ joined \in 0 .. size
        /\ asked \in 0 .. size /\ (done = rounds => asked = 0)
    BY DEF Inv, Shape, NotAhead
  <2>2. ASSUME NEW j \in Parts
        PROVE  /\ prep[j] \in 0 .. rounds /\ taken[j] \in 0 .. rounds
               /\ Len(rsp[j]) \in 0 .. rounds /\ got[j] \in 0 .. rounds
    <3>1. /\ prep[j] \in Nat /\ taken[j] \in Nat /\ Len(rsp[j]) \in Nat /\ got[j] \in Nat
          /\ j \in Nat
      BY <2>1 DEF Inv, Shape, Parts
    <3>2. got[j] <= Len(rsp[j]) /\ Len(rsp[j]) <= taken[j] /\ taken[j] <= prep[j]
      BY DEF Inv, InOrder
    <3>3. prep[j] <= rounds
      BY <2>1, <3>1 DEF Inv, OnePrepare
    <3>4. PICK n : n = Len(rsp[j])
      OBVIOUS
    <3>5. n \in 0 .. rounds
      BY <2>1, <3>1, <3>2, <3>3, <3>4
    <3> QED
      BY <2>1, <3>1, <3>2, <3>3, <3>4, <3>5
  <2> QED
    BY <2>1, <2>2 DEF InTurns
<1>2. Inv /\ NotAhead /\ [Next]_vars => [NothingBack /\ SomethingSpent]_vars
  <2> SUFFICES ASSUME Inv, NotAhead, Next PROVE NothingBack /\ SomethingSpent
    OBVIOUS
  <2>1. /\ size \in Nat /\ rounds \in Nat /\ done \in Nat /\ joined \in Nat
        /\ slot \in 0 .. size /\ asked \in 0 .. size
        /\ prep \in [Parts -> Nat] /\ taken \in [Parts -> Nat] /\ got \in [Parts -> Nat]
        /\ \A j \in Parts : Len(rsp[j]) \in Nat
    BY DEF Inv, Shape, NotAhead, Parts
  <2>2. CASE Broadcast
    <3>1. /\ asked \in Parts /\ prep' = [prep EXCEPT ![asked] = @ + 1]
          /\ UNCHANGED <<size, rounds, done, taken, rsp, got, joined>>
      BY <2>1, <2>2 DEF Broadcast, Everyone, Parts
    <3> QED
      BY <2>1, <3>1 DEF NothingBack, SomethingSpent
  <2>3. CASE Collect
    <3>1. /\ slot \in Parts /\ got' = [got EXCEPT ![slot] = @ + 1]
          /\ UNCHANGED <<size, rounds, done, prep, taken, rsp, joined>>
      BY <2>1, <2>3 DEF Collect, More, Parts
    <3> QED
      BY <2>1, <3>1 DEF NothingBack, SomethingSpent
  <2>4. CASE Finish \/ Join
    <3>1. UNCHANGED <<size, rounds, prep, taken, rsp, got>>
      BY <2>4 DEF Finish, Join
    <3>2. done <= done' /\ joined <= joined' /\ (done < done' \/ joined < joined')
      <4>1. CASE Finish
        BY <2>1, <4>1 DEF Finish
      <4>2. CASE Join
        BY <2>1, <4>2 DEF Join
      <4> QED
        BY <2>4, <4>1, <4>2
    <3>3. \A j \in Parts : Len(rsp[j]) <= Len(rsp'[j])
      BY <2>1, <3>1
    <3> QED
      BY <2>1, <3>1, <3>2, <3>3 DEF NothingBack, SomethingSpent
  <2>5. ASSUME NEW i \in Parts, RecvPrepare(i) PROVE NothingBack /\ SomethingSpent
    <3>1. /\ taken' = [taken EXCEPT ![i] = @ + 1]
          /\ UNCHANGED <<size, rounds, done, prep, rsp, got, joined>>
      BY <2>5 DEF RecvPrepare
    <3> QED
      BY <2>1, <3>1 DEF NothingBack, SomethingSpent
  <2>6. ASSUME NEW i \in Parts, SendVote(i) PROVE NothingBack /\ SomethingSpent
    <3>1. /\ rsp' = [rsp EXCEPT ![i] = Append(rsp[i], vote[i])]
          /\ UNCHANGED <<size, rounds, done, prep, taken, got, joined>>
      BY <2>6 DEF SendVote
    <3>2. rsp \in [Parts -> Seq(BOOLEAN)] /\ vote[i] \in BOOLEAN
      BY DEF Inv, Shape, Parts
    <3>3. /\ Len(rsp'[i]) = Len(rsp[i]) + 1
          /\ \A j \in Parts : j # i => rsp'[j] = rsp[j]
      <4>1. PICK r : r = rsp[i]
        OBVIOUS
      <4>2. r \in Seq(BOOLEAN) /\ rsp'[i] = Append(r, vote[i])
        BY <3>1, <3>2, <4>1
      <4>3. Len(Append(r, vote[i])) = Len(r) + 1
        BY <3>2, <4>2
      <4> QED
        BY <3>1, <3>2, <4>1, <4>2, <4>3
    <3>4. ASSUME NEW j \in Parts PROVE Len(rsp[j]) <= Len(rsp'[j])
      <4>1. CASE j = i
        BY <2>1, <3>3, <4>1
      <4>2. CASE j # i
        BY <2>1, <3>3, <4>2
      <4> QED
        BY <4>1, <4>2
    <3>5. Len(rsp[i]) < Len(rsp'[i])
      BY <2>1, <3>3
    <3> QED
      BY <2>1, <3>1, <3>4, <3>5 DEF NothingBack, SomethingSpent
  <2> QED
    BY <2>2, <2>3, <2>4, <2>5, <2>6 DEF Next, Coordinator, Participant
<1> QED
  BY <1>1, <1>2, NotAheadHolds, PTL DEF Spec
=============================================================================
