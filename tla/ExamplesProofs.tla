--------------------------- MODULE ExamplesProofs ---------------------------
(***************************************************************************)
(* Proofs about the examples: the heartbeat and the layer above it, for    *)
(* every largest sequence number; stacks of layers in general; the mailbox *)
(* scan, the collector and the remote call.  The inductive invariant of    *)
(* the links is what BothLinks and Monitor state between their steps       *)
(* (everything sent is below the counter), and what becomes of it at the   *)
(* interference point of send_both, where the beat that is out still has   *)
(* the counter's number.  The mailbox, the collector and the call each     *)
(* implement an atomic step: fairness apart, their specifications MSafe,   *)
(* Hub's Safe and RemoteCall's Safe.                                       *)
(***************************************************************************)
EXTENDS LayersDemo, LayerStack, Collector, PingPong, TLAPS

Numbers == 0 .. MaxSeq
Witnesses == Nat \X Numbers

BeatTypes ==
    /\ layout \in {"both", "apart"}
    /\ at \in {"ready", "between"}
    /\ seq \in Numbers
    /\ beats \in Seq(Numbers)
    /\ heard \in Seq(Numbers)

Increasing == \A x, y \in DOMAIN beats : x < y => beats[x] < beats[y]

CounterAbove == at = "ready" => \A x \in DOMAIN beats : beats[x] < seq

LastIsOut ==
    at = "between" =>
      /\ layout = "both" /\ seq < MaxSeq
      /\ Len(beats) > 0 /\ beats[Len(beats)] = seq

(* What the watcher was handed are positions it has consumed, in order.    *)
Handed ==
    /\ handed \in Seq(Witnesses)
    /\ Len(handed) \in 0 .. 2
    /\ Len(heard) <= Len(beats)
    /\ \A n \in DOMAIN handed :
         handed[n][1] < Len(heard) /\ handed[n][2] = beats[handed[n][1] + 1]
    /\ Len(handed) > 1 => handed[1][1] < handed[2][1]

LInv == BeatTypes /\ Increasing /\ CounterAbove /\ LastIsOut /\ Handed

-----------------------------------------------------------------------------

LEMMA LInvInit == LinkInit => LInv
  BY SeqAssumption
  DEF LinkInit, LInv, BeatTypes, Increasing, CounterAbove, LastIsOut, Handed, Numbers

(* What appending the next number does to the history.                     *)
LEMMA Appended ==
  ASSUME NEW s \in Seq(Numbers), NEW m \in Numbers
  PROVE  /\ Append(s, m) \in Seq(Numbers)
         /\ Len(Append(s, m)) = Len(s) + 1
         /\ DOMAIN Append(s, m) = 1 .. Len(s) + 1
         /\ Append(s, m)[Len(s) + 1] = m
         /\ \A x \in DOMAIN s : x \in 1 .. Len(s) /\ Append(s, m)[x] = s[x]
  BY DEF Numbers

LEMMA TwoLong ==
  ASSUME NEW S, NEW s \in Seq(S), Len(s) > 1
  PROVE  1 \in DOMAIN s /\ 2 \in DOMAIN s /\ s[1] \in S /\ s[2] \in S
  OBVIOUS

LEMMA SendBeatInv == LInv /\ SendBeat => LInv'
<1> SUFFICES ASSUME LInv, SendBeat PROVE LInv'
  OBVIOUS
<1> USE DEF LInv, BeatTypes
<1>1. seq \in Numbers /\ beats \in Seq(Numbers) /\ at = "ready" /\ seq < MaxSeq
  BY DEF SendBeat, CanBeat
<1>2. beats' = Append(beats, seq)
  BY DEF SendBeat
<1>3. /\ beats' \in Seq(Numbers) /\ Len(beats') = Len(beats) + 1
      /\ DOMAIN beats' = 1 .. Len(beats) + 1 /\ beats'[Len(beats) + 1] = seq
      /\ \A x \in DOMAIN beats : x \in 1 .. Len(beats) /\ beats'[x] = beats[x]
  BY <1>1, <1>2, Appended
<1>4. DOMAIN beats = 1 .. Len(beats) /\ Len(beats) \in Nat
  BY <1>1
<1>5. NextSeq = seq + 1 /\ seq + 1 \in Numbers
  BY <1>1, SeqAssumption DEF NextSeq, Numbers
<1>6. BeatTypes'
  BY <1>1, <1>3, <1>5 DEF SendBeat
<1>7. Increasing'
  <2> SUFFICES ASSUME NEW x \in 1 .. Len(beats) + 1, NEW y \in 1 .. Len(beats) + 1, x < y
               PROVE  beats'[x] < beats'[y]
    BY <1>3 DEF Increasing
  <2>1. x \in DOMAIN beats
    BY <1>4
  <2>2. CASE y = Len(beats) + 1
    BY <1>1, <1>3, <2>1, <2>2 DEF CounterAbove
  <2>3. CASE y # Len(beats) + 1
    BY <1>3, <1>4, <2>1, <2>3 DEF Increasing
  <2> QED BY <2>2, <2>3
<1>8. CounterAbove'
  <2> SUFFICES ASSUME at' = "ready", NEW x \in 1 .. Len(beats) + 1 PROVE beats'[x] < seq'
    BY <1>3 DEF CounterAbove
  <2>1. seq' = seq + 1
    BY <1>1, <1>5 DEF SendBeat
  <2>2. CASE x = Len(beats) + 1
    BY <1>1, <1>3, <2>1, <2>2 DEF Numbers
  <2>3. CASE x # Len(beats) + 1
    <3>1. x \in DOMAIN beats /\ beats[x] < seq
      BY <1>1, <1>4, <2>3 DEF CounterAbove
    <3>2. beats[x] \in Numbers
      BY <1>1, <3>1
    <3> QED BY <1>1, <1>3, <2>1, <3>1, <3>2 DEF Numbers
  <2> QED BY <2>2, <2>3
<1>9. LastIsOut'
  BY <1>1, <1>3, <1>4 DEF LastIsOut, SendBeat
<1>10. Handed'
  <2>1. UNCHANGED <<heard, handed>>
    BY DEF SendBeat
  <2>2. ASSUME NEW n \in DOMAIN handed PROVE handed[n][2] = beats'[handed[n][1] + 1]
    <3>1. handed[n] \in Witnesses /\ handed[n][1] \in Nat
      BY DEF Handed, Witnesses
    <3>2. handed[n][1] + 1 \in DOMAIN beats
      BY <1>4, <3>1 DEF Handed
    <3> QED BY <1>3, <3>2 DEF Handed
  <2> QED BY <1>3, <1>4, <2>1, <2>2 DEF Handed
<1> QED BY <1>6, <1>7, <1>8, <1>9, <1>10

LEMMA SecondOfBothInv == LInv /\ SecondOfBoth => LInv'
<1> SUFFICES ASSUME LInv, SecondOfBoth PROVE LInv'
  OBVIOUS
<1> USE DEF LInv, BeatTypes
<1>1. at = "between" /\ at' = "ready" /\ seq' = NextSeq
      /\ UNCHANGED <<layout, beats, heard, handed>>
  BY DEF SecondOfBoth, SendPkt
<1>2. seq \in Numbers /\ seq < MaxSeq /\ Len(beats) \in Nat /\ DOMAIN beats = 1 .. Len(beats)
      /\ Len(beats) > 0 /\ beats[Len(beats)] = seq
  BY <1>1 DEF LastIsOut
<1>3. seq' = seq + 1 /\ seq + 1 \in Numbers
  BY <1>1, <1>2, SeqAssumption DEF NextSeq, Numbers
<1>4. CounterAbove'
  <2> SUFFICES ASSUME NEW x \in DOMAIN beats PROVE beats[x] < seq + 1
    BY <1>1, <1>3 DEF CounterAbove
  <2>1. beats[x] \in Numbers /\ x \in 1 .. Len(beats)
    BY <1>2
  <2>2. CASE x = Len(beats)
    BY <1>2, <2>2 DEF Numbers
  <2>3. CASE x # Len(beats)
    <3>1. x < Len(beats) /\ Len(beats) \in DOMAIN beats
      BY <1>2, <2>1, <2>3
    <3>2. beats[x] < beats[Len(beats)]
      BY <3>1 DEF Increasing
    <3> QED BY <1>2, <2>1, <3>2 DEF Numbers
  <2> QED BY <2>2, <2>3
<1>5. BeatTypes' /\ Increasing' /\ LastIsOut' /\ Handed'
  BY <1>1, <1>3 DEF Increasing, LastIsOut, Handed
<1> QED BY <1>4, <1>5

LEMMA HearBeatInv ==
  ASSUME LInv, NEW p \in 0 .. Len(beats) - 1, WatcherStep(p) \/ WatcherPair(p)
  PROVE  LInv'
<1> USE DEF LInv, BeatTypes
<1>1. /\ p = Len(heard) /\ heard' = Append(heard, beats[p + 1])
      /\ UNCHANGED <<layout, seq, at, beats>>
  BY DEF WatcherStep, WatcherPair, HearBeat, BeatIsNext
<1>2. Len(beats) \in Nat /\ p \in Nat /\ p + 1 \in DOMAIN beats /\ beats[p + 1] \in Numbers
  OBVIOUS
<1>3. heard' \in Seq(Numbers) /\ Len(heard') = p + 1 /\ Len(heard') <= Len(beats)
  BY <1>1, <1>2
<1>4. CASE WatcherStep(p)
  BY <1>1, <1>3, <1>4
  DEF WatcherStep, Increasing, CounterAbove, LastIsOut, Handed
<1>5. CASE WatcherPair(p)
  <2> DEFINE before == IF Len(handed) = 2 THEN <<>> ELSE handed
             w == <<p, beats[p + 1]>>
  <2>1. handed' = Append(before, w) /\ w \in Witnesses
    BY <1>2, <1>5 DEF WatcherPair, Witnesses
  <2>2. before \in Seq(Witnesses) /\ Len(before) \in 0 .. 1
    BY DEF Handed
  <2>3. /\ handed' \in Seq(Witnesses)
        /\ Len(handed') = Len(before) + 1 /\ DOMAIN handed' = 1 .. Len(before) + 1
        /\ handed'[Len(before) + 1] = w
        /\ \A n \in DOMAIN before : n = 1 /\ Len(before) = 1 /\ handed'[n] = before[n]
    <3> HIDE DEF before, w
    <3> QED BY <2>1, <2>2
  <2>4. \A n \in DOMAIN before :
           before[n][1] < p /\ before[n][1] \in Nat /\ before[n][2] = beats[before[n][1] + 1]
    <3>1. \A n \in DOMAIN handed : handed[n] \in Witnesses
      BY DEF Handed
    <3> QED BY <1>1, <3>1 DEF Handed, Witnesses
  <2>5. ASSUME NEW n \in DOMAIN handed'
        PROVE  handed'[n][1] < p + 1 /\ handed'[n][2] = beats[handed'[n][1] + 1]
    <3>1. CASE n = Len(before) + 1
      BY <1>2, <2>3, <3>1
    <3>2. CASE n # Len(before) + 1
      <4>1. n \in DOMAIN before
        <5> HIDE DEF before
        <5> QED BY <2>2, <2>3, <3>2
      <4> QED BY <1>2, <2>3, <2>4, <4>1
    <3> QED BY <3>1, <3>2
  <2>6. Len(handed') > 1 => handed'[1][1] < handed'[2][1]
    <3> SUFFICES ASSUME Len(handed') > 1 PROVE handed'[1][1] < handed'[2][1]
      OBVIOUS
    <3>1. Len(before) = 1 /\ 1 \in DOMAIN before
      <4> HIDE DEF before
      <4>1. DOMAIN before = 1 .. Len(before)
        BY <2>2
      <4>2. Len(before) = 1
        BY <2>2, <2>3
      <4> QED BY <4>1, <4>2
    <3>2. handed'[2] = w /\ handed'[1] = before[1]
      <4> HIDE DEF before, w
      <4> QED BY <2>3, <3>1
    <3> QED BY <2>4, <3>1, <3>2
  <2>7. Handed'
    <3> HIDE DEF before, w
    <3> QED BY <1>1, <1>3, <2>2, <2>3, <2>5, <2>6 DEF Handed
  <2> QED BY <1>1, <1>3, <2>7 DEF Increasing, CounterAbove, LastIsOut
<1> QED BY <1>4, <1>5

LEMMA LInvStep == LInv /\ [LinkNext]_linkVars => LInv'
<1> SUFFICES ASSUME LInv, [LinkNext]_linkVars PROVE LInv'
  OBVIOUS
<1>1. CASE SendBeat
  BY <1>1, SendBeatInv
<1>2. CASE SecondOfBoth
  BY <1>2, SecondOfBothInv
<1>3. CASE Transmit \/ \E p \in 0 .. Len(pkts) - 1 : Catch(p)
  BY <1>3 DEF Transmit, SendPkt, Catch, LInv, BeatTypes, Increasing, CounterAbove,
              LastIsOut, Handed
<1>4. CASE \E p \in 0 .. Len(beats) - 1 : WatcherStep(p) \/ WatcherPair(p)
  BY <1>4, HearBeatInv
<1>5. CASE UNCHANGED linkVars
  BY <1>5 DEF linkVars, LInv, BeatTypes, Increasing, CounterAbove, LastIsOut, Handed
<1> QED BY <1>1, <1>2, <1>3, <1>4, <1>5 DEF LinkNext

LEMMA LInvAlways == LinkSpec => []LInv
  BY LInvInit, LInvStep, PTL DEF LinkSpec

-----------------------------------------------------------------------------

(* The watcher owns no history, yet the two beats of two_increase come     *)
(* from two sends and their numbers increase, whatever the sender and the  *)
(* other link do in between.                                               *)
THEOREM WatcherKnowsHolds == LinkSpec => []WatcherKnows
<1>1. LInv => WatcherKnows
  <2>0. ASSUME NEW n, n = 2 PROVE n > 1
    BY <2>0
  <2> SUFFICES ASSUME LInv, Len(handed) > 1
               PROVE  handed[1][1] < handed[2][1] /\ handed[1][2] < handed[2][2]
    BY <2>0, Zenon DEF WatcherKnows, PairGives
  <2> USE DEF LInv, BeatTypes, Handed
  <2>1. /\ 1 \in DOMAIN handed /\ 2 \in DOMAIN handed
        /\ handed[1] \in Witnesses /\ handed[2] \in Witnesses
    BY TwoLong
  <2>2. handed[1][1] \in Nat /\ handed[2][1] \in Nat /\ Len(beats) \in Nat
    BY <2>1 DEF Witnesses
  <2>3. handed[1][1] < handed[2][1]
    OBVIOUS
  <2>4. handed[1][1] + 1 \in DOMAIN beats /\ handed[2][1] + 1 \in DOMAIN beats
    BY <2>1, <2>2, <2>3
  <2>5. beats[handed[1][1] + 1] < beats[handed[2][1] + 1]
    BY <2>2, <2>3, <2>4 DEF Increasing
  <2> QED BY <2>1, <2>3, <2>5
<1> QED BY <1>1, LInvAlways, PTL

(* Count and last number are a refinement of the heartbeat: every send is  *)
(* a beat the upper gate lets through, and nothing else is visible.        *)
THEOREM LinksImplementHbTop == LinkSpec => ImplementsHbTop
<1> DEFINE count == Len(beats)
           latestSeq == IF beats = <<>> THEN 0 ELSE beats[Len(beats)]
<1>1. LinkInit => count = 0 /\ latestSeq = 0
  BY DEF LinkInit
<1>2. LInv /\ [LinkNext]_linkVars
        => [\E req \in 0 .. MaxSeq : Top!Beat(req)]_<<count, latestSeq>>
  <2> SUFFICES ASSUME LInv, [LinkNext]_linkVars
               PROVE  (\E req \in 0 .. MaxSeq : Top!Beat(req)) \/ UNCHANGED <<count, latestSeq>>
    OBVIOUS
  <2>1. CASE SendBeat
    <3> USE DEF LInv, BeatTypes
    <3>1. seq \in Numbers /\ beats \in Seq(Numbers) /\ beats' = Append(beats, seq)
      BY <2>1 DEF SendBeat
    <3>2. /\ Len(beats') = Len(beats) + 1 /\ beats'[Len(beats) + 1] = seq
          /\ beats' # <<>> /\ Len(beats) \in Nat
      BY <3>1 DEF Numbers
    <3>3. count > 0 => latestSeq < seq
      <4> SUFFICES ASSUME Len(beats) > 0 PROVE beats[Len(beats)] < seq /\ beats # <<>>
        OBVIOUS
      <4>1. Len(beats) \in DOMAIN beats
        BY <3>1
      <4> QED BY <2>1, <4>1 DEF SendBeat, CounterAbove
    <3>4. count' = count + 1 /\ latestSeq' = seq
      BY <3>2
    <3>5. Top!Beat(seq)
      BY <3>3, <3>4 DEF Top!Beat, Top!Gate
    <3> QED BY <3>1, <3>5 DEF Numbers
  <2>2. CASE UNCHANGED beats
    BY <2>2
  <2>3. SendBeat \/ UNCHANGED beats
    BY DEF LinkNext, linkVars, SecondOfBoth, Transmit, SendPkt, WatcherStep, WatcherPair,
           HearBeat, Catch
  <2> QED BY <2>1, <2>2, <2>3
<1> QED BY <1>1, <1>2, LInvAlways, PTL DEF LinkSpec, ImplementsHbTop, Top!Spec

-----------------------------------------------------------------------------

(* Appending a message adds its witness to those of the history.           *)
LEMMA RecordGrows ==
  ASSUME NEW S, NEW c, NEW s \in Seq(S), NEW m \in S
  PROVE  OnRecord(c, Append(s, m)) = OnRecord(c, s) \cup {<<c, Len(s), m>>}
<1> DEFINE t == Append(s, m)
<1>1. /\ Len(s) \in Nat /\ DOMAIN s = 1 .. Len(s) /\ DOMAIN t = 1 .. Len(s) + 1
      /\ t[Len(s) + 1] = m /\ \A x \in DOMAIN s : t[x] = s[x]
  OBVIOUS
<1> HIDE DEF t
<1>2. DOMAIN t = DOMAIN s \cup {Len(s) + 1} /\ (Len(s) + 1) - 1 = Len(s)
  BY <1>1
<1>3. {<<c, x - 1, t[x]>> : x \in DOMAIN t}
        = {<<c, x - 1, t[x]>> : x \in DOMAIN s} \cup {<<c, (Len(s) + 1) - 1, t[Len(s) + 1]>>}
  BY <1>2, Zenon
<1>4. {<<c, x - 1, t[x]>> : x \in DOMAIN s} = {<<c, x - 1, s[x]>> : x \in DOMAIN s}
  BY <1>1
<1> QED BY <1>1, <1>2, <1>3, <1>4 DEF OnRecord, t

LEMMA Recorded ==
  ASSUME NEW S, NEW c, NEW s \in Seq(S), NEW p \in 0 .. Len(s) - 1
  PROVE  <<c, p, s[p + 1]>> \in OnRecord(c, s) /\ s[p + 1] \in S
<1>1. p + 1 \in DOMAIN s /\ (p + 1) - 1 = p
  OBVIOUS
<1> QED BY <1>1 DEF OnRecord

(* The heartbeat's half.  A beat needs no witness and passes the gate.     *)
LEMMA HbHalf == LinkSpec => HbNet!Spec
<1> DEFINE sent == [c \in {HbLink} |-> beats]
           recvd == [c \in {HbLink} |-> heard]
           was_sent == OnRecord(HbLink, beats)
<1>1. LinkInit => HbNet!Boot
  BY DEF LinkInit, HbNet!Boot, HbLink, OnRecord
<1>2. LInv /\ [LinkNext]_linkVars => [HbNet!Next]_HbNet!vars
  <2> SUFFICES ASSUME LInv, [LinkNext]_linkVars PROVE HbNet!Next \/ UNCHANGED HbNet!vars
    OBVIOUS
  <2> USE DEF LInv, BeatTypes
  <2>1. CASE SendBeat
    <3>1. beats' = Append(beats, seq) /\ heard' = heard /\ seq \in Numbers /\ at = "ready"
      BY <2>1 DEF SendBeat
    <3>2. was_sent' = was_sent \cup {<<HbLink, Len(beats), seq>>}
      <4>1. OnRecord(HbLink, Append(beats, seq)) = was_sent \cup {<<HbLink, Len(beats), seq>>}
        <5>1. beats \in Seq(Numbers) /\ seq \in Numbers
          OBVIOUS
        <5> QED BY <5>1, RecordGrows
      <4>2. was_sent' = OnRecord(HbLink, beats')
        BY DEF OnRecord, HbLink
      <4> QED BY <3>1, <4>1, <4>2
    <3>3. sent' = [sent EXCEPT ![HbLink] = Append(@, seq)] /\ recvd' = recvd
      BY <3>1
    <3>4. HbGate(HbLink, beats, seq)
      BY <3>1 DEF HbGate, CounterAbove
    <3>5. HbNet!MaySend(HbLink, seq, {})
      BY <3>4 DEF HbNet!MaySend, NoCause
    <3>6. HbNet!DoSend(HbLink, seq)
      BY <3>2, <3>3, <3>5 DEF HbNet!DoSend
    <3> QED BY <3>1, <3>6 DEF HbNet!Next, Numbers
  <2>2. ASSUME NEW p \in 0 .. Len(beats) - 1, WatcherStep(p) \/ WatcherPair(p)
        PROVE  HbNet!Next
    <3>1. beats' = beats /\ heard' = Append(heard, beats[p + 1]) /\ p = Len(heard)
      BY <2>2 DEF WatcherStep, WatcherPair, HearBeat, BeatIsNext
    <3>2. recvd' = [recvd EXCEPT ![HbLink] = Append(@, beats[p + 1])]
          /\ sent' = sent /\ was_sent' = was_sent
      BY <3>1
    <3>3. <<HbLink, p, beats[p + 1]>> \in was_sent
      BY Recorded
    <3>4. HbNet!MayReceive(HbLink, p, beats[p + 1])
      BY <3>1, <3>3 DEF HbNet!MayReceive, InOrder
    <3>5. HbNet!DoRecv(HbLink, p, beats[p + 1])
      BY <3>2, <3>4 DEF HbNet!DoRecv
    <3> QED BY <3>3, <3>5 DEF HbNet!Next
  <2>3. CASE UNCHANGED <<beats, heard>>
    BY <2>3 DEF HbNet!vars
  <2> QED BY <2>1, <2>2, <2>3
    DEF LinkNext, linkVars, SecondOfBoth, Transmit, SendPkt, Catch
<1> QED BY <1>1, <1>2, LInvAlways, PTL DEF LinkSpec, HbNet!Spec

(* The lossy half, with an invariant of its own: packets are well formed.  *)
PktTypes == v \in Payloads /\ pkts \in Seq(Payloads)

LEMMA PktTypesAlways == LinkSpec => []PktTypes
<1>1. LinkInit => PktTypes
  BY DEF LinkInit, PktTypes
<1>2. PktTypes /\ [LinkNext]_linkVars => PktTypes'
  BY DEF PktTypes, LinkNext, linkVars, SendBeat, SecondOfBoth, Transmit, SendPkt,
         WatcherStep, WatcherPair, HearBeat, Catch
<1> QED BY <1>1, <1>2, PTL DEF LinkSpec

LEMMA LossyHalf == LinkSpec => LossyNet!Spec
<1> DEFINE sent == [c \in {LossyLink} |-> pkts]
           recvd == [c \in {LossyLink} |-> caught]
           was_sent == OnRecord(LossyLink, pkts)
<1>1. LinkInit => LossyNet!Boot
  BY DEF LinkInit, LossyNet!Boot, LossyLink, OnRecord
<1>2. PktTypes /\ [LinkNext]_linkVars => [LossyNet!Next]_LossyNet!vars
  <2> SUFFICES ASSUME PktTypes, [LinkNext]_linkVars
               PROVE  LossyNet!Next \/ UNCHANGED LossyNet!vars
    OBVIOUS
  <2> USE DEF PktTypes
  <2>1. CASE SendPkt
    <3>1. pkts' = Append(pkts, v) /\ caught' = caught
      BY <2>1 DEF SendPkt
    <3>2. was_sent' = was_sent \cup {<<LossyLink, Len(pkts), v>>}
      BY <3>1, RecordGrows
    <3>3. sent' = [sent EXCEPT ![LossyLink] = Append(@, v)] /\ recvd' = recvd
      BY <3>1
    <3>4. LossyNet!MaySend(LossyLink, v, {})
      BY DEF LossyNet!MaySend, NoCause, LossyGate, WellFormed
    <3>5. LossyNet!DoSend(LossyLink, v)
      BY <3>2, <3>3, <3>4 DEF LossyNet!DoSend
    <3> QED BY <3>5 DEF LossyNet!Next
  <2>2. ASSUME NEW p \in 0 .. Len(pkts) - 1, Catch(p)
        PROVE  LossyNet!Next
    <3>1. pkts' = pkts /\ caught' = Append(caught, pkts[p + 1])
      BY <2>2 DEF Catch
    <3>2. recvd' = [recvd EXCEPT ![LossyLink] = Append(@, pkts[p + 1])]
          /\ sent' = sent /\ was_sent' = was_sent
      BY <3>1
    <3>3. <<LossyLink, p, pkts[p + 1]>> \in was_sent
      BY Recorded
    <3>4. LossyNet!DoRecv(LossyLink, p, pkts[p + 1])
      BY <3>2, <3>3 DEF LossyNet!DoRecv, LossyNet!MayReceive, AnyPosition
    <3> QED BY <3>3, <3>4 DEF LossyNet!Next
  <2>3. CASE UNCHANGED <<pkts, caught>>
    BY <2>3 DEF LossyNet!vars
  <2> QED BY <2>1, <2>2, <2>3
    DEF LinkNext, linkVars, SendBeat, SecondOfBoth, Transmit, WatcherStep, WatcherPair, HearBeat
<1> QED BY <1>1, <1>2, PktTypesAlways, PTL DEF LinkSpec, LossyNet!Spec

(* One service on two machines needs no argument about the two together:   *)
(* every step is a step of one of them, through that one's gate, and       *)
(* invisible to the other.                                                 *)
THEOREM LinksImplementMachines == LinkSpec => ImplementsMachines
  BY HbHalf, LossyHalf DEF ImplementsMachines

-----------------------------------------------------------------------------
(* Layers.                                                                 *)

(* The refinement of layers_demo.rs meets all three obligations.  The upper*)
(* gate knows the last number only; that it is the largest is the          *)
(* machine's invariant, and the gate needs it.                             *)
THEOREM HeartbeatRefinesTop ==
  ASSUME HbLink \in HbChans
  PROVE  HbR!Refines
<1>1. HbR!KeepsInv
  BY DEF HbR!KeepsInv, top_inv
<1>2. HbR!KeepsGates
  <2> SUFFICES ASSUME NEW req \in Beats, NEW s \in HbStates, st_inv(s),
                      HbR!SafeAbove(<<"Send", HbLink>>, req, s)
               PROVE  \A x \in DOMAIN s.sent[HbLink] : s.sent[HbLink][x] < req
    BY DEF HbR!KeepsGates, st_gate
  <2> DEFINE h == s.sent[HbLink]
  <2>1. h \in Seq(Beats)
    BY DEF HbStates
  <2>2. Len(h) > 0 => h[Len(h)] < req
    BY DEF HbR!SafeAbove, hb_hidden, top_gate, hb_state, hb_msg, last_of
  <2>3. \A x, y \in DOMAIN h : x < y => h[x] < h[y]
    BY DEF st_inv, HbHistoryInv, PairGives
  <2> SUFFICES ASSUME NEW x \in DOMAIN h PROVE h[x] < req
    OBVIOUS
  <2> HIDE DEF h
  <2>4. x \in 1 .. Len(h) /\ Len(h) \in DOMAIN h /\ Len(h) > 0 /\ h[x] \in Beats /\ h[Len(h)] \in Beats
    BY <2>1
  <2>5. CASE x = Len(h)
    BY <2>2, <2>4, <2>5
  <2>6. CASE x # Len(h)
    <3>1. h[x] < h[Len(h)]
      BY <2>1, <2>3, <2>4, <2>6
    <3> QED BY <2>2, <2>4, <3>1, SeqAssumption DEF Beats
  <2> QED BY <2>5, <2>6
<1>3. HbR!KeepsSteps
  <2> SUFFICES ASSUME NEW a \in ChanActs, NEW req \in Beats, NEW resp \in Beats,
                      NEW s0 \in HbStates, NEW s1 \in HbStates,
                      st_step(a, req, resp, s0, s1)
               PROVE  HbR!StepAbove(a, req, resp, s0, s1)
    BY DEF HbR!KeepsSteps
  <2>1. CASE a[1] = "Recv"
    <3>1. s1.sent = s0.sent
      BY <2>1 DEF st_step, do_recv
    <3> QED BY <2>1, <3>1 DEF HbR!StepAbove, hb_hidden, hb_state
  <2>2. CASE a[1] # "Recv"
    <3>1. a[2] \in HbChans /\ do_send(a[2], req, s0, s1)
      BY <2>2 DEF st_step, ChanActs
    <3>2. s0.sent[HbLink] \in Seq(Beats) /\ s0.sent \in [HbChans -> Seq(Beats)]
      BY DEF HbStates
    <3>3. CASE a[2] = HbLink
      <4>1. s1.sent[HbLink] = Append(s0.sent[HbLink], req)
        BY <3>1, <3>2, <3>3 DEF do_send
      <4>2. /\ Len(Append(s0.sent[HbLink], req)) = Len(s0.sent[HbLink]) + 1
            /\ Append(s0.sent[HbLink], req)[Len(s0.sent[HbLink]) + 1] = req
            /\ Len(s0.sent[HbLink]) + 1 > 0
        BY <3>2
      <4>3. hb_state(s1) = [count |-> hb_state(s0).count + 1, last |-> req]
        BY <4>1, <4>2 DEF hb_state, last_of
      <4> QED BY <2>2, <4>3 DEF HbR!StepAbove, hb_hidden, top_step, hb_msg
    <3>4. CASE a[2] # HbLink
      <4>1. s1.sent[HbLink] = s0.sent[HbLink]
        BY <3>1, <3>2, <3>4 DEF do_send
      <4>2. hb_state(s1) = hb_state(s0)
        BY <4>1 DEF hb_state
      <4> QED BY <2>2, <4>2 DEF HbR!StepAbove, hb_hidden, top_step
    <3> QED BY <3>3, <3>4
  <2> QED BY <2>1, <2>2
<1> QED BY <1>1, <1>2, <1>3 DEF HbR!Refines

(* refines_trans: a step of the lowest layer is a step of the top one,     *)
(* through a layer in between that may absorb it.  The middle gate is      *)
(* required of every action there; it is needed only where the top does    *)
(* not see the action (MiddleSafe), since elsewhere the top gate gives it. *)
THEOREM RefinesTrans ==
  ASSUME R1!Refines, R2!Refines, Mapped,
         NEW a \in AActs, NEW req \in AMsgs, NEW resp \in AMsgs,
         NEW s0 \in AStates, NEW s1 \in AStates,
         AInv(s0), AStep(a, req, resp, s0, s1),
         MiddleSafe(a, req, s0), Stack!SafeAbove(a, req, s0)
  PROVE  Stack!StepAbove(a, req, resp, s0, s1)
<1>1. BInv(state1(s0)) /\ state1(s0) \in BStates /\ state1(s1) \in BStates
      /\ msg1(req) \in BMsgs /\ msg1(resp) \in BMsgs
  BY DEF R1!Refines, R1!KeepsInv, Mapped
<1>2. CASE hidden1(a)
  <2>1. state1(s1) = state1(s0)
    BY <1>2 DEF R1!Refines, R1!KeepsSteps, R1!SafeAbove, R1!StepAbove
  <2> QED BY <1>2, <2>1 DEF Stack!StepAbove, invisible2, abs_state2
<1>3. CASE ~hidden1(a)
  <2>1. act1(a) \in BActs
    BY <1>3 DEF Mapped
  <2>2. BGate(act1(a), msg1(req), state1(s0))
    <3>1. CASE hidden2(act1(a))
      BY <1>3, <3>1 DEF MiddleSafe
    <3>2. CASE ~hidden2(act1(a))
      BY <1>1, <1>3, <2>1, <3>2
      DEF Stack!SafeAbove, invisible2, abs_act2, abs_msg2, abs_state2,
          R2!Refines, R2!KeepsGates, R2!SafeAbove
    <3> QED BY <3>1, <3>2
  <2>3. BStep(act1(a), msg1(req), msg1(resp), state1(s0), state1(s1))
    BY <1>3, <2>2 DEF R1!Refines, R1!KeepsSteps, R1!SafeAbove, R1!StepAbove
  <2>4. R2!SafeAbove(act1(a), msg1(req), state1(s0))
    BY <1>3 DEF Stack!SafeAbove, invisible2, abs_act2, abs_msg2, abs_state2, R2!SafeAbove
  <2>5. R2!StepAbove(act1(a), msg1(req), msg1(resp), state1(s0), state1(s1))
    BY <1>1, <2>1, <2>3, <2>4 DEF R2!Refines, R2!KeepsSteps
  <2> QED BY <1>3, <2>5
    DEF R2!StepAbove, Stack!StepAbove, invisible2, abs_act2, abs_msg2, abs_state2
<1> QED BY <1>2, <1>3

(* Hence the stack refines its top layer outright (refines_trans and       *)
(* inv_trans together), the middle layer absorbing what it will, if the    *)
(* steps it absorbs are ones its gate allows.                              *)
THEOREM StackRefines ==
  ASSUME R1!Refines, R2!Refines, Mapped,
         \A a \in AActs, req, resp \in AMsgs, s0, s1 \in AStates :
           AInv(s0) /\ AStep(a, req, resp, s0, s1) => MiddleSafe(a, req, s0)
  PROVE  Stack!Refines
<1>1. Stack!KeepsInv
  BY DEF R1!Refines, R1!KeepsInv, R2!Refines, R2!KeepsInv, Mapped, Stack!KeepsInv, abs_state2
<1>2. Stack!KeepsGates
  <2> SUFFICES ASSUME NEW a \in AActs, NEW req \in AMsgs, NEW s \in AStates,
                      AInv(s), ~invisible2(a), Stack!SafeAbove(a, req, s)
               PROVE  AGate(a, req, s)
    BY DEF Stack!KeepsGates
  <2>1. ~hidden1(a) /\ ~hidden2(act1(a))
    BY DEF invisible2
  <2>2. CGate(act2(act1(a)), msg2(msg1(req)), state2(state1(s)))
    BY DEF Stack!SafeAbove, abs_act2, abs_msg2, abs_state2
  <2>3. /\ act1(a) \in BActs /\ msg1(req) \in BMsgs /\ state1(s) \in BStates
        /\ BInv(state1(s))
    BY <2>1 DEF Mapped, R1!Refines, R1!KeepsInv
  <2>4. BGate(act1(a), msg1(req), state1(s))
    BY <2>1, <2>2, <2>3 DEF R2!Refines, R2!KeepsGates, R2!SafeAbove
  <2> QED BY <2>1, <2>4 DEF R1!Refines, R1!KeepsGates, R1!SafeAbove
<1>3. Stack!KeepsSteps
  BY RefinesTrans DEF Stack!KeepsSteps
<1> QED BY <1>1, <1>2, <1>3 DEF Stack!Refines

-----------------------------------------------------------------------------
(* The mailbox.  What the scan needs to be in bounds, and that is all: the *)
(* slot it probes is one of the mailbox's.                                 *)
InBounds ==
    /\ pc \in {"idle", "scan"}
    /\ start \in Slots
    /\ i \in 0 .. N

LEMMA SlotInBounds == InBounds /\ i < N => Slot \in Slots
  BY RecvAnyAssumption DEF InBounds, Slot, Slots

LEMMA InBoundsStep == InBounds /\ [Next]_vars => InBounds'
  BY RecvAnyAssumption
  DEF InBounds, Slots, Next, vars, Send, Receiver, Call, Hit, Miss, Rotate, NextStart

LEMMA BoxInit == Init => Box!MInit /\ InBounds
  BY RecvAnyAssumption DEF Init, Box!MInit, Box!Slots, Slots, InBounds

LEMMA BoxStep == InBounds /\ [Next]_vars => [Box!MNext]_(Box!mvars)
<1> SUFFICES ASSUME InBounds, [Next]_vars PROVE Box!MNext \/ UNCHANGED Box!mvars
  OBVIOUS
<1> USE DEF Box!mvars
<1>1. ASSUME NEW k \in Slots, Send(k) PROVE Box!MNext
  BY <1>1 DEF Send, Box!MNext, Box!Arrive, Box!Slots, Slots
<1>2. CASE Call
  BY <1>2 DEF Call, Box!MNext, Box!Ask
<1>3. CASE Hit
  <2>1. Slot \in Slots
    BY <1>3, SlotInBounds DEF Hit
  <2>2. Box!Take(Slot)
    BY <1>3 DEF Hit, Box!Take
  <2> QED BY <2>1, <2>2 DEF Box!MNext, Box!Slots, Slots
<1>4. CASE Miss \/ Rotate \/ UNCHANGED vars
  BY <1>4 DEF Miss, Rotate, vars
<1> QED BY <1>1, <1>2, <1>3, <1>4 DEF Next, Receiver

(* The scan of recv_any takes only what is there, from any number of       *)
(* channels, whatever the senders do between its probes.                   *)
THEOREM ScanIsAMailbox == Spec => Box!MSafe
<1>1. Init => InBounds /\ Box!MInit
  BY BoxInit
<1> QED BY <1>1, InBoundsStep, BoxStep, PTL DEF Spec, Box!MSafe

-----------------------------------------------------------------------------
(* The collector.  The mailbox counts what is in the queues.               *)
Items == Slots \X {1, 2}

CollectorTypes ==
    /\ queue \in [Slots -> Seq(Items)]
    /\ turn \in [Slots -> {1, 2}]
    /\ ready \in [Slots -> Nat]

Counted == \A k \in Slots : ready[k] = Len(queue[k])

HubInv == CollectorTypes /\ Counted /\ InBounds

LEMMA HubInvInit == CollectorInit => HubInv
  BY BoxInit DEF CollectorInit, HubInv, CollectorTypes, Counted, Init

(* The consumer's steps are the scan's, on queues instead of counts.       *)
LEMMA Collected ==
  ASSUME HubInv, CollectOne
  PROVE  /\ Slot \in Slots /\ queue[Slot] \in Seq(Items) /\ queue[Slot] # <<>>
         /\ Len(queue[Slot]) \in Nat /\ Len(Tail(queue[Slot])) = Len(queue[Slot]) - 1
         /\ Tail(queue[Slot]) \in Seq(Items)
<1>1. Slot \in Slots
  BY SlotInBounds DEF HubInv, CollectOne, Hit
<1>2. queue[Slot] \in Seq(Items) /\ Len(queue[Slot]) > 0
  BY <1>1 DEF HubInv, CollectorTypes, Counted, CollectOne, Hit
<1> DEFINE q == queue[Slot]
<1> HIDE DEF q
<1>3. q \in Seq(Items) /\ Len(q) > 0
  BY <1>2 DEF q
<1>4. q # <<>> /\ Len(q) \in Nat /\ Len(Tail(q)) = Len(q) - 1 /\ Tail(q) \in Seq(Items)
  BY <1>3
<1> QED BY <1>1, <1>3, <1>4 DEF q

LEMMA HubInvStep == HubInv /\ [CollectorNext]_collectorVars => HubInv'
<1> SUFFICES ASSUME HubInv, [CollectorNext]_collectorVars PROVE HubInv'
  OBVIOUS
<1>1. [Next]_vars
  BY DEF CollectorNext, Consumer, Scan, CollectOne, ProduceOne, collectorVars, vars,
         Next, Receiver
<1>2. InBounds'
  BY <1>1, InBoundsStep DEF HubInv
<1> USE DEF CollectorTypes, Counted
<1>3. ASSUME NEW w \in Slots, ProduceOne(w) PROVE CollectorTypes' /\ Counted'
  <2> DEFINE m == <<w, turn[w]>>
             q == queue[w]
  <2>1. /\ queue' = [queue EXCEPT ![w] = Append(@, m)]
        /\ ready' = [ready EXCEPT ![w] = @ + 1]
        /\ turn' = [turn EXCEPT ![w] = 3 - @]
    BY <1>3 DEF ProduceOne, ItemOf, Send
  <2>2. m \in Items /\ q \in Seq(Items) /\ 3 - turn[w] \in {1, 2}
    BY DEF HubInv, Items
  <2>3. Append(q, m) \in Seq(Items) /\ Len(Append(q, m)) = Len(q) + 1
    <3> HIDE DEF q, m
    <3> QED BY <2>2
  <2> HIDE DEF m
  <2> QED BY <2>1, <2>2, <2>3 DEF HubInv
<1>4. CASE CollectOne
  <2>1. /\ queue' = [queue EXCEPT ![Slot] = Tail(@)]
        /\ ready' = [ready EXCEPT ![Slot] = @ - 1] /\ UNCHANGED turn
    BY <1>4 DEF CollectOne, Hit
  <2>2. /\ Slot \in Slots /\ Len(queue[Slot]) \in Nat /\ Len(queue[Slot]) > 0
        /\ Len(Tail(queue[Slot])) = Len(queue[Slot]) - 1 /\ Tail(queue[Slot]) \in Seq(Items)
    <3>1. ready[Slot] > 0
      BY <1>4 DEF CollectOne, Hit
    <3> QED BY <1>4, <3>1, Collected DEF HubInv
  <2> QED BY <1>2, <2>1, <2>2 DEF HubInv
<1>5. CASE Scan \/ UNCHANGED collectorVars
  BY <1>2, <1>5 DEF Scan, Call, Miss, Rotate, itemVars, collectorVars, vars, HubInv
<1> QED BY <1>2, <1>3, <1>4, <1>5 DEF HubInv, CollectorNext, Consumer

LEMMA HubInvAlways == CollectorSpec => []HubInv
  BY HubInvInit, HubInvStep, PTL DEF CollectorSpec

-----------------------------------------------------------------------------
(* What a turn that is half sent will have been, and the two facts about   *)
(* sequences the mapping turns on.                                         *)
Whole(q, w, t) == IF t = 2 THEN Append(q, <<w, 2>>) ELSE q

AtomicLine == [w \in Slots |-> Whole(queue[w], w, turn[w])]

LEMMA TwoAppends ==
  ASSUME NEW S, NEW q \in Seq(S), NEW x \in S, NEW y \in S
  PROVE  Append(Append(q, x), y) = q \o <<x, y>>
  OBVIOUS

LEMMA TakeFromFront ==
  ASSUME NEW S, NEW q \in Seq(S), NEW x \in S, q # <<>>
  PROVE  /\ Append(q, x) # <<>> /\ Head(Append(q, x)) = Head(q)
         /\ Tail(Append(q, x)) = Append(Tail(q), x)
  OBVIOUS

LEMMA AtomicInit == CollectorInit => AtomicLine = [w \in Slots |-> <<>>]
  BY DEF CollectorInit, AtomicLine, Whole

LEMMA ProduceOneAtomic ==
  ASSUME HubInv, NEW w \in Slots, ProduceOne(w)
  PROVE  \/ AtomicLine' = [AtomicLine EXCEPT ![w] = @ \o <<<<w, 1>>, <<w, 2>>>>]
         \/ AtomicLine' = AtomicLine
<1> DEFINE q == queue[w]
<1>1. /\ queue' = [queue EXCEPT ![w] = Append(@, <<w, turn[w]>>)]
      /\ turn' = [turn EXCEPT ![w] = 3 - @]
  BY DEF ProduceOne, ItemOf
<1>2. /\ q \in Seq(Items) /\ turn[w] \in {1, 2} /\ <<w, 1>> \in Items /\ <<w, 2>> \in Items
      /\ DOMAIN queue = Slots /\ DOMAIN turn = Slots
  BY DEF HubInv, CollectorTypes, Items
<1>3. AtomicLine' = [AtomicLine EXCEPT ![w] = Whole(Append(q, <<w, turn[w]>>), w, 3 - turn[w])]
  BY <1>1, <1>2 DEF AtomicLine
<1>4. AtomicLine[w] = Whole(q, w, turn[w])
  BY DEF AtomicLine
<1>5. CASE turn[w] = 1
  <2>1. Whole(Append(q, <<w, 1>>), w, 2) = q \o <<<<w, 1>>, <<w, 2>>>>
    <3> HIDE DEF q
    <3> QED BY <1>2, TwoAppends DEF Whole
  <2>2. AtomicLine[w] = q /\ 3 - turn[w] = 2
    BY <1>4, <1>5 DEF Whole
  <2> QED BY <1>3, <1>5, <2>1, <2>2
<1>6. CASE turn[w] = 2
  <2>1. Whole(Append(q, <<w, 2>>), w, 1) = AtomicLine[w]
    BY <1>4, <1>6 DEF Whole
  <2>2. AtomicLine = [AtomicLine EXCEPT ![w] = AtomicLine[w]] /\ 3 - turn[w] = 1
    BY <1>6 DEF AtomicLine
  <2> QED BY <1>3, <1>6, <2>1, <2>2
<1> QED BY <1>2, <1>5, <1>6

LEMMA CollectOneAtomic ==
  ASSUME HubInv, CollectOne
  PROVE  \E w \in Slots :
           /\ AtomicLine[w] # <<>> /\ taken' = Head(AtomicLine[w])
           /\ AtomicLine' = [AtomicLine EXCEPT ![w] = Tail(@)]
<1>1. PICK w \in Slots : w = Slot
  BY Collected
<1> DEFINE q == queue[w]
<1>2. /\ queue' = [queue EXCEPT ![w] = Tail(@)] /\ turn' = turn /\ taken' = Head(q)
  BY <1>1 DEF CollectOne
<1>3. /\ q \in Seq(Items) /\ q # <<>> /\ turn[w] \in {1, 2} /\ <<w, 2>> \in Items
      /\ DOMAIN queue = Slots /\ DOMAIN turn = Slots
  BY <1>1, Collected DEF HubInv, CollectorTypes, Items
<1>4. AtomicLine' = [AtomicLine EXCEPT ![w] = Whole(Tail(q), w, turn[w])]
  BY <1>2, <1>3 DEF AtomicLine
<1>5. AtomicLine[w] = Whole(q, w, turn[w])
  BY DEF AtomicLine
<1>6. /\ Whole(q, w, turn[w]) # <<>> /\ Head(Whole(q, w, turn[w])) = Head(q)
      /\ Tail(Whole(q, w, turn[w])) = Whole(Tail(q), w, turn[w])
  <2> HIDE DEF q
  <2> QED BY <1>3, TakeFromFront DEF Whole
<1> QED BY <1>2, <1>4, <1>5, <1>6

(* Two sends with the consumer anywhere in between are one atomic turn:    *)
(* each producer's items are collected in pairs and in order, none lost or *)
(* doubled, for any number of producers and any room in the channels.      *)
THEOREM TurnsAreAtomic == CollectorSpec => Atomic!Safe
<1>1. CollectorInit => AtomicLine = [w \in Slots |-> <<>>]
  BY AtomicInit
<1>2. HubInv /\ [CollectorNext]_collectorVars
        => [\E w \in Slots : Atomic!Produce(w) \/ Atomic!Collect(w)]_(Atomic!hubVars)
  <2> SUFFICES ASSUME HubInv, [CollectorNext]_collectorVars
               PROVE  \/ \E w \in Slots : Atomic!Produce(w) \/ Atomic!Collect(w)
                      \/ UNCHANGED Atomic!hubVars
    OBVIOUS
  <2>1. ASSUME NEW w \in Slots, ProduceOne(w) PROVE Atomic!Produce(w) \/ UNCHANGED Atomic!hubVars
    BY <2>1, ProduceOneAtomic
    DEF ProduceOne, AtomicLine, Whole, Atomic!Produce, Atomic!hubVars
  <2>2. CASE CollectOne
    BY <2>2, CollectOneAtomic DEF AtomicLine, Whole, Atomic!Collect
  <2>3. CASE Scan \/ UNCHANGED collectorVars
    BY <2>3 DEF Scan, itemVars, collectorVars, Atomic!hubVars
  <2> QED BY <2>1, <2>2, <2>3 DEF CollectorNext, Consumer
<1> QED BY <1>1, <1>2, HubInvAlways, PTL DEF CollectorSpec, Atomic!Safe, AtomicLine, Whole

-----------------------------------------------------------------------------
(* Ping-pong.                                                              *)
Channel(S) == [hist : Seq(S), rhist : Seq(S), queue : Seq(S)]

PingPongTypes ==
    /\ style \in {"driven", "rpc"}
    /\ turns \in [initiator : Nat, responder : Nat]
    /\ val \in Values
    /\ ping \in Channel({"Ping"}) /\ pong \in Channel(Values)
    /\ stage \in {"tick", "recv"}

(* A service takes no more messages than it has turns.                     *)
InTurns ==
    /\ stage = "recv" => Len(pong.rhist) < turns.initiator
    /\ Len(ping.rhist) <= turns.responder

(* Driven: every request taken has an answer, received or under way.       *)
Answers ==
    style = "driven" =>
      /\ Len(pong.rhist) + Len(pong.queue) = Len(ping.rhist)
      /\ \A n \in DOMAIN pong.queue : pong.queue[n] = val

(* By rpc: the answer is on record from the moment the request goes out,   *)
(* and no answer is ever under way.                                        *)
OnRecordOnly ==
    style = "rpc" =>
      /\ pong.queue = <<>> /\ pong.rhist = <<>>
      /\ reply_cap => pong.hist = <<>>
      /\ stage = "recv" => Len(pong.hist) = 1

PInv == PingPongTypes /\ InTurns /\ Answers /\ OnRecordOnly

LEMMA PInvInit == PingPongInit => PInv
  BY TurnsAssumption
  DEF PingPongInit, PInv, PingPongTypes, Channel, NewChannel, InTurns, Answers, OnRecordOnly

(* The channel operations on a well-formed channel.                        *)
LEMMA PutTypes ==
  ASSUME NEW S, NEW ch \in Channel(S), NEW m \in S
  PROVE  /\ Put(ch, m) \in Channel(S) /\ Absorb(ch, m) \in Channel(S)
         /\ Put(ch, m).rhist = ch.rhist /\ Put(ch, m).queue = Append(ch.queue, m)
         /\ Absorb(ch, m).rhist = ch.rhist /\ Absorb(ch, m).queue = ch.queue
         /\ Absorb(ch, m).hist = Append(ch.hist, m)
<1>1. ch.hist \in Seq(S) /\ ch.rhist \in Seq(S) /\ ch.queue \in Seq(S)
  BY DEF Channel
<1>2. Append(ch.hist, m) \in Seq(S) /\ Append(ch.queue, m) \in Seq(S)
  BY <1>1
<1> QED BY <1>1, <1>2 DEF Channel, Put, Absorb

LEMMA TakeTypes ==
  ASSUME NEW S, NEW ch \in Channel(S), ch.queue # <<>>
  PROVE  /\ Take(ch) \in Channel(S) /\ Take(ch).hist = ch.hist
         /\ Take(ch).queue = Tail(ch.queue) /\ Take(ch).rhist = Append(ch.rhist, Head(ch.queue))
         /\ Head(ch.queue) \in S /\ Head(ch.queue) = ch.queue[1] /\ 1 \in DOMAIN ch.queue
         /\ Len(Take(ch).rhist) = Len(ch.rhist) + 1
         /\ Len(Take(ch).queue) = Len(ch.queue) - 1
         /\ \A n \in DOMAIN Tail(ch.queue) :
              n + 1 \in DOMAIN ch.queue /\ Tail(ch.queue)[n] = ch.queue[n + 1]
<1>1. ch.hist \in Seq(S) /\ ch.rhist \in Seq(S) /\ ch.queue \in Seq(S)
  BY DEF Channel
<1>2. /\ Head(ch.queue) \in S /\ Head(ch.queue) = ch.queue[1] /\ 1 \in DOMAIN ch.queue
      /\ Tail(ch.queue) \in Seq(S) /\ Len(Tail(ch.queue)) = Len(ch.queue) - 1
      /\ \A n \in DOMAIN Tail(ch.queue) :
              n + 1 \in DOMAIN ch.queue /\ Tail(ch.queue)[n] = ch.queue[n + 1]
  BY <1>1
<1>3. /\ Append(ch.rhist, Head(ch.queue)) \in Seq(S)
      /\ Len(Append(ch.rhist, Head(ch.queue))) = Len(ch.rhist) + 1
  BY <1>1, <1>2
<1>4. /\ Take(ch) \in Channel(S) /\ Take(ch).hist = ch.hist
      /\ Take(ch).queue = Tail(ch.queue) /\ Take(ch).rhist = Append(ch.rhist, Head(ch.queue))
  BY <1>1, <1>2, <1>3 DEF Channel, Take
<1> QED BY <1>2, <1>3, <1>4

LEMMA PInvStep == PInv /\ [PingPongNext]_ppVars => PInv'
<1> SUFFICES ASSUME PInv, [PingPongNext]_ppVars PROVE PInv'
  OBVIOUS
<1> USE DEF PInv, PingPongTypes
<1>0. /\ Len(pong.rhist) \in Nat /\ Len(pong.queue) \in Nat /\ Len(ping.rhist) \in Nat
      /\ pong.queue \in Seq(Values) /\ turns.initiator \in Nat /\ turns.responder \in Nat
      /\ pong.hist \in Seq(Values)
  BY DEF Channel
<1>1. CASE Tick
  <2>1. ping' \in Channel({"Ping"}) /\ ping'.rhist = ping.rhist
    BY <1>1, PutTypes DEF Tick
  <2> QED BY <1>0, <1>1, <2>1 DEF Tick, AtTick, InTurns, Answers, OnRecordOnly
<1>2. ASSUME NEW m \in Values, RpcSend(m) PROVE PInv'
  <2>1. /\ ping' = Put(ping, "Ping") /\ pong' = Absorb(pong, m)
        /\ style = "rpc" /\ style' = "rpc" /\ ~reply_cap' /\ reply_cap
        /\ stage' = "recv" /\ UNCHANGED <<turns, val>>
        /\ Len(pong.rhist) < turns.initiator
    BY <1>2 DEF RpcSend, AtTick
  <2>2. ping' \in Channel({"Ping"}) /\ ping'.rhist = ping.rhist
    BY <2>1, PutTypes
  <2>3. /\ pong' \in Channel(Values) /\ pong'.rhist = pong.rhist /\ pong'.queue = pong.queue
        /\ pong'.hist = Append(pong.hist, m)
    <3>1. /\ Absorb(pong, m) \in Channel(Values) /\ Absorb(pong, m).rhist = pong.rhist
          /\ Absorb(pong, m).queue = pong.queue
          /\ Absorb(pong, m).hist = Append(pong.hist, m)
      BY PutTypes
    <3> QED BY <2>1, <3>1
  <2>4. Len(pong'.hist) = 1
    <3>1. pong.hist = <<>>
      BY <2>1 DEF OnRecordOnly
    <3> QED BY <2>3, <3>1
  <2>5. PingPongTypes'
    BY <2>1, <2>2, <2>3
  <2> QED BY <1>0, <2>1, <2>2, <2>3, <2>4, <2>5 DEF InTurns, Answers, OnRecordOnly
<1>3. CASE Receive
  <2>1. /\ pong.queue # <<>> /\ pong' = Take(pong) /\ stage' = "tick" /\ stage = "recv"
        /\ UNCHANGED <<style, turns, val, ping, reply_cap>>
    BY <1>3 DEF Receive
  <2>2. style = "driven"
    BY <2>1 DEF OnRecordOnly
  <2>3. /\ pong' \in Channel(Values) /\ Len(pong'.rhist) = Len(pong.rhist) + 1
        /\ Len(pong'.queue) = Len(pong.queue) - 1
        /\ pong'.queue = Tail(pong.queue)
        /\ \A n \in DOMAIN Tail(pong.queue) :
             n + 1 \in DOMAIN pong.queue /\ Tail(pong.queue)[n] = pong.queue[n + 1]
    BY <2>1, TakeTypes
  <2>4. PingPongTypes'
    BY <2>1, <2>3
  <2>5. Answers'
    <3>1. /\ Len(pong.rhist) + Len(pong.queue) = Len(ping.rhist)
          /\ \A n \in DOMAIN pong.queue : pong.queue[n] = val
      BY <2>2 DEF Answers
    <3>2. \A n \in DOMAIN pong'.queue : pong'.queue[n] = val
      BY <2>3, <3>1
    <3>3. Len(pong'.rhist) + Len(pong'.queue) = Len(ping.rhist)
      <4> DEFINE r == Len(pong.rhist)
                 q == Len(pong.queue)
                 p == Len(ping.rhist)
      <4>1. r \in Nat /\ q \in Nat /\ p \in Nat /\ r + q = p
        BY <1>0, <3>1
      <4>2. /\ Len(pong'.rhist) = Len(pong.rhist) + 1
            /\ Len(pong'.queue) = Len(pong.queue) - 1
        BY <2>3
      <4>3. (r + 1) + (q - 1) = p
        <5> HIDE DEF r, q, p
        <5> QED BY <4>1
      <4> QED BY <4>2, <4>3
    <3> QED BY <2>1, <3>2, <3>3 DEF Answers
  <2> QED BY <1>0, <2>1, <2>2, <2>3, <2>4, <2>5 DEF InTurns, OnRecordOnly
<1>4. CASE Respond
  <2>1. /\ ping.queue # <<>> /\ ping' = Take(ping) /\ Len(ping.rhist) < turns.responder
        /\ pong' = IF style = "rpc" THEN pong ELSE Put(pong, val)
        /\ UNCHANGED <<style, turns, val, stage, reply_cap>>
    BY <1>4 DEF Respond
  <2>2. ping' \in Channel({"Ping"}) /\ Len(ping'.rhist) = Len(ping.rhist) + 1
    BY <2>1, TakeTypes
  <2>3. CASE style = "rpc"
    BY <1>0, <2>1, <2>2, <2>3 DEF InTurns, Answers, OnRecordOnly
  <2>4. CASE style = "driven"
    <3>1. /\ pong' \in Channel(Values) /\ pong'.rhist = pong.rhist
          /\ pong'.queue = Append(pong.queue, val)
      BY <2>1, <2>4, PutTypes
    <3>2. /\ Len(pong'.queue) = Len(pong.queue) + 1
          /\ \A n \in DOMAIN pong'.queue :
               (pong'.queue[n] = val) \/ (n \in DOMAIN pong.queue /\ pong'.queue[n] = pong.queue[n])
      BY <1>0, <3>1
    <3>3. Answers'
      <4>1. /\ Len(pong.rhist) + Len(pong.queue) = Len(ping.rhist)
            /\ \A n \in DOMAIN pong.queue : pong.queue[n] = val
        BY <2>4 DEF Answers
      <4>2. \A n \in DOMAIN pong'.queue : pong'.queue[n] = val
        BY <3>2, <4>1
      <4>3. Len(pong'.rhist) + Len(pong'.queue) = Len(ping'.rhist)
        <5> DEFINE r == Len(pong.rhist)
                   q == Len(pong.queue)
                   p == Len(ping.rhist)
        <5>1. r \in Nat /\ q \in Nat /\ p \in Nat /\ r + q = p
          BY <1>0, <4>1
        <5>2. /\ Len(pong'.rhist) = Len(pong.rhist) /\ Len(pong'.queue) = Len(pong.queue) + 1
              /\ Len(ping'.rhist) = Len(ping.rhist) + 1
          BY <2>2, <3>1, <3>2
        <5>3. r + (q + 1) = p + 1
          <6> HIDE DEF r, q, p
          <6> QED BY <5>1
        <5> QED BY <5>2, <5>3
      <4> QED BY <2>1, <4>2, <4>3 DEF Answers
    <3> QED BY <1>0, <2>1, <2>2, <2>4, <3>1, <3>3 DEF InTurns, OnRecordOnly
  <2> QED BY <2>3, <2>4
<1>5. CASE UNCHANGED ppVars
  BY <1>5 DEF ppVars, InTurns, Answers, OnRecordOnly
<1> QED BY <1>1, <1>2, <1>3, <1>4, <1>5 DEF PingPongNext, Initiator

LEMMA PInvAlways == PingPongSpec => []PInv
  BY PInvInit, PInvStep, PTL DEF PingPongSpec

(* absorb_handler: the caller that performs the handler's send itself has  *)
(* the answer on record at the very position it may receive next, and      *)
(* waits on a queue that no step of either service will ever fill.         *)
THEOREM RpcBlocksHolds == PingPongSpec => []RpcBlocks
<1>1. PInv => RpcBlocks
  <2> SUFFICES ASSUME PInv, style = "rpc", stage = "recv"
               PROVE  /\ Len(pong.hist) > Len(pong.rhist)
                      /\ pong.hist[Len(pong.rhist) + 1] \in Values /\ pong.queue = <<>>
    BY DEF RpcBlocks
  <2>1. /\ pong.hist \in Seq(Values) /\ pong.rhist = <<>> /\ pong.queue = <<>>
        /\ Len(pong.hist) = 1
    BY DEF PInv, PingPongTypes, Channel, OnRecordOnly
  <2>2. Len(pong.rhist) = 0
    BY <2>1
  <2>3. pong.hist[1] \in Values
    BY <2>1
  <2> QED BY <2>1, <2>2, <2>3
<1> QED BY <1>1, PInvAlways, PTL

(* A request and its answer, with both services' turns interleaved in any  *)
(* way, are to the caller one atomic step that returns the value served,   *)
(* and there are no more of them than both sides have turns for; by rpc    *)
(* there are none.                                                         *)
THEOREM CallsAreAtomic == PingPongSpec => Remote!Safe
<1>1. PingPongInit => Len(pong.rhist) = 0
  BY DEF PingPongInit, NewChannel
<1>2. PInv /\ [PingPongNext]_ppVars => [Remote!Call]_(Remote!callVars)
  <2> SUFFICES ASSUME PInv, [PingPongNext]_ppVars
               PROVE  Remote!Call \/ UNCHANGED Remote!callVars
    OBVIOUS
  <2> USE DEF PInv, PingPongTypes
  <2>1. CASE Receive
    <3>1. /\ pong.queue # <<>> /\ pong' = Take(pong) /\ stage = "recv"
          /\ seen' = Head(pong.queue) /\ got' /\ UNCHANGED <<style, turns, val, ping>>
      BY <2>1 DEF Receive
    <3>2. style = "driven"
      BY <3>1 DEF OnRecordOnly
    <3>3. /\ Len(pong'.rhist) = Len(pong.rhist) + 1
          /\ Head(pong.queue) = pong.queue[1] /\ 1 \in DOMAIN pong.queue
          /\ Len(pong.rhist) \in Nat /\ Len(pong.queue) \in Nat /\ Len(pong.queue) > 0
          /\ Len(ping.rhist) \in Nat
      <4>1. pong.queue \in Seq(Values) /\ pong.rhist \in Seq(Values) /\ ping.rhist \in Seq({"Ping"})
        BY DEF Channel
      <4>2. Len(pong.queue) > 0
        BY <3>1, <4>1
      <4> QED BY <3>1, <4>1, <4>2, TakeTypes
    <3>4. Head(pong.queue) = val
      BY <3>2, <3>3 DEF Answers
    <3>5. Len(pong.rhist) < turns.initiator /\ Len(pong.rhist) < turns.responder
      <4> DEFINE r == Len(pong.rhist)
                 q == Len(pong.queue)
                 p == Len(ping.rhist)
                 t == turns.responder
      <4>1. r < turns.initiator /\ p <= t
        BY <3>1 DEF InTurns
      <4>2. r + q = p
        BY <3>2 DEF Answers
      <4>3. r \in Nat /\ q \in Nat /\ q > 0 /\ p \in Nat /\ t \in Nat
        BY <3>3
      <4>4. r < t
        <5> HIDE DEF r, q, p, t
        <5> QED BY <4>1, <4>2, <4>3
      <4> QED BY <4>1, <4>4
    <3>6. Len(pong.rhist) < Lesser(turns.initiator, turns.responder)
      BY <3>5 DEF Lesser
    <3> QED BY <3>1, <3>2, <3>3, <3>4, <3>6 DEF Remote!Call
  <2>2. CASE ~Receive
    <3> DEFINE Kept == pong'.rhist = pong.rhist /\ UNCHANGED <<style, turns, val, got, seen>>
    <3>1. Kept
      <4>1. CASE Tick \/ UNCHANGED ppVars
        BY <4>1 DEF Tick, ppVars
      <4>2. ASSUME NEW m \in Values, RpcSend(m) PROVE Kept
        <5>1. Absorb(pong, m).rhist = pong.rhist
          BY PutTypes
        <5> QED BY <4>2, <5>1 DEF RpcSend
      <4>3. CASE Respond
        <5>1. Put(pong, val).rhist = pong.rhist
          BY PutTypes
        <5> QED BY <4>3, <5>1 DEF Respond
      <4> QED BY <2>2, <4>1, <4>2, <4>3 DEF PingPongNext, Initiator
    <3> QED BY <3>1 DEF Remote!callVars
  <2> QED BY <2>1, <2>2
<1> QED BY <1>1, <1>2, PInvAlways, PTL DEF PingPongSpec, Remote!Safe
=============================================================================
