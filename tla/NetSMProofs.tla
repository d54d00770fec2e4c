---------------------------- MODULE NetSMProofs ----------------------------
(***************************************************************************)
(* The invariants of NetSM, for every protocol: whatever the gates and the *)
(* causes are, witnesses agree with histories, the record is complete,     *)
(* justifications are on record and allocated names are fresh.  And what a *)
(* thread learns from its witnesses (learn, learn_cause, learn_pair), from *)
(* what the trait NetInv asks of a protocol.                               *)
(***************************************************************************)
EXTENDS NetSM, TLAPS

CONSTANTS               \* what else a protocol says of its messages
    RecordInv(_),       \* the invariant over the record
    CauseGives(_, _),   \* what follows for m on c from its being justified
    PairGives(_, _, _)  \* what holds of two messages on c, the earlier first

(* Histories are sequences over one set of channels.                       *)
Shape ==
    /\ sent \in [DOMAIN sent -> Seq(Msgs)]
    /\ recvd \in [DOMAIN sent -> Seq(Msgs)]
    /\ next \in Nat

Inv == Shape /\ Agree /\ Complete /\ Unallocated

(* A channel just allocated is a new one, and has empty histories.         *)
LEMMA WithChannelShape ==
    ASSUME NEW h, NEW c, NEW D, h \in [D -> Seq(Msgs)]
    PROVE  /\ WithChannel(h, c) \in [D \cup {c} -> Seq(Msgs)]
           /\ DOMAIN WithChannel(h, c) = D \cup {c}
           /\ WithChannel(h, c)[c] = <<>>
           /\ \A d \in D : d # c => WithChannel(h, c)[d] = h[d]
  BY DEF WithChannel

(* Boot establishes the invariant: nothing exists but the boot channels,   *)
(* and none of them has a name of the allocator's.                         *)
LEMMA BootInv == Boot => Inv
<1> SUFFICES ASSUME Boot PROVE Inv
  OBVIOUS
<1>1. Shape
  BY DEF Boot, Shape
<1>2. Agree /\ Complete
  BY DEF Boot, Agree, Complete
<1>3. Unallocated
  <2> SUFFICES ASSUME NEW f \in Fams, NEW j \in Parts, NEW k \in Nat,
                      DynChan(f, j, k) \in Static
               PROVE  FALSE
    BY DEF Boot, Unallocated
  <2>1. Len(DynChan(f, j, k).ix) = 2 /\ DynChan(f, j, k).ix[2] = k
    BY DEF DynChan
  <2> QED
    BY <2>1 DEF Boot
<1> QED
  BY <1>1, <1>2, <1>3 DEF Inv

(* A send adds one position and the witness for it.                        *)
LEMMA SendInv ==
    ASSUME Inv, NEW c \in DOMAIN sent, NEW m \in Msgs, DoSend(c, m)
    PROVE  Inv'
<1> DEFINE s == sent[c]
<1>1. /\ sent' = [sent EXCEPT ![c] = Append(s, m)]
      /\ was_sent' = was_sent \cup {<<c, Len(s), m>>}
      /\ recvd' = recvd /\ next' = next
  BY DEF DoSend
<1>2. s \in Seq(Msgs) /\ sent \in [DOMAIN sent -> Seq(Msgs)]
  BY DEF Inv, Shape
<1>3. Append(s, m) \in Seq(Msgs) /\ Len(Append(s, m)) = Len(s) + 1
      /\ Append(s, m)[Len(s) + 1] = m
      /\ \A i \in 1 .. Len(s) : Append(s, m)[i] = s[i]
  BY <1>2
<1>4. /\ DOMAIN sent' = DOMAIN sent
      /\ sent'[c] = Append(s, m)
      /\ \A d \in DOMAIN sent : d # c => sent'[d] = sent[d]
  BY <1>1, <1>2
<1>5. Shape'
  BY <1>1, <1>2, <1>3, <1>4 DEF Inv, Shape
<1>6. Agree'
  <2> SUFFICES ASSUME NEW e \in was_sent'
               PROVE  /\ e = <<e[1], e[2], e[3]>> /\ e[1] \in DOMAIN sent'
                      /\ e[2] \in 0 .. Len(sent'[e[1]]) - 1
                      /\ sent'[e[1]][e[2] + 1] = e[3]
    BY DEF Agree
  <2>1. CASE e = <<c, Len(s), m>>
    <3>1. Len(s) \in Nat
      BY <1>2
    <3> QED
      BY <2>1, <3>1, <1>3, <1>4
  <2>2. CASE e \in was_sent
    <3>1. /\ e = <<e[1], e[2], e[3]>> /\ e[1] \in DOMAIN sent
          /\ e[2] \in 0 .. Len(sent[e[1]]) - 1
          /\ sent[e[1]][e[2] + 1] = e[3]
      BY <2>2 DEF Inv, Agree
    <3>2. CASE e[1] = c
      <4>1. e[2] + 1 \in 1 .. Len(s) /\ Len(s) \in Nat
        BY <3>1, <3>2, <1>2
      <4> QED
        BY <3>1, <3>2, <4>1, <1>3, <1>4
    <3>3. CASE e[1] # c
      BY <3>1, <3>3, <1>4
    <3> QED
      BY <3>2, <3>3
  <2> QED
    BY <2>1, <2>2, <1>1
<1>7. Complete'
  <2> SUFFICES ASSUME NEW d \in DOMAIN sent, NEW i \in DOMAIN sent'[d]
               PROVE  <<d, i - 1, sent'[d][i]>> \in was_sent'
    BY <1>4 DEF Complete
  <2>1. CASE d # c
    BY <2>1, <1>1, <1>4 DEF Inv, Complete
  <2>2. CASE d = c /\ i \in 1 .. Len(s)
    <3>1. i \in DOMAIN sent[d] /\ sent'[d][i] = sent[d][i]
      BY <2>2, <1>2, <1>3, <1>4
    <3> QED
      BY <3>1, <1>1 DEF Inv, Complete
  <2>3. CASE d = c /\ i \notin 1 .. Len(s)
    <3>1. i = Len(s) + 1
      BY <2>3, <1>2, <1>3, <1>4
    <3>2. i - 1 = Len(s) /\ sent'[d][i] = m
      BY <2>3, <3>1, <1>2, <1>3, <1>4
    <3> QED
      BY <2>3, <3>2, <1>1
  <2> QED
    BY <2>1, <2>2, <2>3
<1>8. Unallocated'
  BY <1>1, <1>4 DEF Inv, Unallocated
<1> QED
  BY <1>5, <1>6, <1>7, <1>8 DEF Inv

(* A receive moves no history of a sender and adds nothing to the record.  *)
LEMMA RecvInv ==
    ASSUME Inv, NEW e \in was_sent, DoRecv(e[1], e[2], e[3])
    PROVE  Inv'
<1>1. /\ recvd' = [recvd EXCEPT ![e[1]] = Append(recvd[e[1]], e[3])]
      /\ sent' = sent /\ was_sent' = was_sent /\ next' = next
  BY DEF DoRecv
<1>2. e[1] \in DOMAIN sent /\ e[3] \in Msgs
  <2>1. /\ e[1] \in DOMAIN sent /\ e[2] \in 0 .. Len(sent[e[1]]) - 1
        /\ sent[e[1]][e[2] + 1] = e[3]
    BY DEF Inv, Agree
  <2>2. sent[e[1]] \in Seq(Msgs)
    BY <2>1 DEF Inv, Shape
  <2> QED
    BY <2>1, <2>2
<1>3. Shape'
  BY <1>1, <1>2 DEF Inv, Shape
<1>4. Agree' /\ Complete'
  BY <1>1 DEF Inv, Agree, Complete
<1>5. Unallocated'
  BY <1>1 DEF Inv, Shape, Unallocated
<1> QED
  BY <1>3, <1>4, <1>5 DEF Inv

(* Allocation: the name is new because the allocator has passed every      *)
(* name in use.                                                            *)
LEMMA AllocInv ==
    ASSUME Inv, NEW f \in Fams, NEW j \in Parts, Alloc(f, j)
    PROVE  Inv'
<1> DEFINE c == DynChan(f, j, next)
<1>1. /\ sent' = WithChannel(sent, c) /\ recvd' = WithChannel(recvd, c)
      /\ was_sent' = was_sent /\ next' = next + 1
  BY DEF Alloc
<1>2. c \notin DOMAIN sent /\ next \in Nat
  BY DEF Inv, Shape, Unallocated
<1> HIDE DEF c
<1>3. /\ sent' \in [DOMAIN sent \cup {c} -> Seq(Msgs)]
      /\ DOMAIN sent' = DOMAIN sent \cup {c}
      /\ sent'[c] = <<>>
      /\ \A d \in DOMAIN sent : d # c => sent'[d] = sent[d]
  <2>1. sent \in [DOMAIN sent -> Seq(Msgs)]
    BY DEF Inv, Shape
  <2>2. sent' \in [DOMAIN sent \cup {c} -> Seq(Msgs)]
    BY <2>1, <1>1, WithChannelShape
  <2>3. sent'[c] = <<>> /\ \A d \in DOMAIN sent : d # c => sent'[d] = sent[d]
    BY <1>1 DEF WithChannel
  <2> QED
    BY <2>2, <2>3
<1>4. /\ recvd' \in [DOMAIN sent \cup {c} -> Seq(Msgs)]
      /\ DOMAIN recvd' = DOMAIN sent \cup {c}
  <2>1. recvd \in [DOMAIN sent -> Seq(Msgs)]
    BY DEF Inv, Shape
  <2> QED
    BY <2>1, <1>1, WithChannelShape
<1>5. Shape'
  BY <1>1, <1>2, <1>3, <1>4 DEF Shape
<1>6. Agree'
  <2> SUFFICES ASSUME NEW e \in was_sent
               PROVE  /\ e = <<e[1], e[2], e[3]>> /\ e[1] \in DOMAIN sent'
                      /\ e[2] \in 0 .. Len(sent'[e[1]]) - 1
                      /\ sent'[e[1]][e[2] + 1] = e[3]
    BY <1>1 DEF Agree
  <2>1. /\ e = <<e[1], e[2], e[3]>> /\ e[1] \in DOMAIN sent
        /\ e[2] \in 0 .. Len(sent[e[1]]) - 1
        /\ sent[e[1]][e[2] + 1] = e[3]
    BY DEF Inv, Agree
  <2> QED
    BY <2>1, <1>2, <1>3
<1>7. Complete'
  BY <1>1, <1>2, <1>3 DEF Inv, Complete
<1>8. Unallocated'
  <2> SUFFICES ASSUME NEW g \in Fams, NEW i \in Parts, NEW k \in Nat, k >= next + 1
               PROVE  DynChan(g, i, k) \notin DOMAIN sent' \cup DOMAIN recvd'
    BY <1>1 DEF Unallocated
  <2>1. DynChan(g, i, k) \notin DOMAIN sent
    BY <1>2 DEF Inv, Unallocated
  <2>2. DynChan(g, i, k) # c
    <3>1. DynChan(g, i, k).ix[2] = k /\ c.ix[2] = next
      BY DEF DynChan, c
    <3> QED
      BY <3>1, <1>2
  <2> QED
    BY <2>1, <2>2, <1>3, <1>4
<1> QED
  BY <1>5, <1>6, <1>7, <1>8 DEF Inv

LEMMA StepInv == Inv /\ [Next]_vars => Inv'
<1> SUFFICES ASSUME Inv, [Next]_vars PROVE Inv'
  OBVIOUS
<1>1. CASE Next
  BY <1>1, SendInv, RecvInv, AllocInv DEF Next
<1>2. CASE UNCHANGED vars
  BY <1>2 DEF vars, Inv, Shape, Agree, Complete, Unallocated
<1> QED
  BY <1>1, <1>2

(* The four facts the machine maintains for every protocol.                *)
THEOREM MachineInvariants == Spec => [](Agree /\ Complete /\ Unallocated)
<1>1. Inv => Agree /\ Complete /\ Unallocated
  BY DEF Inv
<1> QED
  BY <1>1, BootInv, StepInv, PTL DEF Spec

-----------------------------------------------------------------------------
(* lemma_gate_gives_inv.                                                   *)
GateLaw == \A c, s, m : Gate(c, s, m) => WitInv(c, m)

(* Whatever a receiver may conclude from a message holds of everything on  *)
(* record, once the gate implies it.                                       *)
THEOREM ProtocolInvHolds ==
    ASSUME GateLaw
    PROVE  Spec => []ProtocolInv
<1>1. Boot => ProtocolInv
  BY DEF Boot, ProtocolInv
<1>2. ProtocolInv /\ [Next]_vars => ProtocolInv'
  <2> SUFFICES ASSUME ProtocolInv, [Next]_vars PROVE ProtocolInv'
    OBVIOUS
  <2>1. CASE \E c \in DOMAIN sent, m \in Msgs : DoSend(c, m)
    BY <2>1 DEF DoSend, MaySend, ProtocolInv, GateLaw
  <2>2. CASE was_sent' = was_sent
    BY <2>2 DEF ProtocolInv
  <2> QED
    BY <2>1, <2>2 DEF Next, vars, DoRecv, Alloc
<1> QED
  BY <1>1, <1>2, PTL DEF Spec

(* A justification, once on record, stays on record: every message that    *)
(* needed one has one, in every reachable state.                           *)
THEOREM ProvenanceHolds == Spec => []Provenance
<1>1. Boot => Provenance
  BY DEF Boot, Provenance
<1>2. Provenance /\ [Next]_vars => Provenance'
  <2> SUFFICES ASSUME Provenance, [Next]_vars PROVE Provenance'
    OBVIOUS
  <2>1. CASE \E c \in DOMAIN sent, m \in Msgs : DoSend(c, m)
    <3>1. PICK c \in DOMAIN sent, m \in Msgs : DoSend(c, m)
      BY <2>1
    <3>2. was_sent' = was_sent \cup {<<c, Len(sent[c]), m>>}
      BY <3>1 DEF DoSend
    <3>3. \A ws \in SUBSET was_sent : ws \in SUBSET was_sent'
      BY <3>2
    <3>4. NeedsCause(c, m) => \E ws \in SUBSET was_sent' : CausedBy(c, m, ws)
      BY <3>1, <3>3 DEF DoSend, MaySend
    <3>5. ASSUME NEW e \in was_sent, NeedsCause(e[1], e[3])
          PROVE  \E ws \in SUBSET was_sent' : CausedBy(e[1], e[3], ws)
      BY <3>3, <3>5 DEF Provenance
    <3> QED
      BY <3>2, <3>4, <3>5 DEF Provenance
  <2>2. CASE was_sent' = was_sent
    BY <2>2 DEF Provenance
  <2> QED
    BY <2>1, <2>2 DEF Next, vars, DoRecv, Alloc
<1> QED
  BY <1>1, <1>2, PTL DEF Spec

-----------------------------------------------------------------------------
(* lemma_record_inv_init and lemma_record_inv_preserved: the record        *)
(* invariant holds of the empty record, and one more message keeps it, the *)
(* gate's history and the witnesses it was sent with at hand.              *)
RecordInitLaw == RecordInv({})

Describes(ws, h) ==
    /\ \A e \in ws :
         /\ e = <<e[1], e[2], e[3]>> /\ e[1] \in DOMAIN h
         /\ e[2] \in 0 .. Len(h[e[1]]) - 1 /\ h[e[1]][e[2] + 1] = e[3]
    /\ \A c \in DOMAIN h : \A i \in DOMAIN h[c] : <<c, i - 1, h[c][i]>> \in ws

RecordSendLaw ==
    \A C, ws, causes : \A h \in [C -> Seq(Msgs)], c \in C, m \in Msgs :
      /\ RecordInv(ws) /\ Describes(ws, h)
      /\ Gate(c, h[c], m)
      /\ causes \subseteq ws
      /\ NeedsCause(c, m) => CausedBy(c, m, causes)
      => RecordInv(ws \cup {<<c, Len(h[c]), m>>})

(* What a protocol says of its record holds in every state: a fact that    *)
(* reaches across channels may be carried by the record alone.             *)
THEOREM RecordHolds ==
    ASSUME RecordInitLaw, RecordSendLaw
    PROVE  Spec => []RecordInv(was_sent)
<1>1. Boot => RecordInv(was_sent)
  BY DEF Boot, RecordInitLaw
<1>2. Inv /\ RecordInv(was_sent) /\ [Next]_vars => RecordInv(was_sent)'
  <2> SUFFICES ASSUME Inv, RecordInv(was_sent), [Next]_vars
               PROVE  RecordInv(was_sent')
    OBVIOUS
  <2>1. ASSUME NEW c \in DOMAIN sent, NEW m \in Msgs, DoSend(c, m)
        PROVE  RecordInv(was_sent')
    <3>1. PICK causes \in SUBSET was_sent : MaySend(c, m, causes)
      BY <2>1 DEF DoSend
    <3>2. Describes(was_sent, sent)
      BY DEF Describes, Inv, Agree, Complete
    <3>3. sent \in [DOMAIN sent -> Seq(Msgs)]
      BY DEF Inv, Shape
    <3>4. /\ Gate(c, sent[c], m) /\ causes \subseteq was_sent
          /\ NeedsCause(c, m) => CausedBy(c, m, causes)
      BY <3>1 DEF MaySend
    <3>5. RecordInv(was_sent \cup {<<c, Len(sent[c]), m>>})
      BY <2>1, <3>2, <3>3, <3>4 DEF RecordSendLaw
    <3> QED
      BY <2>1, <3>5 DEF DoSend
  <2>2. CASE was_sent' = was_sent
    BY <2>2
  <2> QED
    BY <2>1, <2>2 DEF Next, vars, DoRecv, Alloc
<1> QED
  BY <1>1, <1>2, BootInv, StepInv, PTL DEF Spec

(* lemma_cause_gives.                                                      *)
CauseLaw ==
    \A c, m, causes :
      /\ NeedsCause(c, m) /\ CausedBy(c, m, causes)
      /\ \A e \in causes : WitInv(e[1], e[3])
      => CauseGives(c, m)

(* learn_cause: a witness of one message tells what justified it, although *)
(* nobody knows which message that was.                                    *)
THEOREM CausesGive ==
    ASSUME GateLaw, CauseLaw
    PROVE  Spec => [](\A e \in was_sent :
                        NeedsCause(e[1], e[3]) => CauseGives(e[1], e[3]))
<1> DEFINE Given == \A e \in was_sent :
                      NeedsCause(e[1], e[3]) => CauseGives(e[1], e[3])
<1>1. ProtocolInv /\ Provenance => Given
  BY DEF ProtocolInv, Provenance, CauseLaw
<1>2. Spec => []ProtocolInv
  BY ProtocolInvHolds
<1> QED
  BY <1>1, <1>2, ProvenanceHolds, PTL

(* lemma_pair_gives.                                                       *)
PairLaw ==
    \A C, h, c : \A x, y \in DOMAIN h[c] :
      /\ h \in [C -> Seq(Msgs)] /\ c \in C
      /\ HistoryInv(h) /\ x < y
      => PairGives(c, h[c][x], h[c][y])

(* learn_pair: who holds witnesses of two messages on one channel knows    *)
(* what their order implies, without reading the channel's history.        *)
THEOREM PairsGive ==
    ASSUME PairLaw
    PROVE  Spec /\ []HistoryInv(sent) =>
             [](\A e, f \in was_sent :
                  e[1] = f[1] /\ e[2] < f[2] => PairGives(e[1], e[3], f[3]))
<1> DEFINE Known == \A e, f \in was_sent :
                      e[1] = f[1] /\ e[2] < f[2] => PairGives(e[1], e[3], f[3])
<1>1. Inv /\ HistoryInv(sent) => Known
  <2> SUFFICES ASSUME Inv, HistoryInv(sent), NEW e \in was_sent, NEW f \in was_sent,
                      e[1] = f[1], e[2] < f[2]
               PROVE  PairGives(e[1], e[3], f[3])
    OBVIOUS
  <2>1. /\ sent \in [DOMAIN sent -> Seq(Msgs)] /\ e[1] \in DOMAIN sent
        /\ e[2] \in 0 .. Len(sent[e[1]]) - 1 /\ sent[e[1]][e[2] + 1] = e[3]
        /\ f[2] \in 0 .. Len(sent[e[1]]) - 1 /\ sent[e[1]][f[2] + 1] = f[3]
    BY DEF Inv, Shape, Agree
  <2>2. /\ e[2] + 1 \in DOMAIN sent[e[1]] /\ f[2] + 1 \in DOMAIN sent[e[1]]
        /\ e[2] + 1 < f[2] + 1
    BY <2>1
  <2> QED
    BY <2>1, <2>2 DEF PairLaw
<1> QED
  BY <1>1, BootInv, StepInv, PTL DEF Spec
=============================================================================
