---------------------------- MODULE LeaseProofs ----------------------------
(***************************************************************************)
(* Proofs about the lease lock, for any number of writers, any lease, any  *)
(* maxima of the counters and any behaviour of the clock.                  *)
(* Last, the deployment with one writer: it never gets stuck, leaves no    *)
(* message behind and has its last write accepted.                         *)
(***************************************************************************)
EXTENDS LeaseSystem, TLAPS

-----------------------------------------------------------------------------
(* The invariant.                                                          *)

Log == Range(journal)

(* The high-water mark is the last write journalled.                       *)
MarkIsLast ==
    /\ have_any <=> Len(journal) > 0
    /\ have_any => journal[Len(journal)] = Write(hi_token, hi_seq)

(* A token goes to one writer, which alone writes under it.                *)
Holders ==
    /\ \A w \in Ids : Granted(w) \subseteq 1 .. hi
    /\ \A v, w \in Ids : v # w => Granted(v) \cap Granted(w) = {}
    /\ \A w \in Ids : token[w] # 0 => token[w] \in Granted(w)
    /\ \A w \in Ids : \A m \in Range(wr_req[w]) : m.tok \in Granted(w)
    /\ \A m \in Log : \E w \in Writers : m \in Range(wr_req[w])

(* A writer has one message under way at most, and its phase tells which.  *)
Asking(w) ==
    \/ phase[w] # "AwaitingGrant" /\ acq_req[w] = 0 /\ nRsp[w] = Len(acq_rsp[w])
    \/ phase[w] = "AwaitingGrant" /\ acq_req[w] = 1 /\ nRsp[w] = Len(acq_rsp[w])
    \/ phase[w] = "AwaitingGrant" /\ acq_req[w] = 0 /\ nRsp[w] + 1 = Len(acq_rsp[w])

Quiet(w)    == nReq[w] = Len(wr_req[w]) /\ owes.to # w /\ nAck[w] = Len(wr_rsp[w])
InQueue(w)  == nReq[w] + 1 = Len(wr_req[w]) /\ owes.to # w /\ nAck[w] = Len(wr_rsp[w])
InHand(w)   == nReq[w] = Len(wr_req[w]) /\ owes.to = w /\ nAck[w] = Len(wr_rsp[w])
Replied(w)  == nReq[w] = Len(wr_req[w]) /\ owes.to # w /\ nAck[w] + 1 = Len(wr_rsp[w])

Counted(w) == IF phase[w] = "AwaitingAck" THEN InQueue(w) \/ InHand(w) \/ Replied(w)
                                          ELSE Quiet(w)

LastSent(w) ==
    phase[w] = "AwaitingAck" =>
      /\ wr_req[w] # <<>> /\ wr_req[w][Len(wr_req[w])] = Write(token[w], seq[w])
      /\ seq[w] < MaxSeq

Writing(w) == Counted(w) /\ LastSent(w)

Tokenless(w) ==
    /\ token[w] = 0 <=> phase[w] \in {"Idle", "AwaitingGrant"}
    /\ token[w] = 0 => wr_req[w] = <<>> /\ wr_rsp[w] = <<>> /\ ~last_ok[w]

(* The write under way has been journalled, and w will be told.            *)
Accepted(w) == \/ owes.to = w /\ owes.ok
               \/ nAck[w] < Len(wr_rsp[w]) /\ wr_rsp[w][nAck[w] + 1]

Knows(w) ==
    token[w] # 0 =>
      /\ \A q \in 0 .. seq[w] - 1 : Write(token[w], q) \in Log
      /\ Accepted(w) => Write(token[w], seq[w]) \in Log
      /\ \A m \in Log : m.tok = token[w] =>
           m.seq < seq[w] \/ (m.seq = seq[w] /\ Accepted(w))
      /\ last_ok[w] => seq[w] > 0

(* A writer is refused because its next write is below the mark, where it  *)
(* stays.                                                                  *)
Refused(w) == \E x \in DOMAIN wr_rsp[w] : ~wr_rsp[w][x]
Stuck(w) ==
    /\ Refused(w) \/ (owes.to = w /\ ~owes.ok) => ~Fresh(Write(token[w], seq[w]))
    /\ owes.to = w /\ owes.ok => ~Refused(w)

-----------------------------------------------------------------------------
(* Sequences.                                                              *)

LEMMA AppendFacts ==
    ASSUME NEW S, NEW s \in Seq(S), NEW x \in S
    PROVE  /\ Append(s, x) \in Seq(S)
           /\ Len(s) \in Nat /\ Len(Append(s, x)) = Len(s) + 1
           /\ DOMAIN s = 1 .. Len(s) /\ DOMAIN Append(s, x) = 1 .. Len(s) + 1
           /\ \A i \in 1 .. Len(s) : Append(s, x)[i] = s[i]
           /\ Append(s, x)[Len(s) + 1] = x
  OBVIOUS

LEMMA NextFacts ==
    ASSUME NEW S, NEW s \in Seq(S), NEW n \in Nat, n < Len(s)
    PROVE  n + 1 \in 1 .. Len(s) /\ n + 1 \in DOMAIN s /\ s[n + 1] \in S
  OBVIOUS

LEMMA RangeAppend ==
    ASSUME NEW S, NEW s \in Seq(S), NEW x \in S
    PROVE  Range(Append(s, x)) = Range(s) \cup {x}
<1>1. ASSUME NEW y \in Range(Append(s, x)) PROVE y \in Range(s) \cup {x}
  <2>1. PICK i \in DOMAIN Append(s, x) : Append(s, x)[i] = y
    BY DEF Range
  <2>2. CASE i \in DOMAIN s
    BY <2>1, <2>2, AppendFacts DEF Range
  <2>3. CASE i \notin DOMAIN s
    BY <2>1, <2>3, AppendFacts
  <2> QED
    BY <2>2, <2>3
<1>2. ASSUME NEW y \in Range(s) PROVE y \in Range(Append(s, x))
  <2>1. PICK i \in DOMAIN s : s[i] = y
    BY DEF Range
  <2>2. i \in DOMAIN Append(s, x) /\ Append(s, x)[i] = y
    BY <2>1, AppendFacts
  <2> QED
    BY <2>2 DEF Range
<1>3. x \in Range(Append(s, x))
  <2>1. Len(s) + 1 \in DOMAIN Append(s, x) /\ Append(s, x)[Len(s) + 1] = x
    BY AppendFacts
  <2> QED
    BY <2>1 DEF Range
<1> QED
  BY <1>1, <1>2, <1>3

-----------------------------------------------------------------------------
(* Type correctness.                                                       *)

LEMMA WritersAreIds == TypeOK => Writers \subseteq Ids /\ Nobody \notin Ids /\ 0 \in Ids
  BY LeaseAssumption DEF TypeOK, Writers, Ids, Nobody

LEMMA WriterTypes ==
    ASSUME TypeOK, NEW w \in Ids
    PROVE  /\ acq_req[w] \in Nat /\ acq_rsp[w] \in Seq(0 .. MaxToken) /\ nRsp[w] \in Nat
           /\ wr_req[w] \in Seq(Writes) /\ nReq[w] \in Nat
           /\ wr_rsp[w] \in Seq(BOOLEAN) /\ nAck[w] \in Nat
           /\ token[w] \in 0 .. MaxToken /\ seq[w] \in 0 .. MaxSeq
           /\ phase[w] \in {"Idle", "AwaitingGrant", "Holding", "AwaitingAck"}
           /\ last_ok[w] \in BOOLEAN /\ wpc[w] \in {"tick", "recv"}
  BY DEF TypeOK

LEMMA InitType == Init => TypeOK
<1> SUFFICES ASSUME Init PROVE TypeOK
  OBVIOUS
<1>1. /\ MaxWriters \in Nat \ {0} /\ MaxToken \in Nat /\ MaxSeq \in Nat
      /\ MaxTime \in Nat /\ 0 \in Ids
  BY LeaseAssumption DEF Ids
<1>2. /\ \A S : <<>> \in Seq(S)
      /\ 0 \in 0 .. MaxToken /\ 0 \in 0 .. MaxTime /\ 0 \in 0 .. MaxSeq
  BY <1>1
<1> QED
  BY <1>1, <1>2 DEF Init, TypeOK, All, Nobody

LEMMA ServeType == ASSUME TypeOK, NEW w \in Ids, Serve(w) PROVE TypeOK'
<1>1. acq_req' \in [Ids -> Nat]
  <2>1. acq_req \in [Ids -> Nat] /\ acq_req[w] \in Nat
    BY DEF TypeOK
  <2>2. acq_req[w] > 0 /\ acq_req' = [acq_req EXCEPT ![w] = @ - 1]
    BY DEF Serve
  <2> QED
    BY <2>1, <2>2
<1>2. PICK now \in 0 .. MaxTime :
        IF MayGrant(now)
        THEN /\ acq_rsp' = [acq_rsp EXCEPT ![w] = Append(@, NextToken)]
             /\ hi' = NextToken /\ held' = TRUE /\ held_until' = Deadline(now)
        ELSE /\ acq_rsp' = [acq_rsp EXCEPT ![w] = Append(@, Denied)]
             /\ UNCHANGED serverVars
  BY DEF Serve
<1>3. MayGrant(now) => NextToken \in 0 .. MaxToken
  BY LeaseAssumption DEF MayGrant, NextToken, TypeOK
<1>4. Deadline(now) \in 0 .. MaxTime /\ Denied \in 0 .. MaxToken
  BY LeaseAssumption DEF Deadline, Denied
<1>5. acq_rsp' \in [Ids -> Seq(0 .. MaxToken)]
  <2>1. PICK t \in 0 .. MaxToken : acq_rsp' = [acq_rsp EXCEPT ![w] = Append(@, t)]
    BY <1>2, <1>3, <1>4
  <2> QED
    BY <2>1 DEF TypeOK
<1>6. hi' \in 0 .. MaxToken /\ held' \in BOOLEAN /\ held_until' \in 0 .. MaxTime
  BY <1>2, <1>3, <1>4 DEF serverVars, TypeOK
<1> QED
  BY <1>1, <1>5, <1>6 DEF Serve, TypeOK, storageVars, writerVars

LEMMA StorageRecvType == ASSUME TypeOK, NEW w \in Writers, StorageRecv(w) PROVE TypeOK'
<1> DEFINE m == wr_req[w][nReq[w] + 1]
<1>0. w \in Ids /\ w \in 0 .. MaxWriters /\ size \in 1 .. MaxWriters
  <2>1. w \in Ids /\ size \in 1 .. MaxWriters
    BY WritersAreIds DEF TypeOK
  <2> QED
    BY <2>1, LeaseAssumption DEF Ids
<1>1. m \in Writes /\ nReq' \in [Ids -> Nat]
  <2>1. /\ wr_req[w] \in Seq(Writes) /\ nReq[w] \in Nat /\ nReq \in [Ids -> Nat]
    BY <1>0, WriterTypes DEF TypeOK
  <2>2. nReq[w] < Len(wr_req[w]) /\ nReq' = [nReq EXCEPT ![w] = @ + 1]
    BY DEF StorageRecv
  <2> QED
    BY <1>0, <2>1, <2>2, NextFacts
<1>2. NextTurn(w) \in Ids
  BY <1>0, LeaseAssumption DEF NextTurn, Ids, Writers
<1>3. owes' = [to |-> w, ok |-> Fresh(m)] /\ Fresh(m) \in BOOLEAN /\ turn' \in Ids
  BY <1>2 DEF StorageRecv, Fresh
<1>4. owes' \in [to : 0 .. MaxWriters, ok : BOOLEAN]
  BY <1>0, <1>3
<1>5. /\ journal' \in Seq(Writes) /\ have_any' \in BOOLEAN
      /\ hi_token' \in 0 .. MaxToken /\ hi_seq' \in 0 .. MaxSeq
  <2>1. CASE Fresh(m)
    <3>1. /\ journal' = Append(journal, m)
          /\ hi_token' = m.tok /\ hi_seq' = m.seq /\ have_any' = TRUE
      BY <2>1 DEF StorageRecv
    <3>2. m.tok \in 1 .. MaxToken /\ m.seq \in 0 .. MaxSeq
      BY <1>1 DEF Writes
    <3>3. journal \in Seq(Writes)
      BY DEF TypeOK
    <3>4. m.tok \in 0 .. MaxToken
      BY <3>2
    <3> HIDE DEF m
    <3> QED
      BY <1>1, <3>1, <3>2, <3>3, <3>4
  <2>2. CASE ~Fresh(m)
    BY <2>2 DEF StorageRecv, TypeOK
  <2> QED
    BY <2>1, <2>2
<1> QED
  BY <1>1, <1>3, <1>4, <1>5 DEF StorageRecv, TypeOK, serverVars, writerVars

LEMMA StorageReplyType == ASSUME TypeOK, StorageReply PROVE TypeOK'
<1>1. owes.to \in Ids /\ owes.ok \in BOOLEAN
  BY LeaseAssumption DEF StorageReply, TypeOK, Nobody, Ids
<1>2. wr_rsp' \in [Ids -> Seq(BOOLEAN)]
  BY <1>1 DEF StorageReply, TypeOK
<1>3. owes' \in [to : 0 .. MaxWriters, ok : BOOLEAN]
  BY LeaseAssumption DEF StorageReply, Nobody
<1> QED
  BY <1>2, <1>3 DEF StorageReply, TypeOK, serverVars, writerVars

LEMMA TickType == ASSUME TypeOK, NEW w \in Ids, Tick(w) PROVE TypeOK'
<1>1. acq_req' \in [Ids -> Nat]
  <2>1. acq_req \in [Ids -> Nat]
    BY DEF TypeOK
  <2>2. acq_req' = acq_req \/ acq_req' = [acq_req EXCEPT ![w] = @ + 1]
    BY DEF Tick
  <2> QED
    BY <2>1, <2>2
<1>2. wr_req' \in [Ids -> Seq(Writes)]
  <2>1. CASE MayWrite(w)
    <3>1. Write(token[w], seq[w]) \in Writes
      BY <2>1, WriterTypes DEF MayWrite, Write, Writes
    <3>2. wr_req' = wr_req \/ wr_req' = [wr_req EXCEPT ![w] = Append(@, Write(token[w], seq[w]))]
      BY DEF Tick
    <3>3. wr_req \in [Ids -> Seq(Writes)]
      BY DEF TypeOK
    <3> QED
      BY <3>1, <3>2, <3>3
  <2>2. CASE ~MayWrite(w)
    BY <2>2 DEF Tick, TypeOK
  <2> QED
    BY <2>1, <2>2
<1>3. /\ phase' \in [Ids -> {"Idle", "AwaitingGrant", "Holding", "AwaitingAck"}]
      /\ wpc' \in [Ids -> {"tick", "recv"}]
  BY DEF Tick, TypeOK
<1> QED
  BY <1>1, <1>2, <1>3 DEF Tick, TypeOK, serverVars, storageVars

LEMMA HandleGrantType == ASSUME TypeOK, NEW w \in Ids, HandleGrant(w) PROVE TypeOK'
<1> DEFINE t == acq_rsp[w][nRsp[w] + 1]
<1>1. t \in 0 .. MaxToken /\ nRsp' \in [Ids -> Nat]
  <2>1. nRsp \in [Ids -> Nat]
    BY DEF TypeOK
  <2>2. nRsp[w] < Len(acq_rsp[w]) /\ nRsp' = [nRsp EXCEPT ![w] = @ + 1]
    BY DEF HandleGrant
  <2>3. acq_rsp[w] \in Seq(0 .. MaxToken) /\ nRsp[w] \in Nat
    BY WriterTypes
  <2>4. t \in 0 .. MaxToken
    BY <2>2, <2>3, NextFacts
  <2>5. nRsp' \in [Ids -> Nat]
    BY <2>1, <2>2, <2>3
  <2> QED
    BY <2>4, <2>5
<1>2. FirstSeq \in 0 .. MaxSeq
  BY LeaseAssumption DEF FirstSeq
<1>3. /\ token' \in [Ids -> 0 .. MaxToken] /\ seq' \in [Ids -> 0 .. MaxSeq]
      /\ phase' \in [Ids -> {"Idle", "AwaitingGrant", "Holding", "AwaitingAck"}]
      /\ wpc' \in [Ids -> {"tick", "recv"}]
  <2>1. /\ token \in [Ids -> 0 .. MaxToken] /\ seq \in [Ids -> 0 .. MaxSeq]
        /\ phase \in [Ids -> {"Idle", "AwaitingGrant", "Holding", "AwaitingAck"}]
        /\ wpc \in [Ids -> {"tick", "recv"}]
    BY DEF TypeOK
  <2>2. /\ wpc' = [wpc EXCEPT ![w] = "tick"]
        /\ \/ /\ token' = [token EXCEPT ![w] = t]
              /\ seq' = [seq EXCEPT ![w] = FirstSeq]
              /\ phase' = [phase EXCEPT ![w] = "Holding"]
           \/ /\ phase' = [phase EXCEPT ![w] = "Idle"]
              /\ UNCHANGED <<token, seq>>
    BY DEF HandleGrant
  <2> HIDE DEF t
  <2> QED
    BY <1>1, <1>2, <2>1, <2>2
<1> QED
  BY <1>1, <1>3 DEF HandleGrant, TypeOK, serverVars, storageVars

LEMMA HandleAckType == ASSUME TypeOK, NEW w \in Ids, HandleAck(w) PROVE TypeOK'
<1> DEFINE ok == wr_rsp[w][nAck[w] + 1]
<1>1. ok \in BOOLEAN /\ nAck' \in [Ids -> Nat]
  <2>1. nAck \in [Ids -> Nat]
    BY DEF TypeOK
  <2>2. nAck[w] < Len(wr_rsp[w]) /\ nAck' = [nAck EXCEPT ![w] = @ + 1]
    BY DEF HandleAck
  <2> QED
    BY <2>1, <2>2, WriterTypes
<1>2. NextSeq(w, ok) \in 0 .. MaxSeq
  <2>1. seq[w] \in 0 .. MaxSeq
    BY WriterTypes
  <2> QED
    BY <2>1, LeaseAssumption DEF NextSeq
<1>3. last_ok' = [last_ok EXCEPT ![w] = ok] /\ seq' = [seq EXCEPT ![w] = NextSeq(w, ok)]
  BY DEF HandleAck
<1>4. last_ok' \in [Ids -> BOOLEAN] /\ seq' \in [Ids -> 0 .. MaxSeq]
  BY <1>1, <1>2, <1>3 DEF TypeOK
<1>5. /\ phase' \in [Ids -> {"Idle", "AwaitingGrant", "Holding", "AwaitingAck"}]
      /\ wpc' \in [Ids -> {"tick", "recv"}]
  BY DEF HandleAck, AfterAck, TypeOK
<1> QED
  BY <1>1, <1>4, <1>5 DEF HandleAck, TypeOK, serverVars, storageVars

LEMMA StepType == TypeOK /\ [Next]_vars => TypeOK'
<1> SUFFICES ASSUME TypeOK, [Next]_vars PROVE TypeOK'
  OBVIOUS
<1>1. CASE \E w \in Writers : Serve(w)
  BY <1>1, ServeType, WritersAreIds
<1>2. CASE \E w \in Writers : StorageRecv(w)
  BY <1>2, StorageRecvType
<1>3. CASE StorageReply
  BY <1>3, StorageReplyType
<1>4. CASE \E w \in Writers : WriterStep(w)
  BY <1>4, TickType, HandleGrantType, HandleAckType, WritersAreIds DEF WriterStep
<1>5. CASE UNCHANGED vars
  BY <1>5 DEF vars, TypeOK
<1> QED
  BY <1>1, <1>2, <1>3, <1>4, <1>5 DEF Next, ServerStep, StorageStep

(* Every counter stays within its width: the server refuses at the last    *)
(* token instead of wrapping, a deadline stops at the clock's maximum, and *)
(* a write carries a token and a number that exist.                        *)
THEOREM TypeCorrect == Spec => []TypeOK
<1>1. Init => TypeOK
  BY InitType
<1>2. TypeOK /\ [Next]_vars => TypeOK'
  BY StepType
<1> QED
  BY <1>1, <1>2, PTL DEF Spec

-----------------------------------------------------------------------------
(* The refinement of LockHi.                                               *)

LEMMA ServeAnswers ==
    ASSUME NEW w \in Ids, Serve(w)
    PROVE  \/ /\ hi < MaxToken /\ hi' = hi + 1
              /\ acq_rsp' = [acq_rsp EXCEPT ![w] = Append(@, hi + 1)]
           \/ /\ hi' = hi
              /\ acq_rsp' = [acq_rsp EXCEPT ![w] = Append(@, Denied)]
  BY DEF Serve, MayGrant, NextToken, serverVars

LEMMA OthersAnswerNothing ==
    ASSUME NEW w \in Writers,
           StorageRecv(w) \/ StorageReply \/ WriterStep(w)
    PROVE  UNCHANGED <<hi, acq_rsp>>
  BY DEF StorageRecv, StorageReply, WriterStep, Tick, HandleGrant, HandleAck, serverVars

(* The lock server is the abstract one of LockHi: no client can tell the   *)
(* leases and the clock from arbitrary refusals (LockRef).                 *)
THEOREM ServerImplementsLockHi == Spec => ImplementsLockHi
<1>1. Init => Abstract!HInit
  BY DEF Init, All, Abstract!HInit
<1>2. TypeOK /\ [Next]_vars => [Abstract!HNext]_Abstract!hvars
  <2> SUFFICES ASSUME TypeOK, [Next]_vars
               PROVE  Abstract!HNext \/ UNCHANGED <<hi, acq_rsp>>
    BY DEF Abstract!hvars
  <2>1. CASE \E w \in Writers : Serve(w)
    <3>1. PICK w \in Ids : Serve(w)
      BY <2>1, WritersAreIds
    <3>2. hi \in 0 .. MaxToken
      BY DEF TypeOK
    <3>3. CASE /\ hi < MaxToken /\ hi' = hi + 1
               /\ acq_rsp' = [acq_rsp EXCEPT ![w] = Append(@, hi + 1)]
      <4>1. hi + 1 \in hi + 1 .. MaxToken
        BY <3>2, <3>3, LeaseAssumption
      <4>2. Abstract!Grant(w)
        BY <3>3, <4>1 DEF Abstract!Grant, Abstract!Answer
      <4> QED
        BY <4>2 DEF Abstract!HNext
    <3>4. CASE hi' = hi /\ acq_rsp' = [acq_rsp EXCEPT ![w] = Append(@, Denied)]
      <4>1. Abstract!Refuse(w)
        BY <3>4 DEF Abstract!Refuse, Abstract!Answer, Abstract!Denied, Denied
      <4> QED
        BY <4>1 DEF Abstract!HNext
    <3> QED
      BY <3>1, <3>3, <3>4, ServeAnswers
  <2>2. CASE \E w \in Writers : StorageRecv(w) \/ WriterStep(w)
    BY <2>2, OthersAnswerNothing
  <2>3. CASE StorageReply
    BY <2>3 DEF StorageReply, serverVars
  <2>4. CASE UNCHANGED vars
    BY <2>4 DEF vars
  <2> QED
    BY <2>1, <2>2, <2>3, <2>4 DEF Next, ServerStep, StorageStep
<1> QED
  BY <1>1, <1>2, TypeCorrect, PTL DEF Spec, ImplementsLockHi, Abstract!HSpec

-----------------------------------------------------------------------------
(* The journal.                                                            *)

(* What the storage node does with the write it takes next.                *)
LEMMA StorageRecvEffect ==
    ASSUME TypeOK, NEW w \in Writers, StorageRecv(w)
    PROVE  \E m \in Writes :
             /\ nReq[w] < Len(wr_req[w]) /\ m = wr_req[w][nReq[w] + 1]
             /\ m \in Range(wr_req[w])
             /\ \/ /\ Fresh(m) /\ journal' = Append(journal, m)
                   /\ hi_token' = m.tok /\ hi_seq' = m.seq /\ have_any' = TRUE
                   /\ Log' = Log \cup {m}
                \/ /\ ~Fresh(m) /\ UNCHANGED <<journal, hi_token, hi_seq, have_any>>
                   /\ Log' = Log
<1> DEFINE m == wr_req[w][nReq[w] + 1]
<1>1. w \in Ids /\ wr_req[w] \in Seq(Writes) /\ nReq[w] \in Nat
  BY WritersAreIds, WriterTypes
<1>2. nReq[w] < Len(wr_req[w])
  BY DEF StorageRecv
<1>3. m \in Writes /\ nReq[w] + 1 \in DOMAIN wr_req[w]
  BY <1>1, <1>2, NextFacts
<1>4. m \in Range(wr_req[w])
  BY <1>3 DEF Range
<1>5. CASE Fresh(m)
  <2>1. /\ journal' = Append(journal, m)
        /\ hi_token' = m.tok /\ hi_seq' = m.seq /\ have_any' = TRUE
    BY <1>5 DEF StorageRecv
  <2>2. journal \in Seq(Writes)
    BY DEF TypeOK
  <2>3. Log' = Log \cup {m}
    BY <1>3, <2>1, <2>2, RangeAppend DEF Log
  <2> QED
    BY <1>2, <1>3, <1>4, <1>5, <2>1, <2>3
<1>6. CASE ~Fresh(m)
  <2>1. UNCHANGED <<journal, hi_token, hi_seq, have_any>>
    BY <1>6 DEF StorageRecv
  <2> QED
    BY <1>2, <1>3, <1>4, <1>6, <2>1 DEF Log
<1> QED
  BY <1>5, <1>6

LEMMA OthersJournalNothing ==
    ASSUME NEW w \in Writers, Serve(w) \/ StorageReply \/ WriterStep(w)
    PROVE  UNCHANGED <<journal, hi_token, hi_seq, have_any, size>>
  BY DEF Serve, StorageReply, WriterStep, Tick, HandleGrant, HandleAck, storageVars

JournalInv == Serialized /\ MarkIsLast

LEMMA StorageRecvJournal ==
    ASSUME TypeOK, JournalInv, NEW w \in Writers, StorageRecv(w)
    PROVE  JournalInv'
<1>1. PICK m \in Writes :
             \/ /\ Fresh(m) /\ journal' = Append(journal, m)
                /\ hi_token' = m.tok /\ hi_seq' = m.seq /\ have_any' = TRUE
             \/ UNCHANGED <<journal, hi_token, hi_seq, have_any>>
  BY StorageRecvEffect
<1>2. CASE UNCHANGED <<journal, hi_token, hi_seq, have_any>>
  BY <1>2 DEF JournalInv, Serialized, MarkIsLast
<1>3. CASE /\ Fresh(m) /\ journal' = Append(journal, m)
           /\ hi_token' = m.tok /\ hi_seq' = m.seq /\ have_any' = TRUE
  <2> DEFINE n == Len(journal)
  <2>1. /\ journal \in Seq(Writes) /\ n \in Nat
        /\ DOMAIN journal = 1 .. n /\ DOMAIN journal' = 1 .. n + 1
        /\ Len(journal') = n + 1 /\ journal'[n + 1] = m
        /\ \A i \in 1 .. n : journal'[i] = journal[i]
    <3>1. journal \in Seq(Writes)
      BY DEF TypeOK
    <3> QED
      BY <1>3, <3>1, AppendFacts
  <2>2. MarkIsLast'
    <3>1. m = Write(m.tok, m.seq)
      BY DEF Writes, Write
    <3> QED
      BY <1>3, <2>1, <3>1 DEF MarkIsLast, Write
  <2>3. ASSUME NEW x \in 1 .. n PROVE lex_lt(journal[x], m)
    <3>1. /\ n > 0 /\ have_any /\ journal[n] = Write(hi_token, hi_seq)
          /\ journal[n].tok = hi_token /\ journal[n].seq = hi_seq
      BY <2>1 DEF JournalInv, MarkIsLast, Write
    <3>2. lex_lt(journal[n], m)
      BY <1>3, <3>1 DEF Fresh, lex_lt
    <3>3. x = n \/ lex_lt(journal[x], journal[n])
      BY <2>1, <3>1 DEF JournalInv, Serialized
    <3>4. /\ journal[x] \in Writes /\ journal[n] \in Writes
      BY <2>1, <3>1
    <3>5. \A a, b, c \in Writes : lex_lt(a, b) /\ lex_lt(b, c) => lex_lt(a, c)
      BY DEF Writes, lex_lt
    <3> QED
      BY <3>2, <3>3, <3>4, <3>5
  <2>4. Serialized'
    <3> SUFFICES ASSUME NEW x \in 1 .. n + 1, NEW y \in 1 .. n + 1, x < y
                 PROVE  lex_lt(journal'[x], journal'[y])
      BY <2>1 DEF Serialized, lex_lt
    <3>1. x \in 1 .. n /\ journal'[x] = journal[x]
      BY <2>1
    <3>2. CASE y = n + 1
      BY <2>1, <2>3, <3>1, <3>2
    <3>3. CASE y # n + 1
      <4>1. y \in 1 .. n /\ journal'[y] = journal[y]
        BY <2>1, <3>3
      <4> QED
        BY <2>1, <3>1, <4>1 DEF JournalInv, Serialized
    <3> QED
      BY <3>2, <3>3
  <2> QED
    BY <2>2, <2>4 DEF JournalInv
<1> QED
  BY <1>1, <1>2, <1>3

LEMMA StepJournal == TypeOK /\ JournalInv /\ [Next]_vars => JournalInv'
<1> SUFFICES ASSUME TypeOK, JournalInv, [Next]_vars PROVE JournalInv'
  OBVIOUS
<1>1. CASE \E w \in Writers : StorageRecv(w)
  BY <1>1, StorageRecvJournal
<1>2. CASE UNCHANGED <<journal, hi_token, hi_seq, have_any>>
  BY <1>2 DEF JournalInv, Serialized, MarkIsLast
<1>3. StorageReply => UNCHANGED <<journal, hi_token, hi_seq, have_any>>
  BY DEF StorageReply
<1>4. UNCHANGED vars => UNCHANGED <<journal, hi_token, hi_seq, have_any>>
  BY DEF vars
<1> QED
  BY <1>1, <1>2, <1>3, <1>4, OthersJournalNothing DEF Next, ServerStep, StorageStep

(* Write serialization: whoever writes, and whatever the clock does, the   *)
(* journal is strictly ordered by token and sequence number.               *)
THEOREM SerializedHolds == Spec => []Serialized
<1>1. Init => JournalInv
  BY DEF Init, JournalInv, Serialized, MarkIsLast
<1>2. TypeOK /\ JournalInv /\ [Next]_vars => JournalInv'
  BY StepJournal
<1>3. JournalInv => Serialized
  BY DEF JournalInv
<1> QED
  BY <1>1, <1>2, <1>3, TypeCorrect, PTL DEF Spec

-----------------------------------------------------------------------------
(* Who holds which token.  First what each action adds to the sets of      *)
(* tokens granted and writes sent.                                         *)

Sent(w) == Range(wr_req[w])

LEMMA ServeEffect ==
    ASSUME TypeOK, NEW w \in Ids, Serve(w)
    PROVE  \/ /\ hi < MaxToken /\ hi' = hi + 1
              /\ \A v \in Ids : Granted(v)' =
                   IF v = w THEN Granted(v) \cup {hi + 1} ELSE Granted(v)
           \/ /\ hi' = hi
              /\ \A v \in Ids : Granted(v)' = Granted(v)
<1>1. acq_rsp \in [Ids -> Seq(0 .. MaxToken)] /\ hi \in 0 .. MaxToken
  BY DEF TypeOK
<1>2. ASSUME NEW t \in 0 .. MaxToken, acq_rsp' = [acq_rsp EXCEPT ![w] = Append(@, t)],
             NEW v \in Ids
      PROVE  Range(acq_rsp'[v])
               = IF v = w THEN Range(acq_rsp[v]) \cup {t} ELSE Range(acq_rsp[v])
  <2> DEFINE T == 0 .. MaxToken
  <2>1. acq_rsp[w] \in Seq(T) /\ t \in T
    BY <1>1
  <2> HIDE DEF T
  <2>2. Range(Append(acq_rsp[w], t)) = Range(acq_rsp[w]) \cup {t}
    BY <2>1, RangeAppend
  <2>3. acq_rsp'[v] = IF v = w THEN Append(acq_rsp[w], t) ELSE acq_rsp[v]
    BY <1>1, <1>2
  <2> QED
    BY <2>2, <2>3
<1>3. CASE /\ hi < MaxToken /\ hi' = hi + 1
           /\ acq_rsp' = [acq_rsp EXCEPT ![w] = Append(@, hi + 1)]
  <2>1. hi + 1 \in 0 .. MaxToken /\ hi + 1 # Denied
    BY <1>1, <1>3, LeaseAssumption DEF Denied
  <2>2. ASSUME NEW v \in Ids
        PROVE  Granted(v)' = IF v = w THEN Granted(v) \cup {hi + 1} ELSE Granted(v)
    <3>1. Range(acq_rsp'[v])
            = IF v = w THEN Range(acq_rsp[v]) \cup {hi + 1} ELSE Range(acq_rsp[v])
      BY <1>2, <1>3, <2>1
    <3> QED
      BY <2>1, <3>1 DEF Granted
  <2> QED
    BY <1>3, <2>2
<1>4. CASE hi' = hi /\ acq_rsp' = [acq_rsp EXCEPT ![w] = Append(@, Denied)]
  <2>1. Denied \in 0 .. MaxToken
    BY LeaseAssumption DEF Denied
  <2>2. ASSUME NEW v \in Ids PROVE Granted(v)' = Granted(v)
    <3>1. Range(acq_rsp'[v])
            = IF v = w THEN Range(acq_rsp[v]) \cup {Denied} ELSE Range(acq_rsp[v])
      BY <1>2, <1>4, <2>1
    <3> QED
      BY <3>1 DEF Granted
  <2> QED
    BY <1>4, <2>2
<1> QED
  BY <1>3, <1>4, ServeAnswers

LEMMA TickEffect ==
    ASSUME TypeOK, NEW w \in Ids, Tick(w)
    PROVE  \/ /\ phase[w] = "Idle" /\ phase' = [phase EXCEPT ![w] = "AwaitingGrant"]
              /\ acq_req' = [acq_req EXCEPT ![w] = @ + 1]
              /\ wr_req' = wr_req
           \/ /\ phase[w] = "Holding" /\ phase' = [phase EXCEPT ![w] = "AwaitingAck"]
              /\ token[w] # 0 /\ seq[w] < MaxSeq
              /\ Write(token[w], seq[w]) \in Writes
              /\ acq_req' = acq_req
              /\ wr_req' = [wr_req EXCEPT ![w] = Append(@, Write(token[w], seq[w]))]
              /\ \A v \in Ids : Sent(v)' =
                   IF v = w THEN Sent(v) \cup {Write(token[w], seq[w])} ELSE Sent(v)
           \/ UNCHANGED <<acq_req, wr_req, phase>>
<1>1. CASE phase[w] = "Idle"
  BY <1>1 DEF Tick
<1>2. CASE phase[w] = "Holding" /\ MayWrite(w)
  <2>1. /\ acq_req' = acq_req
        /\ phase' = [phase EXCEPT ![w] = "AwaitingAck"]
        /\ wr_req' = [wr_req EXCEPT ![w] = Append(@, Write(token[w], seq[w]))]
    BY <1>2 DEF Tick
  <2>2. token[w] # 0 /\ seq[w] < MaxSeq
    BY <1>2 DEF MayWrite
  <2>3. Write(token[w], seq[w]) \in Writes
    BY <2>2, WriterTypes DEF Write, Writes
  <2>4. wr_req \in [Ids -> Seq(Writes)]
    BY DEF TypeOK
  <2>5. Range(Append(wr_req[w], Write(token[w], seq[w])))
          = Range(wr_req[w]) \cup {Write(token[w], seq[w])}
    BY <2>3, <2>4, RangeAppend
  <2>6. \A v \in Ids : Sent(v)' =
          IF v = w THEN Sent(v) \cup {Write(token[w], seq[w])} ELSE Sent(v)
    BY <2>1, <2>4, <2>5 DEF Sent
  <2> QED
    BY <1>2, <2>1, <2>2, <2>3, <2>6
<1>3. CASE phase[w] # "Idle" /\ ~(phase[w] = "Holding" /\ MayWrite(w))
  BY <1>3 DEF Tick
<1> QED
  BY <1>1, <1>2, <1>3

LEMMA HandleGrantEffect ==
    ASSUME TypeOK, NEW w \in Ids, HandleGrant(w)
    PROVE  /\ nRsp[w] < Len(acq_rsp[w])
           /\ \/ \E t \in Granted(w) :
                   /\ t \in 1 .. MaxToken
                   /\ token' = [token EXCEPT ![w] = t]
                   /\ seq' = [seq EXCEPT ![w] = 0]
                   /\ phase' = [phase EXCEPT ![w] = "Holding"]
              \/ /\ phase' = [phase EXCEPT ![w] = "Idle"]
                 /\ UNCHANGED <<token, seq>>
<1> DEFINE t == acq_rsp[w][nRsp[w] + 1]
<1>1. nRsp[w] < Len(acq_rsp[w])
  BY DEF HandleGrant
<1>2. acq_rsp[w] \in Seq(0 .. MaxToken) /\ nRsp[w] \in Nat
  BY WriterTypes
<1>3. t \in 0 .. MaxToken /\ nRsp[w] + 1 \in DOMAIN acq_rsp[w]
  BY <1>1, <1>2, NextFacts
<1>4. t \in Range(acq_rsp[w])
  BY <1>3 DEF Range
<1>5. CASE t # Denied
  <2>1. t \in Granted(w) /\ t \in 1 .. MaxToken
    BY <1>3, <1>4, <1>5 DEF Granted, Denied
  <2>2. /\ token' = [token EXCEPT ![w] = t] /\ seq' = [seq EXCEPT ![w] = 0]
        /\ phase' = [phase EXCEPT ![w] = "Holding"]
    BY <1>5 DEF HandleGrant, FirstSeq
  <2> HIDE DEF t
  <2> QED
    BY <1>1, <2>1, <2>2
<1>6. CASE t = Denied
  BY <1>1, <1>6 DEF HandleGrant
<1> QED
  BY <1>5, <1>6

-----------------------------------------------------------------------------
LEMMA ServeHolders ==
    ASSUME TypeOK, Holders, NEW w \in Ids, Serve(w)
    PROVE  Holders'
<1>0. UNCHANGED <<size, journal, wr_req, token>>
  BY DEF Serve, writerVars
<1>1. hi \in Nat
  BY LeaseAssumption DEF TypeOK
<1>2. CASE /\ hi' = hi + 1
           /\ \A v \in Ids : Granted(v)' =
                IF v = w THEN Granted(v) \cup {hi + 1} ELSE Granted(v)
  <2>1. \A v \in Ids : Granted(v) \subseteq 1 .. hi /\ hi + 1 \notin Granted(v)
    BY <1>1 DEF Holders
  <2>2. \A v \in Ids : Granted(v)' \subseteq 1 .. hi'
    BY <1>1, <1>2, <2>1
  <2>3. \A u, v \in Ids : u # v => Granted(u)' \cap Granted(v)' = {}
    BY <1>2, <2>1 DEF Holders
  <2>4. \A v \in Ids : Granted(v) \subseteq Granted(v)'
    BY <1>2
  <2> QED
    BY <1>0, <2>2, <2>3, <2>4 DEF Holders, Log, Writers
<1>3. CASE hi' = hi /\ \A v \in Ids : Granted(v)' = Granted(v)
  BY <1>0, <1>3 DEF Holders, Log, Writers
<1> QED
  BY <1>2, <1>3, ServeEffect

LEMMA StorageRecvHolders ==
    ASSUME TypeOK, Holders, NEW w \in Writers, StorageRecv(w)
    PROVE  Holders'
<1>1. UNCHANGED <<size, hi, acq_rsp, wr_req, token>>
  BY DEF StorageRecv, serverVars, writerVars
<1>2. PICK m \in Range(wr_req[w]) : Log' \subseteq Log \cup {m}
  BY StorageRecvEffect
<1>3. \A v \in Ids : Granted(v)' = Granted(v)
  BY <1>1 DEF Granted
<1> QED
  BY <1>1, <1>2, <1>3 DEF Holders, Writers

LEMMA TickHolders ==
    ASSUME TypeOK, Holders, NEW w \in Ids, Tick(w)
    PROVE  Holders'
<1>1. UNCHANGED <<size, hi, acq_rsp, journal, token>>
  BY DEF Tick, serverVars
<1>2. (\A v \in Ids : Granted(v)' = Granted(v)) /\ Log' = Log /\ Writers' = Writers
  BY <1>1 DEF Granted, Log, Writers
<1>3. CASE wr_req' = wr_req
  BY <1>1, <1>2, <1>3 DEF Holders
<1>4. CASE /\ token[w] # 0
           /\ \A v \in Ids : Sent(v)' =
                IF v = w THEN Sent(v) \cup {Write(token[w], seq[w])} ELSE Sent(v)
  <2>1. Write(token[w], seq[w]).tok \in Granted(w)
    BY <1>4 DEF Holders, Write
  <2>2. ASSUME NEW v \in Ids, NEW m \in Sent(v)' PROVE m.tok \in Granted(v)
    <3>1. m \in Sent(v) \/ (v = w /\ m = Write(token[w], seq[w]))
      BY <1>4, <2>2
    <3> QED
      BY <2>1, <3>1 DEF Holders, Sent
  <2>3. \A v \in Ids : Sent(v) \subseteq Sent(v)'
    BY <1>4
  <2>4. \A m \in Log : \E v \in Writers : m \in Sent(v)'
    BY <2>3, WritersAreIds DEF Holders, Sent
  <2> QED
    BY <1>1, <1>2, <2>2, <2>4 DEF Holders, Sent
<1> QED
  BY <1>3, <1>4, TickEffect

LEMMA HandleGrantHolders ==
    ASSUME TypeOK, Holders, NEW w \in Ids, HandleGrant(w)
    PROVE  Holders'
<1>1. UNCHANGED <<size, hi, acq_rsp, journal, wr_req>>
  BY DEF HandleGrant, serverVars
<1>2. (\A v \in Ids : Granted(v)' = Granted(v)) /\ Log' = Log /\ Writers' = Writers
  BY <1>1 DEF Granted, Log, Writers
<1>3. token' = token \/ \E t \in Granted(w) : token' = [token EXCEPT ![w] = t]
  BY HandleGrantEffect
<1>4. \A v \in Ids : token'[v] # 0 => token'[v] \in Granted(v)
  <2>1. token \in [Ids -> 0 .. MaxToken]
    BY DEF TypeOK
  <2>2. \A v \in Ids : token[v] # 0 => token[v] \in Granted(v)
    BY DEF Holders
  <2> QED
    BY <1>3, <2>1, <2>2
<1> QED
  BY <1>1, <1>2, <1>4 DEF Holders

LEMMA StepHolders == TypeOK /\ Holders /\ [Next]_vars => Holders'
<1> SUFFICES ASSUME TypeOK, Holders, [Next]_vars PROVE Holders'
  OBVIOUS
<1>1. CASE \E w \in Writers : Serve(w)
  BY <1>1, ServeHolders, WritersAreIds
<1>2. CASE \E w \in Writers : StorageRecv(w)
  BY <1>2, StorageRecvHolders
<1>3. CASE UNCHANGED <<size, hi, acq_rsp, journal, wr_req, token>>
  BY <1>3 DEF Holders, Granted, Log, Writers
<1>4. StorageReply => UNCHANGED <<size, hi, acq_rsp, journal, wr_req, token>>
  BY DEF StorageReply, serverVars, writerVars
<1>5. CASE \E w \in Writers : WriterStep(w)
  <2>1. PICK w \in Ids : Tick(w) \/ HandleGrant(w) \/ HandleAck(w)
    BY <1>5, WritersAreIds DEF WriterStep
  <2>2. HandleAck(w) => UNCHANGED <<size, hi, acq_rsp, journal, wr_req, token>>
    BY DEF HandleAck, serverVars
  <2> QED
    BY <1>3, <2>1, <2>2, TickHolders, HandleGrantHolders
<1>6. UNCHANGED vars => UNCHANGED <<size, hi, acq_rsp, journal, wr_req, token>>
  BY DEF vars
<1> QED
  BY <1>1, <1>2, <1>3, <1>4, <1>5, <1>6 DEF Next, ServerStep, StorageStep

LEMMA InitHolders == Init => Holders
<1> SUFFICES ASSUME Init PROVE Holders
  OBVIOUS
<1>1. \A w \in Ids : acq_rsp[w] = <<>> /\ wr_req[w] = <<>> /\ token[w] = 0
  BY DEF Init, All
<1>2. \A w \in Ids : Granted(w) = {} /\ Range(wr_req[w]) = {}
  BY <1>1 DEF Granted, Range
<1>3. Log = {}
  BY DEF Init, Log, Range
<1> QED
  BY <1>1, <1>2, <1>3 DEF Holders

(* Tokens, writes and the journal agree about who holds what (the first    *)
(* part of the invariant).                                                 *)
THEOREM HoldersHold == Spec => []Holders
<1>1. Init => Holders
  BY InitHolders
<1>2. TypeOK /\ Holders /\ [Next]_vars => Holders'
  BY StepHolders
<1> QED
  BY <1>1, <1>2, TypeCorrect, PTL DEF Spec

(* No two writers are ever granted one token, and every write in the       *)
(* journal was sent by the writer its token was granted to (caused_by).    *)
THEOREM OneHolderHolds == Spec => []OneHolderPerToken
<1>1. TypeOK /\ Holders => OneHolderPerToken
  <2> SUFFICES ASSUME TypeOK, Holders,
                      NEW m \in Range(journal)
               PROVE  \E w \in Writers : m \in Range(wr_req[w]) /\ m.tok \in Granted(w)
    BY DEF OneHolderPerToken, Holders
  <2>1. PICK w \in Writers : m \in Range(wr_req[w])
    BY DEF Holders, Log
  <2> QED
    BY <2>1, WritersAreIds DEF Holders
<1> QED
  BY <1>1, HoldersHold, TypeCorrect, PTL

-----------------------------------------------------------------------------
(* One message under way per writer.                                       *)

Flow == \A w \in Ids : Asking(w) /\ Writing(w) /\ Tokenless(w)

(* What concerns one writer changes only when it is its turn.              *)
LEMMA FlowElsewhere ==
    ASSUME Flow, NEW v \in Ids,
           acq_req'[v] = acq_req[v], acq_rsp'[v] = acq_rsp[v], nRsp'[v] = nRsp[v],
           wr_req'[v] = wr_req[v], nReq'[v] = nReq[v], wr_rsp'[v] = wr_rsp[v],
           nAck'[v] = nAck[v], owes'.to = v <=> owes.to = v, phase'[v] = phase[v],
           token'[v] = token[v], seq'[v] = seq[v], last_ok'[v] = last_ok[v]
    PROVE  Asking(v)' /\ Writing(v)' /\ Tokenless(v)'
  BY DEF Flow, Asking, Writing, Counted, Quiet, InQueue, InHand, Replied, LastSent, Tokenless

LEMMA ServeFlow ==
    ASSUME TypeOK, Flow, NEW w \in Ids, Serve(w)
    PROVE  Flow'
<1>1. PICK t \in 0 .. MaxToken : acq_rsp' = [acq_rsp EXCEPT ![w] = Append(@, t)]
  <2>1. hi \in 0 .. MaxToken /\ MaxToken \in Nat
    BY LeaseAssumption DEF TypeOK
  <2> QED
    BY <2>1, ServeAnswers DEF Denied
<1>2. /\ acq_req[w] > 0 /\ acq_req' = [acq_req EXCEPT ![w] = @ - 1]
      /\ UNCHANGED <<nRsp, wr_req, nReq, wr_rsp, nAck, owes, phase, token, seq, last_ok>>
  BY DEF Serve, storageVars, writerVars
<1>3. acq_rsp \in [Ids -> Seq(0 .. MaxToken)] /\ acq_req \in [Ids -> Nat]
  BY DEF TypeOK
<1>4. ASSUME NEW v \in Ids, v # w PROVE Asking(v)' /\ Writing(v)' /\ Tokenless(v)'
  BY <1>1, <1>2, <1>3, <1>4, FlowElsewhere
<1>5. Writing(w)' /\ Tokenless(w)'
  BY <1>2 DEF Flow, Writing, Counted, Quiet, InQueue, InHand, Replied, LastSent, Tokenless
<1>6. Asking(w)'
  <2>1. acq_req[w] \in Nat /\ acq_req'[w] = acq_req[w] - 1
    BY <1>2, <1>3
  <2>2. Len(acq_rsp[w]) \in Nat /\ Len(acq_rsp'[w]) = Len(acq_rsp[w]) + 1
    BY <1>1, <1>3
  <2>3. nRsp[w] \in Nat
    BY WriterTypes
  <2> QED
    BY <1>2, <2>1, <2>2, <2>3 DEF Flow, Asking
<1> QED
  BY <1>4, <1>5, <1>6 DEF Flow

LEMMA StorageRecvFlow ==
    ASSUME TypeOK, Flow, NEW w \in Ids, StorageRecv(w)
    PROVE  Flow'
<1>1. /\ owes.to = Nobody /\ owes'.to = w
      /\ nReq[w] < Len(wr_req[w]) /\ nReq' = [nReq EXCEPT ![w] = @ + 1]
      /\ UNCHANGED <<acq_req, acq_rsp, nRsp, wr_req, wr_rsp, nAck, phase, token, seq, last_ok>>
  BY DEF StorageRecv, writerVars
<1>2. nReq \in [Ids -> Nat] /\ Nobody \notin Ids
  BY WritersAreIds DEF TypeOK
<1>3. ASSUME NEW v \in Ids, v # w PROVE Asking(v)' /\ Writing(v)' /\ Tokenless(v)'
  BY <1>1, <1>2, <1>3, FlowElsewhere
<1>4. Asking(w)' /\ Tokenless(w)'
  BY <1>1 DEF Flow, Asking, Tokenless
<1>9. Writing(w)
  BY DEF Flow
<1>5. Writing(w)'
  <2>1. nReq[w] \in Nat /\ nReq'[w] = nReq[w] + 1 /\ owes.to # w
    BY <1>1, <1>2
  <2>2. Len(wr_req[w]) \in Nat /\ Len(wr_rsp[w]) \in Nat /\ nAck[w] \in Nat
    BY WriterTypes
  <2>3. Counted(w)'
    BY <1>1, <1>9, <2>1, <2>2 DEF Writing, Counted, Quiet, InQueue, InHand, Replied
  <2>4. LastSent(w)'
    BY <1>1, <1>9 DEF Writing, LastSent
  <2> QED
    BY <1>1, <1>9, <2>1, <2>2, <2>3, <2>4 DEF Writing
<1> QED
  BY <1>3, <1>4, <1>5 DEF Flow

LEMMA StorageReplyEffect ==
    ASSUME TypeOK, StorageReply
    PROVE  /\ owes.to \in Ids /\ owes.ok \in BOOLEAN
           /\ owes'.to \notin Ids
           /\ wr_rsp' = [wr_rsp EXCEPT ![owes.to] = Append(@, owes.ok)]
           /\ UNCHANGED <<acq_req, acq_rsp, nRsp, wr_req, nReq, nAck, journal,
                          hi_token, hi_seq, have_any, phase, token, seq, last_ok>>
<1>1. owes.to \in 0 .. MaxWriters /\ owes.ok \in BOOLEAN /\ owes.to # MaxWriters
  BY DEF StorageReply, TypeOK, Nobody
<1>2. owes.to \in Ids /\ Nobody \notin Ids
  BY <1>1, WritersAreIds, LeaseAssumption DEF Ids
<1> QED
  BY <1>1, <1>2 DEF StorageReply, writerVars

LEMMA StorageReplyFlow ==
    ASSUME TypeOK, Flow, StorageReply
    PROVE  Flow'
<1>0. PICK w \in Ids : w = owes.to
  BY StorageReplyEffect
<1>1. /\ owes.ok \in BOOLEAN /\ owes'.to \notin Ids
      /\ wr_rsp' = [wr_rsp EXCEPT ![w] = Append(@, owes.ok)]
      /\ UNCHANGED <<acq_req, acq_rsp, nRsp, wr_req, nReq, nAck, phase, token, seq, last_ok>>
  BY <1>0, StorageReplyEffect
<1>2. wr_rsp \in [Ids -> Seq(BOOLEAN)]
  BY DEF TypeOK
<1>3. ASSUME NEW v \in Ids, v # w PROVE Asking(v)' /\ Writing(v)' /\ Tokenless(v)'
  BY <1>0, <1>1, <1>2, <1>3, FlowElsewhere
<1>9. Asking(w) /\ Writing(w) /\ Tokenless(w)
  BY DEF Flow
<1>4. Asking(w)'
  BY <1>1, <1>9 DEF Asking
<1>5. Writing(w)'
  <2>1. Len(wr_rsp[w]) \in Nat /\ Len(wr_rsp'[w]) = Len(wr_rsp[w]) + 1
    BY <1>1, <1>2
  <2>2. Len(wr_req[w]) \in Nat /\ nReq[w] \in Nat /\ nAck[w] \in Nat
    BY <1>1, WriterTypes
  <2>3. Counted(w)'
    BY <1>0, <1>1, <1>9, <2>1, <2>2 DEF Writing, Counted, Quiet, InQueue, InHand, Replied
  <2>4. LastSent(w)'
    BY <1>1, <1>9 DEF Writing, LastSent
  <2> QED
    BY <2>3, <2>4 DEF Writing
<1>6. Tokenless(w)'
  <2>1. Len(wr_rsp[w]) \in Nat /\ Len(wr_req[w]) \in Nat /\ nReq[w] \in Nat /\ nAck[w] \in Nat
    BY <1>1, WriterTypes
  <2>2. phase[w] = "AwaitingAck"
    BY <1>0, <1>9, <2>1 DEF Writing, Counted, Quiet, InQueue, InHand, Replied, LastSent
  <2> QED
    BY <1>1, <1>9, <2>2 DEF Tokenless
<1> QED
  BY <1>3, <1>4, <1>5, <1>6 DEF Flow

LEMMA TickFlow ==
    ASSUME TypeOK, Flow, NEW w \in Ids, Tick(w)
    PROVE  Flow'
<1>1. UNCHANGED <<acq_rsp, nRsp, nReq, wr_rsp, nAck, owes, token, seq, last_ok>>
  BY DEF Tick, storageVars
<1>2. /\ acq_req \in [Ids -> Nat] /\ wr_req \in [Ids -> Seq(Writes)]
      /\ phase \in [Ids -> {"Idle", "AwaitingGrant", "Holding", "AwaitingAck"}]
  BY DEF TypeOK
<1>3. /\ Len(acq_rsp[w]) \in Nat /\ nRsp[w] \in Nat /\ acq_req[w] \in Nat
      /\ Len(wr_req[w]) \in Nat /\ nReq[w] \in Nat /\ Len(wr_rsp[w]) \in Nat /\ nAck[w] \in Nat
  BY WriterTypes
<1>9. Asking(w) /\ Writing(w) /\ Tokenless(w)
  BY DEF Flow
<1>4. CASE /\ phase[w] = "Idle" /\ phase' = [phase EXCEPT ![w] = "AwaitingGrant"]
           /\ acq_req' = [acq_req EXCEPT ![w] = @ + 1]
           /\ wr_req' = wr_req
  <2>1. ASSUME NEW v \in Ids, v # w PROVE Asking(v)' /\ Writing(v)' /\ Tokenless(v)'
    BY <1>1, <1>2, <1>4, <2>1, FlowElsewhere
  <2>2. Asking(w)'
    BY <1>1, <1>2, <1>3, <1>4, <1>9 DEF Asking
  <2>3. Writing(w)' /\ Tokenless(w)'
    BY <1>1, <1>2, <1>3, <1>4, <1>9
       DEF Writing, Counted, Quiet, InQueue, InHand, Replied, LastSent, Tokenless
  <2> QED
    BY <2>1, <2>2, <2>3 DEF Flow
<1>5. CASE /\ phase[w] = "Holding" /\ phase' = [phase EXCEPT ![w] = "AwaitingAck"]
           /\ token[w] # 0 /\ seq[w] < MaxSeq /\ Write(token[w], seq[w]) \in Writes
           /\ acq_req' = acq_req
           /\ wr_req' = [wr_req EXCEPT ![w] = Append(@, Write(token[w], seq[w]))]
  <2>1. ASSUME NEW v \in Ids, v # w PROVE Asking(v)' /\ Writing(v)' /\ Tokenless(v)'
    BY <1>1, <1>2, <1>5, <2>1, FlowElsewhere
  <2>2. Asking(w)' /\ Tokenless(w)'
    BY <1>1, <1>2, <1>3, <1>5, <1>9 DEF Asking, Tokenless
  <2>3. /\ wr_req'[w] = Append(wr_req[w], Write(token[w], seq[w]))
        /\ phase'[w] = "AwaitingAck"
    BY <1>2, <1>5
  <2>4. /\ Len(wr_req'[w]) = Len(wr_req[w]) + 1 /\ wr_req'[w] # <<>>
        /\ wr_req'[w][Len(wr_req'[w])] = Write(token[w], seq[w])
    BY <1>2, <1>3, <1>5, <2>3
  <2>5. Writing(w)'
    <3>1. Counted(w)'
      BY <1>1, <1>3, <1>5, <2>3, <2>4, <1>9
         DEF Writing, Counted, Quiet, InQueue, InHand, Replied
    <3>2. LastSent(w)'
      BY <1>1, <1>5, <2>4 DEF LastSent
    <3> QED
      BY <3>1, <3>2 DEF Writing
  <2> QED
    BY <2>1, <2>2, <2>5 DEF Flow
<1>6. CASE UNCHANGED <<acq_req, wr_req, phase>>
  BY <1>1, <1>6, FlowElsewhere DEF Flow
<1> QED
  BY <1>4, <1>5, <1>6, TickEffect

LEMMA HandleGrantFlow ==
    ASSUME TypeOK, Flow, NEW w \in Ids, HandleGrant(w)
    PROVE  phase[w] = "AwaitingGrant" /\ token[w] = 0 /\ Flow'
<1>1. /\ nRsp' = [nRsp EXCEPT ![w] = @ + 1]
      /\ UNCHANGED <<acq_req, acq_rsp, wr_req, nReq, wr_rsp, nAck, owes, last_ok>>
  BY DEF HandleGrant, storageVars
<1>2. /\ nRsp \in [Ids -> Nat] /\ token \in [Ids -> 0 .. MaxToken]
      /\ seq \in [Ids -> 0 .. MaxSeq]
      /\ phase \in [Ids -> {"Idle", "AwaitingGrant", "Holding", "AwaitingAck"}]
  BY DEF TypeOK
<1>3. /\ Len(acq_rsp[w]) \in Nat /\ nRsp[w] \in Nat /\ acq_req[w] \in Nat
      /\ Len(wr_req[w]) \in Nat /\ nReq[w] \in Nat /\ Len(wr_rsp[w]) \in Nat /\ nAck[w] \in Nat
  BY WriterTypes
<1>9. Asking(w) /\ Writing(w) /\ Tokenless(w)
  BY DEF Flow
<1>4. nRsp[w] < Len(acq_rsp[w])
  BY HandleGrantEffect
<1>5. phase[w] = "AwaitingGrant" /\ token[w] = 0
  BY <1>3, <1>4, <1>9 DEF Asking, Tokenless
<1>6. ASSUME NEW t \in 1 .. MaxToken, token' = [token EXCEPT ![w] = t],
             seq' = [seq EXCEPT ![w] = 0], phase' = [phase EXCEPT ![w] = "Holding"]
      PROVE  Flow'
  <2>1. ASSUME NEW v \in Ids, v # w PROVE Asking(v)' /\ Writing(v)' /\ Tokenless(v)'
    BY <1>1, <1>2, <1>6, <2>1, FlowElsewhere
  <2>2. nRsp'[w] = nRsp[w] + 1 /\ token'[w] = t /\ phase'[w] = "Holding" /\ t # 0
    BY <1>1, <1>2, <1>6
  <2>3. Asking(w)' /\ Writing(w)' /\ Tokenless(w)'
    BY <1>1, <1>3, <1>4, <1>5, <2>2, <1>9
       DEF Asking, Writing, Counted, Quiet, InQueue, InHand, Replied, LastSent, Tokenless
  <2> QED
    BY <2>1, <2>3 DEF Flow
<1>7. CASE phase' = [phase EXCEPT ![w] = "Idle"] /\ UNCHANGED <<token, seq>>
  <2>1. ASSUME NEW v \in Ids, v # w PROVE Asking(v)' /\ Writing(v)' /\ Tokenless(v)'
    BY <1>1, <1>2, <1>7, <2>1, FlowElsewhere
  <2>2. nRsp'[w] = nRsp[w] + 1 /\ phase'[w] = "Idle"
    BY <1>1, <1>2, <1>7
  <2>3. Asking(w)'
    BY <1>1, <1>3, <1>4, <1>5, <2>2, <1>9 DEF Asking
  <2>4. Writing(w)'
    BY <1>1, <1>3, <1>5, <2>2, <1>9
       DEF Writing, Counted, Quiet, InQueue, InHand, Replied, LastSent
  <2>5. Tokenless(w)'
    BY <1>1, <1>5, <1>7, <2>2, <1>9 DEF Tokenless
  <2> QED
    BY <1>5, <2>1, <2>3, <2>4, <2>5 DEF Flow
<1> QED
  BY <1>5, <1>6, <1>7, HandleGrantEffect

LEMMA HandleAckFlow ==
    ASSUME TypeOK, Flow, NEW w \in Ids, HandleAck(w)
    PROVE  /\ phase[w] = "AwaitingAck" /\ token[w] # 0 /\ owes.to # w
           /\ Len(wr_rsp[w]) = nAck[w] + 1 /\ seq[w] < MaxSeq
           /\ Flow'
<1>1. /\ nAck[w] < Len(wr_rsp[w]) /\ nAck' = [nAck EXCEPT ![w] = @ + 1]
      /\ phase' = [phase EXCEPT ![w] = "Holding"]
      /\ UNCHANGED <<acq_req, acq_rsp, nRsp, wr_req, nReq, wr_rsp, owes, token>>
      /\ \E ok : /\ last_ok' = [last_ok EXCEPT ![w] = ok]
                 /\ seq' = [seq EXCEPT ![w] = NextSeq(w, ok)]
  BY DEF HandleAck, AfterAck, storageVars
<1>2. /\ nAck \in [Ids -> Nat] /\ seq \in [Ids -> 0 .. MaxSeq] /\ last_ok \in [Ids -> BOOLEAN]
      /\ phase \in [Ids -> {"Idle", "AwaitingGrant", "Holding", "AwaitingAck"}]
  BY DEF TypeOK
<1>3. /\ Len(acq_rsp[w]) \in Nat /\ nRsp[w] \in Nat /\ acq_req[w] \in Nat
      /\ Len(wr_req[w]) \in Nat /\ nReq[w] \in Nat /\ Len(wr_rsp[w]) \in Nat /\ nAck[w] \in Nat
  BY WriterTypes
<1>9. Asking(w) /\ Writing(w) /\ Tokenless(w)
  BY DEF Flow
<1>4. phase[w] = "AwaitingAck" /\ owes.to # w /\ Len(wr_rsp[w]) = nAck[w] + 1 /\ seq[w] < MaxSeq
  BY <1>1, <1>3, <1>9 DEF Writing, Counted, Quiet, InQueue, InHand, Replied, LastSent
<1>5. token[w] # 0
  BY <1>4, <1>9 DEF Tokenless
<1>6. ASSUME NEW v \in Ids, v # w PROVE Asking(v)' /\ Writing(v)' /\ Tokenless(v)'
  BY <1>1, <1>2, <1>6, FlowElsewhere
<1>7. nAck'[w] = nAck[w] + 1 /\ phase'[w] = "Holding"
  BY <1>1, <1>2
<1>8. Asking(w)'
  BY <1>1, <1>4, <1>7, <1>9 DEF Asking
<1>10. Writing(w)'
  BY <1>1, <1>3, <1>4, <1>7, <1>9
     DEF Writing, Counted, Quiet, InQueue, InHand, Replied, LastSent
<1>11. Tokenless(w)'
  BY <1>1, <1>5, <1>7, <1>9 DEF Tokenless
<1> QED
  BY <1>4, <1>5, <1>6, <1>8, <1>10, <1>11 DEF Flow

LEMMA StepFlow == TypeOK /\ Flow /\ [Next]_vars => Flow'
<1> SUFFICES ASSUME TypeOK, Flow, [Next]_vars PROVE Flow'
  OBVIOUS
<1>1. CASE \E w \in Writers : Serve(w)
  BY <1>1, ServeFlow, WritersAreIds
<1>2. CASE \E w \in Writers : StorageRecv(w)
  BY <1>2, StorageRecvFlow, WritersAreIds
<1>3. CASE StorageReply
  BY <1>3, StorageReplyFlow
<1>4. CASE \E w \in Writers : WriterStep(w)
  BY <1>4, TickFlow, HandleGrantFlow, HandleAckFlow, WritersAreIds DEF WriterStep
<1>5. CASE UNCHANGED vars
  BY <1>5, FlowElsewhere DEF vars, Flow, storageVars, writerVars
<1> QED
  BY <1>1, <1>2, <1>3, <1>4, <1>5 DEF Next, ServerStep, StorageStep

LEMMA InitFlow == Init => Flow
<1> SUFFICES ASSUME Init, NEW w \in Ids PROVE Asking(w) /\ Writing(w) /\ Tokenless(w)
  BY DEF Flow
<1>1. /\ acq_req[w] = 0 /\ acq_rsp[w] = <<>> /\ nRsp[w] = 0 /\ wr_req[w] = <<>>
      /\ nReq[w] = 0 /\ wr_rsp[w] = <<>> /\ nAck[w] = 0 /\ phase[w] = "Idle"
      /\ token[w] = 0 /\ last_ok[w] = FALSE /\ owes.to # w
  BY LeaseAssumption DEF Init, All, Nobody, Ids
<1> QED
  BY <1>1 DEF Asking, Writing, Counted, Quiet, LastSent, Tokenless

-----------------------------------------------------------------------------
(* Refusals.                                                               *)

Refusals == RefusedFromThenOn /\ \A w \in Ids : Stuck(w)

(* The mark only rises.                                                    *)
LEMMA MarkRises ==
    ASSUME TypeOK, NEW w \in Writers, StorageRecv(w),
           NEW t \in Nat, NEW q \in Nat, ~Fresh(Write(t, q))
    PROVE  ~Fresh(Write(t, q))'
<1>1. PICK m \in Writes :
        \/ /\ Fresh(m) /\ hi_token' = m.tok /\ hi_seq' = m.seq /\ have_any' = TRUE
        \/ UNCHANGED <<hi_token, hi_seq, have_any>>
  BY StorageRecvEffect
<1>2. /\ m.tok \in Nat /\ m.seq \in Nat /\ hi_token \in Nat /\ hi_seq \in Nat
  BY LeaseAssumption DEF Writes, TypeOK
<1> QED
  BY <1>1, <1>2 DEF Fresh, Write

LEMMA RefusalsUnchanged ==
    ASSUME Refusals, NEW w \in Ids,
           UNCHANGED <<hi_token, hi_seq, have_any, owes>>,
           wr_rsp'[w] = wr_rsp[w], token'[w] = token[w], seq'[w] = seq[w]
    PROVE  Stuck(w)'
  BY DEF Refusals, Stuck, Refused, Fresh, Write

(* What the storage node takes from a writer's channel is the write the    *)
(* writer is waiting for.                                                  *)
LEMMA ReceivedIsCurrent ==
    ASSUME TypeOK, Flow, NEW w \in Ids, nReq[w] < Len(wr_req[w])
    PROVE  /\ wr_req[w][nReq[w] + 1] = Write(token[w], seq[w])
           /\ phase[w] = "AwaitingAck" /\ token[w] # 0 /\ InQueue(w)
<1>1. Asking(w) /\ Counted(w) /\ LastSent(w) /\ Tokenless(w)
  BY DEF Flow, Writing
<1>2. Len(wr_req[w]) \in Nat /\ nReq[w] \in Nat
  BY WriterTypes
<1>3. InQueue(w) /\ phase[w] = "AwaitingAck"
  BY <1>1, <1>2 DEF Counted, Quiet, InHand, Replied
<1> QED
  BY <1>1, <1>3 DEF InQueue, LastSent, Tokenless

LEMMA StorageRecvRefusals ==
    ASSUME TypeOK, Flow, Refusals, NEW w \in Writers, StorageRecv(w)
    PROVE  Refusals'
<1> DEFINE m == Write(token[w], seq[w])
<1>0. w \in Ids
  BY WritersAreIds
<1>1. /\ UNCHANGED <<wr_rsp, token, seq>> /\ owes.to = Nobody
      /\ nReq[w] < Len(wr_req[w])
      /\ owes' = [to |-> w, ok |-> Fresh(wr_req[w][nReq[w] + 1])]
  BY DEF StorageRecv, writerVars
<1>2. owes'.to = w /\ owes'.ok = Fresh(m)
  BY <1>0, <1>1, ReceivedIsCurrent
<1>3. ASSUME NEW v \in Ids PROVE token[v] \in Nat /\ seq[v] \in Nat
  BY WriterTypes, LeaseAssumption
<1>4. ASSUME NEW v \in Ids, ~Fresh(Write(token[v], seq[v]))
      PROVE  ~Fresh(Write(token[v], seq[v]))'
  <2>1. \A t, q \in Nat : ~Fresh(Write(t, q)) => ~Fresh(Write(t, q))'
    BY MarkRises
  <2>2. Write(token[v], seq[v])' = Write(token[v], seq[v])
    BY <1>1
  <2> QED
    BY <1>1, <1>3, <1>4, <2>1 DEF Fresh, Write
<1>5. \A v \in Ids : Refused(v)' <=> Refused(v)
  BY <1>1 DEF Refused
<1>6. ASSUME NEW v \in Ids, v # w PROVE Stuck(v)'
  <2>1. Refused(v) => ~Fresh(Write(token[v], seq[v]))
    BY DEF Refusals, Stuck
  <2> QED
    BY <1>2, <1>4, <1>5, <1>6, <2>1 DEF Stuck
<1>7. Stuck(w)'
  <2>1. Refused(w) => ~Fresh(m)
    BY <1>0 DEF Refusals, Stuck
  <2> QED
    BY <1>0, <1>2, <1>4, <1>5, <2>1 DEF Stuck
<1>8. RefusedFromThenOn'
  BY <1>1, StorageRecvEffect DEF Refusals, RefusedFromThenOn, StorageRecv, Writers
<1> QED
  BY <1>6, <1>7, <1>8 DEF Refusals

LEMMA StorageReplyRefusals ==
    ASSUME TypeOK, Flow, Refusals, StorageReply
    PROVE  Refusals'
<1>0. PICK w \in Ids : w = owes.to
  BY StorageReplyEffect
<1>1. /\ owes.ok \in BOOLEAN /\ owes'.to \notin Ids
      /\ wr_rsp' = [wr_rsp EXCEPT ![w] = Append(@, owes.ok)]
      /\ UNCHANGED <<hi_token, hi_seq, have_any, token, seq>>
  BY <1>0, StorageReplyEffect
<1>2. wr_rsp \in [Ids -> Seq(BOOLEAN)] /\ wr_rsp[w] \in Seq(BOOLEAN)
  BY DEF TypeOK
<1>3. /\ wr_rsp'[w] = Append(wr_rsp[w], owes.ok) /\ Len(wr_rsp[w]) \in Nat
      /\ DOMAIN wr_rsp[w] = 1 .. Len(wr_rsp[w])
      /\ DOMAIN wr_rsp'[w] = 1 .. Len(wr_rsp[w]) + 1
      /\ \A x \in 1 .. Len(wr_rsp[w]) : wr_rsp'[w][x] = wr_rsp[w][x]
      /\ wr_rsp'[w][Len(wr_rsp[w]) + 1] = owes.ok
  BY <1>1, <1>2, AppendFacts
<1>4. ASSUME NEW v \in Ids, v # w PROVE wr_rsp'[v] = wr_rsp[v]
  BY <1>1, <1>2, <1>4
<1>5. ASSUME NEW v \in Ids PROVE Stuck(v)'
  <2>1. Fresh(Write(token[v], seq[v]))' = Fresh(Write(token[v], seq[v]))
    BY <1>1 DEF Fresh, Write
  <2>2. CASE v # w
    BY <1>1, <1>4, <1>5, <2>1, <2>2 DEF Refusals, Stuck, Refused
  <2>3. CASE v = w
    <3>1. Refused(v)' => Refused(v) \/ ~owes.ok
      BY <1>3, <2>3 DEF Refused
    <3>2. Stuck(v)
      BY DEF Refusals
    <3> QED
      BY <1>0, <1>1, <2>1, <2>3, <3>1, <3>2 DEF Stuck
  <2> QED
    BY <2>2, <2>3
<1>6. RefusedFromThenOn'
  <2> SUFFICES ASSUME NEW v \in Writers, NEW x \in DOMAIN wr_rsp'[v],
                      NEW y \in DOMAIN wr_rsp'[v], x < y, ~wr_rsp'[v][x]
               PROVE  ~wr_rsp'[v][y]
    <3>1. Writers' = Writers
      BY DEF StorageReply, Writers
    <3> QED
      BY <3>1 DEF RefusedFromThenOn
  <2>0. v \in Ids
    BY WritersAreIds
  <2>1. CASE v # w
    BY <1>4, <2>0, <2>1 DEF Refusals, RefusedFromThenOn
  <2>2. CASE v = w /\ y \in DOMAIN wr_rsp[w]
    <3>1. x \in DOMAIN wr_rsp[w]
      BY <1>3, <2>2
    <3> QED
      BY <1>3, <2>2, <3>1 DEF Refusals, RefusedFromThenOn
  <2>3. CASE v = w /\ y \notin DOMAIN wr_rsp[w]
    <3>1. x \in DOMAIN wr_rsp[w] /\ y = Len(wr_rsp[w]) + 1
      BY <1>3, <2>3
    <3>2. Refused(w)
      BY <1>3, <2>3, <3>1 DEF Refused
    <3>3. ~owes.ok
      BY <1>0, <3>2 DEF Refusals, Stuck
    <3> QED
      BY <1>3, <2>3, <3>1, <3>3
  <2> QED
    BY <2>1, <2>2, <2>3
<1> QED
  BY <1>5, <1>6 DEF Refusals

LEMMA HandleGrantRefusals ==
    ASSUME TypeOK, Flow, Refusals, NEW w \in Ids, HandleGrant(w)
    PROVE  Refusals'
<1>1. UNCHANGED <<size, wr_rsp, hi_token, hi_seq, have_any, owes>>
  BY DEF HandleGrant, storageVars
<1>2. \A v \in Ids : v # w => token'[v] = token[v] /\ seq'[v] = seq[v]
  <2>1. token \in [Ids -> 0 .. MaxToken] /\ seq \in [Ids -> 0 .. MaxSeq]
    BY DEF TypeOK
  <2>2. \/ UNCHANGED <<token, seq>>
        \/ \E t : token' = [token EXCEPT ![w] = t] /\ seq' = [seq EXCEPT ![w] = 0]
    BY HandleGrantEffect
  <2> QED
    BY <2>1, <2>2
<1>3. ASSUME NEW v \in Ids, v # w PROVE Stuck(v)'
  BY <1>1, <1>2, <1>3, RefusalsUnchanged
<1>4. wr_rsp[w] = <<>> /\ owes.to # w
  <2>1. phase[w] = "AwaitingGrant" /\ token[w] = 0
    BY HandleGrantFlow
  <2> QED
    BY <2>1 DEF Flow, Tokenless, Writing, Counted, Quiet
<1>5. Stuck(w)'
  BY <1>1, <1>4 DEF Stuck, Refused
<1>6. RefusedFromThenOn'
  BY <1>1 DEF Refusals, RefusedFromThenOn, Writers
<1> QED
  BY <1>3, <1>5, <1>6 DEF Refusals

(* An acceptance is answered only to a writer never refused before.        *)
LEMMA AcceptedNeverRefused ==
    ASSUME TypeOK, Refusals, NEW w \in Writers, nAck[w] + 1 = Len(wr_rsp[w]),
           wr_rsp[w][nAck[w] + 1]
    PROVE  ~Refused(w)
<1>1. w \in Ids /\ nAck[w] \in Nat /\ wr_rsp[w] \in Seq(BOOLEAN)
  BY WritersAreIds, WriterTypes
<1>2. DOMAIN wr_rsp[w] = 1 .. nAck[w] + 1
  BY <1>1
<1> SUFFICES ASSUME NEW x \in 1 .. nAck[w] + 1, ~wr_rsp[w][x] PROVE FALSE
  BY <1>2 DEF Refused
<1>3. x < nAck[w] + 1
  BY <1>1
<1> QED
  BY <1>1, <1>2, <1>3 DEF Refusals, RefusedFromThenOn

LEMMA HandleAckRefusals ==
    ASSUME TypeOK, Flow, Refusals, NEW w \in Writers, HandleAck(w)
    PROVE  Refusals'
<1> DEFINE ok == wr_rsp[w][nAck[w] + 1]
<1>0. w \in Ids
  BY WritersAreIds
<1>1. /\ UNCHANGED <<size, wr_rsp, token, hi_token, hi_seq, have_any, owes>>
      /\ seq' = [seq EXCEPT ![w] = NextSeq(w, ok)]
  BY DEF HandleAck, storageVars
<1>2. seq \in [Ids -> 0 .. MaxSeq]
  BY DEF TypeOK
<1>3. ASSUME NEW v \in Ids, v # w PROVE Stuck(v)'
  <2>1. seq'[v] = seq[v]
    BY <1>1, <1>2, <1>3
  <2> QED
    BY <1>1, <2>1, RefusalsUnchanged
<1>4. owes.to # w /\ Len(wr_rsp[w]) = nAck[w] + 1
  BY <1>0, HandleAckFlow
<1>5. Stuck(w)'
  <2>1. CASE ok
    <3>1. ~Refused(w)
      BY <1>4, <2>1, AcceptedNeverRefused
    <3> QED
      BY <1>1, <1>4, <3>1 DEF Stuck, Refused
  <2>2. CASE ~ok
    <3>1. seq'[w] = seq[w]
      BY <1>0, <1>1, <1>2, <2>2 DEF NextSeq
    <3> QED
      BY <1>0, <1>1, <3>1, RefusalsUnchanged
  <2> QED
    BY <2>1, <2>2
<1>6. RefusedFromThenOn'
  BY <1>1 DEF Refusals, RefusedFromThenOn, Writers
<1> QED
  BY <1>3, <1>5, <1>6 DEF Refusals

LEMMA StepRefusals == TypeOK /\ Flow /\ Refusals /\ [Next]_vars => Refusals'
<1> SUFFICES ASSUME TypeOK, Flow, Refusals, [Next]_vars PROVE Refusals'
  OBVIOUS
<1>1. CASE UNCHANGED <<size, hi_token, hi_seq, have_any, owes, wr_rsp, token, seq>>
  BY <1>1, RefusalsUnchanged DEF Refusals, RefusedFromThenOn, Writers
<1>2. CASE \E w \in Writers : Serve(w)
  BY <1>1, <1>2 DEF Serve, storageVars, writerVars
<1>3. CASE \E w \in Writers : StorageRecv(w)
  BY <1>3, StorageRecvRefusals
<1>4. CASE StorageReply
  BY <1>4, StorageReplyRefusals
<1>5. CASE \E w \in Writers : WriterStep(w)
  <2>1. PICK w \in Writers : Tick(w) \/ HandleGrant(w) \/ HandleAck(w)
    BY <1>5 DEF WriterStep
  <2>2. Tick(w) => UNCHANGED <<size, hi_token, hi_seq, have_any, owes, wr_rsp, token, seq>>
    BY DEF Tick, storageVars
  <2> QED
    BY <1>1, <2>1, <2>2, HandleGrantRefusals, HandleAckRefusals, WritersAreIds
<1>6. CASE UNCHANGED vars
  BY <1>1, <1>6 DEF vars, storageVars, writerVars
<1> QED
  BY <1>2, <1>3, <1>4, <1>5, <1>6 DEF Next, ServerStep, StorageStep

LEMMA InitRefusals == Init => Refusals
<1> SUFFICES ASSUME Init PROVE Refusals
  OBVIOUS
<1>1. \A w \in Ids : wr_rsp[w] = <<>> /\ owes.to # w
  BY LeaseAssumption DEF Init, All, Nobody, Ids
<1>2. Writers \subseteq Ids
  BY InitType, WritersAreIds
<1> QED
  BY <1>1, <1>2 DEF Refusals, RefusedFromThenOn, Stuck, Refused

(* A writer once refused is refused from then on, because its next write   *)
(* is the one refused and the mark has passed it for good.                 *)
THEOREM RefusedFromThenOnHolds == Spec => []RefusedFromThenOn
<1>1. Init => Flow /\ Refusals
  BY InitFlow, InitRefusals
<1>2. TypeOK /\ Flow /\ Refusals /\ [Next]_vars => Flow' /\ Refusals'
  BY StepFlow, StepRefusals
<1>3. Refusals => RefusedFromThenOn
  BY DEF Refusals
<1> QED
  BY <1>1, <1>2, <1>3, TypeCorrect, PTL DEF Spec

-----------------------------------------------------------------------------
(* What a writer knows of the journal.                                     *)

Knowledge == NoGaps /\ \A w \in Ids : Knows(w)

(* Nothing is journalled under a writer's token but what it has sent.      *)
LEMMA LogOwner ==
    ASSUME TypeOK, Holders, NEW w \in Ids, NEW m \in Log, m.tok \in Granted(w)
    PROVE  m \in Range(wr_req[w])
<1>1. PICK v \in Writers : m \in Range(wr_req[v])
  BY DEF Holders
<1>2. v \in Ids /\ m.tok \in Granted(v)
  BY <1>1, WritersAreIds DEF Holders
<1> QED
  BY <1>1, <1>2 DEF Holders

(* A writer's knowledge is not touched by what is journalled under other   *)
(* tokens.                                                                 *)
LEMMA KnowsElsewhere ==
    ASSUME Knowledge, NEW v \in Ids,
           token'[v] = token[v], seq'[v] = seq[v], last_ok'[v] = last_ok[v],
           Accepted(v)' <=> Accepted(v), Log \subseteq Log',
           token[v] # 0 => \A m \in Log' : m \in Log \/ m.tok # token[v]
    PROVE  Knows(v)'
  BY DEF Knowledge, Knows, Write

LEMMA AcceptedUnchanged ==
    ASSUME NEW v \in Ids, owes' = owes, nAck'[v] = nAck[v], wr_rsp'[v] = wr_rsp[v]
    PROVE  Accepted(v)' <=> Accepted(v)
  BY DEF Accepted

(* Steps that neither journal nor answer change nobody's knowledge.        *)
LEMMA KnowledgeUnchanged ==
    ASSUME Knowledge, UNCHANGED <<journal, owes, nAck, wr_rsp, token, seq, last_ok>>
    PROVE  Knowledge'
<1>1. Log' = Log
  BY DEF Log
<1>2. ASSUME NEW v \in Ids PROVE Knows(v)'
  BY <1>1, KnowsElsewhere, AcceptedUnchanged
<1>3. NoGaps'
  BY DEF Knowledge, NoGaps
<1> QED
  BY <1>2, <1>3 DEF Knowledge

LEMMA HandleGrantKnowledge ==
    ASSUME TypeOK, Flow, Holders, Knowledge, NEW w \in Ids, HandleGrant(w)
    PROVE  Knowledge'
<1>1. UNCHANGED <<journal, owes, nAck, wr_rsp, last_ok>>
  BY DEF HandleGrant, storageVars
<1>2. /\ phase[w] = "AwaitingGrant" /\ token[w] = 0
      /\ wr_req[w] = <<>> /\ ~last_ok[w] /\ Quiet(w)
  BY HandleGrantFlow DEF Flow, Tokenless, Writing, Counted
<1>3. CASE UNCHANGED <<token, seq>>
  BY <1>1, <1>3, KnowledgeUnchanged
<1>4. ASSUME NEW t \in Granted(w), t \in 1 .. MaxToken,
             token' = [token EXCEPT ![w] = t], seq' = [seq EXCEPT ![w] = 0]
      PROVE  Knowledge'
  <2>1. token \in [Ids -> 0 .. MaxToken] /\ seq \in [Ids -> 0 .. MaxSeq]
    BY DEF TypeOK
  <2>2. Log' = Log
    BY <1>1 DEF Log
  <2>3. ASSUME NEW v \in Ids, v # w PROVE Knows(v)'
    <3>1. token'[v] = token[v] /\ seq'[v] = seq[v]
      BY <1>4, <2>1, <2>3
    <3> QED
      BY <1>1, <2>2, <3>1, KnowsElsewhere, AcceptedUnchanged
  <2>4. Knows(w)'
    <3>1. token'[w] = t /\ seq'[w] = 0
      BY <1>4, <2>1
    <3>2. ~Accepted(w)'
      <4>1. nAck[w] \in Nat /\ Len(wr_rsp[w]) \in Nat
        BY WriterTypes
      <4> QED
        BY <1>1, <1>2, <4>1 DEF Accepted, Quiet
    <3>3. \A m \in Log : m.tok # t
      <4> SUFFICES ASSUME NEW m \in Log, m.tok = t PROVE FALSE
        OBVIOUS
      <4>1. m \in Range(wr_req[w])
        BY <1>4, LogOwner
      <4> QED
        BY <1>2, <4>1 DEF Range
    <3> QED
      BY <1>1, <1>2, <2>2, <3>1, <3>2, <3>3 DEF Knows
  <2>5. NoGaps'
    BY <1>1 DEF Knowledge, NoGaps
  <2> QED
    BY <2>3, <2>4, <2>5 DEF Knowledge
<1> QED
  BY <1>3, <1>4, HandleGrantEffect

LEMMA HandleAckKnowledge ==
    ASSUME TypeOK, Flow, Knowledge, NEW w \in Ids, HandleAck(w)
    PROVE  Knowledge'
<1> DEFINE ok == wr_rsp[w][nAck[w] + 1]
<1>1. /\ UNCHANGED <<journal, owes, wr_rsp, token>>
      /\ nAck' = [nAck EXCEPT ![w] = @ + 1]
      /\ seq' = [seq EXCEPT ![w] = NextSeq(w, ok)]
      /\ last_ok' = [last_ok EXCEPT ![w] = ok]
  BY DEF HandleAck, storageVars
<1>2. /\ nAck \in [Ids -> Nat] /\ seq \in [Ids -> 0 .. MaxSeq] /\ last_ok \in [Ids -> BOOLEAN]
  BY DEF TypeOK
<1>3. token[w] # 0 /\ owes.to # w /\ Len(wr_rsp[w]) = nAck[w] + 1 /\ seq[w] < MaxSeq
  BY HandleAckFlow
<1>4. Log' = Log
  BY <1>1 DEF Log
<1>5. ASSUME NEW v \in Ids, v # w PROVE Knows(v)'
  <2>1. nAck'[v] = nAck[v] /\ seq'[v] = seq[v] /\ last_ok'[v] = last_ok[v]
    BY <1>1, <1>2, <1>5
  <2> QED
    BY <1>1, <1>4, <2>1, KnowsElsewhere, AcceptedUnchanged
<1>6. nAck[w] \in Nat /\ seq[w] \in Nat /\ nAck'[w] = nAck[w] + 1 /\ last_ok'[w] = ok
  BY <1>1, <1>2, LeaseAssumption
<1>7. ~Accepted(w)' /\ (Accepted(w) <=> ok)
  BY <1>1, <1>3, <1>6 DEF Accepted
<1>8. Knows(w)'
  <2>1. CASE ok
    <3>1. seq'[w] = seq[w] + 1
      BY <1>1, <1>2, <1>3, <2>1 DEF NextSeq
    <3>2. /\ \A q \in 0 .. seq[w] - 1 : Write(token[w], q) \in Log
          /\ Write(token[w], seq[w]) \in Log
          /\ \A m \in Log : m.tok = token[w] => m.seq < seq[w] \/ m.seq = seq[w]
      BY <1>3, <1>7, <2>1 DEF Knowledge, Knows
    <3>3. \A q \in 0 .. seq'[w] - 1 : Write(token[w], q) \in Log
      BY <1>6, <3>1, <3>2
    <3>4. \A m \in Log : m.tok = token[w] => m.seq < seq'[w]
      <4>1. journal \in Seq(Writes)
        BY DEF TypeOK
      <4>2. \A m \in Log : m \in Writes
        BY <4>1 DEF Log, Range
      <4>3. \A m \in Log : m.seq \in Nat
        BY <4>2 DEF Writes
      <4> QED
        BY <1>6, <3>1, <3>2, <4>3
    <3> QED
      BY <1>1, <1>4, <1>6, <1>7, <3>1, <3>3, <3>4 DEF Knows, Write
  <2>2. CASE ~ok
    <3>1. seq'[w] = seq[w]
      BY <1>1, <1>2, <2>2 DEF NextSeq
    <3> QED
      BY <1>1, <1>4, <1>6, <1>7, <2>2, <3>1 DEF Knowledge, Knows, Write
  <2> QED
    BY <2>1, <2>2
<1>9. NoGaps'
  BY <1>1 DEF Knowledge, NoGaps
<1> QED
  BY <1>5, <1>8, <1>9 DEF Knowledge

LEMMA StorageReplyKnowledge ==
    ASSUME TypeOK, Flow, Knowledge, StorageReply
    PROVE  Knowledge'
<1>0. PICK w \in Ids : w = owes.to
  BY StorageReplyEffect
<1>1. /\ owes.ok \in BOOLEAN /\ owes'.to \notin Ids
      /\ wr_rsp' = [wr_rsp EXCEPT ![w] = Append(@, owes.ok)]
      /\ UNCHANGED <<journal, nAck, token, seq, last_ok>>
  BY <1>0, StorageReplyEffect
<1>2. wr_rsp \in [Ids -> Seq(BOOLEAN)] /\ wr_rsp[w] \in Seq(BOOLEAN)
  BY DEF TypeOK
<1>3. /\ wr_rsp'[w] = Append(wr_rsp[w], owes.ok) /\ Len(wr_rsp[w]) \in Nat
      /\ Len(wr_rsp'[w]) = Len(wr_rsp[w]) + 1
      /\ wr_rsp'[w][Len(wr_rsp[w]) + 1] = owes.ok
  BY <1>1, <1>2, AppendFacts
<1>4. nAck[w] = Len(wr_rsp[w])
  BY <1>0 DEF Flow, Writing, Counted, Quiet, InQueue, InHand, Replied
<1>5. ASSUME NEW v \in Ids PROVE Accepted(v)' <=> Accepted(v)
  <2>1. CASE v # w
    <3>1. wr_rsp'[v] = wr_rsp[v]
      BY <1>1, <1>2, <2>1
    <3> QED
      BY <1>0, <1>1, <2>1, <3>1 DEF Accepted
  <2>2. CASE v = w
    BY <1>0, <1>1, <1>3, <1>4, <2>2 DEF Accepted
  <2> QED
    BY <2>1, <2>2
<1>6. Log' = Log
  BY <1>1 DEF Log
<1>7. ASSUME NEW v \in Ids PROVE Knows(v)'
  BY <1>1, <1>5, <1>6, KnowsElsewhere
<1>8. NoGaps'
  BY <1>1 DEF Knowledge, NoGaps
<1> QED
  BY <1>7, <1>8 DEF Knowledge

LEMMA StorageRecvKnowledge ==
    ASSUME TypeOK, Flow, Holders, Knowledge, NEW w \in Writers, StorageRecv(w)
    PROVE  Knowledge'
<1> DEFINE m == Write(token[w], seq[w])
<1>0. w \in Ids
  BY WritersAreIds
<1>1. /\ UNCHANGED <<wr_rsp, nAck, token, seq, last_ok>> /\ owes.to = Nobody
      /\ nReq[w] < Len(wr_req[w])
      /\ owes' = [to |-> w, ok |-> Fresh(wr_req[w][nReq[w] + 1])]
  BY DEF StorageRecv, writerVars
<1>2. /\ wr_req[w][nReq[w] + 1] = m /\ token[w] # 0 /\ InQueue(w)
  BY <1>0, <1>1, ReceivedIsCurrent
<1>3. /\ owes'.to = w /\ owes'.ok = Fresh(m)
      /\ \/ Fresh(m) /\ Log' = Log \cup {m}
         \/ ~Fresh(m) /\ Log' = Log
  BY <1>1, <1>2, StorageRecvEffect
<1>4. owes.to \notin Ids
  BY <1>1, WritersAreIds
<1>5. ASSUME NEW v \in Ids, v # w PROVE Knows(v)'
  <2>1. Accepted(v)' <=> Accepted(v)
    BY <1>1, <1>3, <1>4, <1>5 DEF Accepted
  <2>2. token[v] # 0 => token[v] # m.tok
    BY <1>0, <1>2, <1>5 DEF Holders, Write
  <2>3. \A e \in Log' : e \in Log \/ e = m
    BY <1>3
  <2> QED
    BY <1>1, <1>3, <2>1, <2>2, <2>3, KnowsElsewhere
<1>6. ~Accepted(w)
  <2>1. nAck[w] = Len(wr_rsp[w]) /\ nAck[w] \in Nat
    BY <1>0, <1>2, WriterTypes DEF InQueue
  <2> QED
    BY <1>0, <1>4, <2>1 DEF Accepted
<1>7. Accepted(w)' <=> Fresh(m)
  <2>1. nAck[w] = Len(wr_rsp[w]) /\ nAck[w] \in Nat
    BY <1>0, <1>2, WriterTypes DEF InQueue
  <2> QED
    BY <1>1, <1>3, <2>1 DEF Accepted
<1>8. /\ \A q \in 0 .. seq[w] - 1 : Write(token[w], q) \in Log
      /\ \A e \in Log : e.tok = token[w] => e.seq < seq[w]
      /\ last_ok[w] => seq[w] > 0
  BY <1>0, <1>2, <1>6 DEF Knowledge, Knows
<1>9. m.tok = token[w] /\ m.seq = seq[w] /\ seq[w] \in Nat
  BY <1>0, WriterTypes, LeaseAssumption DEF Write
<1>10. Knows(w)'
  <2>1. /\ m \in Log' <=> (m \in Log \/ Fresh(m))
        /\ Log \subseteq Log'
        /\ \A e \in Log' : e \in Log \/ (e = m /\ Fresh(m))
    BY <1>3
  <2> HIDE DEF m
  <2>2. Write(token[w], seq[w]) = m
    BY DEF m
  <2> QED
    BY <1>1, <1>7, <1>8, <1>9, <2>1, <2>2 DEF Knows, Write
<1>11. NoGaps'
  <2>1. CASE Log' = Log
    BY <2>1 DEF Knowledge, NoGaps, Log
  <2>2. CASE Log' = Log \cup {m}
    <3> SUFFICES ASSUME NEW e \in Log', NEW q \in 0 .. e.seq
                 PROVE  Write(e.tok, q) \in Log'
      BY DEF NoGaps, Log, Write
    <3>1. CASE e \in Log
      BY <2>2, <3>1 DEF Knowledge, NoGaps, Log
    <3>2. CASE e = m /\ q = seq[w]
      BY <1>9, <2>2, <3>2
    <3>3. CASE e = m /\ q # seq[w]
      <4>1. q \in 0 .. seq[w] - 1
        BY <1>9, <3>3
      <4> QED
        BY <1>8, <1>9, <2>2, <3>3, <4>1
    <3> QED
      BY <2>2, <3>1, <3>2, <3>3
  <2> QED
    BY <1>3, <2>1, <2>2
<1> QED
  BY <1>5, <1>10, <1>11 DEF Knowledge

LEMMA StepKnowledge == TypeOK /\ Flow /\ Holders /\ Knowledge /\ [Next]_vars => Knowledge'
<1> SUFFICES ASSUME TypeOK, Flow, Holders, Knowledge, [Next]_vars PROVE Knowledge'
  OBVIOUS
<1>1. CASE UNCHANGED <<journal, owes, nAck, wr_rsp, token, seq, last_ok>>
  BY <1>1, KnowledgeUnchanged
<1>2. CASE \E w \in Writers : Serve(w)
  BY <1>1, <1>2 DEF Serve, storageVars, writerVars
<1>3. CASE \E w \in Writers : StorageRecv(w)
  BY <1>3, StorageRecvKnowledge
<1>4. CASE StorageReply
  BY <1>4, StorageReplyKnowledge
<1>5. CASE \E w \in Writers : WriterStep(w)
  <2>1. PICK w \in Ids : Tick(w) \/ HandleGrant(w) \/ HandleAck(w)
    BY <1>5, WritersAreIds DEF WriterStep
  <2>2. Tick(w) => UNCHANGED <<journal, owes, nAck, wr_rsp, token, seq, last_ok>>
    BY DEF Tick, storageVars
  <2> QED
    BY <1>1, <2>1, <2>2, HandleGrantKnowledge, HandleAckKnowledge
<1>6. CASE UNCHANGED vars
  BY <1>1, <1>6 DEF vars, storageVars, writerVars
<1> QED
  BY <1>2, <1>3, <1>4, <1>5, <1>6 DEF Next, ServerStep, StorageStep

LEMMA InitKnowledge == Init => Knowledge
<1> SUFFICES ASSUME Init PROVE Knowledge
  OBVIOUS
<1>1. journal = <<>> /\ \A w \in Ids : token[w] = 0
  BY DEF Init, All
<1>2. Log = {} /\ Range(journal) = {}
  BY <1>1 DEF Log, Range
<1> QED
  BY <1>1, <1>2 DEF Knowledge, NoGaps, Knows

(* The rest of it: one message under way per writer, and what each writer  *)
(* knows of the journal.                                                   *)
THEOREM KnowledgeHolds == Spec => [](TypeOK /\ Flow /\ Knowledge)
<1>1. Init => Flow /\ Knowledge
  BY InitFlow, InitKnowledge
<1>2. TypeOK /\ Holders /\ Flow /\ Knowledge /\ [Next]_vars => Flow' /\ Knowledge'
  BY StepFlow, StepKnowledge
<1> QED
  BY <1>1, <1>2, TypeCorrect, HoldersHold, PTL DEF Spec

(* Under each token the journal holds the writes from 0 on without a hole: *)
(* a superseded holder leaves a prefix of what it meant to write.          *)
THEOREM NoGapsHolds == Spec => []NoGaps
<1>1. Knowledge => NoGaps
  BY DEF Knowledge
<1> QED
  BY <1>1, KnowledgeHolds, PTL

(* A writer's counter tells exactly what it has in the journal, although   *)
(* it never sees the journal.                                              *)
THEOREM WriterKnowsHolds == Spec => []WriterKnows
<1>1. TypeOK /\ Flow /\ Knowledge => WriterKnows
  <2> SUFFICES ASSUME TypeOK, Flow, Knowledge, NEW w \in Writers, token[w] # 0
               PROVE  LET mine == {m \in Range(journal) : m.tok = token[w]}
                      IN /\ \A q \in 0 .. seq[w] - 1 : Write(token[w], q) \in mine
                         /\ \A m \in mine : \/ m.seq < seq[w]
                                            \/ m.seq = seq[w] /\ phase[w] = "AwaitingAck"
                         /\ last_ok[w] => seq[w] > 0
    BY DEF WriterKnows
  <2>1. w \in Ids
    BY WritersAreIds
  <2>2. Accepted(w) => phase[w] = "AwaitingAck"
    <3>1. Counted(w) /\ nAck[w] \in Nat /\ Len(wr_rsp[w]) \in Nat
      BY <2>1, WriterTypes DEF Flow, Writing
    <3> QED
      BY <3>1 DEF Counted, Quiet, Accepted
  <2>3. Knows(w)
    BY <2>1 DEF Knowledge
  <2>4. \A q \in 0 .. seq[w] - 1 : Write(token[w], q).tok = token[w]
    BY DEF Write
  <2> QED
    BY <2>2, <2>3, <2>4 DEF Knows, Log
<1> QED
  BY <1>1, KnowledgeHolds, PTL

-----------------------------------------------------------------------------
(* A deployment, driven for any number of turns, is a lease lock: all of   *)
(* the above holds of it.                                                  *)
THEOREM DeploymentIsLeaseLock == SysSpec => Spec
<1>1. SysInit => Init
  BY DEF SysInit
<1>2. [SysNext]_sysVars => [Next]_vars
  BY DEF SysNext, sysVars, RunServer, RunStorage, RunWriter, Next, ServerStep, StorageStep
<1> QED
  BY <1>1, <1>2, PTL DEF Spec, SysSpec

-----------------------------------------------------------------------------
(* deploy_lease: one writer, and counts that match.  The invariant follows *)
(* the one writer through its turns.                                       *)

Acquires == Turns[1].server
Stores   == Turns[1].storage

(* The writer acquires once and writes in every further turn.              *)
CountsMatch ==
    /\ Acquires = 1 /\ Stores >= 1 /\ Turns[1].writer = Stores + 1
    /\ MaxToken >= 1 /\ Stores <= MaxSeq

(* Before the grant: the server has answered the one request, or has it    *)
(* still to answer and is free to.                                         *)
Beginning ==
    /\ driven[0] = 0 /\ nRsp[0] = 0 /\ nReq[0] = 0 /\ ~have_any
    /\ served = 0 => Len(acq_rsp[0]) = 0 /\ ~held /\ hi = 0
    /\ served # 0 => Len(acq_rsp[0]) = 1 /\ acq_rsp[0][1] # Denied
    /\ phase[0] = "Idle" => served = 0

(* After it: the writes 0, 1, ... under one token, each above the mark.    *)
Proceeding ==
    /\ driven[0] >= 1 /\ seq[0] + 1 = driven[0] /\ served = 1
    /\ phase[0] = "Holding" => nReq[0] + 1 = driven[0]
    /\ phase[0] = "AwaitingAck" =>
         /\ driven[0] <= Stores
         /\ nReq[0] + 1 = driven[0] \/ nReq[0] = driven[0]
         /\ nReq[0] = driven[0] <=> nReq[0] = Len(wr_req[0])
    /\ have_any => /\ hi_token = token[0]
                   /\ hi_seq < seq[0] \/ (hi_seq = seq[0] /\ nReq[0] = driven[0])
    /\ driven[0] >= 2 => last_ok[0]

Solo ==
    size = 1 =>
      /\ served \in 0 .. 1 /\ stored = nReq[0]
      /\ driven \in [Ids -> Nat] /\ driven[0] <= Stores + 1
      /\ turn = 0 /\ owes.to \in {0, Nobody} /\ (owes.to = 0 => owes.ok)
      /\ \A i \in 1 .. Len(wr_rsp[0]) : wr_rsp[0][i]
      /\ wpc[0] = "tick" <=> phase[0] \in {"Idle", "Holding"}
      /\ IF phase[0] \in {"Idle", "AwaitingGrant"} THEN Beginning ELSE Proceeding

(* The guards of the three services, as RunServer, RunStorage and          *)
(* RunWriter have them.                                                    *)
ServerMay == served < Turns[size].server /\ \E w \in Writers : acq_req[w] > 0

StorageMay ==
    \/ /\ stored < Turns[size].storage /\ owes.to = Nobody
       /\ \E w \in Writers : w = turn /\ nReq[w] < Len(wr_req[w])
    \/ owes.to # Nobody

WriterMay(w) ==
    /\ driven[w] < Turns[size].writer
    /\ \/ wpc[w] = "tick"
       \/ wpc[w] = "recv" /\ (nRsp[w] < Len(acq_rsp[w]) \/ nAck[w] < Len(wr_rsp[w]))

ServiceMay == ServerMay \/ StorageMay \/ \E w \in Writers : WriterMay(w)

LeaseRuns == size = 1 => ServiceMay \/ Finished
LeaseAccepts == size = 1 /\ Finished => Drained /\ last_ok[0]

(* No service gets a message after its last turn.                          *)
NoSendToDone ==
    [][size = 1 => /\ served = Turns[1].server => acq_req'[0] <= acq_req[0]
                   /\ stored = Turns[1].storage => wr_req' = wr_req
                   /\ driven[0] = Turns[1].writer => UNCHANGED <<acq_rsp, wr_rsp>>]_sysVars

LEMMA OneWriter ==
    ASSUME TypeOK, size = 1
    PROVE  Writers = {0} /\ 0 \in Ids /\ Nobody # 0 /\ Nobody \notin Ids
  BY WritersAreIds, LeaseAssumption DEF Writers, Nobody

LEMMA TurnsTyped ==
    ASSUME CountsMatch
    PROVE  /\ Acquires = 1 /\ Stores \in Nat /\ Stores >= 1 /\ Stores <= MaxSeq
           /\ MaxSeq \in Nat /\ MaxToken \in Nat /\ MaxToken >= 1
           /\ Turns[1].server = 1 /\ Turns[1].storage = Stores /\ Turns[1].writer = Stores + 1
  BY TurnsAssumption, LeaseAssumption DEF CountsMatch, Acquires, Stores

LEMMA SoloInit == SysInit => Solo
<1> SUFFICES ASSUME SysInit, size = 1 PROVE Solo
  BY DEF Solo
<1>1. TypeOK BY InitType DEF SysInit
<1>2. 0 \in Ids BY <1>1, OneWriter
<1>3. Stores \in Nat BY TurnsAssumption, LeaseAssumption DEF Stores
<1>4. /\ served = 0 /\ stored = 0 /\ turn = 0 /\ owes = [to |-> Nobody, ok |-> FALSE]
      /\ ~held /\ hi = 0 /\ ~have_any /\ driven = [w \in Ids |-> 0]
  BY DEF SysInit, Init, All
<1>5. /\ driven[0] = 0 /\ nRsp[0] = 0 /\ nReq[0] = 0
      /\ phase[0] = "Idle" /\ wpc[0] = "tick"
  BY <1>2 DEF SysInit, Init, All
<1>6. acq_rsp[0] = <<>> /\ wr_rsp[0] = <<>>
  BY <1>2 DEF SysInit, Init, All
<1>7. Len(acq_rsp[0]) = 0 /\ Len(wr_rsp[0]) = 0
  BY <1>6
<1>8. Nobody # 0
  BY <1>1, OneWriter
<1>9. Beginning
  BY <1>4, <1>5, <1>7 DEF Beginning
<1>10. driven \in [Ids -> Nat]
  BY <1>4
<1> QED
  BY <1>3, <1>4, <1>5, <1>7, <1>8, <1>9, <1>10 DEF Solo

LEMMA ServeSolo ==
    ASSUME CountsMatch, TypeOK, Flow, Solo, size = 1, RunServer
    PROVE  Solo'
<1>1. 0 \in Ids /\ Serve(0) /\ served < 1 /\ served' = served + 1 /\ UNCHANGED <<stored, driven>>
  BY OneWriter, TurnsTyped DEF RunServer, ServerStep
<1>2. phase[0] = "AwaitingGrant"
  BY <1>1, WriterTypes DEF Serve, Flow, Asking
<1>3. Beginning /\ served = 0 /\ ~held /\ hi = 0 /\ Len(acq_rsp[0]) = 0
  BY <1>1, <1>2 DEF Solo, Beginning
<1>4. acq_rsp' = [acq_rsp EXCEPT ![0] = Append(@, 1)]
  BY <1>1, <1>3, TurnsTyped DEF Serve, MayGrant, NextToken
<1>5. Len(acq_rsp'[0]) = 1 /\ acq_rsp'[0][1] # Denied
  <2>1. PICK r : r = acq_rsp[0] OBVIOUS
  <2>2. r \in Seq(0 .. MaxToken) /\ 1 \in 0 .. MaxToken /\ Len(r) = 0
    BY <1>1, <1>3, <2>1, WriterTypes, TurnsTyped
  <2>3. acq_rsp'[0] = Append(r, 1) BY <1>1, <1>4, <2>1 DEF TypeOK
  <2>4. Len(Append(r, 1)) = 1 /\ Append(r, 1)[1] = 1 BY <2>2
  <2> QED BY <2>3, <2>4 DEF Denied
<1>6. UNCHANGED <<size, nRsp, wr_req, nReq, wr_rsp, nAck, have_any, turn, owes, token, seq,
                  phase, last_ok, wpc>>
  BY <1>1 DEF Serve, storageVars, writerVars
<1> QED
  BY <1>1, <1>2, <1>3, <1>5, <1>6 DEF Solo, Beginning, Nobody

LEMMA StorageRecvSolo ==
    ASSUME CountsMatch, TypeOK, Flow, Solo, size = 1, NEW w \in Writers, StorageRecv(w),
           stored' = stored + 1, UNCHANGED <<served, driven>>
    PROVE  Solo'
<1>1. w = 0 /\ 0 \in Ids BY OneWriter
<1>2. /\ nReq[0] < Len(wr_req[0]) /\ nReq[0] \in Nat /\ wr_req[0] \in Seq(Writes)
      /\ Len(wr_req[0]) \in Nat /\ seq[0] \in Nat
  BY <1>1, WriterTypes, LeaseAssumption DEF StorageRecv
<1>3. phase[0] = "AwaitingAck" /\ InQueue(0)
  BY <1>1, <1>2 DEF Flow, Writing, Counted, Quiet, InHand, Replied
<1>4. wr_req[0][nReq[0] + 1] = Write(token[0], seq[0])
  BY <1>1, <1>3 DEF Flow, Writing, LastSent, InQueue
<1>5. Proceeding /\ nReq[0] + 1 = driven[0] /\ nReq[0] + 1 = Len(wr_req[0])
  BY <1>2, <1>3 DEF Solo, Proceeding, InQueue
<1>6. Fresh(Write(token[0], seq[0]))
  BY <1>2, <1>5 DEF Proceeding, Fresh, Write
<1>7. /\ nReq' = [nReq EXCEPT ![0] = nReq[0] + 1] /\ turn' = 0
      /\ owes' = [to |-> 0, ok |-> TRUE]
      /\ hi_token' = token[0] /\ hi_seq' = seq[0] /\ have_any' = TRUE
      /\ UNCHANGED <<size, acq_req, acq_rsp, nRsp, wr_req, wr_rsp, nAck, token, seq, phase,
                     last_ok, wpc>>
  <2>1. PICK m : m = Write(token[0], seq[0])
    OBVIOUS
  <2>2. wr_req[0][nReq[0] + 1] = m /\ Fresh(m)
    BY <1>4, <1>6, <2>1
  <2>3. m.tok = token[0] /\ m.seq = seq[0]
    BY <2>1 DEF Write
  <2>4. /\ nReq' = [nReq EXCEPT ![0] = nReq[0] + 1] /\ turn' = NextTurn(0)
        /\ UNCHANGED <<size, acq_req, acq_rsp, nRsp, wr_req, wr_rsp, nAck, token, seq, phase,
                       last_ok, wpc>>
    BY <1>1 DEF StorageRecv, writerVars
  <2>5. owes' = [to |-> 0, ok |-> Fresh(m)]
    BY <1>1, <2>2 DEF StorageRecv
  <2>6. hi_token' = m.tok /\ hi_seq' = m.seq /\ have_any' = TRUE
    BY <1>1, <2>2 DEF StorageRecv
  <2>7. Fresh(m) = TRUE
    BY <2>2 DEF Fresh
  <2>8. NextTurn(0) = 0
    BY DEF NextTurn
  <2> QED
    BY <2>3, <2>4, <2>5, <2>6, <2>7, <2>8
<1>8. nReq'[0] = nReq[0] + 1 BY <1>1, <1>7 DEF TypeOK
<1>9. Proceeding'
  BY <1>2, <1>3, <1>5, <1>7, <1>8 DEF Proceeding
<1> QED
  BY <1>3, <1>7, <1>8, <1>9 DEF Solo, Nobody

LEMMA StorageReplySolo ==
    ASSUME CountsMatch, TypeOK, Flow, Solo, size = 1, StorageReply,
           UNCHANGED <<stored, served, driven>>
    PROVE  Solo'
<1>1. owes.to = 0 /\ owes.ok /\ 0 \in Ids BY OneWriter DEF StorageReply, Solo
<1>2. /\ owes' = [to |-> Nobody, ok |-> FALSE]
      /\ wr_rsp' = [wr_rsp EXCEPT ![0] = Append(wr_rsp[0], owes.ok)]
      /\ UNCHANGED <<size, acq_rsp, nRsp, wr_req, nReq, hi_token, hi_seq, have_any, turn,
                     held, hi, token, seq, phase, last_ok, wpc>>
  BY <1>1 DEF StorageReply, serverVars, writerVars
<1>3. \A i \in 1 .. Len(wr_rsp'[0]) : wr_rsp'[0][i]
  <2>1. PICK r : r = wr_rsp[0] OBVIOUS
  <2>2. r \in Seq(BOOLEAN) /\ \A i \in 1 .. Len(r) : r[i]
    BY <1>1, <2>1, WriterTypes DEF Solo
  <2>3. wr_rsp'[0] = Append(r, owes.ok) /\ owes.ok \in BOOLEAN
    BY <1>1, <1>2, <2>1 DEF TypeOK
  <2>4. ASSUME NEW i \in 1 .. Len(r) + 1 PROVE Append(r, owes.ok)[i]
    <3>1. CASE i = Len(r) + 1 BY <1>1, <2>2, <2>3, <3>1, AppendFacts
    <3>2. CASE i # Len(r) + 1
      <4>1. i \in 1 .. Len(r) BY <2>2, <2>4, <3>2
      <4> QED BY <2>2, <2>3, <4>1, AppendFacts
    <3> QED BY <3>1, <3>2
  <2> QED BY <2>2, <2>3, <2>4, AppendFacts
<1>4. Nobody # 0 BY OneWriter
<1> QED
  BY <1>2, <1>3, <1>4 DEF Solo, Beginning, Proceeding, Nobody

LEMMA TickSolo ==
    ASSUME CountsMatch, TypeOK, Flow, Solo, size = 1, Tick(0), driven[0] < Stores + 1,
           UNCHANGED <<stored, served, driven>>
    PROVE  Solo'
<1>1. /\ 0 \in Ids /\ nReq[0] \in Nat /\ wr_req[0] \in Seq(Writes) /\ Len(wr_req[0]) \in Nat
      /\ seq[0] \in Nat
  BY OneWriter, WriterTypes, LeaseAssumption
<1>2. /\ wpc[0] = "tick" /\ wpc'[0] = "recv"
      /\ UNCHANGED <<size, acq_rsp, nRsp, nReq, wr_rsp, nAck, held, hi, hi_token, hi_seq,
                     have_any, turn, owes, token, seq, last_ok>>
  BY <1>1 DEF Tick, TypeOK, serverVars, storageVars
<1>3. CASE phase[0] = "Idle"
  <2>1. phase'[0] = "AwaitingGrant" /\ wr_req' = wr_req
    BY <1>1, <1>3, TickEffect DEF TypeOK, Tick
  <2> QED
    BY <1>2, <1>3, <2>1 DEF Solo, Beginning, Nobody
<1>4. CASE phase[0] = "Holding"
  <2>1. Proceeding /\ nReq[0] + 1 = driven[0] /\ driven[0] \in Nat
    BY <1>1, <1>4 DEF Solo, Proceeding
  <2>2. MayWrite(0)
    <3>1. token[0] # 0 BY <1>1, <1>4 DEF Flow, Tokenless
    <3>2. seq[0] < MaxSeq BY <1>1, <2>1, TurnsTyped DEF Proceeding
    <3> QED BY <3>1, <3>2 DEF MayWrite
  <2>3. /\ phase' = [phase EXCEPT ![0] = "AwaitingAck"]
        /\ wr_req' = [wr_req EXCEPT ![0] = Append(wr_req[0], Write(token[0], seq[0]))]
    BY <1>4, <2>2 DEF Tick
  <2>4. phase'[0] = "AwaitingAck" /\ Len(wr_req'[0]) = Len(wr_req[0]) + 1
    <3>1. wr_req'[0] = Append(wr_req[0], Write(token[0], seq[0])) /\ phase'[0] = "AwaitingAck"
      BY <1>1, <2>3 DEF TypeOK
    <3> QED BY <1>1, <3>1
  <2>5. Len(wr_req[0]) = nReq[0]
    BY <1>1, <1>4 DEF Flow, Writing, Counted, Quiet
  <2>6. Proceeding'
    BY <1>1, <1>2, <2>1, <2>4, <2>5, TurnsTyped DEF Proceeding
  <2> QED
    BY <1>2, <2>4, <2>6 DEF Solo, Nobody
<1> QED
  BY <1>2, <1>3, <1>4 DEF Solo

LEMMA GrantSolo ==
    ASSUME CountsMatch, TypeOK, Flow, Solo, size = 1, HandleGrant(0),
           driven[0] < Stores + 1, driven' = [driven EXCEPT ![0] = @ + 1],
           UNCHANGED <<stored, served>>
    PROVE  Solo'
<1>1. /\ 0 \in Ids /\ nRsp[0] \in Nat /\ acq_rsp[0] \in Seq(0 .. MaxToken)
      /\ Len(acq_rsp[0]) \in Nat /\ nRsp[0] < Len(acq_rsp[0])
  BY OneWriter, WriterTypes DEF HandleGrant
<1>2. phase[0] = "AwaitingGrant" /\ Beginning
  BY <1>1 DEF Flow, Asking, Solo
<1>3. served = 1 /\ acq_rsp[0][1] # Denied /\ nRsp[0] = 0 /\ driven[0] = 0 /\ nReq[0] = 0
  BY <1>1, <1>2 DEF Solo, Beginning
<1>4. /\ seq' = [seq EXCEPT ![0] = 0] /\ phase' = [phase EXCEPT ![0] = "Holding"]
      /\ wpc' = [wpc EXCEPT ![0] = "tick"]
      /\ UNCHANGED <<size, acq_rsp, wr_req, nReq, wr_rsp, nAck, have_any, turn, owes, last_ok>>
  BY <1>3 DEF HandleGrant, FirstSeq, storageVars
<1>5. seq'[0] = 0 /\ phase'[0] = "Holding" /\ wpc'[0] = "tick" /\ driven'[0] = 1
      /\ driven' \in [Ids -> Nat]
  BY <1>1, <1>3, <1>4 DEF TypeOK, Solo
<1>6. Proceeding'
  BY <1>2, <1>3, <1>4, <1>5 DEF Proceeding, Beginning
<1> QED
  BY <1>4, <1>5, <1>6, TurnsTyped DEF Solo, Nobody

LEMMA AckSolo ==
    ASSUME CountsMatch, TypeOK, Flow, Solo, size = 1, HandleAck(0),
           driven[0] < Stores + 1, driven' = [driven EXCEPT ![0] = @ + 1],
           UNCHANGED <<stored, served>>
    PROVE  Solo'
<1>1. /\ 0 \in Ids /\ nAck[0] \in Nat /\ wr_rsp[0] \in Seq(BOOLEAN) /\ nReq[0] \in Nat
      /\ Len(wr_rsp[0]) \in Nat /\ nAck[0] < Len(wr_rsp[0]) /\ seq[0] \in Nat
  BY OneWriter, WriterTypes, LeaseAssumption DEF HandleAck
<1>2. phase[0] = "AwaitingAck" /\ Replied(0) /\ seq[0] < MaxSeq
  BY <1>1 DEF Flow, Writing, Counted, LastSent, Quiet, InQueue, InHand
<1>3. Proceeding /\ nReq[0] = driven[0] /\ driven[0] <= Stores /\ driven[0] \in Nat
  BY <1>1, <1>2 DEF Solo, Proceeding, Replied
<1>4. wr_rsp[0][nAck[0] + 1]
  <2>1. nAck[0] + 1 \in 1 .. Len(wr_rsp[0]) BY <1>1
  <2> QED BY <2>1 DEF Solo
<1>5. /\ seq' = [seq EXCEPT ![0] = seq[0] + 1] /\ phase' = [phase EXCEPT ![0] = "Holding"]
      /\ wpc' = [wpc EXCEPT ![0] = "tick"]
      /\ last_ok' = [last_ok EXCEPT ![0] = wr_rsp[0][nAck[0] + 1]]
      /\ UNCHANGED <<size, acq_rsp, nRsp, wr_req, nReq, wr_rsp, hi_token, hi_seq, have_any,
                     turn, owes, token>>
  BY <1>2, <1>4 DEF HandleAck, NextSeq, AfterAck, storageVars
<1>6. /\ seq'[0] = seq[0] + 1 /\ phase'[0] = "Holding" /\ wpc'[0] = "tick"
      /\ driven'[0] = driven[0] + 1 /\ last_ok'[0] /\ driven' \in [Ids -> Nat]
  <2>1. /\ seq \in [Ids -> 0 .. MaxSeq] /\ last_ok \in [Ids -> BOOLEAN]
        /\ phase \in [Ids -> {"Idle", "AwaitingGrant", "Holding", "AwaitingAck"}]
        /\ wpc \in [Ids -> {"tick", "recv"}]
    BY DEF TypeOK
  <2>2. driven \in [Ids -> Nat] BY DEF Solo
  <2>3. seq'[0] = seq[0] + 1 /\ phase'[0] = "Holding" /\ wpc'[0] = "tick"
    BY <1>1, <1>5, <2>1
  <2>4. last_ok'[0] BY <1>1, <1>4, <1>5, <2>1
  <2>5. driven'[0] = driven[0] + 1 /\ driven' \in [Ids -> Nat] BY <1>1, <2>2
  <2> QED BY <2>3, <2>4, <2>5
<1>7. have_any' => /\ hi_token' = token'[0]
                   /\ hi_seq' < seq'[0] \/ (hi_seq' = seq'[0] /\ nReq'[0] = driven'[0])
  <2>1. have_any => hi_token = token[0] /\ (hi_seq < seq[0] \/ hi_seq = seq[0])
    BY <1>3 DEF Proceeding
  <2>2. hi_seq \in Nat
    BY LeaseAssumption DEF TypeOK
  <2> QED
    BY <1>1, <1>5, <1>6, <2>1, <2>2
<1>8. driven'[0] >= 1 /\ seq'[0] + 1 = driven'[0] /\ served' = 1 /\ nReq'[0] + 1 = driven'[0]
  BY <1>1, <1>3, <1>5, <1>6 DEF Proceeding
<1>9. Proceeding'
  BY <1>6, <1>7, <1>8 DEF Proceeding
<1> QED
  BY <1>2, <1>3, <1>5, <1>6, <1>9, TurnsTyped DEF Solo, Nobody

LEMMA SoloStep ==
    ASSUME CountsMatch, TypeOK, Flow, Solo, [SysNext]_sysVars
    PROVE  Solo'
<1>1. size' = size
  BY DEF SysNext, sysVars, vars, RunServer, RunStorage, RunWriter, ServerStep, WriterStep,
         Serve, StorageRecv, StorageReply, Tick, HandleGrant, HandleAck
<1> SUFFICES ASSUME size = 1 PROVE Solo'
  BY <1>1 DEF Solo
<1>2. Writers = {0} /\ 0 \in Ids
  BY OneWriter
<1>3. CASE RunServer
  BY <1>3, ServeSolo
<1>4. CASE RunStorage
  <2>1. CASE \E w \in Writers : StorageRecv(w) /\ stored' = stored + 1
    BY <1>4, <2>1, StorageRecvSolo DEF RunStorage
  <2>2. CASE StorageReply /\ UNCHANGED stored
    BY <1>4, <2>2, StorageReplySolo DEF RunStorage
  <2> QED
    BY <1>4, <2>1, <2>2 DEF RunStorage
<1>5. CASE \E w \in Ids : RunWriter(w)
  <2>1. /\ WriterStep(0) /\ driven[0] < Stores + 1 /\ UNCHANGED <<served, stored>>
        /\ driven' = IF wpc'[0] = "tick" THEN [driven EXCEPT ![0] = @ + 1] ELSE driven
    BY <1>2, <1>5, TurnsTyped DEF RunWriter
  <2>2. wpc \in [Ids -> {"tick", "recv"}]
    BY DEF TypeOK
  <2>3. CASE Tick(0)
    BY <1>2, <2>1, <2>2, <2>3, TickSolo DEF Tick
  <2>4. CASE HandleGrant(0)
    BY <1>2, <2>1, <2>2, <2>4, GrantSolo DEF HandleGrant
  <2>5. CASE HandleAck(0)
    BY <1>2, <2>1, <2>2, <2>5, AckSolo DEF HandleAck
  <2> QED
    BY <2>1, <2>3, <2>4, <2>5 DEF WriterStep
<1>6. CASE UNCHANGED sysVars
  BY <1>6 DEF sysVars, vars, serverVars, storageVars, writerVars, Solo, Beginning, Proceeding,
              Nobody
<1> QED
  BY <1>3, <1>4, <1>5, <1>6 DEF SysNext

LEMMA SoloAlways == ASSUME CountsMatch PROVE SysSpec => [](TypeOK /\ Flow /\ Solo)
<1>1. SysInit => TypeOK /\ Flow /\ Solo
  BY InitType, InitFlow, SoloInit DEF SysInit
<1>2. [SysNext]_sysVars => [Next]_vars
  BY DEF SysNext, sysVars, RunServer, RunStorage, RunWriter, Next, ServerStep, StorageStep
<1>3. TypeOK /\ Flow /\ Solo /\ [SysNext]_sysVars => (TypeOK /\ Flow /\ Solo)'
  <2> SUFFICES ASSUME TypeOK, Flow, Solo, [SysNext]_sysVars
               PROVE  TypeOK' /\ Flow' /\ Solo'
    OBVIOUS
  <2>1. TypeOK' /\ Flow'
    BY <1>2, StepType, StepFlow
  <2> QED
    BY <2>1, SoloStep
<1> QED
  BY <1>1, <1>3, PTL DEF SysSpec

(* As long as a service has turns left, some service can take a step: the  *)
(* three threads of deploy_lease never wait for each other all at once.    *)
(* This is the safety half of DeployLeaseReturns.                          *)
THEOREM LeaseNeverSticks == ASSUME CountsMatch PROVE SysSpec => []LeaseRuns
<1>1. TypeOK /\ Flow /\ Solo => LeaseRuns
  <2> SUFFICES ASSUME TypeOK, Flow, Solo, size = 1, ~Finished PROVE ServiceMay
    BY DEF LeaseRuns
  <2>1. Writers = {0} /\ 0 \in Ids /\ Nobody # 0
    BY OneWriter
  <2>2. /\ nReq[0] \in Nat /\ Len(wr_req[0]) \in Nat /\ nAck[0] \in Nat /\ nRsp[0] \in Nat
        /\ Len(wr_rsp[0]) \in Nat /\ driven[0] \in Nat /\ Len(acq_rsp[0]) \in Nat
        /\ phase[0] \in {"Idle", "AwaitingGrant", "Holding", "AwaitingAck"}
        /\ wpc[0] \in {"tick", "recv"}
    BY <2>1, WriterTypes DEF Solo
  <2>3. Asking(0) /\ Counted(0)
    BY <2>1 DEF Flow, Writing
  <2>4. CASE phase[0] \in {"Idle", "AwaitingGrant"}
    <3>1. Beginning /\ driven[0] < Stores + 1
      BY <2>4, TurnsTyped DEF Solo, Beginning
    <3>2. CASE wpc[0] = "tick"
      BY <2>1, <3>1, <3>2, TurnsTyped DEF ServiceMay, WriterMay
    <3>3. CASE wpc[0] # "tick"
      <4>1. phase[0] = "AwaitingGrant" /\ wpc[0] = "recv" /\ served \in 0 .. 1
        BY <2>2, <2>4, <3>3 DEF Solo
      <4>2. CASE served = 0
        <5>1. nRsp[0] = 0 /\ Len(acq_rsp[0]) = 0
          BY <3>1, <4>2 DEF Beginning
        <5>2. acq_req[0] = 1
          BY <2>3, <4>1, <5>1 DEF Asking
        <5>3. served < Turns[size].server
          BY <4>2, TurnsTyped
        <5> QED
          BY <2>1, <5>2, <5>3 DEF ServiceMay, ServerMay
      <4>3. CASE served = 1
        <5>1. nRsp[0] < Len(acq_rsp[0])
          BY <3>1, <4>3 DEF Beginning
        <5> QED
          BY <2>1, <3>1, <4>1, <5>1, TurnsTyped DEF ServiceMay, WriterMay
      <4> QED
        BY <4>1, <4>2, <4>3
    <3> QED
      BY <3>2, <3>3
  <2>5. CASE phase[0] \notin {"Idle", "AwaitingGrant"}
    <3>1. Proceeding /\ stored = nReq[0] /\ served = 1 /\ owes.to \in {0, Nobody}
      BY <2>5 DEF Solo, Proceeding
    <3>2. CASE owes.to # Nobody
      BY <3>2 DEF ServiceMay, StorageMay
    <3>3. CASE owes.to = Nobody /\ phase[0] = "AwaitingAck"
      <4>1. driven[0] <= Stores /\ wpc[0] = "recv" /\ turn = 0
        BY <2>2, <3>1, <3>3 DEF Solo, Proceeding
      <4>2. CASE nReq[0] < Len(wr_req[0])
        <5>1. nReq[0] + 1 = driven[0] \/ nReq[0] = driven[0]
          BY <3>1, <3>3 DEF Proceeding
        <5>2. nReq[0] # driven[0]
          BY <2>2, <3>1, <3>3, <4>2 DEF Proceeding
        <5>3. stored < Turns[1].storage
          BY <2>2, <3>1, <4>1, <5>1, <5>2, TurnsTyped
        <5> QED
          BY <2>1, <3>3, <4>1, <4>2, <5>3 DEF ServiceMay, StorageMay
      <4>3. CASE ~(nReq[0] < Len(wr_req[0]))
        <5>1. nAck[0] < Len(wr_rsp[0])
          BY <2>1, <2>2, <2>3, <3>3, <4>3 DEF Counted, InQueue, InHand, Replied
        <5> QED
          BY <2>1, <2>2, <4>1, <5>1, TurnsTyped DEF ServiceMay, WriterMay
      <4> QED
        BY <4>2, <4>3
    <3>4. CASE owes.to = Nobody /\ phase[0] = "Holding"
      <4>1. wpc[0] = "tick" /\ nReq[0] + 1 = driven[0] /\ driven[0] <= Stores + 1
        BY <3>1, <3>4 DEF Solo, Proceeding
      <4>2. driven[0] # Stores + 1
        <5> SUFFICES ASSUME driven[0] = Stores + 1 PROVE FALSE
          OBVIOUS
        <5>1. nReq[0] = Stores
          BY <2>2, <4>1, TurnsTyped
        <5>2. stored = Turns[1].storage /\ served = Turns[1].server
          BY <3>1, <5>1, TurnsTyped
        <5>3. driven[0] = Turns[1].writer
          BY TurnsTyped
        <5> QED
          BY <2>1, <3>4, <5>2, <5>3 DEF Finished
      <4> QED
        BY <2>1, <2>2, <4>1, <4>2, TurnsTyped DEF ServiceMay, WriterMay
    <3> QED
      BY <2>2, <2>5, <3>1, <3>2, <3>3, <3>4
  <2> QED
    BY <2>4, <2>5
<1> QED
  BY <1>1, SoloAlways, PTL

(* When all three have returned no message is left unreceived, and the     *)
(* last write was accepted: deploy_lease returns TRUE.                     *)
THEOREM LeaseAcceptsHolds == ASSUME CountsMatch PROVE SysSpec => []LeaseAccepts
<1>1. TypeOK /\ Flow /\ Solo => LeaseAccepts
  <2> SUFFICES ASSUME TypeOK, Flow, Solo, size = 1, Finished PROVE Drained /\ last_ok[0]
    BY DEF LeaseAccepts
  <2>1. Writers = {0} /\ 0 \in Ids /\ Nobody # 0
    BY OneWriter
  <2>2. nReq[0] = Stores /\ driven[0] = Stores + 1 /\ driven[0] >= 2 /\ Stores \in Nat
    BY <2>1, TurnsTyped DEF Finished, Solo
  <2>3. phase[0] \notin {"Idle", "AwaitingGrant"}
    BY <2>2 DEF Solo, Beginning
  <2>4. Proceeding
    BY <2>3 DEF Solo
  <2>5. phase[0] # "AwaitingAck"
    BY <2>2, <2>4 DEF Proceeding
  <2>6. Asking(0) /\ Quiet(0)
    BY <2>1, <2>5 DEF Flow, Writing, Counted
  <2> QED
    BY <2>1, <2>2, <2>3, <2>4, <2>6 DEF Drained, Asking, Quiet, Proceeding
<1> QED
  BY <1>1, SoloAlways, PTL

(* Nothing is sent to a service that has returned.                         *)
THEOREM NoSendToDoneHolds == ASSUME CountsMatch PROVE SysSpec => NoSendToDone
<1> DEFINE Calm == size = 1 => /\ served = Turns[1].server => acq_req'[0] <= acq_req[0]
                               /\ stored = Turns[1].storage => wr_req' = wr_req
                               /\ driven[0] = Turns[1].writer => UNCHANGED <<acq_rsp, wr_rsp>>
<1>1. TypeOK /\ Flow /\ Solo /\ [SysNext]_sysVars => Calm
  <2> SUFFICES ASSUME TypeOK, Flow, Solo, [SysNext]_sysVars, size = 1 PROVE Calm
    OBVIOUS
  <2>1. Writers = {0} /\ 0 \in Ids /\ Nobody # 0
    BY OneWriter
  <2>2. /\ nReq[0] \in Nat /\ driven[0] \in Nat /\ acq_req[0] \in Nat
        /\ nAck[0] \in Nat /\ Len(wr_rsp[0]) \in Nat
        /\ phase[0] \in {"Idle", "AwaitingGrant", "Holding", "AwaitingAck"}
    BY <2>1, WriterTypes DEF Solo
  <2>3. CASE RunServer
    <3>1. Serve(0) /\ served < 1
      BY <2>1, <2>3, TurnsTyped DEF RunServer, ServerStep
    <3>2. phase[0] = "AwaitingGrant"
      BY <2>1, <3>1 DEF Serve, Flow, Asking
    <3>3. driven[0] # Turns[1].writer
      BY <3>2, TurnsTyped DEF Solo, Beginning
    <3> QED
      BY <3>1, <3>3, TurnsTyped DEF Serve
  <2>4. CASE RunStorage
    <3>1. CASE \E w \in Writers : StorageRecv(w)
      BY <2>2, <3>1 DEF StorageRecv
    <3>2. CASE StorageReply
      <4>1. owes.to = 0
        BY <3>2 DEF StorageReply, Solo
      <4>2. phase[0] = "AwaitingAck"
        BY <2>1, <4>1 DEF Flow, Writing, Counted, Quiet
      <4>3. driven[0] # Turns[1].writer
        BY <2>2, <4>2, TurnsTyped DEF Solo, Proceeding
      <4> QED
        BY <2>2, <3>2, <4>3 DEF StorageReply
    <3> QED
      BY <2>4, <3>1, <3>2 DEF RunStorage
  <2>5. CASE \E w \in Ids : RunWriter(w)
    <3>1. WriterStep(0)
      BY <2>1, <2>5 DEF RunWriter
    <3>2. CASE Tick(0)
      <4>1. CASE phase[0] = "Idle"
        <5>1. served # Turns[1].server
          BY <4>1, TurnsTyped DEF Solo, Beginning
        <5>2. UNCHANGED <<wr_req, acq_rsp, wr_rsp>>
          BY <3>2, <4>1, TickEffect, <2>1 DEF Tick
        <5> QED
          BY <5>1, <5>2
      <4>2. CASE phase[0] = "Holding"
        <5>1. Proceeding
          BY <4>2 DEF Solo
        <5>2. driven[0] < Stores + 1
          BY <2>1, <2>5, TurnsTyped DEF RunWriter
        <5>3. stored # Turns[1].storage
          BY <2>2, <4>2, <5>1, <5>2, TurnsTyped DEF Solo, Proceeding
        <5>4. UNCHANGED <<acq_req, acq_rsp, wr_rsp>>
          BY <3>2, <4>2 DEF Tick
        <5> QED
          BY <2>2, <5>3, <5>4
      <4>3. CASE phase[0] \notin {"Idle", "Holding"}
        BY <2>2, <3>2, <4>3 DEF Tick
      <4> QED
        BY <4>1, <4>2, <4>3
    <3>3. CASE HandleGrant(0)
      BY <2>2, <3>3 DEF HandleGrant
    <3>4. CASE HandleAck(0)
      BY <2>2, <3>4 DEF HandleAck
    <3> QED
      BY <3>1, <3>2, <3>3, <3>4 DEF WriterStep
  <2>6. CASE UNCHANGED sysVars
    BY <2>2, <2>6 DEF sysVars, vars
  <2> QED
    BY <2>3, <2>4, <2>5, <2>6 DEF SysNext
<1>2. SysSpec => [][SysNext]_sysVars
  BY PTL DEF SysSpec
<1>3. [](TypeOK /\ Flow /\ Solo) /\ [][SysNext]_sysVars => [][Calm]_sysVars
  BY <1>1, PTL
<1> QED
  BY <1>2, <1>3, SoloAlways DEF NoSendToDone

(* How far the three threads have got: a write is two steps of the storage *)
(* node, a turn is two steps of the writer.                                *)
Done ==
    served + 2 * stored + (IF owes.to = Nobody THEN 1 ELSE 0)
      + 2 * driven[0] + (IF wpc[0] = "recv" THEN 1 ELSE 0)

(* deploy_lease with n writes takes 4n + 3 steps at most, each of which is *)
(* progress.  As it never gets stuck it takes them all, if its threads are *)
(* scheduled: nothing else is left of DeployLeaseReturns.                  *)
THEOREM LeaseEnds ==
  ASSUME CountsMatch
  PROVE  SysSpec => /\ [](size = 1 => Done \in 1 .. 4 * Stores + 4)
                    /\ [][size = 1 => Done' = Done + 1]_sysVars
<1>1. TypeOK /\ Flow /\ Solo => (size = 1 => Done \in 1 .. 4 * Stores + 4)
  <2> SUFFICES ASSUME TypeOK, Flow, Solo, size = 1 PROVE Done \in 1 .. 4 * Stores + 4
    OBVIOUS
  <2>1. /\ 0 \in Ids /\ Stores \in Nat /\ Stores >= 1 /\ nReq[0] \in Nat
        /\ driven[0] \in Nat /\ wpc[0] \in {"tick", "recv"}
        /\ phase[0] \in {"Idle", "AwaitingGrant", "Holding", "AwaitingAck"}
    BY OneWriter, WriterTypes, TurnsTyped DEF Solo
  <2>2. served \in 0 .. 1 /\ stored = nReq[0] /\ driven[0] <= Stores + 1
    BY DEF Solo
  <2>3. stored <= Stores /\ (wpc[0] = "recv" => driven[0] <= Stores)
    <3>1. CASE phase[0] \in {"Idle", "AwaitingGrant"}
      BY <2>1, <2>2, <3>1 DEF Solo, Beginning
    <3>2. CASE phase[0] \notin {"Idle", "AwaitingGrant"}
      BY <2>1, <2>2, <3>2 DEF Solo, Proceeding
    <3> QED
      BY <3>1, <3>2
  <2>4. served = 0 /\ owes.to # Nobody => stored >= 1
    <3>1. owes.to # Nobody => owes.to = 0
      BY DEF Solo
    <3>2. owes.to = 0 => phase[0] = "AwaitingAck"
      BY <2>1 DEF Flow, Writing, Counted, Quiet
    <3>3. phase[0] = "AwaitingAck" => served = 1
      BY DEF Solo, Proceeding
    <3> QED
      BY <3>1, <3>2, <3>3
  <2>5. stored \in Nat
    BY <2>1, <2>2
  <2> QED
    BY <2>1, <2>2, <2>3, <2>4, <2>5 DEF Done
<1>2. TypeOK /\ Flow /\ Solo /\ [SysNext]_sysVars => [size = 1 => Done' = Done + 1]_sysVars
  <2> SUFFICES ASSUME TypeOK, Flow, Solo, SysNext, size = 1 PROVE Done' = Done + 1
    OBVIOUS
  <2>0. Writers = {0} /\ 0 \in Ids /\ Nobody # 0
    BY OneWriter
  <2>1. /\ Writers = {0} /\ 0 \in Ids /\ Nobody # 0
        /\ served \in Nat /\ stored \in Nat /\ driven[0] \in Nat /\ driven \in [Ids -> Nat]
        /\ wpc \in [Ids -> {"tick", "recv"}]
    <3>1. nReq[0] \in Nat /\ wpc \in [Ids -> {"tick", "recv"}]
      BY <2>0, WriterTypes DEF TypeOK
    <3>2. served \in 0 .. 1 /\ stored = nReq[0] /\ driven \in [Ids -> Nat]
      BY DEF Solo
    <3> QED
      BY <2>0, <3>1, <3>2
  <2>2. CASE RunServer
    <3>1. served' = served + 1 /\ UNCHANGED <<stored, driven, owes, wpc>>
      BY <2>2 DEF RunServer, ServerStep, Serve, storageVars, writerVars
    <3> QED
      BY <2>1, <3>1 DEF Done, Nobody
  <2>3. CASE RunStorage
    <3>1. CASE StorageRecv(0) /\ stored' = stored + 1
      <4>1. owes.to = Nobody /\ owes'.to # Nobody /\ UNCHANGED <<served, driven, wpc>>
        BY <2>1, <2>3, <3>1 DEF StorageRecv, RunStorage, writerVars
      <4> QED
        BY <2>1, <3>1, <4>1 DEF Done, Nobody
    <3>2. CASE StorageReply /\ UNCHANGED stored
      <4>1. owes.to # Nobody /\ owes'.to = Nobody /\ UNCHANGED <<served, driven, wpc>>
        BY <2>3, <3>2 DEF StorageReply, RunStorage, writerVars
      <4> QED
        BY <2>1, <3>2, <4>1 DEF Done, Nobody
    <3> QED
      BY <2>1, <2>3, <3>1, <3>2 DEF RunStorage
  <2>4. CASE \E w \in Ids : RunWriter(w)
    <3>1. /\ WriterStep(0) /\ UNCHANGED <<served, stored>>
          /\ driven' = IF wpc'[0] = "tick" THEN [driven EXCEPT ![0] = @ + 1] ELSE driven
      BY <2>1, <2>4 DEF RunWriter
    <3>2. CASE Tick(0)
      <4>1. wpc[0] = "tick" /\ wpc'[0] = "recv" /\ owes' = owes
        BY <2>1, <3>2 DEF Tick, storageVars
      <4> QED
        BY <2>1, <3>1, <4>1 DEF Done, Nobody
    <3>3. CASE HandleGrant(0) \/ HandleAck(0)
      <4>1. wpc[0] = "recv" /\ wpc'[0] = "tick" /\ owes' = owes
        BY <2>1, <3>3 DEF HandleGrant, HandleAck, storageVars
      <4>2. driven'[0] = driven[0] + 1
        BY <2>1, <3>1, <4>1
      <4> QED
        BY <2>1, <3>1, <4>1, <4>2 DEF Done, Nobody
    <3> QED
      BY <3>1, <3>2, <3>3 DEF WriterStep
  <2> QED
    BY <2>2, <2>3, <2>4 DEF SysNext
<1>3. SysSpec => [][SysNext]_sysVars
  BY PTL DEF SysSpec
<1> QED
  BY <1>1, <1>2, <1>3, SoloAlways, PTL
=============================================================================
