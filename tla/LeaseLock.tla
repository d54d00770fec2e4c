----------------------------- MODULE LeaseLock -----------------------------
(***************************************************************************)
(* The lease lock of src/src/examples/leaselock.rs: a lock server that     *)
(* hands out fencing tokens, a storage node that journals only writes      *)
(* above its high-water mark, and writers that are never told their lease  *)
(* has run out.  The clock may return anything at any time.                *)
(*                                                                         *)
(* Channels keep their whole history; the n.. variables count what has     *)
(* been received.  An Acquire carries nothing, so acq_req is a count.      *)
(***************************************************************************)
EXTENDS Naturals, Sequences, FiniteSets, Functions

CONSTANTS
    MaxWriters, \* at most this many writers are deployed
    MaxToken,   \* u64::MAX, for tokens
    MaxSeq,     \* u64::MAX, for sequence numbers
    MaxTime,    \* u64::MAX, for the clock
    LEASE       \* how long a lease lasts

ASSUME LeaseAssumption ==
    /\ MaxWriters \in Nat \ {0} /\ MaxToken \in Nat /\ MaxSeq \in Nat
    /\ MaxTime \in Nat /\ LEASE \in 1 .. MaxTime

Ids == 0 .. MaxWriters - 1

Denied == 0             \* acq_rsp: a token, or this
Write(t, q) == [tok |-> t, seq |-> q]
Writes == [tok : 1 .. MaxToken, seq : 0 .. MaxSeq]

lex_lt(a, b) == \/ a.tok < b.tok
                \/ a.tok = b.tok /\ a.seq < b.seq

VARIABLES
    size,                           \* how many writers this deployment has
    acq_req, acq_rsp, nRsp,         \* writer -> server, server -> writer
    wr_req, nReq, wr_rsp, nAck,     \* writer -> storage, storage -> writer
    journal,
    hi, held, held_until,           \* lock server
    hi_token, hi_seq, have_any,     \* storage node: high-water mark
    turn, owes,                     \* ... next writer to wait for, reply due
    token, seq, phase, last_ok, wpc \* writers; wpc: about to "tick" or "recv"

serverVars  == <<hi, held, held_until>>
storageVars == <<hi_token, hi_seq, have_any, turn, owes>>
writerVars  == <<token, seq, phase, last_ok, wpc>>
vars == <<size, acq_req, acq_rsp, nRsp, wr_req, nReq, wr_rsp, nAck, journal,
          hi, held, held_until, hi_token, hi_seq, have_any, turn, owes,
          token, seq, phase, last_ok, wpc>>

Writers == 0 .. size - 1
Nobody  == MaxWriters

All(x) == [w \in Ids |-> x]

Init ==
    /\ size \in 1 .. MaxWriters
    /\ acq_req = All(0) /\ acq_rsp = All(<<>>) /\ nRsp = All(0)
    /\ wr_req = All(<<>>) /\ nReq = All(0) /\ wr_rsp = All(<<>>) /\ nAck = All(0)
    /\ journal = <<>>
    /\ hi = 0 /\ held = FALSE /\ held_until = 0
    /\ hi_token = 0 /\ hi_seq = 0 /\ have_any = FALSE /\ turn = 0
    /\ owes = [to |-> Nobody, ok |-> FALSE]
    /\ token = All(0) /\ seq = All(0) /\ phase = All("Idle")
    /\ last_ok = All(FALSE) /\ wpc = All("tick")

-----------------------------------------------------------------------------
(* The lock server: serve_one, for whichever writer asked.                 *)

Deadline(now) == IF now + LEASE <= MaxTime THEN now + LEASE ELSE MaxTime

MayGrantAnytime(now) == ~held \/ now >= held_until   \* mutant: forgets the last token
MayGrant(now) == (~held \/ now >= held_until) /\ hi < MaxToken

NextTokenSame == IF hi = 0 THEN 1 ELSE hi       \* mutant: reissues the last token
NextToken     == hi + 1

Serve(w) ==
    /\ acq_req[w] > 0
    /\ acq_req' = [acq_req EXCEPT ![w] = @ - 1]
    /\ \E now \in 0 .. MaxTime :
         IF MayGrant(now)
         THEN /\ acq_rsp' = [acq_rsp EXCEPT ![w] = Append(@, NextToken)]
              /\ hi' = NextToken /\ held' = TRUE /\ held_until' = Deadline(now)
         ELSE /\ acq_rsp' = [acq_rsp EXCEPT ![w] = Append(@, Denied)]
              /\ UNCHANGED serverVars
    /\ UNCHANGED <<size, nRsp, wr_req, nReq, wr_rsp, nAck, journal,
                   storageVars, writerVars>>

-----------------------------------------------------------------------------
(* The storage node: waits for one writer at a time, in turn, checks the   *)
(* write against the high-water mark, journals it, then answers.           *)

FreshUnlessSame(m) ==       \* mutant: any other token will do
    ~have_any \/ m.tok # hi_token \/ m.seq > hi_seq
Fresh(m) == \/ ~have_any
            \/ m.tok > hi_token
            \/ m.tok = hi_token /\ m.seq > hi_seq

NextTurnOn(w) == w + 1                              \* mutant: does not wrap
NextTurn(w)   == IF w + 1 < size THEN w + 1 ELSE 0

StorageRecv(w) ==
    /\ owes.to = Nobody
    /\ w = turn
    /\ nReq[w] < Len(wr_req[w])
    /\ nReq' = [nReq EXCEPT ![w] = @ + 1]
    /\ turn' = NextTurn(w)
    /\ LET m == wr_req[w][nReq[w] + 1]
       IN /\ owes' = [to |-> w, ok |-> Fresh(m)]
          /\ IF Fresh(m)
             THEN /\ journal' = Append(journal, m)
                  /\ hi_token' = m.tok /\ hi_seq' = m.seq /\ have_any' = TRUE
             ELSE UNCHANGED <<journal, hi_token, hi_seq, have_any>>
    /\ UNCHANGED <<size, acq_req, acq_rsp, nRsp, wr_req, wr_rsp, nAck,
                   serverVars, writerVars>>

StorageReply ==
    /\ owes.to # Nobody
    /\ wr_rsp' = [wr_rsp EXCEPT ![owes.to] = Append(@, owes.ok)]
    /\ owes' = [to |-> Nobody, ok |-> FALSE]
    /\ UNCHANGED <<size, acq_req, acq_rsp, nRsp, wr_req, nReq, nAck, journal,
                   serverVars, hi_token, hi_seq, have_any, turn, writerVars>>

-----------------------------------------------------------------------------
(* A writer, one turn of its driver at a time: tick, then a receive from   *)
(* whichever of its two channels has something.                            *)

MayWrite(w) == token[w] # 0 /\ seq[w] < MaxSeq

Tick(w) ==
    /\ wpc[w] = "tick"
    /\ wpc' = [wpc EXCEPT ![w] = "recv"]
    /\ CASE phase[w] = "Idle" ->
              /\ acq_req' = [acq_req EXCEPT ![w] = @ + 1]
              /\ phase' = [phase EXCEPT ![w] = "AwaitingGrant"]
              /\ UNCHANGED wr_req
         [] phase[w] = "Holding" /\ MayWrite(w) ->
              /\ wr_req' = [wr_req EXCEPT ![w] = Append(@, Write(token[w], seq[w]))]
              /\ phase' = [phase EXCEPT ![w] = "AwaitingAck"]
              /\ UNCHANGED acq_req
         [] OTHER -> UNCHANGED <<acq_req, wr_req, phase>>
    /\ UNCHANGED <<size, acq_rsp, nRsp, nReq, wr_rsp, nAck, journal,
                   serverVars, storageVars, token, seq, last_ok>>

FirstSeqOne == 1        \* mutant: the first write is number one
FirstSeq    == 0

HandleGrant(w) ==
    /\ wpc[w] = "recv"
    /\ nRsp[w] < Len(acq_rsp[w])
    /\ nRsp' = [nRsp EXCEPT ![w] = @ + 1]
    /\ LET t == acq_rsp[w][nRsp[w] + 1]
       IN IF t # Denied
          THEN /\ token' = [token EXCEPT ![w] = t]
               /\ seq' = [seq EXCEPT ![w] = FirstSeq]
               /\ phase' = [phase EXCEPT ![w] = "Holding"]
          ELSE /\ phase' = [phase EXCEPT ![w] = "Idle"]
               /\ UNCHANGED <<token, seq>>
    /\ wpc' = [wpc EXCEPT ![w] = "tick"]
    /\ UNCHANGED <<size, acq_req, acq_rsp, wr_req, nReq, wr_rsp, nAck, journal,
                   serverVars, storageVars, last_ok>>

\* mutant: a refused write is counted as made
NextSeqAlways(w, ok) == IF seq[w] < MaxSeq THEN seq[w] + 1 ELSE seq[w]
NextSeq(w, ok)       == IF ok /\ seq[w] < MaxSeq THEN seq[w] + 1 ELSE seq[w]

AfterAckRetry(ok) == IF ok THEN "Holding" ELSE "Idle"   \* mutant: asks for a new lease
AfterAck(ok)      == "Holding"

HandleAck(w) ==
    /\ wpc[w] = "recv"
    /\ nAck[w] < Len(wr_rsp[w])
    /\ nAck' = [nAck EXCEPT ![w] = @ + 1]
    /\ LET ok == wr_rsp[w][nAck[w] + 1]
       IN /\ last_ok' = [last_ok EXCEPT ![w] = ok]
          /\ seq' = [seq EXCEPT ![w] = NextSeq(w, ok)]
          /\ phase' = [phase EXCEPT ![w] = AfterAck(ok)]
    /\ wpc' = [wpc EXCEPT ![w] = "tick"]
    /\ UNCHANGED <<size, acq_req, acq_rsp, nRsp, wr_req, nReq, wr_rsp, journal,
                   serverVars, storageVars, token>>

ServerStep    == \E w \in Writers : Serve(w)
StorageStep   == (\E w \in Writers : StorageRecv(w)) \/ StorageReply
WriterStep(w) == Tick(w) \/ HandleGrant(w) \/ HandleAck(w)

Next == ServerStep \/ StorageStep \/ \E w \in Writers : WriterStep(w)

Spec == Init /\ [][Next]_vars

-----------------------------------------------------------------------------
(* Properties.                                                             *)

TypeOK ==
    /\ size \in 1 .. MaxWriters
    /\ acq_req \in [Ids -> Nat]
    /\ acq_rsp \in [Ids -> Seq(0 .. MaxToken)] /\ nRsp \in [Ids -> Nat]
    /\ wr_req \in [Ids -> Seq(Writes)] /\ nReq \in [Ids -> Nat]
    /\ wr_rsp \in [Ids -> Seq(BOOLEAN)] /\ nAck \in [Ids -> Nat]
    /\ journal \in Seq(Writes)
    /\ hi \in 0 .. MaxToken /\ held \in BOOLEAN /\ held_until \in 0 .. MaxTime
    /\ hi_token \in 0 .. MaxToken /\ hi_seq \in 0 .. MaxSeq /\ have_any \in BOOLEAN
    /\ turn \in Ids /\ owes \in [to : 0 .. MaxWriters, ok : BOOLEAN]
    /\ token \in [Ids -> 0 .. MaxToken] /\ seq \in [Ids -> 0 .. MaxSeq]
    /\ phase \in [Ids -> {"Idle", "AwaitingGrant", "Holding", "AwaitingAck"}]
    /\ last_ok \in [Ids -> BOOLEAN] /\ wpc \in [Ids -> {"tick", "recv"}]

(* The server implements the abstract one: whatever the clock says, a      *)
(* token is above all issued before it (LockRef, serve_one).               *)
Abstract == INSTANCE LockHi WITH Clients <- Ids, issued <- hi, answers <- acq_rsp
ImplementsLockHi == Abstract!HSpec

(* Write serialization (history_inv): the journal is strictly ordered by   *)
(* (token, sequence).                                                      *)
Serialized ==
    \A x, y \in DOMAIN journal : x < y => lex_lt(journal[x], journal[y])

Granted(w) == {t \in Range(acq_rsp[w]) : t # Denied}

(* Every write in the journal was sent by the one writer the server        *)
(* granted its token to (caused_by on wr_req), at a time when only that    *)
(* writer could have sent it.                                              *)
OneHolderPerToken ==
    /\ \A v, w \in Ids : v # w => Granted(v) \cap Granted(w) = {}
    /\ \A m \in Range(journal) :
         \E w \in Writers : m \in Range(wr_req[w]) /\ m.tok \in Granted(w)

(* Under each token the journal holds the writes 0, 1, 2, ... in full: a   *)
(* holder that is superseded leaves a prefix, never a hole.                *)
NoGaps ==
    \A m \in Range(journal) : \A q \in 0 .. m.seq : Write(m.tok, q) \in Range(journal)

(* What a writer believes is what the journal says: all of its writes      *)
(* below seq are there, and none from seq on except the one in flight.     *)
WriterKnows ==
    \A w \in Writers : token[w] # 0 =>
      LET mine == {m \in Range(journal) : m.tok = token[w]}
      IN /\ \A q \in 0 .. seq[w] - 1 : Write(token[w], q) \in mine
         /\ \A m \in mine : \/ m.seq < seq[w]
                            \/ m.seq = seq[w] /\ phase[w] = "AwaitingAck"
         /\ last_ok[w] => seq[w] > 0

(* A writer once refused is refused from then on (the Writer doc comment): *)
(* no answer after a refusal accepts anything.                             *)
RefusedFromThenOn ==
    \A w \in Writers : \A x, y \in DOMAIN wr_rsp[w] :
      x < y /\ ~wr_rsp[w][x] => ~wr_rsp[w][y]
=============================================================================
