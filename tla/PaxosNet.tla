------------------------------ MODULE PaxosNet ------------------------------
(***************************************************************************)
(* `impl NetInv for Paxos`: what a send has to satisfy, what it has to     *)
(* point at, and the invariant over the record from which paxos.rs derives *)
(* agreement; and the program of PaxosSteps seen by the token machine.     *)
(* A message's variant is its channel's: Prepare on p1a, Promise on p1b,   *)
(* and so on, so "m is Promise" says nothing here.  Only the two entries   *)
(* of an acceptor's log share a channel.                                   *)
(***************************************************************************)
EXTENDS PaxosSteps, SequencesExt

Pdec(p)   == [fam |-> "pdec", ix |-> <<p>>]
P1a(p, a) == [fam |-> "p1a", ix |-> <<p, a, 0>>]
P1b(p, a) == [fam |-> "p1b", ix |-> <<p, a, 0>>]
P2a(p, a) == [fam |-> "p2a", ix |-> <<p, a, 0>>]
P2b(p, a) == [fam |-> "p2b", ix |-> <<p, a, 0>>]
Alog(a)   == [fam |-> "alog", ix |-> <<a>>]

Chans == {Pdec(p) : p \in Proposers} \cup {Alog(a) : a \in Acceptors}
         \cup UNION {{P1a(p, a), P1b(p, a), P2a(p, a), P2b(p, a)} :
                        p \in Proposers, a \in Acceptors}

IsPdec(c) == c.fam = "pdec"
IsP1b(c)  == c.fam = "p1b"
IsP2a(c)  == c.fam = "p2a"
IsP2b(c)  == c.fam = "p2b"
IsAlog(c) == c.fam = "alog"

-----------------------------------------------------------------------------
(* Gates.  A decision log takes ever higher ballots of its owner; an       *)
(* acceptor's log takes what the entries before it allow.                  *)

Earlier(s) == Range(s)

GatePromise(s, m) ==
    /\ m.had => Blt(m.abal, m.bal) /\ LAccept(m.abal, m.aval) \in Earlier(s)
    /\ \A e \in Earlier(s) : IF e.kind = "LPromise"
                             THEN Blt(e.bal, m.bal)
                             ELSE m.had /\ Ble(e.bal, m.abal)

GateAccept(s, m) == \A e \in Earlier(s) : e.kind = "LPromise" => Ble(e.bal, m.bal)

PaxosGate(c, s, m) ==
    CASE IsPdec(c) -> m.bal.prop = c.ix[1] /\ \A e \in Earlier(s) : Blt(e.bal, m.bal)
      [] IsAlog(c) -> IF m.kind = "LPromise" THEN GatePromise(s, m) ELSE GateAccept(s, m)
      [] c.fam = "p1a" -> m.prop = c.ix[1]
      [] IsP1b(c)  -> TRUE
      [] OTHER     -> m.bal.prop = c.ix[1]

PaxosWitInv(c, m) ==
    CASE c.fam = "p1a"           -> m.prop = c.ix[1]
      [] IsP1b(c) \/ IsAlog(c)   -> TRUE
      [] OTHER                   -> m.bal.prop = c.ix[1]

Fifo(v, i) == i = Len(v)

(* log_ok: a proposer's commitments are a strictly increasing run.         *)
PaxosHistoryInv(h) ==
    \A p \in Proposers : \A x, y \in DOMAIN h[Pdec(p)] :
      x < y => Blt(h[Pdec(p)][x].bal, h[Pdec(p)][y].bal)

-----------------------------------------------------------------------------
(* Provenance.  ws is a set of witnesses <<channel, position, message>>.   *)

Said(ws, c, m) == \E e \in ws : e[1] = c /\ e[3] = m

On(ws, family) == {e \in ws : e[1].fam = family}

PromisedFor(ws, p, a, b) == {e[3] : e \in {w \in ws : w[1] = P1b(p, a) /\ w[3].bal = b}}

BacksAt(ws, p, b, v, q) ==
    LET accepted == {m \in UNION {PromisedFor(ws, p, a, b) : a \in q} : m.had}
    IN /\ q \in Quorums
       /\ \A a \in q : PromisedFor(ws, p, a, b) # {}
       /\ \/ accepted = {}
          \/ \E m \in accepted : /\ m.aval = v
                                 /\ \A h \in accepted : Ble(h.abal, m.abal)

RecordBacks(ws, p, b, v) == \E q \in Quorums : BacksAt(ws, p, b, v, q)

PaxosNeedsCause(c, m) ==
    \/ IsP2a(c) \/ IsP2b(c) \/ IsP1b(c) \/ IsPdec(c)
    \/ IsAlog(c) /\ m.kind = "LAccept"

PaxosCausedBy(c, m, causes) ==
    /\ IsP2a(c) => Said(causes, Pdec(c.ix[1]), m)
    /\ IsP2b(c) => /\ Said(causes, P2a(c.ix[1], c.ix[2]), m)
                   /\ Said(causes, Alog(c.ix[2]), LAccept(m.bal, m.val))
    /\ IsPdec(c) => RecordBacks(causes, c.ix[1], m.bal, m.val)
    /\ IsAlog(c) /\ m.kind = "LAccept" =>
         Said(causes, P2a(m.bal.prop, c.ix[1]), Proposal(m.bal, m.val))
    /\ IsP1b(c) => Said(causes, Alog(c.ix[2]), LPromise(m.bal, m.had, m.abal, m.aval))

-----------------------------------------------------------------------------
(* record_inv, clause by clause.                                           *)

RecAcceptedBacked(ws) ==
    \A e \in On(ws, "p2b") : Said(ws, P2a(e[1].ix[1], e[1].ix[2]), e[3])

RecAcceptBacked(ws) == \A e \in On(ws, "p2a") : Said(ws, Pdec(e[1].ix[1]), e[3])

RecDecidedUnique(ws) ==
    \A e, f \in On(ws, "pdec") : e[1] = f[1] /\ e[3].bal = f[3].bal => e[3] = f[3]

RecAlogOk(ws) ==
    \A e, f \in On(ws, "alog") :
      e[1] = f[1] /\ e[2] < f[2] =>
        LET m1 == e[3]
            m2 == f[3]
        IN /\ m1.kind = "LPromise" /\ m2.kind = "LPromise" => Blt(m1.bal, m2.bal)
           /\ m1.kind = "LPromise" /\ m2.kind = "LAccept"  => Ble(m1.bal, m2.bal)
           /\ m1.kind = "LAccept"  /\ m2.kind = "LPromise" =>
                m2.had /\ Ble(m1.bal, m2.abal)

RecPromiseLogged(ws) ==
    \A e \in On(ws, "p1b") :
      Said(ws, Alog(e[1].ix[2]), LPromise(e[3].bal, e[3].had, e[3].abal, e[3].aval))

RecAcceptedLogged(ws) ==
    \A e \in On(ws, "p2b") : Said(ws, Alog(e[1].ix[2]), LAccept(e[3].bal, e[3].val))

RecLacceptBacked(ws) ==
    \A e \in On(ws, "alog") :
      e[3].kind = "LAccept" =>
        Said(ws, P2a(e[3].bal.prop, e[1].ix[1]), Proposal(e[3].bal, e[3].val))

RecFunctional(ws) == \A e, f \in ws : e[1] = f[1] /\ e[2] = f[2] => e[3] = f[3]

RecDecidedBacked(ws) ==
    \A e \in On(ws, "pdec") : RecordBacks(ws, e[1].ix[1], e[3].bal, e[3].val)

Reporting(ws) == {e \in On(ws, "alog") : e[3].kind = "LPromise" /\ e[3].had}

RecPromiseStrict(ws) == \A e \in Reporting(ws) : Blt(e[3].abal, e[3].bal)

RecReportLogged(ws) ==
    \A e \in Reporting(ws) : Said(ws, e[1], LAccept(e[3].abal, e[3].aval))

PaxosRecordInv(ws) ==
    /\ RecAcceptedBacked(ws) /\ RecAcceptBacked(ws) /\ RecDecidedUnique(ws)
    /\ RecAlogOk(ws) /\ RecPromiseLogged(ws) /\ RecAcceptedLogged(ws)
    /\ RecLacceptBacked(ws) /\ RecFunctional(ws) /\ RecDecidedBacked(ws)
    /\ RecPromiseStrict(ws) /\ RecReportLogged(ws)
-----------------------------------------------------------------------------
(* The program as the machine sees it: its histories by channel, what was  *)
(* received of each, and a witness for every message.                      *)

SentOn(c) ==
    LET p == c.ix[1]
        a == c.ix[2]
    IN CASE c.fam = "pdec" -> pdec[p]
         [] c.fam = "alog" -> alog[p]
         [] c.fam = "p1a" -> p1a[p][a]
         [] c.fam = "p1b" -> p1b[p][a]
         [] c.fam = "p2a" -> p2a[p][a]
         [] c.fam = "p2b" -> p2b[p][a]

CountOn(c) ==
    LET p == c.ix[1]
        a == c.ix[2]
    IN CASE c.fam = "p1a" -> n1a[p][a]
         [] c.fam = "p1b" -> n1b[p][a]
         [] c.fam = "p2a" -> n2a[p][a]
         [] OTHER -> 0

History  == [c \in Chans |-> SentOn(c)]
Received == [c \in Chans |-> SubSeq(SentOn(c), 1, CountOn(c))]

Witness(c, i) == <<c, i - 1, SentOn(c)[i]>>

Record == UNION {{Witness(c, i) : i \in DOMAIN SentOn(c)} : c \in Chans}

Net == INSTANCE NetSM WITH
    Static <- Chans, Fams <- {}, Parts <- {}, Msgs <- {},
    Gate <- PaxosGate, WitInv <- PaxosWitInv, DeliverableAt <- Fifo,
    NeedsCause <- PaxosNeedsCause, CausedBy <- PaxosCausedBy,
    HistoryInv <- PaxosHistoryInv,
    sent <- History, recvd <- Received, was_sent <- Record, next <- 0

Newest(c) == Witness(c, Len(SentOn(c)))

\* The witness of the message acceptor a's handler was called with.
Handed(a) ==
    IF at[a] = "logAccept" \/ at[a] = "accepted"
    THEN Witness(P2a(cur[a], a), n2a[cur[a]][a])
    ELSE Witness(P1a(cur[a], a), n1a[cur[a]][a])

\* The witnesses collect returned with the promises it counted.
Collected(p) ==
    {e \in Record : /\ e[1] \in {P1b(p, a) : a \in Sources(p)}
                    /\ e[3].bal = bal[p]
                    /\ e[2] < n1b[p][e[1].ix[2]]}

(* What the program hands to the send on channel c: `send` takes nothing,  *)
(* `send_caused` the witness of the call or of the entry just logged,      *)
(* `send_caused2` both, `send_general` the quorum of promises.             *)
Presented(c, m) ==
    CASE IsPdec(c) -> Collected(c.ix[1])
      [] IsP2a(c)  -> {Newest(Pdec(c.ix[1]))}
      [] IsP1b(c)  -> {Newest(Alog(c.ix[2]))}
      [] IsP2b(c)  -> {Handed(c.ix[2]), Newest(Alog(c.ix[2]))}
      [] IsAlog(c) -> IF m.kind = "LAccept" THEN {Handed(c.ix[1])} ELSE {}
      [] OTHER     -> {}

\* The channels a step sends on or receives from.
Touched == {c \in Chans : CountOn(c)' # CountOn(c) \/ SentOn(c)' # SentOn(c)}

SendsOnce(c) ==
    LET m == Last(SentOn(c)')
    IN /\ SentOn(c)' = Append(SentOn(c), m)
       /\ CountOn(c)' = CountOn(c)
       /\ Net!MaySend(c, m, Presented(c, m))

ReceivesOnce(c) ==
    /\ CountOn(c)' = CountOn(c) + 1
    /\ SentOn(c)' = SentOn(c)
    /\ Net!MayReceive(c, CountOn(c), SentOn(c)[CountOn(c) + 1])
-----------------------------------------------------------------------------
(* Properties.                                                             *)

(* Every step of the program is one call of the machine, with the gate and *)
(* the witnesses that call asks for: no handler takes two in one step and  *)
(* nobody ever sends what it cannot justify by what it holds.              *)
OneCallAtATime ==
    [][LET touched == Touched
       IN \E c \in touched : touched = {c} /\ (SendsOnce(c) \/ ReceivesOnce(c))]_stepVars

(* record_inv and history_inv, from which agreement is derived, hold in    *)
(* the middle of a handler too, when the log is ahead of the answers.      *)
RecordInvHolds == PaxosRecordInv(Record) /\ PaxosHistoryInv(History)
=============================================================================
