---------------------------- MODULE MCEndpoints ----------------------------
(***************************************************************************)
(* The run-time with the lease lock's protocol as its parameter (the NetInv*)
(* of leaselock.rs), two writers, and threads that send whatever the gates *)
(* let through.                                                            *)
(***************************************************************************)
EXTENDS Endpoints

CONSTANTS MaxTok, MaxSeq   \* bounds: tokens and sequence numbers in messages

chan(f, i) == [fam |-> f, ix |-> i]

acq_rsp(w) == chan(1, <<w>>)
wr_req(w)  == chan(2, <<w>>)
journal    == chan(4, <<>>)

Granted(t)     == [kind |-> "Granted", tok |-> t, seq |-> 0]
Denied         == [kind |-> "Denied", tok |-> 0, seq |-> 0]
Write(t, q)    == [kind |-> "Write", tok |-> t, seq |-> q]
Accepted(t, q) == [kind |-> "Accepted", tok |-> t, seq |-> q]

MCMsgs ==
    {Denied} \cup {Granted(t) : t \in 0 .. MaxTok}
    \cup UNION {{Write(t, q), Accepted(t, q)} : t \in 0 .. MaxTok, q \in 0 .. MaxSeq}

IsAcqRsp(c) == c.fam = 1 /\ Len(c.ix) = 1
IsWrReq(c)  == c.fam = 2 /\ Len(c.ix) = 1

lex_lt(a, b) == a.tok < b.tok \/ (a.tok = b.tok /\ a.seq < b.seq)

LeaseWitInv(c, m) ==
    /\ c = journal => m.kind = "Accepted" /\ m.tok # 0
    /\ IsAcqRsp(c) => m.kind = "Denied" \/ (m.kind = "Granted" /\ m.tok # 0)
    /\ IsWrReq(c)  => m.kind = "Write"

\* mutant: only the tokens are compared, a retry is accepted again
FollowsLoosely(s, m) == \A x \in DOMAIN s : s[x].tok <= m.tok
Follows(s, m)        == \A x \in DOMAIN s : lex_lt(s[x], m)

LeaseGate(c, s, m) == LeaseWitInv(c, m) /\ (c = journal => Follows(s, m))

LeaseNeedsCause(c, m) == IsWrReq(c) /\ m.kind = "Write"

LeaseCausedBy(c, m, causes) ==
    \E e \in causes : e[1] = acq_rsp(c.ix[1]) /\ e[3] = Granted(m.tok)

fifo_deliverable(r, i) == i = Len(r)

(* Write serialization, over the journal's history.                        *)
Serialized(h) ==
    journal \in DOMAIN h =>
      \A x, y \in DOMAIN h[journal] : x < y => lex_lt(h[journal][x], h[journal][y])

MCStatic  == {acq_rsp(0), acq_rsp(1), wr_req(0), journal}
MCThreads == {"server", "storage", "writer0", "writer1"}

MCSender(c) ==
    CASE IsAcqRsp(c) -> "server" [] IsWrReq(c) -> "writer0" [] OTHER -> "storage"
MCReceiver(c) ==
    CASE c = acq_rsp(0) -> "writer0" [] c = acq_rsp(1) -> "writer1" [] OTHER -> "storage"
=============================================================================
