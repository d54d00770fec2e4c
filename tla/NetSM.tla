------------------------------- MODULE NetSM -------------------------------
(***************************************************************************)
(* The state machine of tok.rs that every proof of the repository rests    *)
(* on: one history per channel and direction, the record of everything     *)
(* ever sent, and an allocator for channels made while the program runs.   *)
(* The protocol is a parameter, as the trait NetInv is there.              *)
(***************************************************************************)
EXTENDS Naturals, Sequences

CONSTANTS
    Static,                 \* the channels named at boot
    Fams, Parts,            \* first two parts of an allocated channel's name
    Msgs,
    Gate(_, _, _),          \* Gate(c, s, m): m may follow history s on c
    WitInv(_, _),           \* what a receiver may conclude from m on c
    DeliverableAt(_, _),    \* after receiving r, position i may come next
    NeedsCause(_, _),       \* m on c has to point at earlier messages
    CausedBy(_, _, _),      \* ... and these justify it
    HistoryInv(_)           \* the protocol's invariant over all histories

DynChan(f, j, k) == [fam |-> f, ix |-> <<j, k>>]

VARIABLES
    sent,       \* sent[c]: everything sent on channel c, in order
    recvd,      \* recvd[c]: everything received from it
    was_sent,   \* the witnesses <<channel, position, message>>
    next        \* the allocator

vars == <<sent, recvd, was_sent, next>>

(* Names with two indices are reserved for allocation.                     *)
Boot ==
    /\ \A c \in Static : ~(Len(c.ix) = 2 /\ c.ix[2] \in Nat)
    /\ sent  = [c \in Static |-> <<>>]
    /\ recvd = [c \in Static |-> <<>>]
    /\ was_sent = {}
    /\ next = 0

(* do_send.  The sender holds a witness for every message it points at.    *)
MaySend(c, m, causes) ==
    /\ c \in DOMAIN sent
    /\ causes \subseteq was_sent
    /\ Gate(c, sent[c], m)
    /\ NeedsCause(c, m) => CausedBy(c, m, causes)

DoSend(c, m) ==
    /\ \E causes \in SUBSET was_sent : MaySend(c, m, causes)
    /\ sent' = [sent EXCEPT ![c] = Append(@, m)]
    /\ was_sent' = was_sent \cup {<<c, Len(sent[c]), m>>}
    /\ UNCHANGED <<recvd, next>>

MayReceive(c, i, m) ==
    /\ c \in DOMAIN recvd
    /\ <<c, i, m>> \in was_sent
    /\ DeliverableAt(recvd[c], i)

DoRecv(c, i, m) ==
    /\ MayReceive(c, i, m)
    /\ recvd' = [recvd EXCEPT ![c] = Append(@, m)]
    /\ UNCHANGED <<sent, was_sent, next>>

WithChannel(h, c) == [d \in DOMAIN h \cup {c} |-> IF d = c THEN <<>> ELSE h[d]]

Alloc(f, j) ==
    /\ sent'  = WithChannel(sent, DynChan(f, j, next))
    /\ recvd' = WithChannel(recvd, DynChan(f, j, next))
    /\ next' = next + 1
    /\ UNCHANGED was_sent

Next ==
    \/ \E c \in DOMAIN sent, m \in Msgs : DoSend(c, m)
    \/ \E e \in was_sent : DoRecv(e[1], e[2], e[3])
    \/ \E f \in Fams, j \in Parts : Alloc(f, j)

Spec == Boot /\ [][Next]_vars

-----------------------------------------------------------------------------
(* The machine's invariants.                                               *)

(* A witness names a real position of a history, and the message there.    *)
Agree ==
    \A e \in was_sent :
      /\ e = <<e[1], e[2], e[3]>>
      /\ e[1] \in DOMAIN sent
      /\ e[2] \in 0 .. Len(sent[e[1]]) - 1
      /\ sent[e[1]][e[2] + 1] = e[3]

(* Every position of every history has its witness in the record.          *)
Complete ==
    \A c \in DOMAIN sent : \A i \in DOMAIN sent[c] : <<c, i - 1, sent[c][i]>> \in was_sent

(* Everything on record is what its channel may carry.                     *)
ProtocolInv == \A e \in was_sent : WitInv(e[1], e[3])

(* Whatever had to be justified is justified, by messages on record.       *)
Provenance ==
    \A e \in was_sent :
      NeedsCause(e[1], e[3]) => \E causes \in SUBSET was_sent : CausedBy(e[1], e[3], causes)

(* No channel at or above the allocator exists, so a new one is new.       *)
Unallocated ==
    \A f \in Fams, j \in Parts : \A k \in Nat :
      k >= next => DynChan(f, j, k) \notin DOMAIN sent \cup DOMAIN recvd
=============================================================================
