------------------------------ MODULE LockHi -------------------------------
(***************************************************************************)
(* The abstract lock server of leaselock.rs (LockHi): it grants some token *)
(* above every token issued so far, or refuses, for reasons of its own.    *)
(* No clock, no lease, no holder.                                          *)
(***************************************************************************)
EXTENDS Naturals, Sequences

CONSTANTS
    Clients,
    MaxToken    \* the last token (u64::MAX in the code)

Denied == 0     \* tokens are nonzero, so 0 can stand for a refusal

VARIABLES
    issued,     \* the highest token issued
    answers     \* answers[c]: what client c has been told, oldest first

hvars == <<issued, answers>>

HInit == issued = 0 /\ answers = [c \in Clients |-> <<>>]

Answer(c, t) == answers' = [answers EXCEPT ![c] = Append(@, t)]

Grant(c) ==
    /\ issued < MaxToken
    /\ \E t \in issued + 1 .. MaxToken : issued' = t /\ Answer(c, t)

Refuse(c) == Answer(c, Denied) /\ UNCHANGED issued

HNext == \E c \in Clients : Grant(c) \/ Refuse(c)

HSpec == HInit /\ [][HNext]_hvars
=============================================================================
