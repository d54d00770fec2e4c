------------------------------ MODULE RecvAny ------------------------------
(***************************************************************************)
(* recv_any of tok.rs, one try_recv at a time, against senders that may    *)
(* write between any two probes.  The back-off after an empty scan only    *)
(* spends time and is left out.                                            *)
(***************************************************************************)
EXTENDS Naturals

CONSTANTS N, Cap            \* as in Mailbox

ASSUME RecvAnyAssumption == N \in Nat \ {0} /\ Cap \in Nat \ {0}

Slots == 0 .. N - 1
None  == N                  \* no slot

VARIABLES
    ready,          \* ready[k]: messages waiting in channel k
    pc,             \* "idle", or "scan" inside a call
    start, i,       \* the locals of recv_any
    last            \* the slot the latest call returned, None during a call

vars == <<ready, pc, start, i, last>>

Init ==
    /\ ready = [k \in Slots |-> 0]
    /\ pc = "idle" /\ start = 0 /\ i = 0
    /\ last = None

Send(k) ==
    /\ ready[k] < Cap
    /\ ready' = [ready EXCEPT ![k] = @ + 1]
    /\ UNCHANGED <<pc, start, i, last>>

(* Every call starts at slot 0.                                            *)
Call ==
    /\ pc = "idle"
    /\ pc' = "scan"
    /\ start' = 0 /\ i' = 0
    /\ last' = None
    /\ UNCHANGED ready

Slot == IF start + i < N THEN start + i ELSE start + i - N

(* One try_recv.                                                           *)
Hit ==
    /\ pc = "scan" /\ i < N
    /\ ready[Slot] > 0
    /\ ready' = [ready EXCEPT ![Slot] = @ - 1]
    /\ last' = Slot
    /\ pc' = "idle"
    /\ UNCHANGED <<start, i>>

Miss ==
    /\ pc = "scan" /\ i < N
    /\ ready[Slot] = 0
    /\ i' = i + 1
    /\ UNCHANGED <<ready, pc, start, last>>

NextStart == IF start + 1 < N THEN start + 1 ELSE 0

\* mutant: the slot counter is not reset
RotateOnly ==
    /\ pc = "scan" /\ i = N
    /\ start' = NextStart
    /\ UNCHANGED <<ready, pc, i, last>>

Rotate ==
    /\ pc = "scan" /\ i = N
    /\ start' = NextStart /\ i' = 0
    /\ UNCHANGED <<ready, pc, last>>

Receiver == Call \/ Hit \/ Miss \/ Rotate

Next == (\E k \in Slots : Send(k)) \/ Receiver

(* The receiving thread keeps running; a sender owes nothing.              *)
Spec == Init /\ [][Next]_vars /\ WF_vars(Receiver)

-----------------------------------------------------------------------------
(* The scan implements the mailbox that services assume, liveness of the   *)
(* call included: a message that arrives behind the scan is found by the   *)
(* next one.                                                               *)
Box == INSTANCE Mailbox WITH waiting <- pc = "scan"
ImplementsMailbox == Box!MSpec

(* tok.rs, recv_any: "The scan starts at a rotating slot, so a peer that   *)
(* always has something ready cannot starve the ones after it."            *)
NoStarvation == \A k \in Slots : ready[k] > 0 ~> last = k
=============================================================================
