----------------------------- MODULE Collector -----------------------------
(***************************************************************************)
(* Many producers, one consumer (collector.rs): a channel per producer,    *)
(* each turn of a producer two sends on it, and a consumer that takes      *)
(* whatever turns up by recv_any, here the scan of RecvAny with messages   *)
(* in the channels it counts.  Slot w is producer w's channel.             *)
(***************************************************************************)
EXTENDS RecvAny, Sequences

VARIABLES
    queue,      \* queue[w]: items under way
    turn,       \* turn[w]: which of its two sends producer w does next
    taken       \* Consumer.last, with the producer it came from

itemVars == <<queue, turn, taken>>
collectorVars == <<vars, itemVars>>

CollectorInit ==
    /\ Init
    /\ queue = [w \in Slots |-> <<>>]
    /\ turn = [w \in Slots |-> 1]
    /\ taken = <<None, 0>>

FirstAgain(w) == 1          \* mutant: produce sends v1 twice
ItemOf(w)     == turn[w]

(* One send of produce: v1, then v2.                                       *)
ProduceOne(w) ==
    /\ Send(w)
    /\ queue' = [queue EXCEPT ![w] = Append(@, <<w, ItemOf(w)>>)]
    /\ turn' = [turn EXCEPT ![w] = 3 - @]
    /\ UNCHANGED taken

(* collect_one, from the call of recv_any to the probe that finds an item. *)
Scan == (Call \/ Miss \/ Rotate) /\ UNCHANGED itemVars

CollectOne ==
    /\ Hit
    /\ taken' = Head(queue[Slot])
    /\ queue' = [queue EXCEPT ![Slot] = Tail(@)]
    /\ UNCHANGED turn

Consumer == Scan \/ CollectOne

CollectorNext == Consumer \/ \E w \in Slots : ProduceOne(w)

(* The consumer keeps running, and a producer that has begun a turn ends   *)
(* it; nobody has to begin one.                                            *)
SecondSend(w) == turn[w] = 2 /\ ProduceOne(w)
CollectorFairness ==
    /\ WF_collectorVars(Consumer)
    /\ \A w \in Slots : WF_collectorVars(SecondSend(w))

CollectorSpec == CollectorInit /\ [][CollectorNext]_collectorVars /\ CollectorFairness

-----------------------------------------------------------------------------
(* produce: "Two left movers in sequence: one atomic block, no             *)
(* interference point."  The consumer can be anywhere in its scan between  *)
(* the two sends and may already have taken the first item; still, what it *)
(* collects is what it would with atomic turns, each producer's items in   *)
(* order, none lost or doubled, and something is always collected.         *)
Atomic == INSTANCE Hub WITH
    Producers <- Slots,
    line <- [w \in Slots |-> IF turn[w] = 2 THEN Append(queue[w], <<w, 2>>) ELSE queue[w]]
ProduceIsAtomic == Atomic!Spec
=============================================================================
