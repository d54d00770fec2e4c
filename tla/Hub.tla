-------------------------------- MODULE Hub --------------------------------
(***************************************************************************)
(* The collector as its comments describe it: a producer's turn is one     *)
(* atomic step, and the consumer takes the next item of any producer.      *)
(***************************************************************************)
EXTENDS Naturals, Sequences

CONSTANT Producers

VARIABLES
    line,       \* line[w]: what w has produced and nobody has collected
    taken       \* the item collected last

hubVars == <<line, taken>>

Produce(w) ==
    /\ line' = [line EXCEPT ![w] = @ \o <<<<w, 1>>, <<w, 2>>>>]
    /\ UNCHANGED taken

Collect(w) ==
    /\ line[w] # <<>>
    /\ taken' = Head(line[w])
    /\ line' = [line EXCEPT ![w] = Tail(@)]

Safe ==
    /\ line = [w \in Producers |-> <<>>]
    /\ [][\E w \in Producers : Produce(w) \/ Collect(w)]_hubVars

Spec == Safe /\ WF_hubVars(\E w \in Producers : Collect(w))
=============================================================================
