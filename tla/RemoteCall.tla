----------------------------- MODULE RemoteCall -----------------------------
(***************************************************************************)
(* What a caller wants of a request and its answer: one atomic step that   *)
(* returns the value the other side serves, as often as the other side is  *)
(* there to answer.                                                        *)
(***************************************************************************)
EXTENDS Naturals

VARIABLES
    served,     \* the value the other side serves
    allowed,    \* calls both sides have turns for
    made,       \* calls that have returned
    answer      \* what the latest one returned

callVars == <<served, allowed, made, answer>>

Call ==
    /\ made < allowed
    /\ made' = made + 1
    /\ answer' = served
    /\ UNCHANGED <<served, allowed>>

Safe == made = 0 /\ [][Call]_callVars

Spec == Safe /\ WF_callVars(Call)
=============================================================================
