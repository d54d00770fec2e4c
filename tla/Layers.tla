------------------------------- MODULE Layers -------------------------------
(***************************************************************************)
(* What it is for one layer to refine another (layer.rs).  A layer is a    *)
(* gated transition system: states, actions, messages, an invariant, a     *)
(* gate (where an action must not fail) and a step (what it may do).  The  *)
(* two layers share nothing; the mapping abs_state, abs_act, abs_msg says  *)
(* how the lower one looks from above.                                     *)
(***************************************************************************)

CONSTANTS
    LoStates, LoActs, LoMsgs,
    LoInv(_), LoGate(_, _, _), LoStep(_, _, _, _, _),
    HiInv(_), HiGate(_, _, _), HiStep(_, _, _, _, _),
    abs_state(_), abs_msg(_),
    hidden(_), abs_act(_)   \* hidden(a): a is a stutter above, or else abs_act(a)

SafeAbove(a, req, s) == ~hidden(a) => HiGate(abs_act(a), abs_msg(req), abs_state(s))

StepAbove(a, req, resp, s0, s1) ==
    IF hidden(a) THEN abs_state(s1) = abs_state(s0)
    ELSE HiStep(abs_act(a), abs_msg(req), abs_msg(resp), abs_state(s0), abs_state(s1))

(* Raising a layer may only forget detail, never assume more.              *)
KeepsInv == \A s \in LoStates : LoInv(s) => HiInv(abs_state(s))

(* Wherever the abstraction is safe the implementation is too.             *)
KeepsGates ==
    \A a \in LoActs, req \in LoMsgs, s \in LoStates :
      LoInv(s) /\ ~hidden(a) /\ SafeAbove(a, req, s) => LoGate(a, req, s)

(* Where the abstract action is safe, every step is one of its steps.      *)
KeepsSteps ==
    \A a \in LoActs, req, resp \in LoMsgs, s0, s1 \in LoStates :
      LoInv(s0) /\ LoStep(a, req, resp, s0, s1) /\ SafeAbove(a, req, s0)
        => StepAbove(a, req, resp, s0, s1)

Refines == KeepsInv /\ KeepsGates /\ KeepsSteps
=============================================================================
