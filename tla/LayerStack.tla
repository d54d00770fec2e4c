----------------------------- MODULE LayerStack -----------------------------
(***************************************************************************)
(* Three layers A, B and C, the first mapped into the second by R1 and the *)
(* second into the third by R2 (abs_act2, refines_trans and inv_trans of   *)
(* layer.rs).                                                              *)
(***************************************************************************)

CONSTANTS
    AStates, AActs, AMsgs, AInv(_), AGate(_, _, _), AStep(_, _, _, _, _),
    BStates, BActs, BMsgs, BInv(_), BGate(_, _, _), BStep(_, _, _, _, _),
    CInv(_), CGate(_, _, _), CStep(_, _, _, _, _),
    state1(_), msg1(_), hidden1(_), act1(_),
    state2(_), msg2(_), hidden2(_), act2(_)

R1 == INSTANCE Layers WITH
    LoStates <- AStates, LoActs <- AActs, LoMsgs <- AMsgs,
    LoInv <- AInv, LoGate <- AGate, LoStep <- AStep,
    HiInv <- BInv, HiGate <- BGate, HiStep <- BStep,
    abs_state <- state1, abs_msg <- msg1, hidden <- hidden1, abs_act <- act1

R2 == INSTANCE Layers WITH
    LoStates <- BStates, LoActs <- BActs, LoMsgs <- BMsgs,
    LoInv <- BInv, LoGate <- BGate, LoStep <- BStep,
    HiInv <- CInv, HiGate <- CGate, HiStep <- CStep,
    abs_state <- state2, abs_msg <- msg2, hidden <- hidden2, abs_act <- act2

abs_state2(s) == state2(state1(s))
abs_msg2(m)   == msg2(msg1(m))

(* An action is invisible at the top if it is invisible at either step.    *)
invisible2(a) == hidden1(a) \/ hidden2(act1(a))
abs_act2(a)   == act2(act1(a))

Stack == INSTANCE Layers WITH
    LoStates <- AStates, LoActs <- AActs, LoMsgs <- AMsgs,
    LoInv <- AInv, LoGate <- AGate, LoStep <- AStep,
    HiInv <- CInv, HiGate <- CGate, HiStep <- CStep,
    abs_state <- abs_state2, abs_msg <- abs_msg2, hidden <- invisible2, abs_act <- abs_act2

(* R1 maps into the layer R2 starts from.                                  *)
Mapped ==
    /\ \A s \in AStates : state1(s) \in BStates
    /\ \A m \in AMsgs : msg1(m) \in BMsgs
    /\ \A a \in AActs : ~hidden1(a) => act1(a) \in BActs

(* What the middle gate is needed for: actions seen there and not above.   *)
MiddleSafe(a, req, s) ==
    ~hidden1(a) /\ hidden2(act1(a)) => BGate(act1(a), msg1(req), state1(s))
=============================================================================
