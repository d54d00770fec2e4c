----------------------------- MODULE LayersDemo -----------------------------
(***************************************************************************)
(* The heartbeat as the bottom of a stack (layer.rs: BottomLayer,          *)
(* heartbeat.rs: Layered) and the layer above it (layers_demo.rs).  The    *)
(* state below is the machine's, over any set of channels with the link    *)
(* among them; the state above is a count and the last number.             *)
(***************************************************************************)
EXTENDS Links

CONSTANT HbChans        \* the machine's channels

Beats == 0 .. MaxSeq

HbStates ==
    [sent : [HbChans -> Seq(Beats)], recvd : [HbChans -> Seq(Beats)],
     was_sent : SUBSET (HbChans \X Nat \X Beats)]

ChanActs == {"Send", "Recv"} \X HbChans

st_inv(s) == HbHistoryInv(s.sent)

(* The gate says what the layer above needs, of the link only.             *)
st_gate(a, req, s) ==
    a = <<"Send", HbLink>> => \A x \in DOMAIN s.sent[HbLink] : s.sent[HbLink][x] < req

do_send(c, m, s0, s1) ==
    /\ HbGate(c, s0.sent[c], m)
    /\ s1.sent = [s0.sent EXCEPT ![c] = Append(@, m)]
    /\ s1.was_sent = s0.was_sent \cup {<<c, Len(s0.sent[c]), m>>}
    /\ s1.recvd = s0.recvd

do_recv(c, m, s0, s1) ==
    /\ \E i \in Nat : <<c, i, m>> \in s0.was_sent /\ InOrder(s0.recvd[c], i)
    /\ s1.recvd = [s0.recvd EXCEPT ![c] = Append(@, m)]
    /\ s1.sent = s0.sent /\ s1.was_sent = s0.was_sent

st_step(a, req, resp, s0, s1) ==
    \/ a[1] = "Send" /\ do_send(a[2], req, s0, s1)
    \/ a[1] = "Recv" /\ do_recv(a[2], req, s0, s1)

(* Above.  A step may also be nothing: a send on another channel looks     *)
(* like a beat to abs_act, which sees the action and not its effect.       *)
top_inv(s)          == TRUE
top_gate(a, req, s) == s.count > 0 => s.last < req
top_step(a, req, resp, s0, s1) ==
    s1 = s0 \/ s1 = [count |-> s0.count + 1, last |-> req]

last_of(h)    == IF Len(h) > 0 THEN h[Len(h)] ELSE 0
hb_state(s)   == [count |-> Len(s.sent[HbLink]), last |-> last_of(s.sent[HbLink])]
hb_msg(m)     == m
hb_act(a)     == "Beat"
hb_hidden(a)  == a[1] = "Recv"

HbR == INSTANCE Layers WITH
    LoStates <- HbStates, LoActs <- ChanActs, LoMsgs <- Beats,
    LoInv <- st_inv, LoGate <- st_gate, LoStep <- st_step,
    HiInv <- top_inv, HiGate <- top_gate, HiStep <- top_step,
    abs_state <- hb_state, abs_msg <- hb_msg, hidden <- hb_hidden, abs_act <- hb_act
=============================================================================
