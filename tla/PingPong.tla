------------------------------ MODULE PingPong ------------------------------
(***************************************************************************)
(* A request and its answer (pingpong.rs), in the two conventions the      *)
(* repository has for it.  "driven": Initiator and Responder are handlers  *)
(* that a Driven runs turn by turn, tick, blocking receive, handle.        *)
(* "rpc": the caller uses Out::call, which sends the request, performs the *)
(* handler's answer on the token machine (absorb_handler) and receives.    *)
(* A channel is its queue and the values of its two tokens.                *)
(***************************************************************************)
EXTENDS Naturals, Sequences

CONSTANTS
    Values,     \* the well-formed payloads (ok)
    MaxTurns    \* bound: turns of each service

ASSUME TurnsAssumption == MaxTurns \in Nat

VARIABLES
    style,          \* "driven" or "rpc"
    turns,          \* rounds of run, for each of the two services
    val,            \* Responder.val
    ping, pong,     \* the two channels
    stage,          \* the initiator's turn: at "tick", or blocked in "recv"
    waiting, got, seen,     \* Initiator
    reply_cap       \* the caller of rpc still has the answer's send token

ppVars == <<style, turns, val, ping, pong, stage, waiting, got, seen, reply_cap>>

NewChannel == [hist |-> <<>>, rhist |-> <<>>, queue |-> <<>>]

Put(ch, m) == [ch EXCEPT !.hist = Append(@, m), !.queue = Append(@, m)]
Take(ch)   == [ch EXCEPT !.rhist = Append(@, Head(ch.queue)), !.queue = Tail(@)]

\* mutant: the answer reaches the queue as well
AbsorbAndQueue(ch, m) == Put(ch, m)
Absorb(ch, m)         == [ch EXCEPT !.hist = Append(@, m)]

PingPongInit ==
    /\ style \in {"driven", "rpc"}
    /\ turns \in [initiator : 0 .. MaxTurns, responder : 0 .. MaxTurns]
    /\ val \in Values /\ seen \in Values
    /\ ping = NewChannel /\ pong = NewChannel
    /\ stage = "tick" /\ waiting = FALSE /\ got = FALSE
    /\ reply_cap = (style = "rpc")

-----------------------------------------------------------------------------
(* The initiator.  A turn ends with the answer it has received.            *)

AtTick == stage = "tick" /\ Len(pong.rhist) < turns.initiator

(* tick.                                                                   *)
Tick ==
    /\ AtTick /\ style = "driven"
    /\ ping' = IF waiting THEN ping ELSE Put(ping, "Ping")
    /\ waiting' = TRUE
    /\ stage' = "recv"
    /\ UNCHANGED <<style, turns, val, pong, got, seen, reply_cap>>

(* rpc up to its receive.  The caller performs the handler's send, of any  *)
(* answer the gate lets through, with the token it took from the channel.  *)
RpcSend(m) ==
    /\ AtTick /\ style = "rpc" /\ reply_cap
    /\ ping' = Put(ping, "Ping")
    /\ pong' = Absorb(pong, m)
    /\ reply_cap' = FALSE
    /\ stage' = "recv"
    /\ UNCHANGED <<style, turns, val, waiting, got, seen>>

StillWaiting == waiting     \* mutant: handle leaves the flag set
Answered     == FALSE

(* The blocking receive and handle; in rpc, recv_abs.                      *)
Receive ==
    /\ stage = "recv" /\ pong.queue # <<>>
    /\ pong' = Take(pong)
    /\ seen' = Head(pong.queue) /\ got' = TRUE
    /\ waiting' = Answered
    /\ stage' = "tick"
    /\ UNCHANGED <<style, turns, val, ping, reply_cap>>

(* The responder: tick does nothing, handle answers.  Without the reply    *)
(* channel's send token there is no Out to answer with.                    *)
Respond ==
    /\ Len(ping.rhist) < turns.responder
    /\ ping.queue # <<>>
    /\ ping' = Take(ping)
    /\ pong' = IF style = "rpc" THEN pong ELSE Put(pong, val)
    /\ UNCHANGED <<style, turns, val, stage, waiting, got, seen, reply_cap>>

Initiator == Tick \/ Receive \/ \E m \in Values : RpcSend(m)

PingPongNext == Initiator \/ Respond

(* Both threads are scheduled; a blocked receive is not enabled.           *)
PingPongFairness == WF_ppVars(Initiator) /\ WF_ppVars(Respond)
PingPongSpec == PingPongInit /\ [][PingPongNext]_ppVars /\ PingPongFairness

-----------------------------------------------------------------------------
(* Properties.                                                             *)

Lesser(a, b) == IF a < b THEN a ELSE b

(* A tick that sends and a handle that receives, with an interference point*)
(* in the middle, are to their caller one atomic call that returns the     *)
(* served value, and every turn for which the responder has one returns.   *)
(* A call by rpc never does: its caller is in for zero calls.              *)
Remote == INSTANCE RemoteCall WITH
    served  <- val,
    allowed <- IF style = "rpc" THEN 0 ELSE Lesser(turns.initiator, turns.responder),
    made    <- Len(pong.rhist),
    answer  <- IF got THEN seen ELSE val
ImplementsCall == Remote!Spec

(* absorb_handler: "a program built this way would block on a real queue   *)
(* forever".  The machine has the answer on record at the very position    *)
(* the caller may receive next, which is why recv_abs "cannot block", and  *)
(* the queue it blocks on stays empty, whoever took the request.           *)
RpcBlocks ==
    style = "rpc" /\ stage = "recv" =>
      /\ Len(pong.hist) > Len(pong.rhist) /\ pong.hist[Len(pong.rhist) + 1] \in Values
      /\ pong.queue = <<>>
=============================================================================
