----------------------------- MODULE MCExamples -----------------------------
(***************************************************************************)
(* The small examples of the library on one run: the collector on its      *)
(* mailbox, the two links, and ping-pong.  A behaviour is one of them,     *)
(* with the others at rest in a state in which nothing is asked of them.   *)
(***************************************************************************)
EXTENDS Collector, Links, PingPong

VARIABLE demo

mcVars == <<demo, collectorVars, linkVars, ppVars>>

OnePayload == CHOOSE p \in Payloads : TRUE
OneValue   == CHOOSE p \in Values : TRUE

MCInit ==
    /\ demo \in {"collector", "links", "pingpong"}
    /\ CollectorInit /\ LinkInit /\ PingPongInit
    /\ demo # "links" => layout = "apart" /\ v = OnePayload
    /\ demo # "pingpong" =>
         /\ style = "driven" /\ val = OneValue /\ seen = OneValue
         /\ turns = [initiator |-> 0, responder |-> 0]

RunCollector == demo = "collector" /\ CollectorNext /\ UNCHANGED <<demo, linkVars, ppVars>>
RunLinks     == demo = "links" /\ LinkNext /\ UNCHANGED <<demo, collectorVars, ppVars>>
RunPingPong  == demo = "pingpong" /\ PingPongNext /\ UNCHANGED <<demo, collectorVars, linkVars>>

MCSpec ==
    /\ MCInit
    /\ [][RunCollector \/ RunLinks \/ RunPingPong]_mcVars
    /\ demo = "collector" => CollectorFairness
    /\ demo = "pingpong" => PingPongFairness
=============================================================================
