---------------------------- MODULE ChangRoberts ----------------------------
(***************************************************************************)
(* Leader election on a ring (chang_roberts.rs): a node forwards what is   *)
(* larger than its own identifier, drops what is smaller, and leads when   *)
(* its own identifier comes back.  A node only reacts; whoever starts an   *)
(* election puts a node's identifier on its link, as the gate allows.      *)
(* Receiving is the only interference point, so a step is one action.      *)
(***************************************************************************)
EXTENDS Naturals, Sequences

CONSTANTS
    MaxNodes,   \* bound: nodes on the ring
    MaxStarts   \* bound: elections started for each node

ASSUME RingAssumption == MaxNodes \in Nat \ {0} /\ MaxStarts \in Nat

VARIABLES
    size, id,   \* ring_config: the ring and its identifiers
    link,       \* link[j]: under way from j to the next node
    starts,     \* elections started
    leader

vars == <<size, id, link, starts, leader>>

Nodes == 0 .. size - 1

Pred(i) == IF i = 0 THEN size - 1 ELSE i - 1

Elect(v, o, h) == [val |-> v, origin |-> o, hops |-> h]

Init ==
    /\ size \in 1 .. MaxNodes
    /\ id \in [0 .. size - 1 -> 1 .. size]
    /\ \A a, b \in Nodes : id[a] = id[b] => a = b
    /\ link = [j \in Nodes |-> <<>>]
    /\ starts = [j \in Nodes |-> 0]
    /\ leader = [j \in Nodes |-> FALSE]

Start(o) ==
    /\ starts[o] < MaxStarts
    /\ starts' = [starts EXCEPT ![o] = @ + 1]
    /\ link' = [link EXCEPT ![o] = Append(@, Elect(id[o], o, 0))]
    /\ UNCHANGED <<size, id, leader>>

ForwardsAny(v, i)  == v # id[i]     \* mutant: smaller identifiers are not dropped
ForwardsOwn(v, i)  == v >= id[i]    \* mutant: a node forwards its own identifier
ForwardsFar(v, i)  == v > id[i] + 1 \* mutant: off by one
Forwards(v, i)     == v > id[i]

HopsKept(m) == m.hops               \* mutant: a hop is not counted
NextHop(m)  == m.hops + 1

(* cr_step and step.                                                       *)
CrStep(i) ==
    LET p == Pred(i)
        m == Head(link[p])
        rest == [link EXCEPT ![p] = Tail(@)]
    IN  /\ link[p] # <<>>
        /\ link' = IF Forwards(m.val, i)
                   THEN [rest EXCEPT ![i] = Append(@, Elect(m.val, m.origin, NextHop(m)))]
                   ELSE rest
        /\ leader' = [leader EXCEPT ![i] = @ \/ (~Forwards(m.val, i) /\ m.val = id[i])]
        /\ UNCHANGED <<size, id, starts>>

Next == \E i \in Nodes : Start(i) \/ CrStep(i)

(* A node whose predecessor has sent something is scheduled.  Nobody has to*)
(* start an election.                                                      *)
Spec == Init /\ [][Next]_vars
FairSpec == Spec /\ \A i \in 0 .. MaxNodes - 1 : WF_vars(i \in Nodes /\ CrStep(i))

-----------------------------------------------------------------------------
(* Properties.                                                             *)

IsMax(i) == \A p \in Nodes : id[i] >= id[p]

(* Whichever elections run at once, only the largest identifier leads, so  *)
(* there is never a second leader.                                         *)
OnlyMaxLeads == \A i \in Nodes : leader[i] => IsMax(i)

(* msg_ok: a message says how far it has come from its origin, and its     *)
(* identifier is larger than those of the nodes it has passed.             *)
msg_ok(j, m) ==
    /\ m.origin \in Nodes /\ m.val = id[m.origin]
    /\ j = (m.origin + m.hops) % size
    /\ \A k \in 0 .. m.hops : m.val >= id[(m.origin + k) % size]

MsgOk == \A j \in Nodes : \A n \in DOMAIN link[j] : msg_ok(j, link[j][n])

(* An election started for the largest identifier makes it the leader.     *)
Elected ==
    \A i \in 0 .. MaxNodes - 1 :
      (i \in Nodes /\ starts[i] > 0 /\ IsMax(i)) ~> (i \in Nodes /\ leader[i])

(* No message outlives a lap, the leader's own included: the link into its *)
(* origin is the last it is on, so every election falls silent.            *)
OneLap == \A j \in Nodes : \A n \in DOMAIN link[j] : link[j][n].hops < size
=============================================================================
