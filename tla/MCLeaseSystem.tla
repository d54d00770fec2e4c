--------------------------- MODULE MCLeaseSystem ---------------------------
(* Lease-lock deployments for TLC: deploy_lease, and two to four writers,  *)
(* the last to ask for one token more than there are.                      *)
EXTENDS LeaseSystem

DeployLease  == [server |-> 1, storage |-> 4, writer |-> 5]
TwoWriters   == [server |-> 5, storage |-> 6, writer |-> 6]
ThreeWriters == [server |-> 5, storage |-> 4, writer |-> 4]
FourWriters  == [server |-> 4, storage |-> 1, writer |-> 2]

MCTurns == <<DeployLease, TwoWriters, ThreeWriters, FourWriters>>
MCTurnsTwo == <<DeployLease, TwoWriters>>
=============================================================================
