---------------------------- MODULE LeaseSystem ----------------------------
(***************************************************************************)
(* The lease lock deployed: each service is driven for a fixed number of   *)
(* turns by `run`, as deploy_lease in lease_system.rs does it with one     *)
(* writer.  Larger deployments use the turns as bounds.                    *)
(***************************************************************************)
EXTENDS LeaseLock

CONSTANT
    Turns       \* Turns[n]: turns of server, storage node and each writer

ASSUME TurnsAssumption ==
    Turns \in [1 .. MaxWriters -> [server : Nat, storage : Nat, writer : Nat]]

VARIABLES served, stored, driven    \* turns begun (writers: completed) so far

sysVars == <<vars, served, stored, driven>>

SysInit == Init /\ served = 0 /\ stored = 0 /\ driven = All(0)

RunServer ==
    /\ served < Turns[size].server
    /\ ServerStep
    /\ served' = served + 1
    /\ UNCHANGED <<stored, driven>>

RunStorage ==
    /\ \/ /\ stored < Turns[size].storage
          /\ \E w \in Writers : StorageRecv(w)
          /\ stored' = stored + 1
       \/ StorageReply /\ UNCHANGED stored
    /\ UNCHANGED <<served, driven>>

RunWriter(w) ==
    /\ w \in Writers
    /\ driven[w] < Turns[size].writer
    /\ WriterStep(w)
    /\ driven' = IF wpc'[w] = "tick" THEN [driven EXCEPT ![w] = @ + 1] ELSE driven
    /\ UNCHANGED <<served, stored>>

SysNext == RunServer \/ RunStorage \/ \E w \in Ids : RunWriter(w)

(* Three kinds of thread, each running as long as it has something to do.  *)
SysSpec ==
    /\ SysInit /\ [][SysNext]_sysVars
    /\ WF_sysVars(RunServer) /\ WF_sysVars(RunStorage)
    /\ \A w \in Ids : WF_sysVars(RunWriter(w))

-----------------------------------------------------------------------------
Finished ==
    /\ served = Turns[size].server
    /\ stored = Turns[size].storage /\ owes.to = Nobody
    /\ \A w \in Writers : driven[w] = Turns[size].writer

Drained ==
    \A w \in Writers : /\ acq_req[w] = 0
                       /\ nRsp[w] = Len(acq_rsp[w])
                       /\ nReq[w] = Len(wr_req[w])
                       /\ nAck[w] = Len(wr_rsp[w])

(* deploy_lease: with one writer every service finishes its turns, every   *)
(* message sent has been received (so none went to a service that had      *)
(* exited), and the function returns TRUE.                                 *)
DeployLeaseReturns == size = 1 ~> Finished /\ Drained /\ last_ok[0]

(* leaselock.rs:13-16: "an earlier writer's token can be superseded while  *)
(* it still believes it holds the lock, and its next write is then refused *)
(* by the storage node".                                                   *)
SupersededIsRefused ==
    \A w \in Ids, t \in 1 .. MaxToken, q \in 0 .. MaxSeq :
      [](token[w] = t /\ t < hi /\ seq[w] = q /\ phase[w] = "Holding"
           => [](Write(t, q) \notin Range(journal)))
=============================================================================
