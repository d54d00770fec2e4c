--------------------------- MODULE TwoPhaseFanout ---------------------------
(***************************************************************************)
(* The two-phase commit that runs: twophase_fanout.rs as system.rs deploys *)
(* it, one thread per participant.  The coordinator asks everyone without  *)
(* waiting and stops collecting at the first No, so the votes behind it    *)
(* stay in their channels.  deploy takes one turn of every service;        *)
(* several turns are what Process::step is for.                            *)
(***************************************************************************)
EXTENDS Naturals, Sequences, FiniteSets

CONSTANTS MaxParts, MaxRounds   \* bounds: participants, turns of each service

ASSUME SizeAssumption == MaxParts \in Nat \ {0} /\ MaxRounds \in Nat \ {0}

VARIABLES
    size, vote,         \* the deployment: how many participants, their votes
    rounds, done,       \* turns of each service, coordinator's turns finished
    prep, taken,        \* req_chan(j): Prepares sent, Prepares received
    rsp, got,           \* rsp_chan(j): votes sent, how many were received
    asked,              \* run_round: i of the broadcast
    slot, all_yes,      \* run_round: k, all_yes
    committed,
    joined              \* participants joined, the last one first

vars == <<size, vote, rounds, done, prep, taken, rsp, got,
          asked, slot, all_yes, committed, joined>>

Parts == 0 .. size - 1

Init ==
    /\ size \in 1 .. MaxParts /\ rounds \in 1 .. MaxRounds
    /\ vote \in [0 .. size - 1 -> BOOLEAN]
    /\ prep = [j \in Parts |-> 0] /\ taken = [j \in Parts |-> 0]
    /\ rsp = [j \in Parts |-> <<>>] /\ got = [j \in Parts |-> 0]
    /\ done = 0 /\ asked = 0 /\ slot = 0 /\ all_yes = TRUE
    /\ committed = FALSE /\ joined = 0

-----------------------------------------------------------------------------
(* A participant's thread ends with its last turn, and its endpoints go    *)
(* with it.  Those of the coordinator live until deploy returns.           *)
Running(j) == Len(rsp[j]) < rounds

(* Participant::step: block for the request, then answer with its vote.    *)

RecvPrepare(j) ==
    /\ Running(j) /\ taken[j] = Len(rsp[j])
    /\ taken[j] < prep[j]
    /\ taken' = [taken EXCEPT ![j] = @ + 1]
    /\ UNCHANGED <<size, vote, rounds, done, prep, rsp, got, asked, slot, all_yes, committed, joined>>

VoteAnyway(j) == Len(rsp[j]) < rounds   \* mutant: vote without being asked
MayVote(j)    == taken[j] > Len(rsp[j])

SendVote(j) ==
    /\ MayVote(j)
    /\ rsp' = [rsp EXCEPT ![j] = Append(@, vote[j])]
    /\ UNCHANGED <<size, vote, rounds, done, prep, taken, got, asked, slot, all_yes, committed, joined>>

Participant(j) == RecvPrepare(j) \/ SendVote(j)

-----------------------------------------------------------------------------
(* Coordinator::run_round.                                                 *)

AllButLast == size - 1                  \* mutant: the broadcast ends early
Everyone   == size

(* Phase 1: FanOut::send, slot by slot, no waiting.  A send to a thread    *)
(* that has ended panics, and deploy goes no further.                      *)
Broadcast ==
    /\ done < rounds /\ asked < Everyone
    /\ Running(asked)
    /\ prep' = [prep EXCEPT ![asked] = @ + 1]
    /\ asked' = asked + 1
    /\ UNCHANGED <<size, vote, rounds, done, taken, rsp, got, slot, all_yes, committed, joined>>

MoreVotes == slot < size                \* mutant: no early exit, the last vote decides
More      == slot < size /\ all_yes

(* Phase 2: FanIn::recv in slot order.                                     *)
Collect ==
    /\ done < rounds /\ asked = Everyone /\ More
    /\ got[slot] < Len(rsp[slot])
    /\ all_yes' = rsp[slot][got[slot] + 1]
    /\ got' = [got EXCEPT ![slot] = @ + 1]
    /\ slot' = slot + 1
    /\ UNCHANGED <<size, vote, rounds, done, prep, taken, rsp, asked, committed, joined>>

SlotKept  == slot                       \* mutant: the next turn goes on where this one stopped
FirstSlot == 0

Finish ==
    /\ done < rounds /\ asked = Everyone /\ ~More
    /\ committed' = all_yes
    /\ done' = done + 1
    /\ asked' = 0 /\ slot' = FirstSlot /\ all_yes' = TRUE
    /\ UNCHANGED <<size, vote, rounds, prep, taken, rsp, got, joined>>

(* deploy, part 4: handles.pop(), join.                                    *)
Join ==
    /\ done = rounds /\ joined < size
    /\ ~Running(size - 1 - joined)
    /\ joined' = joined + 1
    /\ UNCHANGED <<size, vote, rounds, done, prep, taken, rsp, got, asked, slot, all_yes, committed>>

Coordinator == Broadcast \/ Collect \/ Finish \/ Join

Next == Coordinator \/ \E j \in Parts : Participant(j)

(* Every thread is scheduled; a blocked recv or join is not enabled.       *)
Spec == Init /\ [][Next]_vars
FairSpec ==
    /\ Spec /\ WF_vars(Coordinator)
    /\ \A j \in 0 .. MaxParts - 1 : WF_vars(j \in Parts /\ Participant(j))

-----------------------------------------------------------------------------
(* Properties.                                                             *)

(* A turn commits exactly when everyone votes yes: the votes an earlier    *)
(* turn left in their channels cannot tip a later one.                     *)
CommitIffAllYes == done > 0 => (committed <=> \A j \in Parts : vote[j])

(* A turn that committed heard everyone in that very turn: nothing asked is*)
(* unanswered and no vote of any turn is left in a channel.                *)
CommitIsFresh ==
    committed /\ asked = 0 =>
      \A j \in Parts : prep[j] = done /\ taken[j] = done /\ Len(rsp[j]) = done /\ got[j] = done

(* Asking everyone and collecting is one remote call after the other; the  *)
(* request that a call starts with may be long under way by then.          *)
Received == {v \in Parts \X (1 .. rounds) : v[2] <= got[v[1]]}
Calls == INSTANCE TwoPhase WITH next <- Cardinality(Received)
ImplementsCalls == Calls!FairSpec

(* The deployment ends: every thread is joined, those too whose votes      *)
(* nobody waited for, and no request is sent to one that has ended.        *)
EveryoneJoined == <>(joined = size)
=============================================================================
