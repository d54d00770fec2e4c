------------------------------- MODULE Links -------------------------------
(***************************************************************************)
(* Two protocols, each on a token machine of its own: heartbeats on a      *)
(* reliable link (heartbeat.rs) and packets on one that may lose and       *)
(* repeat them (lossy.rs).  Either one service sends on both (compose.rs)  *)
(* or a monitor and a transmitter send on one each.  An action is one      *)
(* endpoint call with the assignments up to the next one; a Beat is its    *)
(* number and a Pkt its payload, the only field each has.                  *)
(***************************************************************************)
EXTENDS Integers, Sequences

CONSTANTS
    MaxSeq,     \* the largest u64
    Payloads,   \* the well-formed payloads (ok)
    MaxPkts     \* bound: packets transmitted, and packets taken

ASSUME SeqAssumption == MaxSeq \in Nat /\ MaxPkts \in Nat

VARIABLES
    layout,         \* "both": a BothLinks; "apart": a Monitor and a Transmitter
    seq, at,        \* the beating service's counter; where send_both stands
    v,              \* the payload the packets carry
    beats, heard,   \* sent and received on the heartbeat link
    pkts, caught,   \* sent and received on the lossy link
    handed,         \* two_increase: the witnesses of its receives so far
    latest          \* Watcher.last

linkVars == <<layout, seq, at, v, beats, heard, pkts, caught, handed, latest>>

LinkInit ==
    /\ layout \in {"both", "apart"}
    /\ seq = 0 /\ at = "ready"
    /\ v \in Payloads
    /\ beats = <<>> /\ heard = <<>> /\ pkts = <<>> /\ caught = <<>>
    /\ handed = <<>> /\ latest = 0

-----------------------------------------------------------------------------
(* The senders.                                                            *)

SeqKept == seq                          \* mutant: a number is used twice
NextSeq == IF seq = MaxSeq THEN 0 ELSE seq + 1

CanAlwaysBeat == TRUE                   \* mutant: goes on when the numbers run out
CanBeat       == seq < MaxSeq

(* beat_and_wait, or send_both up to its interference point: there the     *)
(* beat is out and the counter still has its number.                       *)
SendBeat ==
    /\ at = "ready" /\ CanBeat
    /\ beats' = Append(beats, seq)
    /\ IF layout = "both"
       THEN at' = "between" /\ UNCHANGED seq
       ELSE seq' = NextSeq /\ UNCHANGED at
    /\ UNCHANGED <<layout, v, heard, pkts, caught, handed, latest>>

SendPkt == pkts' = Append(pkts, v) /\ UNCHANGED <<layout, v, beats, heard, caught, handed, latest>>

SecondOfBoth == at = "between" /\ SendPkt /\ seq' = NextSeq /\ at' = "ready"

Transmit == layout = "apart" /\ Len(pkts) < MaxPkts /\ SendPkt /\ UNCHANGED <<seq, at>>

-----------------------------------------------------------------------------
(* The receivers.                                                          *)

BeatUnordered(i) == i \in 0 .. Len(beats) - 1   \* mutant: any position, again and again
BeatIsNext(i)    == i \in 0 .. Len(beats) - 1 /\ i = Len(heard)

HearBeat(i) ==
    /\ BeatIsNext(i)
    /\ heard' = Append(heard, beats[i + 1])
    /\ UNCHANGED <<layout, seq, at, v, beats, pkts, caught>>

(* Watcher::step.                                                          *)
WatcherStep(i) == HearBeat(i) /\ latest' = beats[i + 1] /\ handed' = <<>>

(* two_increase, one of its two receives: it blocks in either of them.     *)
WatcherPair(i) ==
    LET before == IF Len(handed) = 2 THEN <<>> ELSE handed
    IN HearBeat(i) /\ handed' = Append(before, <<i, beats[i + 1]>>) /\ UNCHANGED latest

(* receive_one: any packet on record, however often.                       *)
Catch(i) ==
    /\ Len(caught) < MaxPkts
    /\ i \in 0 .. Len(pkts) - 1
    /\ caught' = Append(caught, pkts[i + 1])
    /\ UNCHANGED <<layout, seq, at, v, beats, heard, pkts, handed, latest>>

LinkNext ==
    \/ SendBeat
    \/ SecondOfBoth
    \/ Transmit
    \/ \E i \in 0 .. Len(beats) - 1 : WatcherStep(i) \/ WatcherPair(i)
    \/ \E i \in 0 .. Len(pkts) - 1 : Catch(i)

LinkSpec == LinkInit /\ [][LinkNext]_linkVars

-----------------------------------------------------------------------------
(* The two protocols, and the machine of each.                             *)

HbLink    == [fam |-> 0, ix |-> <<>>]
LossyLink == [fam |-> 1, ix |-> <<>>]

HbGate(c, s, m) == \A x \in DOMAIN s : s[x] < m
PairGives(m1, m2) == m1 < m2
HbHistoryInv(h) ==
    \A x, y \in DOMAIN h[HbLink] : x < y => PairGives(h[HbLink][x], h[HbLink][y])

WellFormed(c, m)       == m \in Payloads
LossyGate(c, s, m)     == WellFormed(c, m)
InOrder(r, i)          == i = Len(r)
AnyPosition(r, i)      == TRUE
Anything(c, m)         == TRUE
NoCause(c, m)          == FALSE
CausedByNone(c, m, ws) == FALSE
NoHistoryInv(h)        == TRUE

OnRecord(c, s) == {<<c, i - 1, s[i]>> : i \in DOMAIN s}

HbNet == INSTANCE NetSM WITH
    Static <- {HbLink}, Fams <- {}, Parts <- {}, Msgs <- 0 .. MaxSeq,
    Gate <- HbGate, WitInv <- Anything, DeliverableAt <- InOrder,
    NeedsCause <- NoCause, CausedBy <- CausedByNone, HistoryInv <- HbHistoryInv,
    sent <- [c \in {HbLink} |-> beats], recvd <- [c \in {HbLink} |-> heard],
    was_sent <- OnRecord(HbLink, beats), next <- 0

LossyNet == INSTANCE NetSM WITH
    Static <- {LossyLink}, Fams <- {}, Parts <- {}, Msgs <- Payloads,
    Gate <- LossyGate, WitInv <- WellFormed, DeliverableAt <- AnyPosition,
    NeedsCause <- NoCause, CausedBy <- CausedByNone, HistoryInv <- NoHistoryInv,
    sent <- [c \in {LossyLink} |-> pkts], recvd <- [c \in {LossyLink} |-> caught],
    was_sent <- OnRecord(LossyLink, pkts), next <- 0

-----------------------------------------------------------------------------
(* Properties.                                                             *)

(* One service on two machines: whatever the other link does in between,   *)
(* each sees only steps of its own protocol, every send through its gate   *)
(* (compose.rs: "The two instances cannot interfere").                     *)
ImplementsMachines == HbNet!Spec /\ LossyNet!Spec

(* Seen from above, the heartbeat counts beats and remembers the last      *)
(* number, each above the one before, also when the numbers run out.       *)
Top == INSTANCE HbTop WITH
    Seqs <- 0 .. MaxSeq,
    count <- Len(beats),
    last <- IF beats = <<>> THEN 0 ELSE beats[Len(beats)]
ImplementsHbTop == Top!Spec

(* The watcher owns no history and compares nothing, yet the two beats it  *)
(* is handed come from two sends, the later one with the larger number     *)
(* (two_are_distinct, two_increase).                                       *)
WatcherKnows ==
    Len(handed) = 2 =>
      /\ handed[1][1] < handed[2][1]
      /\ PairGives(handed[1][2], handed[2][2])
=============================================================================
