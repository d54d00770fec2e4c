----------------------------- MODULE Endpoints -----------------------------
(***************************************************************************)
(* The run-time under NetSM: queues made by make_endpoints, tokens held by *)
(* the two ends of a channel, witnesses held by threads.  The threads do   *)
(* anything the endpoint API lets them do (Out, In, open_channel and       *)
(* open_new_channel of proc.rs); endpoints are never dropped here.         *)
(*                                                                         *)
(* That the queues behave as the machine says is what the repository takes *)
(* on trust; here it is a refinement.                                      *)
(***************************************************************************)
EXTENDS Naturals, Sequences, FiniteSets

CONSTANTS
    Static, Fams, Parts, Msgs,
    Gate(_, _, _), WitInv(_, _), DeliverableAt(_, _),
    NeedsCause(_, _), CausedBy(_, _, _), HistoryInv(_),
    Threads,
    Sender(_), Receiver(_),     \* the threads a boot channel's ends go to
    Allocator,                  \* the thread that holds the allocator token
    MaxSends, MaxChannels       \* bounds: messages sent, channels allocated

ASSUME WiringAssumption ==
    /\ Allocator \in Threads
    /\ \A c \in Static : {Sender(c), Receiver(c)} \subseteq Threads
ASSUME BootAssumption   == \A c \in Static : ~(Len(c.ix) = 2 /\ c.ix[2] \in Nat)

DynChan(f, j, k) == [fam |-> f, ix |-> <<j, k>>]

VARIABLES
    tokens,     \* channels whose two tokens are still in the boot maps
    queues,     \* queues[c]: the queues make_endpoints made for c
    hist,       \* hist[c]: value of c's send token
    rhist,      \* rhist[c]: value of c's receive token
    owner,      \* owner[c]: the threads that hold the two ends
    know,       \* know[t]: the witnesses thread t holds
    next        \* value of the allocator token

vars == <<tokens, queues, hist, rhist, owner, know, next>>

Channels == DOMAIN hist

Init ==
    /\ tokens = Static
    /\ queues = [c \in Static |-> <<>>]
    /\ hist   = [c \in Static |-> <<>>]
    /\ rhist  = [c \in Static |-> <<>>]
    /\ owner  = [c \in Static |-> [tx |-> Sender(c), rx |-> Receiver(c)]]
    /\ know   = [t \in Threads |-> {}]
    /\ next = 0

(* make_endpoints: a fresh queue with every call.                          *)
MakeEndpoints(qs, c) == [qs EXCEPT ![c] = Append(@, <<>>)]

TokensKept(c) == tokens             \* mutant: opening a channel gives its tokens back
TokensLeft(c) == tokens \ {c}

OpenChannel(c) ==
    /\ c \in tokens
    /\ queues' = MakeEndpoints(queues, c)
    /\ tokens' = TokensLeft(c)
    /\ UNCHANGED <<hist, rhist, owner, know, next>>

(* make_endpoints called as it stands: it returns the tokens it was given, *)
(* with the same key, so the caller still meets its precondition.          *)
CallMakeEndpoints(c) ==
    /\ c \in tokens
    /\ queues' = MakeEndpoints(queues, c)
    /\ UNCHANGED <<tokens, hist, rhist, owner, know, next>>

With(f, c, x) == [d \in DOMAIN f \cup {c} |-> IF d = c THEN x ELSE f[d]]

NextKept    == next                 \* mutant: the allocator repeats a name
NextChannel == next + 1

OldQueues(c) == IF c \in DOMAIN queues THEN queues[c] ELSE <<>>

(* mint and open_new_channel: both ends stay with the thread that asked.   *)
OpenNewChannel(f, j) ==
    /\ next < MaxChannels
    /\ next' = NextChannel
    /\ LET c == DynChan(f, j, next)
       IN /\ queues' = MakeEndpoints(With(queues, c, OldQueues(c)), c)
          /\ hist'   = With(hist, c, <<>>)
          /\ rhist'  = With(rhist, c, <<>>)
          /\ owner'  = With(owner, c, [tx |-> Allocator, rx |-> Allocator])
    /\ UNCHANGED <<tokens, know>>

Sends == UNION {{<<c, i>> : i \in DOMAIN hist[c]} : c \in Channels}

\* mutant: a send need not point at anything
JustifiedAnyhow(t, c, m) == TRUE
Justified(t, c, m) ==
    NeedsCause(c, m) => \E causes \in SUBSET know[t] : CausedBy(c, m, causes)

Send(c, q, m) ==
    /\ Cardinality(Sends) < MaxSends
    /\ q \in DOMAIN queues[c]
    /\ Gate(c, hist[c], m)
    /\ Justified(owner[c].tx, c, m)
    /\ queues' = [queues EXCEPT ![c][q] = Append(@, m)]
    /\ hist' = [hist EXCEPT ![c] = Append(@, m)]
    /\ know' = [know EXCEPT ![owner[c].tx] = @ \cup {<<c, Len(hist[c]), m>>}]
    /\ UNCHANGED <<tokens, rhist, owner, next>>

(* The receiver is handed a witness for the next position of the history,  *)
(* whatever the queue delivered (assume_new).                              *)
Recv(c, q) ==
    /\ q \in DOMAIN queues[c]
    /\ queues[c][q] # <<>>
    /\ LET m == Head(queues[c][q])
       IN /\ queues' = [queues EXCEPT ![c][q] = Tail(@)]
          /\ rhist' = [rhist EXCEPT ![c] = Append(@, m)]
          /\ know' = [know EXCEPT ![owner[c].rx] = @ \cup {<<c, Len(rhist[c]), m>>}]
    /\ UNCHANGED <<tokens, hist, owner, next>>

Next ==
    \/ \E c \in Static : OpenChannel(c)
    \/ \E f \in Fams, j \in Parts : OpenNewChannel(f, j)
    \/ \E c \in Channels : \E q \in DOMAIN queues[c] :
         Recv(c, q) \/ \E m \in Msgs : Send(c, q, m)

Spec == Init /\ [][Next]_vars

(* The same with a thread that calls make_endpoints itself, as             *)
(* counterexamples/double_open.rs does, but with the tokens it got back.   *)
DirectSpec == Init /\ [][Next \/ \E c \in Static : CallMakeEndpoints(c)]_vars

-----------------------------------------------------------------------------
(* Properties.                                                             *)

Witnesses == UNION {know[t] : t \in Threads}

(* Queues, tokens and witnesses behave as the machine says: every step is  *)
(* a do_send, a do_recv, an alloc or invisible.  A receive is a do_recv    *)
(* only if the witness it makes up names what really was sent.             *)
Net == INSTANCE NetSM WITH sent <- hist, recvd <- rhist, was_sent <- Witnesses
ImplementsNetSM == Net!Spec

(* The two ends of a channel are ends of one queue, and what is in it is   *)
(* exactly what was sent and not yet received.                             *)
QueueIsTheRest ==
    \A c \in Channels : \A q \in DOMAIN queues[c] : rhist[c] \o queues[c][q] = hist[c]

(* One queue per channel: the contract of make_endpoints, "AT MOST ONCE".  *)
OneQueuePerChannel == \A c \in Channels : Len(queues[c]) <= 1

(* Nobody can hold a witness of an unjustified message: whatever has to    *)
(* point at something does, although threads only know their own witnesses.*)
Justification == Net!Provenance

(* What each channel's gate enforces locally is the protocol's invariant   *)
(* over whole histories, whoever else is running.                          *)
HistoryHolds == HistoryInv(hist)
=============================================================================
