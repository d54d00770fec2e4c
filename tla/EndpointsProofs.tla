-------------------------- MODULE EndpointsProofs --------------------------
(***************************************************************************)
(* The run-time implements the machine, for every protocol whose channels  *)
(* may deliver in order.  The queue of an open channel is what remains to  *)
(* be received, so a receive hands out a witness its sender already holds. *)
(***************************************************************************)
EXTENDS Endpoints, SequenceTheorems, TLAPS

(* All per-channel state is defined on the same channels.                  *)
Shape ==
    /\ hist \in [Channels -> Seq(Msgs)]
    /\ rhist \in [Channels -> Seq(Msgs)]
    /\ queues \in [Channels -> Seq(Seq(Msgs))]
    /\ owner \in [Channels -> [tx : Threads, rx : Threads]]
    /\ DOMAIN know = Threads
    /\ know = [t \in Threads |-> know[t]]
    /\ next \in Nat
    /\ Static \subseteq Channels /\ tokens \subseteq Static

(* An unopened channel has no queue and no past; an open one has one queue.*)
OneQueue ==
    /\ \A c \in Channels : Len(queues[c]) <= 1
    /\ \A c \in tokens : queues[c] = <<>> /\ hist[c] = <<>> /\ rhist[c] = <<>>

(* The thread that holds a sending end was there for every send.           *)
SenderKnows ==
    \A c \in Channels : \A i \in DOMAIN hist[c] :
      <<c, i - 1, hist[c][i]>> \in know[owner[c].tx]

NamesFresh ==
    \A f \in Fams, j \in Parts : \A k \in Nat : k >= next => DynChan(f, j, k) \notin Channels

Inv == Shape /\ OneQueue /\ QueueIsTheRest /\ SenderKnows /\ NamesFresh

-----------------------------------------------------------------------------

(* Adding to the end of a queue that continues r.                          *)
LEMMA PushConcat ==
    ASSUME NEW S, NEW r \in Seq(S), NEW s \in Seq(S), NEW m \in S
    PROVE  r \o Append(s, m) = Append(r \o s, m)
<1>1. Append(s, m) = s \o <<m>> /\ <<m>> \in Seq(S)
  BY AppendIsConcat
<1>2. r \o s \in Seq(S)
  BY ConcatProperties
<1>3. Append(r \o s, m) = (r \o s) \o <<m>>
  BY <1>2, AppendIsConcat
<1>4. (r \o s) \o <<m>> = r \o (s \o <<m>>)
  BY <1>1, ConcatAssociative
<1> QED
  BY <1>1, <1>3, <1>4

(* Moving the head of a queue to the end of what it continues.             *)
LEMMA PopConcat ==
    ASSUME NEW S, NEW r \in Seq(S), NEW s \in Seq(S), s # <<>>
    PROVE  /\ Head(s) \in S /\ Tail(s) \in Seq(S)
           /\ r \o s = Append(r, Head(s)) \o Tail(s)
           /\ Len(r) + 1 \in DOMAIN (r \o s)
           /\ (r \o s)[Len(r) + 1] = Head(s)
<1>1. /\ Head(s) \in S /\ Tail(s) \in Seq(S) /\ Head(s) = s[1]
      /\ Len(s) \in Nat /\ Len(s) >= 1 /\ Len(r) \in Nat /\ Len(Tail(s)) = Len(s) - 1
      /\ \A i \in 1 .. Len(Tail(s)) : Tail(s)[i] = s[i + 1]
  BY HeadTailProperties
<1>2. PICK h \in S : h = Head(s)
  BY <1>1
<1>3. PICK t \in Seq(S) : t = Tail(s)
  BY <1>1
<1>4. s = <<h>> \o t
  <2>1. <<h>> \in Seq(S) /\ Len(<<h>>) = 1 /\ <<h>>[1] = h
    OBVIOUS
  <2>2. <<h>> \o t \in Seq(S) /\ Len(<<h>> \o t) = Len(s)
    BY <1>1, <1>3, <2>1, ConcatProperties
  <2>3. \A i \in 1 .. Len(s) : (<<h>> \o t)[i] = s[i]
    BY <1>1, <1>2, <1>3, <2>1, ConcatProperties
  <2> QED
    BY <2>2, <2>3, SeqEqual
<1>5. r \o (<<h>> \o t) = Append(r, h) \o t
  <2>1. Append(r, h) = r \o <<h>> /\ <<h>> \in Seq(S)
    BY AppendIsConcat
  <2>2. (r \o <<h>>) \o t = r \o (<<h>> \o t)
    BY <2>1, ConcatAssociative
  <2> QED
    BY <2>1, <2>2
<1>6. /\ r \o s \in Seq(S) /\ Len(r \o s) = Len(r) + Len(s)
      /\ \A i \in 1 .. Len(r) + Len(s) : (r \o s)[i] = IF i <= Len(r) THEN r[i] ELSE s[i - Len(r)]
  BY ConcatProperties
<1>7. Len(r) + 1 \in DOMAIN (r \o s) /\ (r \o s)[Len(r) + 1] = Head(s)
  <2>1. /\ Len(r) + 1 \in 1 .. Len(r) + Len(s) /\ Len(r) + 1 - Len(r) = 1
        /\ ~(Len(r) + 1 <= Len(r))
    BY <1>1
  <2>2. (r \o s)[Len(r) + 1] = s[1]
    BY <1>6, <2>1
  <2>3. DOMAIN (r \o s) = 1 .. Len(r) + Len(s)
    BY <1>6
  <2> QED
    BY <1>1, <2>1, <2>2, <2>3
<1> QED
  BY <1>1, <1>2, <1>3, <1>4, <1>5, <1>7

(* Replacing an element of a sequence of at most one.                      *)
LEMMA ReplaceOnly ==
    ASSUME NEW S, NEW u \in Seq(S), Len(u) <= 1, NEW q \in DOMAIN u, NEW s \in S
    PROVE  /\ Len(u) = 1 /\ DOMAIN u = {1} /\ q = 1
           /\ [u EXCEPT ![q] = s] \in Seq(S)
           /\ Len([u EXCEPT ![q] = s]) = 1
           /\ DOMAIN [u EXCEPT ![q] = s] = {1}
           /\ [u EXCEPT ![q] = s][1] = s
<1>1. PICK n \in Nat : n = Len(u) /\ DOMAIN u = 1 .. n /\ n <= 1 /\ q \in 1 .. n
  OBVIOUS
<1>2. n = 1 /\ q = 1
  BY <1>1
<1>3. DOMAIN u = {1}
  BY <1>1, <1>2
<1>4. [u EXCEPT ![q] = s] \in Seq(S) /\ Len([u EXCEPT ![q] = s]) = 1
  BY <1>1, <1>2
<1> QED
  BY <1>1, <1>2, <1>3, <1>4

(* Replacing the only queue of a channel.                                  *)
LEMMA ReplaceQueue ==
    ASSUME Inv, NEW c \in Channels, NEW q \in DOMAIN queues[c], NEW s \in Seq(Msgs),
           queues' = [queues EXCEPT ![c][q] = s]
    PROVE  /\ queues' \in [Channels -> Seq(Seq(Msgs))]
           /\ DOMAIN queues[c] = {1} /\ q = 1 /\ c \notin tokens
           /\ DOMAIN queues'[c] = {1} /\ Len(queues'[c]) = 1 /\ queues'[c][1] = s
           /\ \A d \in Channels : d # c => queues'[d] = queues[d]
<1>1. queues[c] \in Seq(Seq(Msgs)) /\ queues \in [Channels -> Seq(Seq(Msgs))]
  BY DEF Inv, Shape
<1> DEFINE u == queues[c]
           qs == [u EXCEPT ![q] = s]
<1>2. u \in Seq(Seq(Msgs)) /\ Len(u) <= 1 /\ q \in DOMAIN u
  BY <1>1 DEF Inv, OneQueue
<1> HIDE DEF u
<1>3. /\ Len(u) = 1 /\ DOMAIN u = {1} /\ q = 1
      /\ qs \in Seq(Seq(Msgs)) /\ Len(qs) = 1 /\ DOMAIN qs = {1} /\ qs[1] = s
  BY <1>2, ReplaceOnly
<1>4. c \notin tokens
  BY <1>3 DEF u, Inv, OneQueue
<1>5. queues' = [queues EXCEPT ![c] = qs]
  BY DEF u
<1> HIDE DEF qs
<1>6. queues'[c] = qs /\ queues' \in [Channels -> Seq(Seq(Msgs))]
      /\ \A d \in Channels : d # c => queues'[d] = queues[d]
  BY <1>1, <1>3, <1>5
<1> QED
  BY <1>3, <1>4, <1>6 DEF u

LEMMA InitInv == Init => Inv
<1> SUFFICES ASSUME Init PROVE Inv
  OBVIOUS
<1>1. Shape
  <2>1. \A c \in Static : Sender(c) \in Threads /\ Receiver(c) \in Threads
    BY WiringAssumption
  <2> QED
    BY <2>1 DEF Init, Shape, Channels
<1>2. OneQueue /\ QueueIsTheRest /\ SenderKnows
  BY DEF Init, OneQueue, QueueIsTheRest, SenderKnows, Channels
<1>3. NamesFresh
  <2> SUFFICES ASSUME NEW f \in Fams, NEW j \in Parts, NEW k \in Nat,
                      DynChan(f, j, k) \in Static
               PROVE  FALSE
    BY DEF Init, NamesFresh, Channels
  <2>1. Len(DynChan(f, j, k).ix) = 2 /\ DynChan(f, j, k).ix[2] = k
    BY DEF DynChan
  <2> QED
    BY <2>1, BootAssumption
<1> QED
  BY <1>1, <1>2, <1>3 DEF Inv

(* Opening: the queue is new and empty, and so is the channel's past.      *)
LEMMA OpenInv ==
    ASSUME Inv, NEW c \in Static, OpenChannel(c)
    PROVE  Inv'
<1>1. /\ c \in tokens /\ tokens' = tokens \ {c}
      /\ queues' = [queues EXCEPT ![c] = Append(@, <<>>)]
      /\ hist' = hist /\ rhist' = rhist /\ owner' = owner /\ know' = know /\ next' = next
  BY DEF OpenChannel, MakeEndpoints, TokensLeft
<1>2. Channels' = Channels /\ c \in Channels
  BY <1>1 DEF Channels, Inv, Shape
<1>3. queues[c] = <<>> /\ hist[c] = <<>> /\ rhist[c] = <<>>
  BY <1>1 DEF Inv, OneQueue
<1>4. /\ queues \in [Channels -> Seq(Seq(Msgs))]
      /\ queues'[c] = << <<>> >>
      /\ \A d \in Channels : d # c => queues'[d] = queues[d]
  BY <1>1, <1>2, <1>3 DEF Inv, Shape
<1>5. Shape'
  <2>1. queues' \in [Channels -> Seq(Seq(Msgs))]
    <3>1. << <<>> >> \in Seq(Seq(Msgs))
      OBVIOUS
    <3>2. queues' = [queues EXCEPT ![c] = << <<>> >>]
      BY <1>1, <1>3
    <3> QED
      BY <3>1, <3>2, <1>4
  <2> QED
    BY <2>1, <1>1, <1>2 DEF Inv, Shape
<1>6. OneQueue'
  <2>1. \A d \in Channels : Len(queues'[d]) <= 1
    <3>1. Len(<< <<>> >>) <= 1
      OBVIOUS
    <3> QED
      BY <3>1, <1>4 DEF Inv, OneQueue
  <2>2. \A d \in tokens' : queues'[d] = <<>> /\ hist'[d] = <<>> /\ rhist'[d] = <<>>
    BY <1>1, <1>4 DEF Inv, OneQueue, Shape
  <2> QED
    BY <2>1, <2>2, <1>2 DEF OneQueue
<1>7. QueueIsTheRest'
  <2>1. rhist'[c] \o <<>> = hist'[c]
    BY <1>1, <1>3
  <2>2. \A q \in DOMAIN queues'[c] : queues'[c][q] = <<>>
    BY <1>4
  <2> QED
    BY <2>1, <2>2, <1>1, <1>2, <1>4 DEF Inv, QueueIsTheRest
<1>8. SenderKnows' /\ NamesFresh'
  BY <1>1, <1>2 DEF Inv, SenderKnows, NamesFresh
<1> QED
  BY <1>5, <1>6, <1>7, <1>8 DEF Inv

(* Allocation: a name never used before, one empty queue, no past.         *)
LEMMA OpenNewInv ==
    ASSUME Inv, NEW f \in Fams, NEW j \in Parts, OpenNewChannel(f, j)
    PROVE  Inv'
<1> DEFINE c == DynChan(f, j, next)
<1>1. c \notin Channels /\ next \in Nat
  BY DEF Inv, Shape, NamesFresh
<1>2. /\ hist' = With(hist, c, <<>>)
      /\ rhist' = With(rhist, c, <<>>)
      /\ owner' = With(owner, c, [tx |-> Allocator, rx |-> Allocator])
      /\ queues' = MakeEndpoints(With(queues, c, OldQueues(c)), c)
      /\ next' = next + 1 /\ tokens' = tokens /\ know' = know
  BY DEF OpenNewChannel, NextChannel
<1>3. \A i \in Parts, g \in Fams, k \in Nat : k # next => DynChan(g, i, k) # c
  <2> SUFFICES ASSUME NEW i \in Parts, NEW g \in Fams, NEW k \in Nat, k # next
               PROVE  DynChan(g, i, k) # c
    OBVIOUS
  <2>1. DynChan(g, i, k).ix[2] = k /\ c.ix[2] = next
    BY DEF DynChan
  <2> QED
    BY <2>1
<1> HIDE DEF c
<1>4. Channels' = Channels \cup {c}
  BY <1>2 DEF Channels, With
<1>5. OldQueues(c) = <<>>
  BY <1>1 DEF Inv, Shape, OldQueues
<1>6. queues' = With(queues, c, << <<>> >>)
  <2> DEFINE qs == With(queues, c, <<>>)
  <2>1. queues' = [qs EXCEPT ![c] = Append(qs[c], <<>>)]
    BY <1>2, <1>5 DEF MakeEndpoints
  <2>2. qs[c] = <<>> /\ DOMAIN qs = DOMAIN queues \cup {c}
    BY DEF With
  <2>3. Append(qs[c], <<>>) = << <<>> >>
    <3>1. Append(<<>>, <<>>) = << <<>> >>
      OBVIOUS
    <3> QED
      BY <2>2, <3>1
  <2> HIDE DEF qs
  <2>4. queues' = [d \in DOMAIN queues \cup {c} |-> IF d = c THEN << <<>> >> ELSE qs[d]]
    BY <2>1, <2>2, <2>3 DEF qs, With
  <2> QED
    BY <2>4 DEF qs, With
<1>7. /\ hist'[c] = <<>> /\ rhist'[c] = <<>> /\ queues'[c] = << <<>> >>
      /\ \A d \in Channels : /\ hist'[d] = hist[d] /\ rhist'[d] = rhist[d]
                             /\ queues'[d] = queues[d] /\ owner'[d] = owner[d]
  BY <1>1, <1>2, <1>6 DEF With, Inv, Shape
<1>8. Shape'
  <2>1. /\ hist' \in [Channels' -> Seq(Msgs)] /\ rhist' \in [Channels' -> Seq(Msgs)]
    BY <1>2, <1>4 DEF With, Inv, Shape
  <2>2. queues' \in [Channels' -> Seq(Seq(Msgs))]
    <3>1. << <<>> >> \in Seq(Seq(Msgs))
      OBVIOUS
    <3> QED
      BY <3>1, <1>4, <1>6 DEF With, Inv, Shape
  <2>3. owner' \in [Channels' -> [tx : Threads, rx : Threads]]
    BY <1>2, <1>4, WiringAssumption DEF With, Inv, Shape
  <2> QED
    BY <2>1, <2>2, <2>3, <1>1, <1>2, <1>4 DEF Inv, Shape
<1>9. OneQueue'
  <2>1. Len(<< <<>> >>) <= 1
    OBVIOUS
  <2>2. tokens \subseteq Channels
    BY DEF Inv, Shape
  <2> QED
    BY <2>1, <2>2, <1>2, <1>4, <1>7 DEF Inv, OneQueue
<1>10. QueueIsTheRest'
  <2>1. \A q \in DOMAIN queues'[c] : queues'[c][q] = <<>>
    BY <1>7
  <2>2. \A q \in DOMAIN queues'[c] : rhist'[c] \o queues'[c][q] = hist'[c]
    BY <2>1, <1>7
  <2> QED
    BY <2>2, <1>4, <1>7 DEF Inv, QueueIsTheRest
<1>11. SenderKnows'
  BY <1>2, <1>4, <1>7 DEF Inv, SenderKnows
<1>12. NamesFresh'
  BY <1>1, <1>2, <1>3, <1>4 DEF Inv, NamesFresh
<1> QED
  BY <1>8, <1>9, <1>10, <1>11, <1>12 DEF Inv

(* Sending appends to the queue and to the history alike.                  *)
LEMMA SendInv ==
    ASSUME Inv, NEW c \in Channels, NEW q \in DOMAIN queues[c], NEW m \in Msgs,
           Send(c, q, m)
    PROVE  Inv'
<1> DEFINE s == queues[c][q]
<1>1. /\ queues' = [queues EXCEPT ![c] = [queues[c] EXCEPT ![q] = Append(s, m)]]
      /\ hist' = [hist EXCEPT ![c] = Append(hist[c], m)]
      /\ know' = [know EXCEPT ![owner[c].tx] = @ \cup {<<c, Len(hist[c]), m>>}]
      /\ tokens' = tokens /\ rhist' = rhist /\ owner' = owner /\ next' = next
  BY DEF Send
<1>2. /\ queues[c] \in Seq(Seq(Msgs)) /\ hist[c] \in Seq(Msgs) /\ rhist[c] \in Seq(Msgs)
      /\ queues \in [Channels -> Seq(Seq(Msgs))] /\ hist \in [Channels -> Seq(Msgs)]
      /\ owner[c].tx \in Threads
  BY DEF Inv, Shape
<1>3. s \in Seq(Msgs) /\ Append(s, m) \in Seq(Msgs)
  BY <1>2
<1>4. /\ Append(hist[c], m) \in Seq(Msgs) /\ Len(hist[c]) \in Nat
      /\ DOMAIN Append(hist[c], m) = 1 .. Len(hist[c]) + 1
      /\ Append(hist[c], m)[Len(hist[c]) + 1] = m
      /\ \A i \in 1 .. Len(hist[c]) : Append(hist[c], m)[i] = hist[c][i]
  BY <1>2
<1>5. /\ Channels' = Channels
      /\ hist'[c] = Append(hist[c], m)
      /\ \A d \in Channels : d # c => hist'[d] = hist[d]
  BY <1>1, <1>2 DEF Channels
<1>6. /\ queues' \in [Channels -> Seq(Seq(Msgs))]
      /\ DOMAIN queues[c] = {1} /\ q = 1 /\ c \notin tokens
      /\ DOMAIN queues'[c] = {1} /\ Len(queues'[c]) = 1 /\ queues'[c][1] = Append(s, m)
      /\ \A d \in Channels : d # c => queues'[d] = queues[d]
  BY <1>1, <1>3, ReplaceQueue
<1>8. Shape'
  <2>1. queues' \in [Channels -> Seq(Seq(Msgs))]
    BY <1>6
  <2>2. hist' \in [Channels -> Seq(Msgs)]
    BY <1>1, <1>2, <1>4
  <2>3. DOMAIN know' = Threads /\ know' = [t \in Threads |-> know'[t]]
    BY <1>1 DEF Inv, Shape
  <2> QED
    BY <2>1, <2>2, <2>3, <1>1, <1>5 DEF Inv, Shape
<1>9. OneQueue'
  <2>1. tokens \subseteq Channels
    BY DEF Inv, Shape
  <2> QED
    BY <2>1, <1>1, <1>5, <1>6 DEF Inv, OneQueue
<1>10. QueueIsTheRest'
  <2>1. rhist[c] \o Append(s, m) = Append(hist[c], m)
    <3>1. rhist[c] \o s = hist[c]
      BY DEF Inv, QueueIsTheRest
    <3>2. PICK r \in Seq(Msgs), u \in Seq(Msgs) : r = rhist[c] /\ u = s
      BY <1>2, <1>3
    <3>3. r \o Append(u, m) = Append(r \o u, m)
      BY PushConcat
    <3> QED
      BY <3>1, <3>2, <3>3
  <2> QED
    BY <2>1, <1>1, <1>5, <1>6 DEF Inv, QueueIsTheRest
<1>11. SenderKnows'
  <2>1. \A t \in Threads : know[t] \subseteq know'[t]
    BY <1>1 DEF Inv, Shape
  <2>2. <<c, Len(hist[c]), m>> \in know'[owner[c].tx]
    BY <1>1, <1>2 DEF Inv, Shape
  <2> SUFFICES ASSUME NEW d \in Channels, NEW i \in DOMAIN hist'[d]
               PROVE  <<d, i - 1, hist'[d][i]>> \in know'[owner[d].tx]
    BY <1>1, <1>5 DEF SenderKnows
  <2>3. owner[d].tx \in Threads
    BY DEF Inv, Shape
  <2>4. CASE d # c
    BY <2>1, <2>3, <2>4, <1>5 DEF Inv, SenderKnows
  <2>5. CASE d = c /\ i \in 1 .. Len(hist[c])
    <3>1. <<c, i - 1, hist[c][i]>> \in know[owner[c].tx]
      BY <2>5, <1>2 DEF Inv, SenderKnows
    <3> QED
      BY <3>1, <2>1, <2>5, <1>2, <1>4, <1>5
  <2>6. CASE d = c /\ i \notin 1 .. Len(hist[c])
    <3>1. i = Len(hist[c]) + 1
      BY <2>6, <1>4, <1>5
    <3>2. i - 1 = Len(hist[c]) /\ hist'[d][i] = m
      BY <3>1, <2>6, <1>4, <1>5
    <3> QED
      BY <3>2, <2>2, <2>6
  <2> QED
    BY <2>4, <2>5, <2>6
<1>12. NamesFresh'
  BY <1>1, <1>5 DEF Inv, NamesFresh
<1> QED
  BY <1>8, <1>9, <1>10, <1>11, <1>12 DEF Inv

(* What is at the head of the queue is the next message of the history, so *)
(* the witness made up by assume_new is one the sender holds.              *)
LEMMA HeadIsNext ==
    ASSUME Inv, NEW c \in Channels, NEW q \in DOMAIN queues[c], queues[c][q] # <<>>
    PROVE  /\ Head(queues[c][q]) \in Msgs
           /\ rhist[c] \o queues[c][q] = Append(rhist[c], Head(queues[c][q])) \o Tail(queues[c][q])
           /\ <<c, Len(rhist[c]), Head(queues[c][q])>> \in know[owner[c].tx]
<1> DEFINE s == queues[c][q]
           r == rhist[c]
<1>1. s \in Seq(Msgs) /\ r \in Seq(Msgs) /\ hist[c] \in Seq(Msgs)
  <2>1. queues[c] \in Seq(Seq(Msgs)) /\ r \in Seq(Msgs) /\ hist[c] \in Seq(Msgs)
    BY DEF Inv, Shape
  <2> QED
    BY <2>1
<1>2. hist[c] = r \o s
  BY DEF Inv, QueueIsTheRest
<1>3. /\ Head(s) \in Msgs
      /\ r \o s = Append(r, Head(s)) \o Tail(s)
      /\ Len(r) + 1 \in DOMAIN (r \o s)
      /\ (r \o s)[Len(r) + 1] = Head(s)
  <2>1. s # <<>>
    OBVIOUS
  <2> HIDE DEF s, r
  <2> QED
    BY <1>1, <2>1, PopConcat
<1>4. <<c, (Len(r) + 1) - 1, hist[c][Len(r) + 1]>> \in know[owner[c].tx]
  BY <1>2, <1>3 DEF Inv, SenderKnows
<1>5. (Len(r) + 1) - 1 = Len(r)
  BY <1>1
<1> QED
  BY <1>2, <1>3, <1>4, <1>5

(* Receiving moves the head of the queue to the receiver's history.        *)
LEMMA RecvInv ==
    ASSUME Inv, NEW c \in Channels, NEW q \in DOMAIN queues[c], Recv(c, q)
    PROVE  Inv'
<1> DEFINE s == queues[c][q]
           m == Head(s)
<1>1. /\ s # <<>>
      /\ queues' = [queues EXCEPT ![c] = [queues[c] EXCEPT ![q] = Tail(s)]]
      /\ rhist' = [rhist EXCEPT ![c] = Append(rhist[c], m)]
      /\ know' = [know EXCEPT ![owner[c].rx] = @ \cup {<<c, Len(rhist[c]), m>>}]
      /\ tokens' = tokens /\ hist' = hist /\ owner' = owner /\ next' = next
  BY DEF Recv
<1>2. /\ m \in Msgs
      /\ rhist[c] \o s = Append(rhist[c], m) \o Tail(s)
  BY <1>1, HeadIsNext
<1>3. /\ queues[c] \in Seq(Seq(Msgs)) /\ rhist[c] \in Seq(Msgs)
      /\ queues \in [Channels -> Seq(Seq(Msgs))] /\ rhist \in [Channels -> Seq(Msgs)]
  BY DEF Inv, Shape
<1>4. s \in Seq(Msgs) /\ Tail(s) \in Seq(Msgs) /\ Append(rhist[c], m) \in Seq(Msgs)
  BY <1>1, <1>2, <1>3
<1>5. Channels' = Channels
  BY <1>1 DEF Channels
<1>6. /\ queues' \in [Channels -> Seq(Seq(Msgs))]
      /\ DOMAIN queues[c] = {1} /\ q = 1 /\ c \notin tokens
      /\ DOMAIN queues'[c] = {1} /\ Len(queues'[c]) = 1 /\ queues'[c][1] = Tail(s)
      /\ \A d \in Channels : d # c => queues'[d] = queues[d]
  BY <1>1, <1>4, ReplaceQueue
<1>8. Shape'
  <2>1. queues' \in [Channels -> Seq(Seq(Msgs))]
    BY <1>6
  <2>2. rhist' \in [Channels -> Seq(Msgs)]
    BY <1>1, <1>3, <1>4
  <2>3. DOMAIN know' = Threads /\ know' = [t \in Threads |-> know'[t]]
    BY <1>1 DEF Inv, Shape
  <2> QED
    BY <2>1, <2>2, <2>3, <1>1, <1>5 DEF Inv, Shape
<1>9. OneQueue'
  <2>1. tokens \subseteq Channels
    BY DEF Inv, Shape
  <2> QED
    BY <2>1, <1>1, <1>3, <1>5, <1>6 DEF Inv, OneQueue
<1>10. QueueIsTheRest'
  <2>1. rhist'[c] = Append(rhist[c], m) /\ \A d \in Channels : d # c => rhist'[d] = rhist[d]
    BY <1>1, <1>3
  <2>2. rhist[c] \o s = hist[c]
    BY DEF Inv, QueueIsTheRest
  <2>3. rhist'[c] \o Tail(s) = hist'[c]
    BY <2>1, <2>2, <1>1, <1>2
  <2>4. \A k \in DOMAIN queues'[c] : queues'[c][k] = Tail(s)
    BY <1>6
  <2> SUFFICES ASSUME NEW d \in Channels, NEW k \in DOMAIN queues'[d]
               PROVE  rhist'[d] \o queues'[d][k] = hist'[d]
    BY <1>5 DEF QueueIsTheRest
  <2>5. CASE d = c
    BY <2>3, <2>4, <2>5
  <2>6. CASE d # c
    <3>1. rhist'[d] = rhist[d] /\ queues'[d] = queues[d] /\ hist'[d] = hist[d]
      BY <2>1, <2>6, <1>1, <1>6
    <3> QED
      BY <3>1 DEF Inv, QueueIsTheRest
  <2> QED
    BY <2>5, <2>6
<1>11. SenderKnows'
  <2>1. \A t \in Threads : know[t] \subseteq know'[t]
    BY <1>1 DEF Inv, Shape
  <2>2. \A d \in Channels : owner[d].tx \in Threads
    BY DEF Inv, Shape
  <2> QED
    BY <2>1, <2>2, <1>1, <1>5 DEF Inv, SenderKnows
<1>12. NamesFresh'
  BY <1>1, <1>5 DEF Inv, NamesFresh
<1> QED
  BY <1>8, <1>9, <1>10, <1>11, <1>12 DEF Inv

LEMMA StepInv == Inv /\ [Next]_vars => Inv'
<1> SUFFICES ASSUME Inv, [Next]_vars PROVE Inv'
  OBVIOUS
<1>1. CASE Next
  BY <1>1, OpenInv, OpenNewInv, SendInv, RecvInv DEF Next
<1>2. CASE UNCHANGED vars
  BY <1>2 DEF vars, Inv, Shape, OneQueue, QueueIsTheRest, SenderKnows, NamesFresh, Channels
<1> QED
  BY <1>1, <1>2

(* In every reachable state a channel's queue holds exactly what was sent  *)
(* on it and not yet received, in order, for any number of threads,        *)
(* channels and messages.                                                  *)
THEOREM QueueHoldsTheRest == Spec => []QueueIsTheRest
<1>1. Inv => QueueIsTheRest
  BY DEF Inv
<1> QED
  BY <1>1, InitInv, StepInv, PTL DEF Spec

(* Opened through open_channel and open_new_channel, which keep the tokens,*)
(* no channel ever gets a second queue.                                    *)
THEOREM OpenedOnce == Spec => []OneQueuePerChannel
<1>1. Inv => OneQueuePerChannel
  BY DEF Inv, OneQueue, OneQueuePerChannel
<1> QED
  BY <1>1, InitInv, StepInv, PTL DEF Spec

-----------------------------------------------------------------------------
(* The refinement, step by step.                                           *)

LEMMA WitnessesGrow ==
    ASSUME Inv, NEW t \in Threads, NEW w, know' = [know EXCEPT ![t] = @ \cup {w}]
    PROVE  Witnesses' = Witnesses \cup {w}
<1>1. know'[t] = know[t] \cup {w} /\ \A u \in Threads : u # t => know'[u] = know[u]
  BY DEF Inv, Shape
<1> QED
  BY <1>1 DEF Witnesses

LEMMA SendRefines ==
    ASSUME Inv, NEW c \in Channels, NEW q \in DOMAIN queues[c], NEW m \in Msgs,
           Send(c, q, m)
    PROVE  Net!DoSend(c, m)
<1>1. owner[c].tx \in Threads
  BY DEF Inv, Shape
<1>2. Witnesses' = Witnesses \cup {<<c, Len(hist[c]), m>>}
  BY <1>1, WitnessesGrow DEF Send
<1>3. NeedsCause(c, m) => \E causes \in SUBSET Witnesses : CausedBy(c, m, causes)
  BY <1>1 DEF Send, Justified, Witnesses
<1> QED
  BY <1>2, <1>3 DEF Send, Net!DoSend, Net!MaySend, Channels

LEMMA RecvRefines ==
    ASSUME \A r : DeliverableAt(r, Len(r)),
           Inv, NEW c \in Channels, NEW q \in DOMAIN queues[c], Recv(c, q)
    PROVE  Net!DoRecv(c, Len(rhist[c]), Head(queues[c][q]))
           /\ <<c, Len(rhist[c]), Head(queues[c][q])>> \in Witnesses
<1> DEFINE w == <<c, Len(rhist[c]), Head(queues[c][q])>>
<1>1. owner[c].tx \in Threads /\ owner[c].rx \in Threads /\ c \in DOMAIN rhist
  BY DEF Inv, Shape
<1>2. w \in Witnesses
  BY <1>1, HeadIsNext DEF Recv, Witnesses
<1>3. Witnesses' = Witnesses \cup {w}
  BY <1>1, WitnessesGrow DEF Recv
<1> QED
  BY <1>1, <1>2, <1>3 DEF Recv, Net!DoRecv, Net!MayReceive

(* The witness a receiver makes up is one its sender holds already.        *)
LEMMA RecvKnown ==
    ASSUME Inv, NEW c \in Channels, NEW q \in DOMAIN queues[c], Recv(c, q)
    PROVE  Witnesses' = Witnesses
<1> DEFINE w == <<c, Len(rhist[c]), Head(queues[c][q])>>
<1>1. owner[c].tx \in Threads /\ owner[c].rx \in Threads
  BY DEF Inv, Shape
<1>2. w \in Witnesses
  BY <1>1, HeadIsNext DEF Recv, Witnesses
<1>3. Witnesses' = Witnesses \cup {w}
  BY <1>1, WitnessesGrow DEF Recv
<1> QED
  BY <1>2, <1>3

LEMMA OpenNewRefines ==
    ASSUME NEW f \in Fams, NEW j \in Parts, OpenNewChannel(f, j)
    PROVE  Net!Alloc(f, j)
<1>1. Witnesses' = Witnesses
  BY DEF OpenNewChannel, Witnesses
<1> QED
  BY <1>1 DEF OpenNewChannel, NextChannel, DynChan, With,
              Net!Alloc, Net!WithChannel, Net!DynChan

(* Every run of the endpoints is a run of the token machine, if a channel  *)
(* may deliver in order: the claim the repository takes on trust.          *)
THEOREM EndpointsImplementNetSM ==
    ASSUME \A r : DeliverableAt(r, Len(r))
    PROVE  Spec => ImplementsNetSM
<1>1. Init => Net!Boot
  BY BootAssumption DEF Init, Witnesses, Net!Boot
<1>2. Inv /\ [Next]_vars => [Net!Next]_(Net!vars)
  <2> SUFFICES ASSUME Inv, [Next]_vars PROVE [Net!Next]_(Net!vars)
    OBVIOUS
  <2>1. ASSUME NEW c \in Static, OpenChannel(c) PROVE UNCHANGED Net!vars
    BY <2>1 DEF OpenChannel, Net!vars, Witnesses
  <2>2. ASSUME NEW f \in Fams, NEW j \in Parts, OpenNewChannel(f, j) PROVE Net!Next
    BY <2>2, OpenNewRefines DEF Net!Next
  <2>3. ASSUME NEW c \in Channels, NEW q \in DOMAIN queues[c], NEW m \in Msgs, Send(c, q, m)
        PROVE  Net!Next
    BY <2>3, SendRefines DEF Net!Next, Channels
  <2>4. ASSUME NEW c \in Channels, NEW q \in DOMAIN queues[c], Recv(c, q)
        PROVE  Net!Next
    <3> DEFINE w == <<c, Len(rhist[c]), Head(queues[c][q])>>
    <3>1. w \in Witnesses /\ Net!DoRecv(w[1], w[2], w[3])
      BY <2>4, RecvRefines
    <3> QED
      BY <3>1 DEF Net!Next
  <2>5. CASE UNCHANGED vars
    BY <2>5 DEF vars, Net!vars, Witnesses
  <2> QED
    BY <2>1, <2>2, <2>3, <2>4, <2>5 DEF Next
<1> QED
  BY <1>1, <1>2, InitInv, StepInv, PTL DEF Spec, ImplementsNetSM, Net!Spec

(* No thread holds a witness of a message that needed a justification and  *)
(* has none, for every protocol and every interleaving.                    *)
THEOREM JustificationHolds == Spec => []Justification
<1>1. Init => Justification
  BY DEF Init, Justification, Net!Provenance, Witnesses
<1>2. Inv /\ Justification /\ [Next]_vars => Justification'
  <2> SUFFICES ASSUME Inv, Justification, [Next]_vars PROVE Justification'
    OBVIOUS
  <2>1. ASSUME Witnesses' = Witnesses PROVE Justification'
    BY <2>1 DEF Justification, Net!Provenance
  <2>2. ASSUME NEW c \in Channels, NEW q \in DOMAIN queues[c], NEW m \in Msgs, Send(c, q, m)
        PROVE  Justification'
    <3>1. /\ Witnesses' = Witnesses \cup {<<c, Len(hist[c]), m>>}
          /\ NeedsCause(c, m) => \E causes \in SUBSET Witnesses : CausedBy(c, m, causes)
      BY <2>2, SendRefines DEF Net!DoSend, Net!MaySend
    <3>2. \A ws \in SUBSET Witnesses : ws \in SUBSET Witnesses'
      BY <3>1
    <3>3. NeedsCause(c, m) => \E ws \in SUBSET Witnesses' : CausedBy(c, m, ws)
      BY <3>1, <3>2
    <3>4. ASSUME NEW e \in Witnesses, NeedsCause(e[1], e[3])
          PROVE  \E ws \in SUBSET Witnesses' : CausedBy(e[1], e[3], ws)
      BY <3>2, <3>4 DEF Justification, Net!Provenance
    <3> QED
      BY <3>1, <3>3, <3>4 DEF Justification, Net!Provenance
  <2>3. ASSUME NEW c \in Channels, NEW q \in DOMAIN queues[c], Recv(c, q)
        PROVE  Witnesses' = Witnesses
    BY <2>3, RecvKnown
  <2>4. ASSUME \/ \E c \in Static : OpenChannel(c)
               \/ \E f \in Fams, j \in Parts : OpenNewChannel(f, j)
               \/ UNCHANGED vars
        PROVE  Witnesses' = Witnesses
    BY <2>4 DEF OpenChannel, OpenNewChannel, vars, Witnesses
  <2> QED
    BY <2>1, <2>2, <2>3, <2>4 DEF Next
<1> QED
  BY <1>1, <1>2, InitInv, StepInv, PTL DEF Spec

(* What the trait NetInv asks of a protocol's history invariant: it holds  *)
(* of the empty histories, a new channel keeps it, and so does a message   *)
(* the gate lets through, justified by witnesses the histories bear out.   *)
HistoriesOn(C) == [C -> Seq(Msgs)]

BornOut(w, h) ==
    /\ w = <<w[1], w[2], w[3]>>
    /\ w[1] \in DOMAIN h /\ w[2] \in 0 .. Len(h[w[1]]) - 1
    /\ h[w[1]][w[2] + 1] = w[3]

InitLaw == HistoryInv([c \in Static |-> <<>>])

AllocLaw ==
    \A C, c : \A h \in HistoriesOn(C) :
      HistoryInv(h) /\ c \notin C => HistoryInv(With(h, c, <<>>))

SendLaw ==
    \A C, causes : \A h \in HistoriesOn(C), c \in C, m \in Msgs :
      /\ HistoryInv(h) /\ Gate(c, h[c], m)
      /\ \A w \in causes : BornOut(w, h)
      /\ NeedsCause(c, m) => CausedBy(c, m, causes)
      => HistoryInv([h EXCEPT ![c] = Append(h[c], m)])

WitnessesAgree == \A w \in Witnesses : BornOut(w, hist)

LEMMA AgreeStep == Inv /\ WitnessesAgree /\ [Next]_vars => WitnessesAgree'
<1> SUFFICES ASSUME Inv, WitnessesAgree, [Next]_vars PROVE WitnessesAgree'
  OBVIOUS
<1>1. ASSUME Witnesses' = Witnesses, hist' = hist PROVE WitnessesAgree'
  BY <1>1 DEF WitnessesAgree, BornOut
<1>2. ASSUME NEW f \in Fams, NEW j \in Parts, OpenNewChannel(f, j)
      PROVE  WitnessesAgree'
  <2> DEFINE d == DynChan(f, j, next)
  <2>1. Witnesses' = Witnesses /\ hist' = With(hist, d, <<>>)
    BY <1>2 DEF OpenNewChannel, Witnesses
  <2>2. d \notin DOMAIN hist
    BY DEF Inv, Shape, NamesFresh, Channels
  <2>3. \A c \in DOMAIN hist : c \in DOMAIN hist' /\ hist'[c] = hist[c]
    BY <2>1, <2>2 DEF With
  <2> QED
    BY <2>1, <2>3 DEF WitnessesAgree, BornOut
<1>3. ASSUME NEW c \in Channels, NEW q \in DOMAIN queues[c], NEW m \in Msgs, Send(c, q, m)
      PROVE  WitnessesAgree'
  <2>1. hist \in [Channels -> Seq(Msgs)]
    BY DEF Inv, Shape
  <2>2. /\ hist' = [hist EXCEPT ![c] = Append(hist[c], m)]
        /\ Witnesses' = Witnesses \cup {<<c, Len(hist[c]), m>>}
    BY <1>3, SendRefines DEF Net!DoSend, Net!MaySend
  <2>3. /\ DOMAIN hist' = DOMAIN hist /\ hist[c] \in Seq(Msgs)
        /\ hist'[c] = Append(hist[c], m)
        /\ \A d \in DOMAIN hist : d # c => hist'[d] = hist[d]
    BY <2>1, <2>2
  <2>4. BornOut(<<c, Len(hist[c]), m>>, hist')
    BY <2>3 DEF BornOut, Channels
  <2>5. ASSUME NEW w \in Witnesses PROVE BornOut(w, hist')
    <3>1. BornOut(w, hist)
      BY DEF WitnessesAgree
    <3>2. hist[w[1]] \in Seq(Msgs)
      BY <2>1, <3>1 DEF BornOut, Channels
    <3>3. CASE w[1] = c
      BY <2>3, <3>1, <3>2, <3>3 DEF BornOut
    <3>4. CASE w[1] # c
      BY <2>3, <3>1, <3>4 DEF BornOut
    <3> QED
      BY <3>3, <3>4
  <2> QED
    BY <2>2, <2>4, <2>5 DEF WitnessesAgree, BornOut
<1>4. ASSUME NEW c \in Channels, NEW q \in DOMAIN queues[c], Recv(c, q)
      PROVE  WitnessesAgree'
  <2>1. Witnesses' = Witnesses
    BY <1>4, RecvKnown
  <2> QED
    BY <1>1, <1>4, <2>1 DEF Recv
<1> QED
  BY <1>1, <1>2, <1>3, <1>4 DEF Next, OpenChannel, vars, Witnesses

(* The protocol's invariant over whole histories holds in every reachable  *)
(* state of the run-time, if the protocol meets the three obligations.     *)
THEOREM HistoryInvHolds ==
    ASSUME InitLaw, AllocLaw, SendLaw
    PROVE  Spec => []HistoryHolds
<1>1. Init => HistoryHolds /\ WitnessesAgree
  BY InitLaw DEF InitLaw, Init, HistoryHolds, WitnessesAgree, Witnesses
<1>2. Inv /\ WitnessesAgree /\ HistoryHolds /\ [Next]_vars => HistoryHolds'
  <2> SUFFICES ASSUME Inv, WitnessesAgree, HistoryInv(hist), [Next]_vars
               PROVE  HistoryInv(hist')
    BY DEF HistoryHolds
  <2>1. hist \in HistoriesOn(Channels)
    BY DEF Inv, Shape, HistoriesOn
  <2>2. ASSUME NEW f \in Fams, NEW j \in Parts, OpenNewChannel(f, j)
        PROVE  HistoryInv(hist')
    <3>1. DynChan(f, j, next) \notin Channels
      BY DEF Inv, Shape, NamesFresh
    <3>2. hist' = With(hist, DynChan(f, j, next), <<>>)
      BY <2>2 DEF OpenNewChannel
    <3> QED
      BY <2>1, <3>1, <3>2, AllocLaw DEF AllocLaw
  <2>3. ASSUME NEW c \in Channels, NEW q \in DOMAIN queues[c], NEW m \in Msgs, Send(c, q, m)
        PROVE  HistoryInv(hist')
    <3>1. /\ Gate(c, hist[c], m)
          /\ hist' = [hist EXCEPT ![c] = Append(hist[c], m)]
      BY <2>3 DEF Send
    <3>2. PICK causes \in SUBSET Witnesses : NeedsCause(c, m) => CausedBy(c, m, causes)
      BY <2>3, SendRefines DEF Net!DoSend, Net!MaySend
    <3>3. \A w \in causes : BornOut(w, hist)
      BY DEF WitnessesAgree
    <3> QED
      BY <2>1, <3>1, <3>2, <3>3, SendLaw DEF SendLaw
  <2> QED
    BY <2>2, <2>3 DEF Next, OpenChannel, Recv, vars
<1> QED
  BY <1>1, <1>2, InitInv, StepInv, AgreeStep, PTL DEF Spec
=============================================================================
