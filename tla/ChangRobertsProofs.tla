------------------------- MODULE ChangRobertsProofs -------------------------
(***************************************************************************)
(* The source's argument without its modular arithmetic: a message knows   *)
(* its distance from its origin, and dominates the nodes between the two.  *)
(* Coming back to its origin, these are the whole ring.  The arithmetic of *)
(* msg_ok is a consequence, drawn at the end.                              *)
(***************************************************************************)
EXTENDS ChangRoberts, Integers, SequenceTheorems, TLAPS

Message == [val : Nat, origin : Nodes, hops : Nat]

TypeOK ==
    /\ size \in Nat \ {0}
    /\ id \in [Nodes -> Nat]
    /\ \A a, b \in Nodes : id[a] = id[b] => a = b
    /\ link \in [Nodes -> Seq(Message)]
    /\ starts \in [Nodes -> Nat]
    /\ leader \in [Nodes -> BOOLEAN]

Between(o, j) == IF o <= j THEN o .. j ELSE (o .. size - 1) \cup (0 .. j)

Distance(o, j) == IF o <= j THEN j - o ELSE j - o + size

Dominates(j, m) ==
    /\ m.val = id[m.origin]
    /\ m.hops = Distance(m.origin, j)
    /\ \A k \in Between(m.origin, j) : m.val >= id[k]

Carried == \A j \in Nodes : \A n \in 1 .. Len(link[j]) : Dominates(j, link[j][n])

Inv == TypeOK /\ Carried /\ OnlyMaxLeads

(* The initial ring is well formed and empty.                              *)
LEMMA InitInv == Init => Inv
<1> SUFFICES ASSUME Init PROVE Inv
  OBVIOUS
<1> USE DEF Init, Nodes
<1>1. size \in Nat \ {0} /\ id \in [Nodes -> Nat]
  BY RingAssumption, SMT
<1>2. link \in [Nodes -> Seq(Message)]
  OBVIOUS
<1>3. TypeOK
  BY <1>1, <1>2 DEF TypeOK
<1>4. Carried
  BY <1>1 DEF Carried
<1>5. OnlyMaxLeads
  BY <1>1 DEF OnlyMaxLeads
<1> QED
  BY <1>3, <1>4, <1>5 DEF Inv

(* The nodes up to i are those up to its predecessor, and i.               *)
LEMMA BetweenGrows ==
  ASSUME TypeOK, NEW i \in Nodes, NEW o \in Nodes
  PROVE  /\ Pred(i) \in Nodes
         /\ Between(o, i) \subseteq Between(o, Pred(i)) \cup {i}
         /\ Nodes \subseteq Between(i, Pred(i))
         /\ o # i => Distance(o, i) = Distance(o, Pred(i)) + 1
         /\ Distance(o, i) \in 0 .. size - 1
BY SMT DEF TypeOK, Nodes, Pred, Between, Distance

(* Starting an election puts a node's own identifier on its link.          *)
LEMMA StartInv ==
  ASSUME Inv, NEW o \in Nodes, Start(o)
  PROVE  Inv'
<1> DEFINE e == Elect(id[o], o, 0)
<1>1. TypeOK /\ Carried /\ OnlyMaxLeads
  BY DEF Inv
<1>2. e \in Message /\ Nodes' = Nodes /\ id' = id /\ size' = size /\ leader' = leader
  BY <1>1 DEF TypeOK, Start, Elect, Message, Nodes
<1>3. link' = [link EXCEPT ![o] = Append(@, e)]
  BY DEF Start
<1>4. TypeOK'
  <2>1. link' \in [Nodes -> Seq(Message)]
    BY <1>1, <1>2, <1>3 DEF TypeOK
  <2>2. starts' \in [Nodes -> Nat]
    BY <1>1 DEF TypeOK, Start
  <2>3. Message' = Message
    BY <1>2 DEF Message
  <2> QED
    BY <1>1, <1>2, <2>1, <2>2, <2>3 DEF TypeOK
<1>5. Carried'
  <2> SUFFICES ASSUME NEW j \in Nodes, NEW n \in 1 .. Len(link'[j])
               PROVE  Dominates(j, link[j][n])'
    BY <1>2 DEF Carried
  <2>1. Dominates(o, e)
    BY <1>1 DEF Dominates, Elect, Between, Distance, TypeOK, Nodes
  <2>2. Dominates(j, link'[j][n])
    <3>1. link[j] \in Seq(Message)
      BY <1>1 DEF TypeOK
    <3>2. CASE j # o
      BY <1>1, <1>3, <3>2 DEF Carried, TypeOK
    <3>3. CASE j = o /\ n = Len(link[o]) + 1
      BY <1>1, <1>3, <2>1, <3>1, <3>3 DEF TypeOK
    <3>4. CASE j = o /\ n # Len(link[o]) + 1
      <4>1. n \in 1 .. Len(link[o]) /\ link'[j][n] = link[o][n]
        BY <1>1, <1>3, <3>1, <3>4, <1>2 DEF TypeOK
      <4> QED
        BY <1>1, <3>4, <4>1 DEF Carried
    <3> QED
      BY <3>2, <3>3, <3>4
  <2> QED
    BY <1>2, <2>2 DEF Dominates, Between, Distance
<1>6. OnlyMaxLeads'
  BY <1>1, <1>2 DEF OnlyMaxLeads, IsMax
<1> QED
  BY <1>4, <1>5, <1>6 DEF Inv

(* Handling a message: it is forwarded over a smaller node, or it has gone *)
(* all the way round, or it disappears.                                    *)
LEMMA StepInv ==
  ASSUME Inv, NEW i \in Nodes, CrStep(i)
  PROVE  Inv'
<1> DEFINE p == Pred(i)
           m == Head(link[p])
           f == Elect(m.val, m.origin, NextHop(m))
           rest == [link EXCEPT ![p] = Tail(@)]
<1>1. TypeOK /\ Carried /\ OnlyMaxLeads
  BY DEF Inv
<1>2. p \in Nodes /\ Nodes' = Nodes /\ id' = id /\ size' = size /\ starts' = starts
  BY <1>1, BetweenGrows DEF CrStep, Nodes
<1>3. /\ link[p] # <<>> /\ link[p] \in Seq(Message)
      /\ m \in Message /\ m = link[p][1] /\ 1 \in 1 .. Len(link[p])
  BY <1>1, <1>2 DEF TypeOK, CrStep
<1>4. Dominates(p, m)
  BY <1>1, <1>2, <1>3 DEF Carried
<1>5. /\ rest \in [Nodes -> Seq(Message)]
      /\ \A j \in Nodes : \A n \in 1 .. Len(rest[j]) : Dominates(j, rest[j][n])
  <2>1. rest \in [Nodes -> Seq(Message)]
    BY <1>1, <1>2, <1>3 DEF TypeOK
  <2>2. ASSUME NEW j \in Nodes, NEW n \in 1 .. Len(rest[j])
        PROVE  Dominates(j, rest[j][n])
    <3>1. CASE j # p
      BY <1>1, <2>2, <3>1 DEF Carried, TypeOK
    <3>2. CASE j = p
      <4>1. rest[j] = Tail(link[p])
        BY <1>1, <1>2, <3>2 DEF TypeOK
      <4>2. n + 1 \in 1 .. Len(link[p]) /\ rest[j][n] = link[p][n + 1]
        <5>1. Len(Tail(link[p])) = Len(link[p]) - 1 /\ Len(link[p]) \in Nat
          BY <1>3, HeadTailProperties
        <5>2. n \in 1 .. Len(Tail(link[p]))
          BY <2>2, <4>1
        <5>3. Tail(link[p])[n] = link[p][n + 1]
          BY <1>3, <5>2, HeadTailProperties
        <5> HIDE DEF p, rest
        <5> QED
          BY <4>1, <5>1, <5>2, <5>3
      <4> QED
        BY <1>1, <1>2, <3>2, <4>2 DEF Carried
    <3> QED
      BY <3>1, <3>2
  <2> QED
    BY <2>1, <2>2
<1>6. /\ link' \in [Nodes -> Seq(Message)]
      /\ \A j \in Nodes : \A n \in 1 .. Len(link'[j]) : Dominates(j, link'[j][n])
  <2>1. CASE ~Forwards(m.val, i)
    BY <1>5, <2>1 DEF CrStep
  <2>2. CASE Forwards(m.val, i)
    <3>1. link' = [rest EXCEPT ![i] = Append(@, f)]
      BY <2>2 DEF CrStep
    <3>2. f \in Message
      BY <1>3 DEF Elect, NextHop, Message
    <3>3. Dominates(i, f)
      <4>1. f.origin = m.origin /\ f.val = m.val /\ m.origin \in Nodes
        BY <1>3 DEF Elect, Message
      <4>2. m.val >= id[i]
        <5>1. m.val \in Nat /\ id[i] \in Nat
          BY <1>1, <1>3 DEF TypeOK, Message
        <5>2. m.val > id[i]
          BY <2>2 DEF Forwards
        <5> HIDE DEF m
        <5> QED
          BY <5>1, <5>2
      <4>3. Between(m.origin, i) \subseteq Between(m.origin, p) \cup {i}
        BY <1>1, <4>1, BetweenGrows
      <4>4. m.origin # i
        <5>1. m.val = id[m.origin] /\ id[i] \in Nat
          BY <1>1, <1>4 DEF Dominates, TypeOK
        <5>2. m.val > id[i]
          BY <2>2 DEF Forwards
        <5> HIDE DEF m
        <5> QED
          BY <5>1, <5>2
      <4>5. f.hops = Distance(m.origin, i)
        <5>1. f.hops = m.hops + 1
          BY DEF Elect, NextHop
        <5>2. Distance(m.origin, i) = Distance(m.origin, p) + 1
          BY <1>1, <4>1, <4>4, BetweenGrows
        <5> QED
          BY <1>4, <5>1, <5>2 DEF Dominates
      <4> QED
        BY <1>4, <4>1, <4>2, <4>3, <4>5 DEF Dominates
    <3>4. link' \in [Nodes -> Seq(Message)]
      <4> HIDE DEF rest, f
      <4> QED
        BY <1>5, <3>1, <3>2
    <3>5. ASSUME NEW j \in Nodes, NEW n \in 1 .. Len(link'[j])
          PROVE  Dominates(j, link'[j][n])
      <4> HIDE DEF rest, f
      <4>1. CASE j # i
        BY <1>5, <3>1, <3>5, <4>1
      <4>2. CASE j = i
        <5>1. link'[j] = Append(rest[i], f) /\ rest[i] \in Seq(Message)
          BY <1>5, <3>1, <4>2
        <5>2. CASE n = Len(rest[i]) + 1
          BY <3>2, <3>3, <4>2, <5>1, <5>2
        <5>3. CASE n # Len(rest[i]) + 1
          <6>1. n \in 1 .. Len(rest[i]) /\ link'[j][n] = rest[i][n]
            BY <3>2, <3>5, <5>1, <5>3
          <6> QED
            BY <1>5, <4>2, <6>1
        <5> QED
          BY <5>2, <5>3
      <4> QED
        BY <4>1, <4>2
    <3> QED
      BY <3>4, <3>5
  <2> QED
    BY <2>1, <2>2
<1>7. TypeOK'
  <2>1. Message' = Message
    BY <1>2 DEF Message
  <2>2. leader' \in [Nodes -> BOOLEAN]
    BY <1>1 DEF TypeOK, CrStep
  <2> QED
    BY <1>1, <1>2, <1>6, <2>1, <2>2 DEF TypeOK
<1>8. Carried'
  BY <1>2, <1>6 DEF Carried, Dominates, Between, Distance
<1>9. OnlyMaxLeads'
  <2> SUFFICES ASSUME NEW q \in Nodes, leader'[q]
               PROVE  IsMax(q)
    BY <1>2 DEF OnlyMaxLeads, IsMax
  <2>1. CASE leader[q]
    BY <1>1, <2>1 DEF OnlyMaxLeads
  <2>2. CASE ~leader[q]
    <3>1. q = i /\ m.val = id[i]
      BY <1>1, <2>2 DEF CrStep, TypeOK
    <3>2. m.origin = i
      BY <1>1, <1>3, <1>4, <3>1 DEF Dominates, Message, TypeOK
    <3> QED
      BY <1>1, <1>4, <3>1, <3>2, BetweenGrows DEF Dominates, IsMax
  <2> QED
    BY <2>1, <2>2
<1> QED
  BY <1>7, <1>8, <1>9 DEF Inv

(* No step of the ring disturbs the invariant.                             *)
LEMMA InvHolds == Spec => []Inv
<1>1. Inv /\ [Next]_vars => Inv'
  <2> SUFFICES ASSUME Inv, [Next]_vars PROVE Inv'
    OBVIOUS
  <2>1. CASE Next
    BY <2>1, StartInv, StepInv DEF Next
  <2>2. CASE UNCHANGED vars
    <3>1. /\ size' = size /\ id' = id /\ link' = link
          /\ starts' = starts /\ leader' = leader /\ Nodes' = Nodes
      BY <2>2 DEF vars, Nodes
    <3>2. TypeOK'
      BY <3>1 DEF Inv, TypeOK, Message
    <3>3. Carried'
      BY <3>1 DEF Inv, Carried, Dominates, Between, Distance
    <3>4. OnlyMaxLeads'
      BY <3>1 DEF Inv, OnlyMaxLeads, IsMax
    <3> QED
      BY <3>2, <3>3, <3>4 DEF Inv
  <2> QED
    BY <2>1, <2>2
<1> QED
  BY InitInv, <1>1, PTL DEF Spec

-----------------------------------------------------------------------------
(* cr_step's postcondition, for any ring and any number of elections at    *)
(* once: whoever declares itself leader has the largest identifier.        *)
THEOREM LeaderIsLargest == Spec => []OnlyMaxLeads
<1>1. Inv => OnlyMaxLeads
  BY DEF Inv
<1> QED
  BY InvHolds, <1>1, PTL

(* A message on a link is a typed one that dominates what it has passed.   *)
LEMMA OnLink ==
  ASSUME Inv, NEW j \in Nodes, NEW n \in DOMAIN link[j]
  PROVE  /\ link[j][n] \in Message
         /\ Dominates(j, link[j][n])
<1>1. link[j] \in Seq(Message) /\ DOMAIN link[j] = 1 .. Len(link[j])
  BY DEF Inv, TypeOK
<1> QED
  BY <1>1 DEF Inv, Carried

(* No identifier circulates for ever: a message is stopped within a lap,   *)
(* in rings of any size and whichever elections overlap.                   *)
THEOREM OneLapHolds == Spec => []OneLap
<1>1. Inv => OneLap
  <2> SUFFICES ASSUME Inv, NEW j \in Nodes, NEW n \in DOMAIN link[j]
               PROVE  link[j][n].hops < size
    BY DEF OneLap
  <2> DEFINE m == link[j][n]
  <2>1. m \in Message /\ m.hops = Distance(m.origin, j)
    BY OnLink DEF Dominates
  <2>2. TypeOK /\ m.origin \in Nodes
    BY <2>1 DEF Inv, Message
  <2>3. Distance(m.origin, j) \in 0 .. size - 1 /\ size \in Nat
    BY <2>2, BetweenGrows DEF TypeOK
  <2> HIDE DEF m
  <2> QED
    BY <2>1, <2>3 DEF m
<1> QED
  BY InvHolds, <1>1, PTL

(* What the modulo does on a ring that is gone round at most once.         *)
LEMMA Wraps ==
  ASSUME NEW n \in Nat \ {0}, NEW o \in Nat, NEW k \in Nat, o + k < n + n
  PROVE  (o + k) % n = IF o + k < n THEN o + k ELSE o + k - n
BY SMT

(* msg_ok as the source states it: every message is hops links from its    *)
(* origin and at least as large as all the nodes on the way.               *)
THEOREM MsgOkHolds == Spec => []MsgOk
<1>1. Inv => MsgOk
  <2> SUFFICES ASSUME Inv, NEW j \in Nodes, NEW n \in DOMAIN link[j]
               PROVE  msg_ok(j, link[j][n])
    BY DEF MsgOk
  <2> DEFINE m == link[j][n]
             o == m.origin
             h == m.hops
  <2>1. m \in Message /\ Dominates(j, m) /\ TypeOK
    BY OnLink DEF Inv
  <2>2. o \in Nodes /\ h = Distance(o, j) /\ m.val = id[o]
    BY <2>1 DEF Message, Dominates
  <2>3. size \in Nat \ {0} /\ h \in 0 .. size - 1
    <3>1. Distance(o, j) \in 0 .. size - 1
      BY <2>1, <2>2, BetweenGrows
    <3> QED
      BY <2>1, <2>2, <3>1 DEF TypeOK
  <2>4. j = (o + h) % size
    <3> HIDE DEF o, h, m
    <3>1. o \in 0 .. size - 1 /\ j \in 0 .. size - 1
      BY <2>2 DEF Nodes
    <3>2. o \in Nat /\ h \in Nat /\ o + h < size + size
      BY <2>3, <3>1
    <3>3. (o + h) % size = IF o + h < size THEN o + h ELSE o + h - size
      BY <2>3, <3>1, <3>2, Wraps
    <3> QED
      BY <2>2, <2>3, <3>1, <3>3 DEF Distance
  <2>5. ASSUME NEW k \in 0 .. h PROVE (o + k) % size \in Between(o, j)
    <3> HIDE DEF o, h, m
    <3>1. o \in 0 .. size - 1 /\ j \in 0 .. size - 1
      BY <2>2 DEF Nodes
    <3>2. o \in Nat /\ k \in Nat /\ o + k < size + size
      BY <2>3, <2>5, <3>1
    <3>3. (o + k) % size = IF o + k < size THEN o + k ELSE o + k - size
      BY <2>3, <3>1, <3>2, Wraps
    <3> QED
      BY <2>2, <2>3, <2>5, <3>1, <3>3 DEF Distance, Between
  <2>6. \A k \in 0 .. h : m.val >= id[(o + k) % size]
    BY <2>1, <2>5 DEF Dominates
  <2> QED
    BY <2>2, <2>4, <2>6 DEF msg_ok
<1> QED
  BY InvHolds, <1>1, PTL

-----------------------------------------------------------------------------
(* What an election can rely on.  A message of origin o is under way.      *)
UnderWay(o) == \E j \in Nodes : \E n \in 1 .. Len(link[j]) : link[j][n].origin = o

(* The largest identifier is never lost: once an election is started for   *)
(* it, its message is on some link until its node leads.                   *)
LargestIsKept == \A o \in Nodes : IsMax(o) /\ starts[o] > 0 => leader[o] \/ UnderWay(o)

(* Nothing but the message a node takes leaves a link.                     *)
LEMMA StartKeeps ==
  ASSUME Inv, NEW i \in Nodes, Start(i), NEW o \in Nodes, o = i \/ UnderWay(o)
  PROVE  UnderWay(o)'
<1> DEFINE e == Elect(id[i], i, 0)
<1>1. link' = [link EXCEPT ![i] = Append(@, e)] /\ Nodes' = Nodes /\ DOMAIN link = Nodes
  BY DEF Start, Nodes, Inv, TypeOK
<1>2. e \in Message /\ e.origin = i /\ link[i] \in Seq(Message)
  BY DEF Inv, TypeOK, Elect, Message
<1> HIDE DEF e
<1>3. /\ Len(link[i]) + 1 \in 1 .. Len(link'[i]) /\ link'[i][Len(link[i]) + 1] = e
      /\ \A n \in 1 .. Len(link[i]) : n \in 1 .. Len(link'[i]) /\ link'[i][n] = link[i][n]
  BY <1>1, <1>2
<1>4. CASE o = i
  BY <1>1, <1>2, <1>3, <1>4 DEF UnderWay
<1>5. CASE UnderWay(o)
  <2>0. PICK j \in Nodes : \E n \in 1 .. Len(link[j]) : link[j][n].origin = o
    BY <1>5 DEF UnderWay
  <2>1. PICK n \in 1 .. Len(link[j]) : link[j][n].origin = o
    BY <2>0
  <2>2. n \in 1 .. Len(link'[j]) /\ link'[j][n] = link[j][n]
    BY <1>1, <1>3, <2>1
  <2> QED
    BY <1>1, <2>1, <2>2 DEF UnderWay
<1> QED
  BY <1>4, <1>5

(* A message that is not taken stays, and one that is forwarded is back on *)
(* a link.                                                                 *)
LEMMA CrStepKeeps ==
  ASSUME Inv, NEW i \in Nodes, CrStep(i), NEW o \in Nodes,
         NEW j \in Nodes, NEW n \in 1 .. Len(link[j]), link[j][n].origin = o,
         j = Pred(i) /\ n = 1 => Forwards(link[j][n].val, i)
  PROVE  UnderWay(o)'
<1> DEFINE p == Pred(i)
           q == link[p]
           m == Head(q)
           f == Elect(m.val, m.origin, NextHop(m))
           rest == [link EXCEPT ![p] = Tail(@)]
<1>1. /\ p \in Nodes /\ Nodes' = Nodes /\ q \in Seq(Message) /\ q # <<>>
      /\ DOMAIN link = Nodes /\ \A k \in Nodes : link[k] \in Seq(Message)
  BY BetweenGrows DEF Inv, TypeOK, CrStep, Nodes
<1>2. /\ m = q[1] /\ m \in Message /\ Tail(q) \in Seq(Message)
      /\ Len(Tail(q)) = Len(q) - 1 /\ Len(q) \in Nat
      /\ \A k \in 1 .. Len(q) - 1 : Tail(q)[k] = q[k + 1]
  <2> HIDE DEF q
  <2> QED
    BY <1>1, HeadTailProperties
<1>3. link' = IF Forwards(m.val, i) THEN [rest EXCEPT ![i] = Append(@, f)] ELSE rest
  BY DEF CrStep
<1>4. f \in Message /\ f.origin = m.origin
  BY <1>2 DEF Elect, Message, NextHop
<1>5. rest \in [Nodes -> Seq(Message)]
  BY <1>1, <1>2
<1>6. ASSUME NEW k \in Nodes, NEW x \in 1 .. Len(rest[k])
      PROVE  x \in 1 .. Len(link'[k]) /\ link'[k][x] = rest[k][x]
  <2> HIDE DEF rest, f
  <2>1. rest[k] \in Seq(Message)
    BY <1>5
  <2>2. CASE link' = rest
    BY <2>2
  <2>3. CASE link' = [rest EXCEPT ![i] = Append(@, f)]
    <3>1. link'[k] = rest[k] \/ link'[k] = Append(rest[k], f)
      BY <1>5, <2>3
    <3> QED
      BY <1>4, <2>1, <3>1
  <2> QED
    BY <1>3, <2>2, <2>3
<1>7. CASE j # p
  <2>1. rest[j] = link[j]
    BY <1>1, <1>7
  <2> QED
    BY <1>1, <1>6, <2>1 DEF UnderWay
<1>8. CASE j = p /\ n # 1
  <2>1. rest[p] = Tail(q)
    BY <1>1
  <2>2. n - 1 \in 1 .. Len(rest[p]) /\ rest[p][n - 1] = link[j][n]
    <3> HIDE DEF rest
    <3>1. n \in 1 .. Len(q)
      BY <1>8
    <3>2. n - 1 \in 1 .. Len(q) - 1 /\ (n - 1) + 1 = n
      BY <1>2, <1>8, <3>1
    <3>3. Tail(q)[n - 1] = q[n]
      BY <1>2, <3>2
    <3> QED
      BY <1>2, <1>8, <2>1, <3>2, <3>3
  <2> HIDE DEF rest
  <2>3. link'[p][n - 1].origin = o /\ n - 1 \in 1 .. Len(link'[p])
    BY <1>1, <1>6, <2>2
  <2> QED
    BY <1>1, <2>3 DEF UnderWay
<1>9. CASE j = p /\ n = 1
  <2>1. Forwards(m.val, i) /\ m.origin = o
    BY <1>2, <1>9
  <2>2. link' = [rest EXCEPT ![i] = Append(@, f)]
    BY <1>3, <2>1
  <2> HIDE DEF rest, f
  <2>3. link'[i] = Append(rest[i], f) /\ rest[i] \in Seq(Message)
    BY <1>5, <2>2
  <2>4. Len(rest[i]) + 1 \in 1 .. Len(link'[i]) /\ link'[i][Len(rest[i]) + 1] = f
    BY <1>4, <2>3
  <2> QED
    BY <1>1, <1>4, <2>1, <2>4 DEF UnderWay
<1> QED
  BY <1>7, <1>8, <1>9

LEMMA CrStepElects ==
  ASSUME Inv, NEW i \in Nodes, CrStep(i), NEW o \in Nodes, IsMax(o), UnderWay(o)
  PROVE  leader'[o] \/ UnderWay(o)'
<1>0. PICK j \in Nodes : \E n \in 1 .. Len(link[j]) : link[j][n].origin = o
  BY DEF UnderWay
<1>1. PICK n \in 1 .. Len(link[j]) : link[j][n].origin = o
  BY <1>0
<1> DEFINE m == link[j][n]
<1>2. m \in Message /\ m.val = id[o]
  <2>1. link[j] \in Seq(Message)
    BY DEF Inv, TypeOK
  <2> QED
    BY <1>1, <2>1 DEF Inv, Carried, Dominates
<1>3. CASE ~(j = Pred(i) /\ n = 1)
  BY <1>1, <1>3, CrStepKeeps
<1>4. CASE j = Pred(i) /\ n = 1
  <2>1. m = Head(link[Pred(i)])
    <3>1. link[j] \in Seq(Message) /\ Len(link[j]) > 0
      BY <1>4 DEF Inv, TypeOK
    <3> QED
      BY <1>4, <3>1
  <2>2. CASE o = i
    <3>1. m.val = id[i] /\ ~Forwards(m.val, i)
      <4>1. id[i] \in Nat
        BY DEF Inv, TypeOK
      <4> QED
        BY <1>2, <2>2, <4>1 DEF Forwards
    <3> QED
      BY <2>1, <2>2, <3>1 DEF CrStep, Inv, TypeOK
  <2>3. CASE o # i
    <3>1. id[o] \in Nat /\ id[i] \in Nat /\ id[o] # id[i] /\ id[o] >= id[i]
      BY <2>3 DEF Inv, TypeOK, IsMax
    <3>2. Forwards(id[o], i)
      BY <3>1 DEF Forwards
    <3> QED
      BY <1>1, <1>2, <3>2, CrStepKeeps
  <2> QED
    BY <2>2, <2>3
<1> QED
  BY <1>3, <1>4

LEMMA KeptStep == Inv /\ LargestIsKept /\ [Next]_vars => LargestIsKept'
<1> SUFFICES ASSUME Inv, LargestIsKept, [Next]_vars,
                    NEW o \in Nodes', IsMax(o)', starts'[o] > 0
             PROVE  leader'[o] \/ UnderWay(o)'
  BY DEF LargestIsKept
<1>1. Nodes' = Nodes /\ id' = id /\ o \in Nodes /\ IsMax(o)
  BY DEF Next, vars, Start, CrStep, Nodes, IsMax
<1>2. ASSUME NEW i \in Nodes, Start(i) PROVE UnderWay(o)' \/ leader'[o]
  <2>1. o # i => starts[o] > 0
    BY <1>1, <1>2 DEF Start, Inv, TypeOK
  <2>2. leader' = leader
    BY <1>2 DEF Start
  <2> QED
    BY <1>1, <1>2, <2>1, <2>2, StartKeeps DEF LargestIsKept
<1>3. ASSUME NEW i \in Nodes, CrStep(i) PROVE UnderWay(o)' \/ leader'[o]
  <2>1. starts[o] > 0 /\ (leader[o] => leader'[o])
    BY <1>1, <1>3 DEF CrStep, Inv, TypeOK
  <2> QED
    BY <1>1, <1>3, <2>1, CrStepElects DEF LargestIsKept
<1>4. CASE UNCHANGED vars
  BY <1>1, <1>4 DEF vars, LargestIsKept, UnderWay
<1> QED
  BY <1>2, <1>3, <1>4 DEF Next

(* An election for the largest identifier cannot be stopped: no node drops *)
(* its message, in rings of any size and whatever other elections run.     *)
(* With OneLap, which bounds how far the message travels, this is the part *)
(* of Elected that does not rest on fairness.                              *)
THEOREM LargestIsKeptHolds == Spec => []LargestIsKept
<1>1. Init => LargestIsKept
  BY DEF Init, LargestIsKept
<1> QED
  BY <1>1, InvHolds, KeptStep, PTL DEF Spec
=============================================================================
