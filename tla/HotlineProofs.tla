--------------------------- MODULE HotlineProofs ---------------------------
(* How the tunnel's subscribers and the publisher's set stay in step, for   *)
(* any number of messages on the way: one lemma for each message that is    *)
(* posted, and one for each that is read.                                  *)
EXTENDS Hotline, SequenceTheorems, TLAPS

LEMMA MessagesDiffer ==
    \A c, d \in Client : /\ Subscription(c) # Unsubscription(d)
                         /\ Subscription(c) = Subscription(d) => c = d
                         /\ Unsubscription(c) = Unsubscription(d) => c = d
                         /\ Subscription(c) \in Message /\ Unsubscription(c) \in Message
<1> SUFFICES ASSUME NEW c \in Client, NEW d \in Client
             PROVE  /\ Subscription(c) # Unsubscription(d)
                    /\ Subscription(c) = Subscription(d) => c = d
                    /\ Unsubscription(c) = Unsubscription(d) => c = d
                    /\ Subscription(c) \in Message /\ Unsubscription(c) \in Message
  OBVIOUS
<1>1. /\ Subscription(c).type = "SUBSCRIBE" /\ Unsubscription(d).type = "UNSUBSCRIBE"
      /\ Subscription(c).client = c /\ Subscription(d).client = d
      /\ Unsubscription(c).client = c /\ Unsubscription(d).client = d
  BY DEF Subscription, Unsubscription
<1>2. Subscription(c) \in Message /\ Unsubscription(c) \in Message
  BY DEF Message
<1> QED
  BY <1>1, <1>2

\* What a queue holds after a message is appended.
LEMMA Appended ==
    ASSUME NEW q \in Seq(Message), NEW m \in Message
    PROVE  /\ \A x : Holds(Append(q, m), x) <=> Holds(q, x) \/ x = m
           /\ \A c \in Client : Joins(Append(q, m), c) <=>
                 m = Subscription(c) \/ (Joins(q, c) /\ m # Unsubscription(c))
<1> DEFINE p == Append(q, m)
<1>1. /\ Len(q) \in Nat /\ Len(p) = Len(q) + 1 /\ p[Len(q) + 1] = m
      /\ \A i \in 1 .. Len(q) : p[i] = q[i]
  OBVIOUS
<1> HIDE DEF p
<1>2. ASSUME NEW x PROVE Holds(p, x) <=> Holds(q, x) \/ x = m
  <2>1. 1 .. Len(p) = 1 .. Len(q) \cup {Len(q) + 1}
    BY <1>1
  <2> QED
    BY <1>1, <2>1 DEF Holds
<1>3. ASSUME NEW c \in Client
      PROVE  Joins(p, c) <=> m = Subscription(c) \/ (Joins(q, c) /\ m # Unsubscription(c))
  <2>1. ASSUME m = Subscription(c) PROVE Joins(p, c)
    <3>1. \A j \in Len(q) + 2 .. Len(p) : FALSE
      BY <1>1
    <3> QED
      BY <1>1, <2>1, <3>1 DEF Joins
  <2>2. ASSUME Joins(q, c), m # Unsubscription(c) PROVE Joins(p, c)
    BY <1>1, <2>2 DEF Joins
  <2>3. ASSUME Joins(p, c), m # Subscription(c) PROVE Joins(q, c) /\ m # Unsubscription(c)
    <3>1. PICK i \in 1 .. Len(p) : /\ p[i] = Subscription(c)
                                   /\ \A j \in i + 1 .. Len(p) : p[j] # Unsubscription(c)
      BY <2>3 DEF Joins
    <3>2. i \in 1 .. Len(q)
      BY <1>1, <2>3, <3>1
    <3> QED
      BY <1>1, <3>1, <3>2 DEF Joins
  <2> QED
    BY <2>1, <2>2, <2>3, MessagesDiffer
<1> QED
  BY <1>2, <1>3 DEF p

\* What a queue held before its head was taken.
LEMMA Taken ==
    ASSUME NEW q \in Seq(Message), q # <<>>
    PROVE  /\ Tail(q) \in Seq(Message) /\ Head(q) \in Message
           /\ \A x : Holds(q, x) <=> Holds(Tail(q), x) \/ x = Head(q)
           /\ \A c \in Client : Joins(q, c) <=>
                 \/ Joins(Tail(q), c)
                 \/ Head(q) = Subscription(c) /\ ~Holds(Tail(q), Unsubscription(c))
<1> DEFINE p == Tail(q)
<1>1. /\ p \in Seq(Message) /\ Head(q) = q[1] /\ Len(q) \in Nat /\ Len(q) > 0
      /\ Len(p) = Len(q) - 1 /\ q[1] \in Message
      /\ \A i \in 1 .. Len(p) : p[i] = q[i + 1]
  BY HeadTailProperties
<1> HIDE DEF p
<1>2. ASSUME NEW x PROVE Holds(q, x) <=> Holds(p, x) \/ x = q[1]
  <2>1. ASSUME NEW i \in 1 .. Len(q) PROVE i = 1 \/ (i - 1 \in 1 .. Len(p) /\ q[i] = p[i - 1])
    BY <1>1
  <2>2. ASSUME NEW i \in 1 .. Len(p) PROVE i + 1 \in 1 .. Len(q) /\ q[i + 1] = p[i]
    BY <1>1
  <2>3. 1 \in 1 .. Len(q)
    BY <1>1
  <2>4. Holds(q, x) => Holds(p, x) \/ x = q[1]
    BY <2>1 DEF Holds
  <2>5. Holds(p, x) => Holds(q, x)
    BY <2>2 DEF Holds
  <2>6. x = q[1] => Holds(q, x)
    BY <2>3 DEF Holds
  <2> QED
    BY <2>4, <2>5, <2>6
<1>3. ASSUME NEW c \in Client
      PROVE  Joins(q, c) <=> \/ Joins(p, c)
                             \/ q[1] = Subscription(c) /\ ~Holds(p, Unsubscription(c))
  <2>1. ASSUME Joins(p, c) PROVE Joins(q, c)
    <3>1. PICK i \in 1 .. Len(p) : /\ p[i] = Subscription(c)
                                   /\ \A j \in i + 1 .. Len(p) : p[j] # Unsubscription(c)
      BY <2>1 DEF Joins
    <3>2. i + 1 \in 1 .. Len(q) /\ q[i + 1] = Subscription(c)
      BY <1>1, <3>1
    <3>3. ASSUME NEW j \in (i + 1) + 1 .. Len(q) PROVE q[j] # Unsubscription(c)
      <4>1. j - 1 \in i + 1 .. Len(p) /\ j - 1 \in 1 .. Len(p) /\ (j - 1) + 1 = j
        BY <1>1, <3>1
      <4> QED
        BY <1>1, <3>1, <4>1
    <3> QED
      BY <3>2, <3>3 DEF Joins
  <2>2. ASSUME q[1] = Subscription(c), ~Holds(p, Unsubscription(c)) PROVE Joins(q, c)
    <3>1. ASSUME NEW j \in 1 + 1 .. Len(q) PROVE q[j] # Unsubscription(c)
      <4>1. j - 1 \in 1 .. Len(p) /\ (j - 1) + 1 = j
        BY <1>1
      <4> QED
        BY <1>1, <2>2, <4>1 DEF Holds
    <3> QED
      BY <1>1, <2>2, <3>1 DEF Joins
  <2>3. ASSUME Joins(q, c), ~Joins(p, c)
        PROVE  q[1] = Subscription(c) /\ ~Holds(p, Unsubscription(c))
    <3>1. PICK i \in 1 .. Len(q) : /\ q[i] = Subscription(c)
                                   /\ \A j \in i + 1 .. Len(q) : q[j] # Unsubscription(c)
      BY <2>3 DEF Joins
    <3>2. ASSUME i # 1 PROVE FALSE
      <4>1. i - 1 \in 1 .. Len(p) /\ p[i - 1] = Subscription(c)
        BY <1>1, <3>1, <3>2
      <4>2. ASSUME NEW j \in (i - 1) + 1 .. Len(p) PROVE p[j] # Unsubscription(c)
        BY <1>1, <3>1, <3>2
      <4> QED
        BY <2>3, <4>1, <4>2 DEF Joins
    <3>3. ASSUME NEW j \in 1 .. Len(p) PROVE p[j] # Unsubscription(c)
      BY <1>1, <3>1, <3>2
    <3> QED
      BY <3>1, <3>2, <3>3 DEF Holds
  <2> QED
    BY <2>1, <2>2, <2>3
<1> QED
  BY <1>1, <1>2, <1>3 DEF p

\* The tunnel posts a message.
LEMMA AgreeAfterPost ==
    ASSUME NEW q \in Seq(Message), NEW S, NEW T, Agree(S, q, T), NEW c \in Client
    PROVE  /\ Agree(S, Append(q, Subscription(c)), T \cup {c})
           /\ Agree(S, Append(q, Unsubscription(c)), T \ {c})
           /\ \A m \in Requests : Agree(S, Append(q, m), T)
<1>1. Agree(S, Append(q, Subscription(c)), T \cup {c})
  BY MessagesDiffer, Appended DEF Agree
<1>2. Agree(S, Append(q, Unsubscription(c)), T \ {c})
  BY MessagesDiffer, Appended DEF Agree
<1>3. ASSUME NEW m \in Requests PROVE Agree(S, Append(q, m), T)
  <2>1. m \in Message /\ \A d \in Client : m # Subscription(d) /\ m # Unsubscription(d)
    BY RequestsAssumption DEF Message
  <2> QED
    BY <2>1, Appended DEF Agree
<1> QED
  BY <1>1, <1>2, <1>3

\* The publisher reads a message and does what it says.
LEMMA AgreeAfterRead ==
    ASSUME NEW q \in Seq(Message), q # <<>>, NEW S, NEW T, Agree(S, q, T)
    PROVE  /\ \A c \in Client : Head(q) = Subscription(c) => Agree(S \cup {c}, Tail(q), T)
           /\ \A c \in Client : Head(q) = Unsubscription(c) => Agree(S \ {c}, Tail(q), T)
           /\ Head(q) \in Requests => Agree(S, Tail(q), T)
<1>1. ASSUME NEW c \in Client, Head(q) = Subscription(c) PROVE Agree(S \cup {c}, Tail(q), T)
  BY <1>1, MessagesDiffer, Taken DEF Agree
<1>2. ASSUME NEW c \in Client, Head(q) = Unsubscription(c) PROVE Agree(S \ {c}, Tail(q), T)
  BY <1>2, MessagesDiffer, Taken DEF Agree
<1>3. ASSUME Head(q) \in Requests PROVE Agree(S, Tail(q), T)
  <2>1. \A d \in Client : Head(q) # Subscription(d) /\ Head(q) # Unsubscription(d)
    BY <1>3, RequestsAssumption
  <2>2. \A d \in Client : /\ Joins(q, d) <=> Joins(Tail(q), d)
                          /\ Holds(q, Unsubscription(d)) <=> Holds(Tail(q), Unsubscription(d))
    BY <2>1, Taken
  <2> QED
    BY <2>2 DEF Agree
<1> QED
  BY <1>1, <1>2, <1>3

\* Whatever the tunnel does, it stays in step with a publisher that does
\* nothing.
LEMMA TunnelKeeps ==
    ASSUME TunnelTypeOK, TunnelActs
    PROVE  /\ TunnelTypeOK'
           /\ \A S : InStep(S) => (link' = "up" => Agree(S, hotline', tsubs'))
<1>1. ASSUME NEW c \in Client, TunnelSubscribes(c)
      PROVE  /\ TunnelTypeOK'
             /\ \A S : InStep(S) => (link' = "up" => Agree(S, hotline', tsubs'))
  <2>1. link = "up" /\ hotline' = Append(hotline, Subscription(c)) /\ tsubs' = tsubs \cup {c}
        /\ link' = link
    BY <1>1 DEF TunnelSubscribes, Posts
  <2>2. hotline \in Seq(Message) /\ hotline' \in Seq(Message)
    BY <2>1, MessagesDiffer DEF TunnelTypeOK
  <2> QED
    BY <2>1, <2>2, AgreeAfterPost DEF TunnelTypeOK, InStep
<1>2. ASSUME NEW c \in Client, TunnelUnsubscribes(c)
      PROVE  /\ TunnelTypeOK'
             /\ \A S : InStep(S) => (link' = "up" => Agree(S, hotline', tsubs'))
  <2>1. link = "up" /\ hotline' = Append(hotline, Unsubscription(c)) /\ tsubs' = tsubs \ {c}
        /\ link' = link
    BY <1>2 DEF TunnelUnsubscribes, Posts
  <2>2. hotline \in Seq(Message) /\ hotline' \in Seq(Message)
    BY <2>1, MessagesDiffer DEF TunnelTypeOK
  <2> QED
    BY <2>1, <2>2, AgreeAfterPost DEF TunnelTypeOK, InStep
<1>3. ASSUME NEW m \in Requests, TunnelForwards(m)
      PROVE  /\ TunnelTypeOK'
             /\ \A S : InStep(S) => (link' = "up" => Agree(S, hotline', tsubs'))
  <2>1. link = "up" /\ hotline' = Append(hotline, m) /\ UNCHANGED <<link, tsubs>>
    BY <1>3 DEF TunnelForwards, Posts
  <2>2. hotline \in Seq(Message) /\ hotline' \in Seq(Message) /\ m \in Message
    BY <2>1 DEF TunnelTypeOK, Message
  <2>3. m \in Message /\ \A d \in Client : m # Subscription(d) /\ m # Unsubscription(d)
    BY RequestsAssumption DEF Message
  <2>4. \A S : Agree(S, hotline, tsubs) => Agree(S, Append(hotline, m), tsubs)
    BY <2>2, <2>3, Appended DEF Agree
  <2> QED
    BY <2>1, <2>2, <2>4 DEF TunnelTypeOK, InStep
<1>4. CASE LinkDown
  <2>1. PICK n \in 0 .. Len(hotline) : hotline' = SubSeq(hotline, 1, n)
    BY <1>4 DEF LinkDown
  <2>2. hotline \in Seq(Message) /\ link' = "down" /\ tsubs' = tsubs
    BY <1>4 DEF LinkDown, TunnelTypeOK
  <2>3. hotline' \in Seq(Message)
    BY <2>1, <2>2, SubSeqProperties
  <2> QED
    BY <2>2, <2>3 DEF TunnelTypeOK
<1> QED
  BY <1>1, <1>2, <1>3, <1>4 DEF TunnelActs

\* A subscriber that a publisher on its way out has still to tell, or whose
\* subscription it will not read any more, stays so.
LEMMA TunnelKeepsUntold ==
    ASSUME TunnelTypeOK, TunnelActs, link' = "up", NEW S,
           \A c \in tsubs : c \in S \/ Holds(hotline, Subscription(c))
    PROVE  /\ link = "up"
           /\ \A c \in tsubs' : c \in S \/ Holds(hotline', Subscription(c))
<1>1. hotline \in Seq(Message) /\ tsubs \subseteq Client
  BY DEF TunnelTypeOK
<1>2. \A d \in Client : \A m \in Message :
          Holds(hotline, Subscription(d)) => Holds(Append(hotline, m), Subscription(d))
  BY <1>1, Appended
<1>3. CASE \E c \in Client : TunnelSubscribes(c)
  <2>1. PICK c \in Client : TunnelSubscribes(c)
    BY <1>3
  <2>2. link = "up" /\ hotline' = Append(hotline, Subscription(c)) /\ tsubs' = tsubs \cup {c}
    BY <2>1 DEF TunnelSubscribes, Posts
  <2>3. Subscription(c) \in Message /\ Holds(hotline', Subscription(c))
    BY <1>1, <2>2, MessagesDiffer, Appended
  <2> QED
    BY <1>1, <1>2, <2>2, <2>3
<1>4. CASE \E c \in Client : TunnelUnsubscribes(c)
  <2>1. PICK c \in Client : TunnelUnsubscribes(c)
    BY <1>4
  <2>2. link = "up" /\ hotline' = Append(hotline, Unsubscription(c)) /\ tsubs' = tsubs \ {c}
    BY <2>1 DEF TunnelUnsubscribes, Posts
  <2> QED
    BY <1>1, <1>2, <2>2, MessagesDiffer
<1>5. CASE \E m \in Requests : TunnelForwards(m)
  <2>1. PICK m \in Requests : TunnelForwards(m)
    BY <1>5
  <2>2. link = "up" /\ hotline' = Append(hotline, m) /\ tsubs' = tsubs /\ m \in Message
    BY <2>1 DEF TunnelForwards, Posts, Message
  <2> QED
    BY <1>1, <1>2, <2>2
<1>6. ~LinkDown
  BY DEF LinkDown
<1> QED
  BY <1>3, <1>4, <1>5, <1>6 DEF TunnelActs

\* Reading a message leaves the queue's type alone.
LEMMA ReadTypes ==
    ASSUME TunnelTypeOK, NEW m, Reads(m)
    PROVE  /\ hotline' \in Seq(Message) /\ link' = link /\ hotline' = Tail(hotline)
           /\ hotline \in Seq(Message) /\ hotline # <<>> /\ m = Head(hotline)
BY Taken DEF TunnelTypeOK, Reads

\* When a publisher that is in step begins to tell its clients, there is no
\* other subscriber.
LEMMA AllKnown ==
    ASSUME TunnelTypeOK, NEW S, Agree(S, hotline, tsubs), NEW c \in tsubs
    PROVE  c \in S \/ Holds(hotline, Subscription(c))
BY DEF TunnelTypeOK, Agree, Joins, Holds
=============================================================================
