---------------------------- MODULE SyslogProofs ----------------------------
(* Proofs about Syslog, for any clients, requests and bounds.              *)
(*                                                                         *)
(* The lemmas of HotlineProofs say how each message keeps the two sides in  *)
(* step; UpToDate gives the refinement of Relay, because a datagram is only *)
(* taken when the walk of the one before is over.                          *)
EXTENDS Syslog, HotlineProofs

LEMMA SyslogStarts == Init => SyslogInv
<1> SUFFICES ASSUME Init PROVE SyslogInv
  OBVIOUS
<1>1. TypeOK
  <2>1. <<>> \in Seq(Message)
    OBVIOUS
  <2> QED
    BY <2>1, MaxDatagramsAssumption DEF Init, TunnelInit, TypeOK, TunnelTypeOK
<1>2. Agree(clients, hotline, tsubs)
  <2>1. hotline = <<>> /\ tsubs = {} /\ clients = {}
    BY DEF Init, TunnelInit
  <2>2. \A c \in Client : ~Joins(<<>>, c)
    BY DEF Joins
  <2> QED
    BY <2>1, <2>2 DEF Agree
<1> QED
  BY <1>1, <1>2 DEF Init, SyslogInv, Serves, InStep, WalkOver, Leaving, UpToDate

\* The steps of the tunnel.
LEMMA TunnelStep ==
    ASSUME SyslogInv, Tunnel \/ TunnelBreaks
    PROVE  SyslogInv'
<1>1. /\ TunnelActs /\ UNCHANGED <<pc, running, clients, datagrams>>
  BY DEF Tunnel, TunnelBreaks, TunnelActs
<1>2. /\ TunnelTypeOK'
      /\ \A S : InStep(S) => (link' = "up" => Agree(S, hotline', tsubs'))
  BY <1>1, TunnelKeeps DEF SyslogInv, TypeOK
<1>3. TypeOK'
  BY <1>1, <1>2 DEF SyslogInv, TypeOK, datagrams
<1>4. pc \notin {"shutdown", "closing", "closed"} => InStep(clients)'
  BY <1>1, <1>2 DEF SyslogInv, Serves, InStep
<1>5. link' = "up" => link = "up"
  BY <1>1 DEF TunnelActs, TunnelSubscribes, TunnelUnsubscribes, TunnelForwards, LinkDown
<1>6. ASSUME link' = "up", pc \in {"shutdown", "closing"}, NEW d \in tsubs'
      PROVE  d \in clients \/ Holds(hotline', Subscription(d))
  <2>1. \A c \in tsubs : c \in clients \/ Holds(hotline, Subscription(c))
    BY <1>5, <1>6 DEF SyslogInv, Leaving, Queued
  <2> QED
    BY <1>1, <1>6, <2>1, TunnelKeepsUntold DEF SyslogInv, TypeOK
<1>7. pc = "closing" => link' # "up"
  BY <1>5 DEF Tunnel, TunnelBreaks, LinkDown
<1>8. Serves'
  BY <1>1, <1>4, <1>7 DEF Serves
<1>9. WalkOver' /\ Leaving' /\ UpToDate'
  BY <1>1, <1>5, <1>6 DEF SyslogInv, WalkOver, Leaving, UpToDate, datagrams, Queued
<1> QED
  BY <1>3, <1>8, <1>9 DEF SyslogInv

\* The handlers of the tunnel's messages.
LEMMA HandlerStep ==
    ASSUME SyslogInv, Handlers
    PROVE  SyslogInv'
<1>1. /\ pc = "select" /\ pc' = "loop" /\ todo = {} /\ InStep(clients)
      /\ TunnelTypeOK /\ clients \subseteq Client /\ taken \in 0 .. MaxDatagrams
      /\ MaxDatagrams \in Nat /\ heard \in [Client -> 0 .. MaxDatagrams]
  BY MaxDatagramsAssumption
  DEF Handlers, Subscribe, Unsubscribe, Other, ReadFails, Receives, SyslogInv, TypeOK, Serves,
      WalkOver
<1>2. ASSUME NEW c \in Client, Subscribe(c) PROVE SyslogInv'
  <2>1. /\ hotline' \in Seq(Message) /\ link' = link /\ hotline' = Tail(hotline)
        /\ hotline \in Seq(Message) /\ hotline # <<>> /\ Subscription(c) = Head(hotline)
        /\ clients' = clients \cup {c} /\ heard' = [heard EXCEPT ![c] = taken]
        /\ UNCHANGED <<tsubs, running, arrived, taken, todo>>
    BY <1>1, <1>2, ReadTypes DEF Subscribe, Insert
  <2>2. InStep(clients)'
    BY <1>1, <2>1, AgreeAfterRead DEF InStep
  <2>3. TypeOK'
    BY <1>1, <2>1 DEF SyslogInv, TypeOK, TunnelTypeOK
  <2> QED
    BY <1>1, <2>1, <2>2, <2>3 DEF SyslogInv, Serves, WalkOver, Leaving, UpToDate
<1>3. ASSUME NEW c \in Client, Unsubscribe(c) PROVE SyslogInv'
  <2>1. /\ hotline' \in Seq(Message) /\ link' = link /\ hotline' = Tail(hotline)
        /\ hotline \in Seq(Message) /\ hotline # <<>> /\ Unsubscription(c) = Head(hotline)
        /\ clients' = clients \ {c}
        /\ UNCHANGED <<tsubs, running, arrived, taken, todo, heard>>
    BY <1>1, <1>3, ReadTypes DEF Unsubscribe, datagrams
  <2>2. InStep(clients)'
    BY <1>1, <2>1, AgreeAfterRead DEF InStep
  <2>3. TypeOK'
    BY <1>1, <2>1 DEF SyslogInv, TypeOK, TunnelTypeOK
  <2> QED
    BY <1>1, <2>1, <2>2, <2>3 DEF SyslogInv, Serves, WalkOver, Leaving, UpToDate
<1>4. ASSUME Other PROVE SyslogInv'
  <2>1. /\ hotline' \in Seq(Message) /\ link' = link /\ hotline' = Tail(hotline)
        /\ hotline \in Seq(Message) /\ hotline # <<>> /\ Head(hotline) \in Requests
        /\ UNCHANGED <<tsubs, running, clients, arrived, taken, todo, heard>>
    BY <1>1, <1>4, ReadTypes DEF Other, datagrams
  <2>2. InStep(clients)'
    BY <1>1, <2>1, AgreeAfterRead DEF InStep
  <2>3. TypeOK'
    BY <1>1, <2>1 DEF SyslogInv, TypeOK, TunnelTypeOK
  <2> QED
    BY <1>1, <2>1, <2>2, <2>3 DEF SyslogInv, Serves, WalkOver, Leaving, UpToDate
<1>5. ASSUME ReadFails PROVE SyslogInv'
  <2>1. running' = FALSE /\ link = "down" /\ UNCHANGED <<tunnel, clients, arrived, taken, todo, heard>>
    BY <1>5 DEF ReadFails, RunningAfterReadError, AtEnd, datagrams
  <2>2. UNCHANGED <<link, hotline, tsubs>>
    BY <2>1 DEF tunnel
  <2>3. TypeOK'
    BY <1>1, <2>1, <2>2 DEF SyslogInv, TypeOK, TunnelTypeOK
  <2> QED
    BY <1>1, <2>1, <2>2, <2>3 DEF SyslogInv, Serves, InStep, WalkOver, Leaving, UpToDate
<1> QED
  BY <1>2, <1>3, <1>4, <1>5 DEF Handlers

\* The steps that leave the hotline alone.
LEMMA OwnStep ==
    ASSUME SyslogInv,
           \/ \E ok \in BOOLEAN : OpenReply(ok)
           \/ OpenFails \/ Arrive \/ Interrupt \/ CheckRunning \/ TakeDatagram
           \/ DatagramFails \/ Sending \/ Close \/ SendClose
    PROVE  SyslogInv'
<1>1. UNCHANGED <<link, hotline, tsubs>>
  BY DEF OpenReply, OpenFails, Arrive, Interrupt, CheckRunning, TakeDatagram, DatagramFails,
     Sending, SendTo, SendDone, Close, SendClose, tunnel
<1>2. InStep(clients) /\ clients' = clients => InStep(clients)'
  BY <1>1 DEF InStep
<1>t. /\ TypeOK /\ taken \in Nat /\ arrived \in Nat /\ taken <= arrived /\ MaxDatagrams \in Nat
      /\ arrived <= MaxDatagrams /\ running \in BOOLEAN
  BY MaxDatagramsAssumption DEF SyslogInv, TypeOK
<1>3. ASSUME UNCHANGED <<clients, taken, todo, heard>>, running' \in BOOLEAN,
             arrived' = arrived \/ (arrived' = arrived + 1 /\ arrived < MaxDatagrams),
             \/ pc' = pc
             \/ pc' \in {"loop", "select"} /\ pc \in {"opening", "loop", "select"}
             \/ pc \in {"opening", "closing"} /\ pc' = "closed"
             \/ pc = "loop" /\ pc' = "shutdown"
             \/ pc = "shutdown" /\ pc' = "closing" /\ clients = {}
      PROVE  SyslogInv'
  <2>1. TypeOK'
    BY <1>1, <1>3, <1>t DEF TypeOK, TunnelTypeOK
  <2>2. WalkOver' /\ UpToDate'
    BY <1>1, <1>3, <1>t DEF SyslogInv, WalkOver, UpToDate
  <2>5. pc' = "closing" /\ link' = "up" => \A c \in tsubs' : Queued(Subscription(c))'
    <3>1. pc' = "closing" => clients = {} /\ pc \in {"shutdown", "closing"}
      BY <1>3 DEF SyslogInv, Leaving
    <3> QED
      BY <1>1, <3>1 DEF SyslogInv, Leaving, Queued
  <2>6. pc' \notin {"shutdown", "closing", "closed"} => InStep(clients)'
    BY <1>2, <1>3 DEF SyslogInv, Serves
  <2>7. Serves'
    BY <2>5, <2>6 DEF Serves
  <2>3. ASSUME pc = "loop", link = "up", NEW c \in tsubs
        PROVE  c \in clients \/ Queued(Subscription(c))
    <3>1. TunnelTypeOK /\ Agree(clients, hotline, tsubs)
      BY <2>3, <1>t DEF SyslogInv, Serves, InStep, TypeOK
    <3> QED
      BY <2>3, <3>1, AllKnown DEF Queued
  <2>4. Leaving'
    BY <1>1, <1>3, <2>3 DEF SyslogInv, Leaving, Queued
  <2> QED
    BY <2>1, <2>2, <2>4, <2>7 DEF SyslogInv
<1>4. CASE (\E ok \in BOOLEAN : OpenReply(ok)) \/ OpenFails
  BY <1>3, <1>4, <1>t DEF OpenReply, OpenFails, datagrams
<1>5. CASE Arrive \/ Interrupt
  BY <1>3, <1>5, <1>t DEF Arrive, Interrupt, datagrams
<1>6. CASE CheckRunning \/ DatagramFails \/ Close
  BY <1>3, <1>6, <1>t DEF CheckRunning, DatagramFails, DatagramTurn, Close, datagrams
<1>7. CASE SendClose
  BY <1>3, <1>7, <1>t DEF SendClose, ToldAll, datagrams
<1>8. ASSUME TakeDatagram PROVE SyslogInv'
  <2>1. /\ pc = "select" /\ pc' = "sending" /\ taken < arrived /\ taken' = taken + 1
        /\ todo' = clients /\ todo = {} /\ UNCHANGED <<clients, running, arrived, heard>>
    BY <1>8 DEF TakeDatagram, DatagramTurn, Waiting, SyslogInv, WalkOver
  <2>2. TypeOK'
    BY <1>1, <1>t, <2>1 DEF TypeOK, TunnelTypeOK
  <2>3. UpToDate'
    BY <1>1, <1>t, <2>1 DEF SyslogInv, UpToDate
  <2> QED
    BY <1>1, <1>2, <2>1, <2>2, <2>3 DEF SyslogInv, Serves, WalkOver, Leaving
<1>9. ASSUME NEW c \in Client, SendTo(c) PROVE SyslogInv'
  <2>1. /\ pc = "sending" /\ pc' = "sending" /\ c \in todo /\ todo' = todo \ {c}
        /\ heard' = IF link = "up" THEN [heard EXCEPT ![c] = @ + 1] ELSE heard
        /\ UNCHANGED <<clients, running, arrived, taken>>
    BY <1>9 DEF SendTo, Visited
  <2>4. /\ c \in clients /\ heard \in [Client -> 0 .. MaxDatagrams]
        /\ link = "up" => heard[c] = taken - 1
    BY <1>t, <2>1 DEF SyslogInv, UpToDate, TypeOK
  <2>5. heard' \in [Client -> 0 .. MaxDatagrams]
    BY <1>t, <2>1, <2>4
  <2>2. TypeOK'
    BY <1>1, <1>t, <2>1, <2>5 DEF TypeOK, TunnelTypeOK
  <2>3. UpToDate'
    BY <1>1, <1>t, <2>1 DEF SyslogInv, UpToDate, TypeOK
  <2> QED
    BY <1>1, <1>2, <2>1, <2>2, <2>3 DEF SyslogInv, Serves, WalkOver, Leaving
<1>10. ASSUME SendDone PROVE SyslogInv'
  <2>1. todo = {}
    BY <1>10 DEF SendDone, SentAll
  <2>2. TypeOK'
    BY <1>1, <1>10, <1>t DEF SendDone, TypeOK, TunnelTypeOK
  <2> QED
    BY <1>1, <1>2, <1>10, <2>1, <2>2
    DEF SendDone, SyslogInv, Serves, WalkOver, Leaving, UpToDate
<1> QED
  BY <1>4, <1>5, <1>6, <1>7, <1>8, <1>9, <1>10 DEF Sending

\* unsubscribe() of one client.
LEMMA TellStep ==
    ASSUME SyslogInv, NEW c \in Client, ShutdownTell(c)
    PROVE  SyslogInv'
<1>1. /\ pc = "shutdown" /\ pc' = "shutdown" /\ c \in clients /\ clients' = clients \ {c}
      /\ tsubs' = tsubs \ {c} /\ UNCHANGED <<link, hotline, running, arrived, taken, todo, heard>>
      /\ todo = {}
  BY DEF ShutdownTell, Tells, datagrams, SyslogInv, WalkOver
<1>2. TypeOK'
  BY <1>1 DEF SyslogInv, TypeOK, TunnelTypeOK
<1> QED
  BY <1>1, <1>2 DEF SyslogInv, Serves, WalkOver, Leaving, UpToDate, Queued

LEMMA SyslogStep == SyslogInv /\ [Next]_vars => SyslogInv'
<1> SUFFICES ASSUME SyslogInv, [Next]_vars PROVE SyslogInv'
  OBVIOUS
<1>1. CASE UNCHANGED vars
  <2>1. /\ UNCHANGED <<link, hotline, tsubs>>
        /\ UNCHANGED <<pc, running, clients, arrived, taken, todo, heard>>
    BY <1>1 DEF vars, tunnel
  <2> QED
    BY <2>1 DEF SyslogInv, TypeOK, TunnelTypeOK, Serves, InStep, WalkOver, Leaving,
       UpToDate, Queued
<1>2. CASE Next
  BY <1>2, TunnelStep, HandlerStep, OwnStep, TellStep DEF Next, Shutdown
<1> QED
  BY <1>1, <1>2

\* The inductive invariant holds in every reachable state.
THEOREM SyslogSafe == Spec => []SyslogInv
BY SyslogStarts, SyslogStep, PTL DEF Spec

\* The state keeps its type; in particular recvfrom is only called when there
\* is a datagram, and a walk only visits clients of the table (syslog.c:144-217).
THEOREM TypeCorrect == Spec => []TypeOK
<1>1. SyslogInv => TypeOK
  BY DEF SyslogInv
<1> QED
  BY <1>1, SyslogSafe, PTL

\* The clients served are the tunnel's subscribers, and each has been told when
\* the channel is closed (syslog.c:172-188, 218-227).
THEOREM ServesSubscribers == Spec => []Serves
<1>1. SyslogInv => Serves
  BY DEF SyslogInv
<1> QED
  BY <1>1, SyslogSafe, PTL

\* A step of the publisher is a step of Relay, or none.
LEMMA NextImplements ==
    SyslogInv /\ SyslogInv' /\ [Next]_vars => [R!Next]_(R!vars)
<1> SUFFICES ASSUME SyslogInv, SyslogInv', [Next]_vars PROVE [R!Next]_(R!vars)
  OBVIOUS
<1> DEFINE topic == [c \in Client |-> IF c \in clients THEN "log" ELSE None]
           published == [t \in {"log"} |-> taken]
<1>t. /\ clients \subseteq Client /\ todo \subseteq clients /\ taken \in Nat
      /\ heard \in [Client -> 0 .. MaxDatagrams] /\ None # "log"
  BY MaxDatagramsAssumption DEF SyslogInv, TypeOK
<1>1. ASSUME UNCHANGED <<clients, taken, heard, link>> PROVE UNCHANGED R!vars
  BY <1>1 DEF R!vars
<1>2. ASSUME NEW c \in Client, Subscribe(c) PROVE R!Subscribe(c, "log")
  <2>1. clients' = clients \cup {c} /\ heard' = [heard EXCEPT ![c] = taken]
        /\ taken' = taken /\ link' = link
    BY <1>2 DEF Subscribe, Insert, Reads
  <2>2. topic' = [topic EXCEPT ![c] = "log"] /\ published["log"] = taken
    BY <2>1
  <2> QED
    BY <2>1, <2>2 DEF R!Subscribe
<1>3. ASSUME NEW c \in Client, Unsubscribe(c) \/ ShutdownTell(c) PROVE R!Leave(c)
  <2>1. clients' = clients \ {c} /\ UNCHANGED <<taken, heard, link>>
    BY <1>3 DEF Unsubscribe, ShutdownTell, Reads, Tells, datagrams
  <2>2. topic' = [topic EXCEPT ![c] = None]
    BY <2>1
  <2> QED
    BY <2>1, <2>2 DEF R!Leave
<1>4. ASSUME TakeDatagram PROVE R!Publish("log")
  <2>1. taken' = taken + 1 /\ UNCHANGED <<clients, heard, link>> /\ todo = {}
    BY <1>4 DEF TakeDatagram, DatagramTurn, tunnel, SyslogInv, WalkOver
  <2>2. link = "up" => \A c \in Client : topic[c] = "log" => heard[c] = published["log"]
    BY <1>t, <2>1 DEF SyslogInv, UpToDate
  <2>3. published' = [published EXCEPT !["log"] = @ + 1]
    BY <2>1
  <2>4. topic' = topic
    BY <2>1
  <2> QED
    BY <2>1, <2>2, <2>3, <2>4 DEF R!Publish
<1>5. ASSUME NEW c \in Client, SendTo(c) PROVE R!Deliver(c) \/ UNCHANGED R!vars
  <2>1. c \in todo /\ UNCHANGED <<clients, taken, link>>
        /\ heard' = IF link = "up" THEN [heard EXCEPT ![c] = @ + 1] ELSE heard
    BY <1>5 DEF SendTo, tunnel
  <2>2. CASE link = "up"
    <3>1. heard[c] = taken - 1 /\ c \in clients
      BY <1>t, <2>1, <2>2 DEF SyslogInv, UpToDate
    <3>2. heard' = [heard EXCEPT ![c] = @ + 1]
      BY <1>t, <2>1, <2>2, <3>1
    <3>3. topic[c] = "log" /\ published["log"] = taken /\ heard[c] < taken
      BY <1>t, <3>1
    <3> QED
      BY <1>t, <2>1, <2>2, <3>2, <3>3 DEF R!Deliver
  <2>3. CASE link # "up"
    BY <1>1, <2>1, <2>3
  <2> QED
    BY <2>2, <2>3
<1>6. ASSUME Tunnel \/ TunnelBreaks PROVE [R!Next]_(R!vars)
  <2>1. UNCHANGED <<clients, taken, heard>> /\ (link' = link \/ link' = "down")
    BY <1>6 DEF Tunnel, TunnelBreaks, TunnelActs, TunnelSubscribes, TunnelUnsubscribes,
       TunnelForwards, LinkDown, datagrams
  <2>2. CASE link' = link
    BY <1>1, <2>1, <2>2
  <2>3. CASE link' = "down"
    BY <2>1, <2>3 DEF R!Break, R!Next
  <2> QED
    BY <2>1, <2>2, <2>3
<1>7. ASSUME \/ \E ok \in BOOLEAN : OpenReply(ok)
             \/ OpenFails \/ Arrive \/ Interrupt \/ CheckRunning \/ Other \/ ReadFails
             \/ DatagramFails \/ SendDone \/ SendClose \/ Close \/ UNCHANGED vars
      PROVE  UNCHANGED R!vars
  <2>1. UNCHANGED <<clients, taken, heard, link>>
    BY <1>7 DEF OpenReply, OpenFails, Arrive, Interrupt, CheckRunning, Other, ReadFails, Reads,
       DatagramFails, SendDone, SendClose, ToldAll, Close, vars, tunnel, datagrams
  <2> QED
    BY <1>1, <2>1
<1> QED
  BY <1>2, <1>3, <1>4, <1>5, <1>6, <1>7 DEF Next, Handlers, Sending, Shutdown, R!Next

\* Every behaviour of the publisher is one of Relay: its subscribers get the
\* datagrams in order and once (syslog.c:33-43, 195-213).
THEOREM ImplementsRelay == Spec => Implements
<1>1. Init => R!Init
  BY DEF Init, TunnelInit, R!Init
<1>2. SyslogInv /\ SyslogInv' /\ [Next]_vars => [R!Next]_(R!vars)
  BY NextImplements
<1> QED
  BY <1>1, <1>2, SyslogSafe, PTL DEF Spec, Implements, R!Spec
=============================================================================
