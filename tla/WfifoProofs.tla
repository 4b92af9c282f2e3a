----------------------------- MODULE WfifoProofs -----------------------------
(* Proofs about Wfifo, for any clients, paths, hashes, command lines and    *)
(* bounds.                                                                 *)
(*                                                                         *)
(* The lemmas of HotlineProofs keep the two sides in step.  That a client's *)
(* FIFO lies at its path rests on the tree of FIFOs, which only grows until *)
(* the loop is left: CreateKeeps and FailKeeps say what init_fifo() does    *)
(* to it.                                                                  *)
EXTENDS Wfifo, HotlineProofs

LEMMA Types ==
    ASSUME TypeOK
    PROVE  /\ None \notin Fd \cup Path /\ "orphan" \notin Fd \cup {None}
           /\ Capacity \in Nat /\ MaxItems \in Nat /\ Capacity > 0
           /\ setup.mode \in {"r", "w"} /\ setup.base \in Path \cup {None}
           /\ setup.path \in [Client -> Path] /\ setup.hash \in [Path -> Hash]
           /\ \A p \in Path : setup.hash[p] \in Hash /\ Lookup(p) \in Fd \cup {None}
           /\ \A p \in Path : Lookup(p) # None => Lookup(p) \in Open
           /\ Open \subseteq Fd
           /\ \A f \in Fd : relayed[f] \in Nat /\ fifo[f] \in Nat
           /\ written \in Nat
<1>1. setup \in [mode : {"r", "w"}, base : Path \cup {None},
                 path : [Client -> Path], hash : [Path -> Hash]]
  BY SetupsAssumption DEF TypeOK
<1>2. handles \in [Hash -> Fd \cup {None}] /\ fifo \in [Fd -> 0 .. Capacity]
      /\ relayed \in [Fd -> 0 .. MaxItems] /\ written \in 0 .. MaxItems
  BY DEF TypeOK
<1>3. /\ setup.mode \in {"r", "w"} /\ setup.base \in Path \cup {None}
      /\ setup.path \in [Client -> Path] /\ setup.hash \in [Path -> Hash]
  BY <1>1
<1>4. \A p \in Path : setup.hash[p] \in Hash /\ Lookup(p) \in Fd \cup {None}
  BY <1>2, <1>3 DEF Lookup
<1>5. \A p \in Path : Lookup(p) # None => Lookup(p) \in Open
  BY <1>4 DEF Lookup, Open
<1> QED
  BY <1>2, <1>3, <1>4, <1>5, SetupsAssumption DEF Open

\* init_fifo() makes a FIFO: all that is in the tree stays.
LEMMA CreateKeeps ==
    ASSUME FifoInv, NEW p \in Path, NEW f \in Fd, Creates(p, f), setup' = setup
    PROVE  /\ handles' \in [Hash -> Fd \cup {None}]
           /\ file' \in [Path -> Fd \cup {None, "orphan"}]
           /\ fifo' \in [Fd -> 0 .. Capacity]
           /\ UNCHANGED <<written, relayed>>
           /\ f \notin Open /\ Open' = Open \cup {f}
           /\ Counts' /\ InPlace'
           /\ Lookup(p)' = f
           /\ \A q \in Path : Lookup(q) # None => Lookup(q)' = Lookup(q)
<1>t. /\ TypeOK /\ Counts /\ InPlace
      /\ handles \in [Hash -> Fd \cup {None}] /\ file \in [Path -> Fd \cup {None, "orphan"}]
      /\ fifo \in [Fd -> 0 .. Capacity]
  BY DEF FifoInv, TypeOK
<1>1. /\ Lookup(p) = None /\ f \in Fd \ Open
      /\ handles' = [handles EXCEPT ![setup.hash[p]] = f]
      /\ file' = [file EXCEPT ![p] = f]
      /\ fifo' = [fifo EXCEPT ![f] = 0]
      /\ UNCHANGED <<written, relayed>>
  BY DEF Creates
<1>2. /\ handles' \in [Hash -> Fd \cup {None}] /\ file' \in [Path -> Fd \cup {None, "orphan"}]
      /\ fifo' \in [Fd -> 0 .. Capacity]
  BY <1>1, <1>t, Types
<1>3. Open' = Open \cup {f}
  <2>1. handles[setup.hash[p]] = None /\ setup.hash[p] \in Hash /\ f # None
    BY <1>1, <1>t, Types DEF Lookup
  <2>2. \A h \in Hash : handles'[h] = IF h = setup.hash[p] THEN f ELSE handles[h]
    BY <1>1, <1>t
  <2> QED
    BY <2>1, <2>2 DEF Open
<1>4. Counts'
  <2>1. \A g \in Fd : relayed[g] \in Nat /\ fifo[g] \in Nat /\ fifo'[g] \in {0, fifo[g]}
                      /\ relayed'[g] = relayed[g]
    BY <1>1, <1>t, Types
  <2>2. written \in Nat /\ written' = written
    BY <1>1, <1>t, Types
  <2> QED
    BY <1>t, <2>1, <2>2 DEF Counts
<1>5. \A q \in Path : Lookup(q)' = IF setup.hash[q] = setup.hash[p] THEN f ELSE Lookup(q)
  BY <1>1, <1>t, Types DEF Lookup
<1>6. InPlace'
  <2> SUFFICES ASSUME NEW q \in Path, Lookup(q)' # None, Alone(q)' PROVE file'[q] = Lookup(q)'
    BY DEF InPlace
  <2>1. CASE q = p
    BY <1>1, <1>5, <1>t, <2>1
  <2>2. CASE q # p
    <3>1. setup.hash[q] # setup.hash[p] /\ Alone(q)
      BY <2>2 DEF Alone
    <3> QED
      BY <1>1, <1>5, <1>t, <2>2, <3>1 DEF InPlace
  <2> QED
    BY <2>1, <2>2
<1>7. \A q \in Path : Lookup(q) # None => Lookup(q)' = Lookup(q)
  BY <1>1, <1>5 DEF Lookup
<1> QED
  BY <1>1, <1>2, <1>3, <1>4, <1>5, <1>6, <1>7

\* init_fifo() fails: what it leaves behind lies at a path with no FIFO in the
\* tree.
LEMMA FailKeeps ==
    ASSUME FifoInv, NEW p \in Path, Fails(p), setup' = setup
    PROVE  /\ UNCHANGED <<handles, fifo, written, relayed>>
           /\ file' \in [Path -> Fd \cup {None, "orphan"}]
           /\ Open' = Open /\ Counts' /\ InPlace'
           /\ \A q \in Path : Lookup(q)' = Lookup(q)
<1>t. TypeOK /\ Counts /\ InPlace /\ file \in [Path -> Fd \cup {None, "orphan"}]
  BY DEF FifoInv, TypeOK
<1>1. UNCHANGED <<handles, fifo, written, relayed>>
  BY DEF Fails
<1>2. \/ file' = file
      \/ Lookup(p) = None /\ \E left \in {None, "orphan"} : file' = [file EXCEPT ![p] = left]
  BY DEF Fails
<1>3. file' \in [Path -> Fd \cup {None, "orphan"}]
  BY <1>2, <1>t
<1>4. \A q \in Path : Lookup(q)' = Lookup(q) /\ (Alone(q)' <=> Alone(q))
  BY <1>1 DEF Lookup, Alone
<1>5. InPlace'
  BY <1>2, <1>4, <1>t DEF InPlace
<1>6. Counts' /\ Open' = Open
  BY <1>1, <1>t DEF Counts, Open
<1> QED
  BY <1>1, <1>3, <1>4, <1>5, <1>6

LEMMA FifosStart == Init => FifoInv
<1> SUFFICES ASSUME Init PROVE FifoInv
  OBVIOUS
<1>1. Subscribed = {} /\ Open = {}
  BY DEF Init, Subscribed, Open
<1>2. TypeOK
  <2>1. <<>> \in Seq(Message)
    OBVIOUS
  <2> QED
    BY <1>1, <2>1, SetupsAssumption DEF Init, TunnelInit, TypeOK, TunnelTypeOK
<1>3. Agree(Subscribed \cup refused, hotline, tsubs)
  <2>1. hotline = <<>> /\ tsubs = {} /\ Subscribed \cup refused = {}
    BY <1>1 DEF Init, TunnelInit
  <2>2. \A c \in Client : ~Joins(<<>>, c)
    BY DEF Joins
  <2> QED
    BY <2>1, <2>2 DEF Agree
<1>4. Counts
  BY DEF Init, Counts
<1>5. \A p \in Path : Lookup(p) = None
  BY <1>2, Types DEF Init, Lookup
<1> QED
  BY <1>1, <1>2, <1>3, <1>4, <1>5
  DEF Init, FifoInv, Serves, InStep, WalkOver, Leaving, Kept, InPlace, UpToDate

\* The steps of the tunnel.
LEMMA TunnelStep ==
    ASSUME FifoInv, Tunnel \/ TunnelBreaks
    PROVE  FifoInv'
<1>1. /\ TunnelActs
      /\ UNCHANGED <<pc, running, setup, clients, handles, file, fifo, written, relayed>>
      /\ UNCHANGED <<ready, todo, target, refused, heard>>
  BY DEF Tunnel, TunnelBreaks, TunnelActs, fifos, walk
<1>2. /\ TunnelTypeOK'
      /\ \A S : InStep(S) => (link' = "up" => Agree(S, hotline', tsubs'))
  BY <1>1, TunnelKeeps DEF FifoInv, TypeOK
<1>3. Subscribed' = Subscribed /\ Open' = Open
  BY <1>1 DEF Subscribed, Open
<1>4. TypeOK'
  BY <1>1, <1>2, <1>3 DEF FifoInv, TypeOK
<1>5. pc \notin {"shutdown", "closing", "closed"} => InStep(Subscribed \cup refused)'
  BY <1>1, <1>2, <1>3 DEF FifoInv, Serves, InStep
<1>6. link' = "up" => link = "up"
  BY <1>1 DEF TunnelActs, TunnelSubscribes, TunnelUnsubscribes, TunnelForwards, LinkDown
<1>7. ASSUME link' = "up", pc \in {"shutdown", "closing"}, NEW d \in tsubs'
      PROVE  d \in Subscribed \cup refused \/ Holds(hotline', Subscription(d))
  <2>1. \A c \in tsubs : c \in Subscribed \cup refused \/ Holds(hotline, Subscription(c))
    BY <1>6, <1>7 DEF FifoInv, Leaving, Queued
  <2> QED
    BY <1>1, <1>7, <2>1, TunnelKeepsUntold DEF FifoInv, TypeOK
<1>8. pc = "closing" => link' # "up"
  BY <1>6 DEF Tunnel, TunnelBreaks, LinkDown
<1>9. Serves'
  BY <1>1, <1>5, <1>8 DEF Serves
<1>10. WalkOver' /\ Leaving' /\ UpToDate'
  BY <1>1, <1>3, <1>6, <1>7 DEF FifoInv, WalkOver, Leaving, UpToDate, Queued
<1>11. Counts' /\ Kept' /\ InPlace'
  BY <1>1, <1>3 DEF FifoInv, Counts, Kept, InPlace, Alone, Lookup
<1> QED
  BY <1>4, <1>9, <1>10, <1>11 DEF FifoInv

\* The handlers of the tunnel's messages.
LEMMA HandlerStep ==
    ASSUME FifoInv, Handlers
    PROVE  FifoInv'
<1>1. /\ pc = "select" /\ ready = {} /\ todo = {} /\ target = None
      /\ InStep(Subscribed \cup refused)
      /\ TypeOK /\ TunnelTypeOK /\ Counts /\ Kept /\ InPlace /\ UpToDate
      /\ UNCHANGED <<tsubs, setup, ready, todo>>
  BY DEF Handlers, Subscribe, SubscribeFails, Unsubscribe, Data, Ignore, DataRefused, ReadFails,
     Receives, FifoInv, TypeOK, Serves, WalkOver, walk
<1>2. ASSUME link' = link, hotline' \in Seq(Message), Agree(Subscribed \cup refused, hotline, tsubs) =>
                 Agree((Subscribed \cup refused)', hotline', tsubs),
             running' \in BOOLEAN, pc' = "loop", target' = None,
             Subscribed' \subseteq Client, Subscribed' \cap refused' = {}, refused' \subseteq Client,
             clients' \in [Client -> Fd \cup {None}],
             handles' \in [Hash -> Fd \cup {None}], file' \in [Path -> Fd \cup {None, "orphan"}],
             fifo' \in [Fd -> 0 .. Capacity], UNCHANGED <<written, relayed>>,
             heard' \in [Client -> 0 .. MaxItems], Counts', Kept', InPlace', UpToDate'
      PROVE  FifoInv'
  <2>1. TypeOK'
    BY <1>1, <1>2 DEF TypeOK, TunnelTypeOK
  <2>2. Serves'
    BY <1>1, <1>2 DEF Serves, InStep
  <2> QED
    BY <1>1, <1>2, <2>1, <2>2 DEF FifoInv, WalkOver, Leaving
<1>t. /\ clients \in [Client -> Fd \cup {None}] /\ heard \in [Client -> 0 .. MaxItems]
      /\ relayed \in [Fd -> 0 .. MaxItems] /\ refused \subseteq Client \ Subscribed
      /\ running \in BOOLEAN /\ MaxItems \in Nat /\ None \notin Fd
      /\ handles \in [Hash -> Fd \cup {None}] /\ file \in [Path -> Fd \cup {None, "orphan"}]
      /\ fifo \in [Fd -> 0 .. Capacity]
      /\ setup.path \in [Client -> Path]
  BY <1>1, Types DEF TypeOK
<1>3. ASSUME NEW c \in Client, NEW f \in Fd, Reads(Subscription(c)), Receives, UNCHANGED running,
             Finds(setup.path[c], f) \/ Creates(setup.path[c], f),
             clients' = [clients EXCEPT ![c] = f], heard' = [heard EXCEPT ![c] = relayed[f]],
             refused' = refused \ {c}
      PROVE  FifoInv'
  <2>1. /\ hotline' \in Seq(Message) /\ link' = link /\ hotline' = Tail(hotline)
        /\ hotline \in Seq(Message) /\ hotline # <<>> /\ Subscription(c) = Head(hotline)
        /\ pc' = "loop" /\ target' = None
    BY <1>1, <1>3, ReadTypes DEF Receives, walk
  <2>2. /\ handles' \in [Hash -> Fd \cup {None}] /\ file' \in [Path -> Fd \cup {None, "orphan"}]
        /\ fifo' \in [Fd -> 0 .. Capacity] /\ UNCHANGED <<written, relayed>>
        /\ Counts' /\ InPlace' /\ Lookup(setup.path[c])' = f
        /\ \A q \in Path : Lookup(q) # None => Lookup(q)' = Lookup(q)
    <3>1. setup.path[c] \in Path
      BY <1>t
    <3>2. CASE Creates(setup.path[c], f)
      BY <1>1, <3>1, <3>2, CreateKeeps
    <3>3. CASE Finds(setup.path[c], f)
      <4>1. UNCHANGED <<handles, file, fifo, written, relayed>> /\ f = Lookup(setup.path[c])
        BY <3>3 DEF Finds, fifos
      <4>2. \A q \in Path : Lookup(q)' = Lookup(q) /\ Alone(q)' = Alone(q)
        BY <1>1, <4>1 DEF Lookup, Alone
      <4>3. Lookup(setup.path[c])' = Lookup(setup.path[c])
        BY <1>1, <4>1 DEF Lookup
      <4> QED
        BY <1>1, <1>t, <4>1, <4>2, <4>3 DEF Counts, InPlace
    <3> QED
      BY <1>3, <3>2, <3>3
  <2>3. Subscribed' = Subscribed \cup {c}
    BY <1>3, <1>t DEF Subscribed
  <2>4. (Subscribed \cup refused)' = (Subscribed \cup refused) \cup {c}
    BY <1>3, <2>3
  <2>5. Agree(Subscribed \cup refused, hotline, tsubs) =>
            Agree((Subscribed \cup refused)', hotline', tsubs)
    BY <2>1, <2>4, AgreeAfterRead
  <2>6. /\ clients' \in [Client -> Fd \cup {None}] /\ heard' \in [Client -> 0 .. MaxItems]
        /\ Subscribed' \subseteq Client /\ Subscribed' \cap refused' = {} /\ refused' \subseteq Client
    BY <1>3, <1>t, <2>3 DEF Subscribed
  <2>7. Kept'
    <3>1. ASSUME NEW d \in Subscribed', d # c PROVE Lookup(setup.path[d])' = clients'[d]
      <4>1. d \in Subscribed /\ d \in Client /\ clients'[d] = clients[d] /\ clients[d] # None
        BY <1>3, <1>t, <2>3, <3>1 DEF Subscribed
      <4>2. Lookup(setup.path[d]) = clients[d] /\ setup.path[d] \in Path
        BY <1>1, <1>t, <4>1 DEF Kept
      <4> QED
        BY <1>1, <2>2, <4>1, <4>2 DEF Lookup
    <3>2. clients'[c] = f
      BY <1>3, <1>t
    <3> QED
      BY <1>1, <2>2, <3>1, <3>2 DEF Kept
  <2>8. UpToDate'
    <3>1. \A d \in Subscribed' : d # c => d \in Subscribed /\ d \in Client
      BY <2>3 DEF Subscribed
    <3>2. heard'[c] = relayed[f] /\ clients'[c] = f /\ relayed[f] \in Nat
      BY <1>3, <1>t
    <3> QED
      BY <1>1, <1>3, <1>t, <2>1, <2>2, <3>1, <3>2 DEF UpToDate
  <2> QED
    BY <1>2, <1>3, <1>t, <2>1, <2>2, <2>5, <2>6, <2>7, <2>8
<1>4. ASSUME NEW c \in Client, SubscribeFails(c) PROVE FifoInv'
  <2>1. /\ hotline' \in Seq(Message) /\ link' = link /\ hotline' = Tail(hotline)
        /\ hotline \in Seq(Message) /\ hotline # <<>> /\ Subscription(c) = Head(hotline)
        /\ pc' = "loop" /\ UNCHANGED <<clients, running, heard, target>>
        /\ refused' = refused \cup ({c} \ Subscribed)
    BY <1>1, <1>4, ReadTypes DEF SubscribeFails, AfterFailure, Receives, walk
  <2>2. /\ UNCHANGED <<handles, fifo, written, relayed>>
        /\ file' \in [Path -> Fd \cup {None, "orphan"}]
        /\ Counts' /\ InPlace' /\ \A q \in Path : Lookup(q)' = Lookup(q)
    <3>1. setup.path[c] \in Path
      BY <1>t
    <3> QED
      BY <1>1, <1>4, <3>1, FailKeeps DEF SubscribeFails
  <2>3. Subscribed' = Subscribed /\ (Subscribed \cup refused)' = (Subscribed \cup refused) \cup {c}
    BY <2>1 DEF Subscribed
  <2>4. Agree(Subscribed \cup refused, hotline, tsubs) =>
            Agree((Subscribed \cup refused)', hotline', tsubs)
    BY <2>1, <2>3, AgreeAfterRead
  <2>5. \A d \in Subscribed : d \in Client
    BY DEF Subscribed
  <2>6. Kept'
    <3>1. \A d \in Subscribed : Lookup(setup.path[d])' = Lookup(setup.path[d])
      BY <1>1, <2>2 DEF Lookup
    <3> QED
      BY <1>1, <2>1, <2>3, <3>1 DEF Kept
  <2>7. UpToDate'
    BY <1>1, <2>1, <2>2, <2>3 DEF UpToDate
  <2> QED
    BY <1>1, <1>2, <1>t, <2>1, <2>2, <2>3, <2>4, <2>5, <2>6, <2>7
<1>5. ASSUME UNCHANGED <<handles, file, fifo, written, relayed, heard>>, pc' = "loop",
             link' = link, hotline' \in Seq(Message), target' = None, running' \in BOOLEAN,
             Subscribed' \subseteq Subscribed, refused' \subseteq refused,
             \A d \in Subscribed' : clients'[d] = clients[d],
             clients' \in [Client -> Fd \cup {None}],
             Agree(Subscribed \cup refused, hotline, tsubs) =>
                 Agree((Subscribed \cup refused)', hotline', tsubs)
      PROVE  FifoInv'
  <2>1. Counts' /\ InPlace'
    BY <1>1, <1>5 DEF Counts, InPlace, Lookup, Alone
  <2>2. Kept'
    BY <1>1, <1>5 DEF Kept, Lookup
  <2>3. UpToDate'
    BY <1>1, <1>5 DEF UpToDate
  <2>4. Subscribed' \subseteq Client
    BY <1>5 DEF Subscribed
  <2> QED
    BY <1>2, <1>5, <1>t, <2>1, <2>2, <2>3, <2>4
<1>6. ASSUME NEW c \in Client, Unsubscribe(c) PROVE FifoInv'
  <2>1. /\ hotline' \in Seq(Message) /\ link' = link /\ hotline' = Tail(hotline)
        /\ hotline \in Seq(Message) /\ hotline # <<>> /\ Unsubscription(c) = Head(hotline)
        /\ pc' = "loop" /\ clients' = [clients EXCEPT ![c] = None] /\ refused' = refused \ {c}
        /\ UNCHANGED <<handles, file, fifo, written, relayed, running, heard, target>>
    BY <1>1, <1>6, ReadTypes DEF Unsubscribe, Delete, Receives, walk, fifos
  <2>2. Subscribed' = Subscribed \ {c} /\ \A d \in Subscribed' : clients'[d] = clients[d]
    BY <1>t, <2>1 DEF Subscribed
  <2>3. (Subscribed \cup refused)' = (Subscribed \cup refused) \ {c}
    BY <2>1, <2>2
  <2>4. clients' \in [Client -> Fd \cup {None}]
    BY <1>t, <2>1
  <2>5. Agree(Subscribed \cup refused, hotline, tsubs) =>
            Agree((Subscribed \cup refused)', hotline', tsubs)
    BY <2>1, <2>3, AgreeAfterRead
  <2> QED
    BY <1>1, <1>5, <1>t, <2>1, <2>2, <2>4, <2>5
<1>7. ASSUME NEW m \in Requests, Reads(m), UNCHANGED <<clients, fifos, refused, heard>>,
             pc' = "loop", target' = None, running' \in BOOLEAN
      PROVE  FifoInv'
  <2>1. /\ hotline' \in Seq(Message) /\ link' = link /\ hotline' = Tail(hotline)
        /\ hotline \in Seq(Message) /\ hotline # <<>> /\ Head(hotline) \in Requests
        /\ UNCHANGED <<handles, file, fifo, written, relayed, clients, refused, heard>>
    BY <1>1, <1>7, ReadTypes DEF fifos
  <2>2. Subscribed' = Subscribed
    BY <2>1 DEF Subscribed
  <2>3. Agree(Subscribed \cup refused, hotline, tsubs) =>
            Agree((Subscribed \cup refused)', hotline', tsubs)
    BY <2>1, <2>2, AgreeAfterRead
  <2> QED
    BY <1>5, <1>7, <1>t, <2>1, <2>2, <2>3
<1>8. ASSUME Ignore \/ DataRefused PROVE FifoInv'
  BY <1>1, <1>7, <1>8, <1>t DEF Ignore, DataRefused, Receives, walk
<1>9. ASSUME NEW c \in Client, Data(c) PROVE FifoInv'
  <2>1. PICK m \in Requests : Reads(m)
    BY <1>9 DEF Data
  <2>2. /\ hotline' \in Seq(Message) /\ link' = link /\ hotline' = Tail(hotline)
        /\ hotline \in Seq(Message) /\ hotline # <<>> /\ Head(hotline) \in Requests
        /\ pc' = "writing" /\ setup.mode = "w" /\ c \in Subscribed /\ target' = clients[c]
        /\ UNCHANGED <<handles, file, fifo, written, relayed, running, clients, refused, heard>>
    BY <1>1, <1>9, <2>1, ReadTypes DEF Data, fifos
  <2>3. Subscribed' = Subscribed /\ Open' = Open
    BY <2>2 DEF Subscribed, Open
  <2>4. target' \in Open
    <3>1. Lookup(setup.path[c]) = clients[c] /\ clients[c] # None /\ setup.path[c] \in Path
      BY <1>1, <1>t, <2>2 DEF Kept, Subscribed
    <3> QED
      BY <1>1, <2>2, <3>1, Types
  <2>5. TypeOK'
    BY <1>1, <2>2, <2>3, <2>4 DEF TypeOK, TunnelTypeOK
  <2>6. Serves'
    <3>1. Agree(Subscribed \cup refused, hotline, tsubs) =>
              Agree(Subscribed \cup refused, hotline', tsubs)
      BY <2>2, AgreeAfterRead
    <3> QED
      BY <1>1, <2>2, <2>3, <3>1 DEF Serves, InStep
  <2>7. Counts' /\ Kept' /\ InPlace' /\ UpToDate'
    BY <1>1, <2>2, <2>3 DEF Counts, Kept, InPlace, UpToDate, Lookup, Alone
  <2> QED
    BY <1>1, <2>2, <2>3, <2>4, <2>5, <2>6, <2>7 DEF FifoInv, WalkOver, Leaving
<1>10. ASSUME ReadFails PROVE FifoInv'
  <2>1. /\ running' = FALSE /\ pc' = "loop" /\ UNCHANGED <<link, hotline, clients, refused, heard>>
        /\ UNCHANGED <<handles, file, fifo, written, relayed, target>>
    BY <1>10 DEF ReadFails, RunningAfterReadError, Receives, fifos, walk
  <2>2. Subscribed' = Subscribed /\ hotline \in Seq(Message)
    BY <1>1, <2>1 DEF Subscribed, TunnelTypeOK
  <2> QED
    BY <1>1, <1>5, <1>t, <2>1, <2>2
<1> QED
  BY <1>3, <1>4, <1>6, <1>8, <1>9, <1>10 DEF Handlers, Subscribe

\* The common FIFO is made before the loop is entered.
LEMMA OpenStep ==
    ASSUME FifoInv, NEW ok \in BOOLEAN, OpenReply(ok)
    PROVE  FifoInv'
<1>1. /\ pc = "opening" /\ pc' = "loop" /\ running' = (running /\ ok)
      /\ UNCHANGED <<link, hotline, tsubs, setup, clients, ready, todo, target, refused, heard>>
  BY DEF OpenReply, tunnel, walk
<1>t. /\ TypeOK /\ WalkOver /\ Serves /\ Counts /\ Kept /\ InPlace /\ UpToDate
      /\ handles \in [Hash -> Fd \cup {None}] /\ file \in [Path -> Fd \cup {None, "orphan"}]
      /\ fifo \in [Fd -> 0 .. Capacity] /\ running \in BOOLEAN
      /\ setup.base \in Path \cup {None} /\ setup.path \in [Client -> Path]
  BY Types DEF FifoInv, TypeOK
<1>2. Subscribed' = Subscribed
  BY <1>1 DEF Subscribed
<1>3. /\ handles' \in [Hash -> Fd \cup {None}] /\ file' \in [Path -> Fd \cup {None, "orphan"}]
      /\ fifo' \in [Fd -> 0 .. Capacity] /\ UNCHANGED <<written, relayed>>
      /\ Counts' /\ InPlace'
      /\ \A q \in Path : Lookup(q) # None => Lookup(q)' = Lookup(q)
  <2>1. CASE setup.base = None
    <3>1. UNCHANGED <<handles, file, fifo, written, relayed>>
      BY <2>1 DEF OpenReply, fifos
    <3> QED
      BY <1>1, <1>t, <3>1 DEF Counts, InPlace, Lookup, Alone
  <2>2. CASE setup.base # None /\ Fails(setup.base)
    BY <1>1, <1>t, <2>2, FailKeeps
  <2>3. CASE setup.base # None /\ \E f \in Fd : Creates(setup.base, f)
    BY <1>1, <1>t, <2>3, CreateKeeps
  <2> QED
    BY <2>1, <2>2, <2>3 DEF OpenReply
<1>4. TypeOK'
  BY <1>1, <1>t, <1>2, <1>3 DEF TypeOK, TunnelTypeOK, WalkOver
<1>5. Kept'
  <2>1. ASSUME NEW c \in Subscribed PROVE Lookup(setup.path[c])' = clients[c]
    <3>1. Lookup(setup.path[c]) = clients[c] /\ clients[c] # None /\ setup.path[c] \in Path
      BY <1>t DEF Kept, Subscribed
    <3> QED
      BY <1>1, <1>3, <3>1 DEF Lookup
  <2> QED
    BY <1>1, <1>2, <2>1 DEF Kept
<1> QED
  BY <1>1, <1>t, <1>2, <1>3, <1>4, <1>5
  DEF FifoInv, Serves, InStep, WalkOver, Leaving, UpToDate

\* The steps that leave the hotline, the clients and the tree of FIFOs alone.
LEMMA OwnStep ==
    ASSUME FifoInv,
           \/ OpenFails \/ Interrupt \/ CheckRunning \/ WriteFifo \/ Spin \/ ReadStart
           \/ Reading \/ Close
           \/ \E p \in Path : OutsideWrites(p) \/ OutsideReads(p)
    PROVE  FifoInv'
<1>1. /\ UNCHANGED <<link, hotline, tsubs>>
      /\ UNCHANGED <<setup, clients, handles, file, refused>>
  BY DEF OpenFails, Interrupt, CheckRunning, WriteFifo, Spin, ReadStart, Reading, ReadFifo,
     ReadFifoFails, SendTo, ReadDone, Close, OutsideWrites, OutsideReads, tunnel, fifos
<1>2. Subscribed' = Subscribed /\ Open' = Open
  BY <1>1 DEF Subscribed, Open
<1>3. Kept' /\ InPlace'
  BY <1>1, <1>2 DEF FifoInv, Kept, InPlace, Lookup, Alone
<1>t. /\ TypeOK /\ WalkOver /\ Serves /\ Leaving /\ Counts /\ UpToDate
      /\ running \in BOOLEAN /\ fifo \in [Fd -> 0 .. Capacity] /\ relayed \in [Fd -> 0 .. MaxItems]
      /\ written \in 0 .. MaxItems /\ heard \in [Client -> 0 .. MaxItems]
      /\ clients \in [Client -> Fd \cup {None}]
      /\ MaxItems \in Nat /\ Capacity \in Nat /\ Open \subseteq Fd /\ None \notin Fd
      /\ setup.mode \in {"r", "w"}
  BY Types DEF FifoInv, TypeOK
<1>4. ASSUME UNCHANGED <<relayed, todo, heard>>, running' \in BOOLEAN,
             fifo' \in [Fd -> 0 .. Capacity], written' \in 0 .. MaxItems, Counts',
             ready' \subseteq Open, target' \in {None, target}, WalkOver',
             \/ pc' \in {pc, "closed"}
             \/ /\ pc' \in {"loop", "select", "reading"}
                /\ pc \in {"loop", "select", "reading", "writing"}
             \/ pc = "loop" /\ pc' = "shutdown"
      PROVE  FifoInv'
  <2>1. TypeOK'
    BY <1>1, <1>2, <1>4, <1>t DEF TypeOK, TunnelTypeOK
  <2>2. UpToDate'
    BY <1>1, <1>2, <1>4, <1>t DEF UpToDate
  <2>3. Serves'
    <3>1. pc' \notin {"shutdown", "closing", "closed"} =>
              pc \notin {"shutdown", "closing", "closed"}
      BY <1>4
    <3>2. pc' = "closing" => pc = "closing"
      BY <1>4
    <3> QED
      BY <1>1, <1>2, <1>t, <3>1, <3>2 DEF Serves, InStep, Queued
  <2>4. ASSUME pc = "loop", link = "up", NEW c \in tsubs
        PROVE  c \in Subscribed \cup refused \/ Queued(Subscription(c))
    <3>1. TunnelTypeOK /\ Agree(Subscribed \cup refused, hotline, tsubs)
      BY <2>4, <1>t DEF Serves, InStep, TypeOK
    <3> QED
      BY <2>4, <3>1, AllKnown DEF Queued
  <2>5. Leaving'
    BY <1>1, <1>2, <1>4, <1>t, <2>4 DEF Leaving, Queued
  <2> QED
    BY <1>3, <1>4, <2>1, <2>2, <2>3, <2>5 DEF FifoInv
<1>5. fifo' = fifo /\ written' = written /\ relayed' = relayed => Counts'
  BY <1>1, <1>t DEF Counts
<1>6. CASE OpenFails \/ Interrupt \/ CheckRunning \/ Spin \/ Close
  BY <1>1, <1>2, <1>4, <1>5, <1>6, <1>t
  DEF OpenFails, Interrupt, CheckRunning, Spin, Close, fifos, walk, WalkOver, TypeOK
<1>7. CASE ReadStart
  BY <1>1, <1>4, <1>5, <1>7, <1>t DEF ReadStart, Filled, fifos, WalkOver, TypeOK
<1>8. CASE ReadDone
  BY <1>1, <1>4, <1>5, <1>8, <1>t DEF ReadDone, fifos, walk, WalkOver, TypeOK
<1>9. CASE WriteFifo
  <2>1. /\ pc = "writing" /\ pc' = "loop" /\ fifo[target] < Capacity /\ target' = None
        /\ fifo' = [fifo EXCEPT ![target] = @ + 1] /\ target \in Fd /\ setup.mode = "w"
        /\ UNCHANGED <<running, written, relayed, ready, todo, heard>>
    BY <1>9, <1>t DEF WriteFifo, WalkOver
  <2>2. fifo' \in [Fd -> 0 .. Capacity]
    BY <1>t, <2>1
  <2>3. Counts'
    BY <1>1, <1>t, <2>1 DEF Counts
  <2>4. WalkOver'
    BY <1>1, <1>t, <2>1 DEF WalkOver
  <2>5. ready' \subseteq Open
    BY <1>t, <2>1 DEF TypeOK
  <2> QED
    BY <1>4, <1>t, <2>1, <2>2, <2>3, <2>4, <2>5
<1>10. ASSUME NEW p \in Path, OutsideWrites(p) PROVE FifoInv'
  <2>1. /\ setup.mode = "r" /\ file[p] \in Fd /\ fifo[file[p]] < Capacity /\ written < MaxItems
        /\ fifo' = [fifo EXCEPT ![file[p]] = @ + 1] /\ written' = written + 1
        /\ UNCHANGED <<pc, running, relayed, ready, todo, target, heard>>
    BY <1>10, <1>t DEF OutsideWrites, walk
  <2>2. fifo' \in [Fd -> 0 .. Capacity] /\ written' \in 0 .. MaxItems
    BY <1>t, <2>1
  <2>3. Counts'
    <3>1. \A f \in Fd : fifo'[f] \in {fifo[f], fifo[f] + 1} /\ relayed'[f] = relayed[f]
      BY <1>t, <2>1
    <3>2. \A f \in Fd : relayed[f] \in Nat /\ fifo[f] \in Nat /\ relayed[f] + fifo[f] <= written
      BY <1>t, <2>1 DEF Counts
    <3> QED
      BY <1>1, <1>t, <2>1, <3>1, <3>2 DEF Counts
  <2>4. WalkOver' /\ ready' \subseteq Open
    BY <1>1, <1>2, <1>t, <2>1 DEF WalkOver, TypeOK
  <2> QED
    BY <1>4, <1>t, <2>1, <2>2, <2>3, <2>4
<1>11. ASSUME NEW p \in Path, OutsideReads(p) PROVE FifoInv'
  <2>1. /\ setup.mode = "w" /\ file[p] \in Fd /\ fifo[file[p]] > 0
        /\ fifo' = [fifo EXCEPT ![file[p]] = @ - 1]
        /\ UNCHANGED <<pc, running, written, relayed, ready, todo, target, heard>>
    BY <1>11, <1>t DEF OutsideReads, walk
  <2>2. fifo' \in [Fd -> 0 .. Capacity]
    BY <1>t, <2>1
  <2>3. Counts'
    BY <1>1, <1>t, <2>1 DEF Counts
  <2>4. WalkOver' /\ ready' \subseteq Open
    BY <1>1, <1>2, <1>t, <2>1 DEF WalkOver, TypeOK
  <2> QED
    BY <1>4, <1>t, <2>1, <2>2, <2>3, <2>4
<1>12. ASSUME NEW f \in Fd, ReadFifo(f) PROVE FifoInv'
  <2>1. PICK n \in 1 .. fifo[f] : fifo' = [fifo EXCEPT ![f] = @ - n]
    BY <1>12 DEF ReadFifo
  <2>2. /\ pc = "reading" /\ setup.mode = "r" /\ todo = {} /\ ready' = ready \ {f}
        /\ relayed' = [relayed EXCEPT ![f] = @ + 1]
        /\ todo' = {c \in Subscribed : clients[c] = f}
        /\ UNCHANGED <<pc, running, written, target, heard>>
    BY <1>12, <1>t DEF ReadFifo, Receivers, WalkOver
  <2>3. Counts'
    <3>1. \A g \in Fd : relayed[g] \in Nat /\ fifo[g] \in Nat /\ relayed[g] + fifo[g] <= written
      BY <1>t, <2>2 DEF Counts
    <3>2. \A g \in Fd : relayed'[g] + fifo'[g] <= written
      BY <1>t, <2>1, <2>2, <3>1
    <3> QED
      BY <1>1, <2>2, <3>2 DEF Counts
  <2>4. fifo' \in [Fd -> 0 .. Capacity]
    BY <1>t, <2>1
  <2>5. relayed' \in [Fd -> 0 .. MaxItems]
    <3>1. relayed[f] + 1 <= written /\ relayed[f] \in Nat
      <4>1. relayed[f] + fifo[f] <= written /\ n >= 1 /\ n <= fifo[f] /\ fifo[f] \in Nat
        BY <1>t, <2>1, <2>2 DEF Counts
      <4> QED
        BY <1>t, <2>1, <4>1
    <3> QED
      BY <1>t, <2>2, <3>1
  <2>6. TypeOK'
    <3>1. ready' \subseteq Open' /\ todo' \subseteq Subscribed' /\ target' \in Open' \cup {None}
      BY <1>2, <1>t, <2>2 DEF TypeOK
    <3> QED
      BY <1>1, <1>2, <1>t, <2>2, <2>4, <2>5, <3>1 DEF TypeOK, TunnelTypeOK
  <2>7. UpToDate'
    <3>1. \A c \in Subscribed : c \in Client /\ clients[c] \in Fd
      BY <1>t DEF Subscribed
    <3>2. \A g \in Fd : relayed'[g] = IF g = f THEN relayed[g] + 1 ELSE relayed[g]
      BY <1>t, <2>2
    <3>3. link = "up" => \A c \in Subscribed : heard[c] = relayed[clients[c]]
      BY <1>t, <2>2, <3>1 DEF UpToDate
    <3>4. \A c \in Subscribed : relayed[clients[c]] \in Nat
      BY <1>t, <3>1
    <3> QED
      BY <1>1, <1>2, <2>2, <3>1, <3>2, <3>3, <3>4 DEF UpToDate
  <2> QED
    BY <1>1, <1>2, <1>3, <1>t, <2>2, <2>3, <2>6, <2>7 DEF FifoInv, Serves, InStep, WalkOver, Leaving
<1>13. ASSUME NEW c \in Client, SendTo(c) PROVE FifoInv'
  <2>1. /\ pc = "reading" /\ c \in todo /\ todo' = todo \ {c}
        /\ heard' = IF link = "up" THEN [heard EXCEPT ![c] = @ + 1] ELSE heard
        /\ UNCHANGED <<pc, running, fifo, written, relayed, ready, target>>
    BY <1>13 DEF SendTo, fifos
  <2>2. c \in Subscribed /\ clients[c] \in Fd
    BY <1>t, <2>1 DEF TypeOK, Subscribed
  <2>3. link = "up" => heard[c] + 1 = relayed[clients[c]] /\ heard[c] \in Nat
    BY <1>t, <2>1, <2>2 DEF UpToDate
  <2>4. heard' \in [Client -> 0 .. MaxItems]
    BY <1>t, <2>1, <2>2, <2>3
  <2>5. TypeOK'
    BY <1>1, <1>2, <1>t, <2>1, <2>4 DEF TypeOK, TunnelTypeOK
  <2>6. UpToDate'
    <3>1. \A d \in Subscribed : d \in Client /\ clients[d] \in Fd
      BY <1>t DEF Subscribed
    <3> QED
      BY <1>1, <1>2, <1>t, <2>1, <2>2, <2>3, <3>1 DEF UpToDate
  <2>7. Counts'
    BY <1>5, <2>1
  <2> QED
    BY <1>1, <1>2, <1>3, <1>t, <2>1, <2>5, <2>6, <2>7
    DEF FifoInv, Serves, InStep, WalkOver, Leaving
<1>14. ASSUME NEW f \in Fd, ReadFifoFails(f) PROVE FifoInv'
  <2>1. /\ pc = "reading" /\ ready' = ready \ {f}
        /\ UNCHANGED <<pc, running, fifo, written, relayed, todo, target, heard>>
    BY <1>14 DEF ReadFifoFails, fifos
  <2>2. Counts'
    BY <1>5, <2>1
  <2>3. WalkOver' /\ ready' \subseteq Open
    BY <1>1, <1>2, <1>t, <2>1 DEF WalkOver, TypeOK
  <2> QED
    BY <1>4, <1>t, <2>1, <2>2, <2>3
<1> QED
  BY <1>6, <1>7, <1>8, <1>9, <1>10, <1>11, <1>12, <1>13, <1>14 DEF Reading

\* unsubscribe() of one client, and the end of the FIFOs.
LEMMA ShutdownStep ==
    ASSUME FifoInv, Shutdown
    PROVE  FifoInv'
<1>t. /\ pc = "shutdown" /\ ready = {} /\ todo = {} /\ target = None
      /\ TypeOK /\ Counts /\ Kept /\ InPlace /\ UpToDate /\ Leaving
      /\ clients \in [Client -> Fd \cup {None}]
  BY DEF Shutdown, ShutdownTell, SendClose, FifoInv, WalkOver, TypeOK
<1>1. ASSUME NEW c \in Client, ShutdownTell(c) PROVE FifoInv'
  <2>1. /\ pc' = "shutdown" /\ clients' = [clients EXCEPT ![c] = None] /\ tsubs' = tsubs \ {c}
        /\ UNCHANGED <<link, hotline, running, setup, handles, file, fifo, written, relayed>>
        /\ UNCHANGED <<ready, todo, target, refused, heard>>
    BY <1>1 DEF ShutdownTell, Tells, fifos, walk
  <2>2. /\ Subscribed' = Subscribed \ {c} /\ Open' = Open
        /\ \A d \in Subscribed' : clients'[d] = clients[d]
    BY <1>t, <2>1 DEF Subscribed, Open
  <2>3. clients' \in [Client -> Fd \cup {None}]
    BY <1>t, <2>1
  <2>4. TypeOK'
    BY <1>t, <2>1, <2>2, <2>3 DEF TypeOK, TunnelTypeOK
  <2>5. Counts' /\ InPlace' /\ Kept' /\ UpToDate'
    BY <1>t, <2>1, <2>2 DEF Counts, InPlace, Kept, Lookup, Alone, UpToDate
  <2> QED
    BY <1>t, <2>1, <2>2, <2>4, <2>5 DEF FifoInv, Serves, WalkOver, Leaving, Queued
<1>2. ASSUME SendClose PROVE FifoInv'
  <2>1. /\ pc' = "closing" /\ Subscribed = {} /\ handles' = [h \in Hash |-> None]
        /\ UNCHANGED <<link, hotline, tsubs, running, setup, clients, file, fifo, written>>
        /\ UNCHANGED <<relayed, ready, todo, target, refused, heard>>
    BY <1>2 DEF SendClose, ToldAll, tunnel, walk
  <2>2. Subscribed' = {} /\ Open' = {}
    BY <2>1 DEF Subscribed, Open
  <2>3. \A p \in Path : Lookup(p)' = None
    BY <1>t, <2>1, Types DEF Lookup
  <2>4. TypeOK'
    BY <1>t, <2>1, <2>2 DEF TypeOK, TunnelTypeOK
  <2>5. Counts' /\ InPlace' /\ Kept' /\ UpToDate'
    BY <1>t, <2>1, <2>2, <2>3 DEF Counts, InPlace, Kept, UpToDate
  <2> QED
    BY <1>t, <2>1, <2>2, <2>4, <2>5 DEF FifoInv, Serves, WalkOver, Leaving, Queued
<1> QED
  BY <1>1, <1>2 DEF Shutdown

LEMMA FifosStep == FifoInv /\ [Next]_vars => FifoInv'
<1> SUFFICES ASSUME FifoInv, [Next]_vars PROVE FifoInv'
  OBVIOUS
<1>1. CASE UNCHANGED vars
  <2>1. /\ UNCHANGED <<link, hotline, tsubs>>
        /\ UNCHANGED <<pc, running, setup, clients, handles, file, fifo, written, relayed>>
        /\ UNCHANGED <<ready, todo, target, refused, heard>>
    BY <1>1 DEF vars, tunnel, fifos, walk
  <2>2. Subscribed' = Subscribed /\ Open' = Open
    BY <2>1 DEF Subscribed, Open
  <2>3. TypeOK' /\ Serves'
    BY <2>1, <2>2 DEF FifoInv, TypeOK, TunnelTypeOK, Serves, InStep, Queued
  <2> QED
    BY <2>1, <2>2, <2>3 DEF FifoInv, WalkOver, Leaving, Counts, Kept, InPlace, UpToDate,
       Queued, Lookup, Alone
<1>2. CASE Next
  BY <1>2, TunnelStep, HandlerStep, OpenStep, OwnStep, ShutdownStep DEF Next
<1> QED
  BY <1>1, <1>2

\* The inductive invariant holds in every reachable state.
THEOREM FifosSafe == Spec => []FifoInv
BY FifosStart, FifosStep, PTL DEF Spec

\* The state keeps its type; in particular a FIFO never holds more than it can,
\* and a walk only visits FIFOs that are open and clients of the tree
\* (wfifo.c:33-201, 365-394).
THEOREM TypeCorrect == Spec => []TypeOK
<1>1. FifoInv => TypeOK
  BY DEF FifoInv
<1> QED
  BY <1>1, FifosSafe, PTL

\* The clients with a FIFO are the tunnel's subscribers, but for those it could
\* not be made for, and each has been told when the channel is closed
\* (wfifo.c:306-318, 376-387).
THEOREM ServesSubscribers == Spec => []Serves
<1>1. FifoInv => Serves
  BY DEF FifoInv
<1> QED
  BY <1>1, FifosSafe, PTL

\* A client's FIFO is the one others find at its path, unless another path has
\* the same hash (wfifo.c:125-201).
THEOREM FifosReachable == Spec => []Reachable
<1>1. FifoInv => Reachable
  <2> SUFFICES ASSUME FifoInv, NEW c \in Subscribed, Alone(setup.path[c])
               PROVE  file[setup.path[c]] = clients[c]
    BY DEF Reachable
  <2>1. setup.path[c] \in Path /\ Lookup(setup.path[c]) = clients[c] /\ clients[c] # None
    BY Types DEF FifoInv, Kept, Subscribed
  <2> QED
    BY <2>1 DEF FifoInv, InPlace
<1> QED
  BY <1>1, FifosSafe, PTL

\* A step of the publisher is a step of Relay, or none.
LEMMA NextImplements ==
    FifoInv /\ FifoInv' /\ [Next]_vars => [R!Next]_(R!vars)
<1> SUFFICES ASSUME FifoInv, FifoInv', [Next]_vars PROVE [R!Next]_(R!vars)
  OBVIOUS
<1>t. /\ clients \in [Client -> Fd \cup {None}] /\ relayed \in [Fd -> 0 .. MaxItems]
      /\ heard \in [Client -> 0 .. MaxItems] /\ todo \subseteq Subscribed /\ None \notin Fd
      /\ MaxItems \in Nat
  BY SetupsAssumption DEF FifoInv, TypeOK
<1>1. ASSUME UNCHANGED <<clients, relayed, heard, link>> PROVE UNCHANGED R!vars
  BY <1>1 DEF R!vars
<1>2. ASSUME NEW c \in Client, Subscribe(c) PROVE \E f \in Fd : R!Subscribe(c, f)
  <2>1. PICK f \in Fd : /\ Finds(setup.path[c], f) \/ Creates(setup.path[c], f)
                        /\ clients' = [clients EXCEPT ![c] = f]
                        /\ heard' = [heard EXCEPT ![c] = relayed[f]]
    BY <1>2 DEF Subscribe
  <2>2. relayed' = relayed /\ link' = link
    BY <1>2, <2>1 DEF Subscribe, Reads, Finds, Creates, fifos
  <2> QED
    BY <2>1, <2>2 DEF R!Subscribe
<1>3. ASSUME NEW c \in Client, Unsubscribe(c) \/ ShutdownTell(c) PROVE R!Leave(c)
  BY <1>3 DEF Unsubscribe, Delete, ShutdownTell, Reads, Tells, fifos, R!Leave
<1>4. ASSUME NEW f \in Fd, ReadFifo(f) PROVE R!Publish(f)
  <2>1. relayed' = [relayed EXCEPT ![f] = @ + 1] /\ UNCHANGED <<clients, heard, link>> /\ todo = {}
    BY <1>4 DEF ReadFifo, tunnel
  <2>2. link = "up" => \A c \in Client : clients[c] = f => heard[c] = relayed[f]
    BY <1>t, <2>1 DEF FifoInv, UpToDate, Subscribed
  <2> QED
    BY <2>1, <2>2 DEF R!Publish
<1>5. ASSUME NEW c \in Client, SendTo(c) PROVE R!Deliver(c) \/ UNCHANGED R!vars
  <2>1. c \in todo /\ UNCHANGED <<clients, relayed, link>>
        /\ heard' = IF link = "up" THEN [heard EXCEPT ![c] = @ + 1] ELSE heard
    BY <1>5 DEF SendTo, tunnel, fifos
  <2>2. CASE link = "up"
    <3>1. clients[c] # None /\ clients[c] \in Fd /\ heard[c] = relayed[clients[c]] - 1
      BY <1>t, <2>1, <2>2 DEF FifoInv, UpToDate, Subscribed
    <3>2. heard[c] < relayed[clients[c]]
      BY <1>t, <3>1
    <3> QED
      BY <2>1, <2>2, <3>1, <3>2 DEF R!Deliver
  <2>3. CASE link # "up"
    BY <1>1, <2>1, <2>3
  <2> QED
    BY <2>2, <2>3
<1>6. ASSUME Tunnel \/ TunnelBreaks PROVE [R!Next]_(R!vars)
  <2>1. UNCHANGED <<clients, relayed, heard>> /\ (link' = link \/ link' = "down")
    BY <1>6 DEF Tunnel, TunnelBreaks, TunnelActs, TunnelSubscribes, TunnelUnsubscribes,
       TunnelForwards, LinkDown, fifos
  <2>2. CASE link' = link
    BY <1>1, <2>1, <2>2
  <2>3. CASE link' = "down"
    BY <2>1, <2>3 DEF R!Break, R!Next
  <2> QED
    BY <2>1, <2>2, <2>3
<1>7. ASSUME \/ \E ok \in BOOLEAN : OpenReply(ok)
             \/ \E p \in Path : OutsideWrites(p) \/ OutsideReads(p)
             \/ \E c \in Client : SubscribeFails(c) \/ Data(c)
             \/ \E f \in Fd : ReadFifoFails(f)
             \/ OpenFails \/ Interrupt \/ CheckRunning \/ Ignore \/ DataRefused \/ ReadFails
             \/ WriteFifo \/ Spin \/ ReadStart \/ ReadDone \/ SendClose \/ Close
             \/ UNCHANGED vars
      PROVE  UNCHANGED R!vars
  <2>1. UNCHANGED <<clients, relayed, heard, link>>
    BY <1>7 DEF OpenReply, Creates, Fails, OutsideWrites, OutsideReads, SubscribeFails,
       AfterFailure, Data, OpenFails, Interrupt, CheckRunning, Ignore, DataRefused, ReadFails,
       Reads, WriteFifo, Spin, ReadStart, ReadDone, ReadFifoFails, SendClose, Close, vars, tunnel,
       fifos
  <2> QED
    BY <1>1, <2>1
<1> QED
  BY <1>2, <1>3, <1>4, <1>5, <1>6, <1>7 DEF Next, Handlers, Reading, Shutdown, R!Next

\* Every behaviour of the publisher is one of Relay: what is read from a FIFO
\* reaches its clients in order and once (wfifo.c:33-95, 365-373).
THEOREM ImplementsRelay == Spec => Implements
<1>1. Init => R!Init
  BY DEF Init, TunnelInit, R!Init
<1>2. FifoInv /\ FifoInv' /\ [Next]_vars => [R!Next]_(R!vars)
  BY NextImplements
<1> QED
  BY <1>1, <1>2, FifosSafe, PTL DEF Spec, Implements, R!Spec
=============================================================================
