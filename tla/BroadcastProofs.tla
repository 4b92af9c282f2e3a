--------------------------- MODULE BroadcastProofs ---------------------------
(***************************************************************************)
(* Proofs about Broadcast, for any number of clients, users, groups and    *)
(* addresses.                                                              *)
(***************************************************************************)
EXTENDS Broadcast, FiniteSetTheorems, TLAPS

-----------------------------------------------------------------------------
(* The clients attached to a handle.                                       *)

\* Only finitely many clients hold a handle, so counting them makes sense.
LEMMA HoldersFinite == \A h : IsFiniteSet(Holders(h))
BY ClientAssumption, FS_Subset DEF Holders, Attached, Subscribed

\* One client that goes takes one from the count of its own handle and
\* leaves the others alone.
LEMMA HoldersAfterRelease ==
    ASSUME NEW c \in Attached, Attached' = Attached \ {c},
           \A d \in Attached' : clients'[d] = clients[d]
    PROVE  \A h : /\ Holders(h)' = Holders(h) \ {c}
                  /\ Cardinality(Holders(h)') =
                       IF h = clients[c] THEN Cardinality(Holders(h)) - 1
                       ELSE Cardinality(Holders(h))
<1>1. ASSUME NEW h PROVE Holders(h)' = Holders(h) \ {c}
  BY DEF Holders
<1>2. ASSUME NEW h PROVE c \in Holders(h) <=> h = clients[c]
  BY DEF Holders
<1> QED
  BY <1>1, <1>2, HoldersFinite, FS_RemoveElement

\* A client that comes adds one to the count of the handle it is given.
LEMMA HoldersAfterAttach ==
    ASSUME NEW c \in Client, NEW h, c \notin Attached,
           Attached' = Attached \cup {c}, clients'[c] = h,
           \A d \in Attached : clients'[d] = clients[d]
    PROVE  \A k : /\ k # h => Holders(k)' = Holders(k)
                  /\ k = h => /\ Holders(k)' = Holders(k) \cup {c}
                              /\ Cardinality(Holders(k)') = Cardinality(Holders(k)) + 1
<1>1. ASSUME NEW k, k # h PROVE Holders(k)' = Holders(k)
  BY <1>1 DEF Holders
<1>2. Holders(h)' = Holders(h) \cup {c}
  BY DEF Holders
<1>3. c \notin Holders(h)
  BY DEF Holders
<1> QED
  BY <1>1, <1>2, <1>3, HoldersFinite, FS_AddElement

-----------------------------------------------------------------------------
(* The heap.                                                               *)

\* A step that leaves the tree and the handles alone keeps the invariant.
LEMMA HeapFrame ==
    ASSUME HeapInv, TypeOK', UNCHANGED <<clients, live, name, ref, released>>,
           pc' = pc \/ released = {} \/ pc' = "crashed"
    PROVE  HeapInv'
<1>1. Attached' = Attached /\ \A h : Holders(h)' = Holders(h)
  BY DEF Attached, Subscribed, Holders
<1> QED
  BY <1>1 DEF HeapInv, HandlesOwned, OneHandlePerUser, NamesKnown, ReleasedAtExit

\* unsubscribe() on an attached client keeps every count exact and frees
\* exactly the handles that nobody is left to use.
LEMMA ReleaseKeepsHeap ==
    ASSUME HeapInv, NEW c \in Attached, Release(c), Attached' = Attached \ {c},
           \A d \in Attached' : clients'[d] = clients[d]
    PROVE  /\ HandlesOwned' /\ OneHandlePerUser' /\ NamesKnown'
           /\ live' \subseteq Handle
           /\ ref' \in [Handle -> Nat]
           /\ name' \in [Handle -> User \cup {NoUser}]
           /\ groups' \in [Handle -> SUBSET Group]
           /\ tsubs' \subseteq Client
           /\ view' \in [Client -> [Group -> SUBSET User]]
<1>0. PICK h : h = clients[c]
  OBVIOUS
<1>1. /\ c \in Client /\ h \in live /\ h \in Handle
      /\ ref[h] = Cardinality(Holders(h)) /\ ref[h] > 0 /\ ref[h] \in Nat
  BY <1>0 DEF HeapInv, TypeOK, HandlesOwned, Attached, Subscribed
<1>2. \A k : /\ Holders(k)' = Holders(k) \ {c}
             /\ Cardinality(Holders(k)') = IF k = h THEN Cardinality(Holders(k)) - 1
                                           ELSE Cardinality(Holders(k))
  BY <1>0, HoldersAfterRelease
<1>3. ref' = [ref EXCEPT ![h] = @ - 1]
  BY <1>0 DEF Release
<1>4. ref' \in [Handle -> Nat]
  BY <1>1, <1>3 DEF HeapInv, TypeOK
<1>5. \A k \in live : ref'[k] = Cardinality(Holders(k)')
  BY <1>1, <1>2, <1>3 DEF HeapInv, TypeOK, HandlesOwned
<1>6. \A k \in live : k # h => ref'[k] > 0
  BY <1>3 DEF HeapInv, TypeOK, HandlesOwned
<1>7. LastHolder(h) => Holders(h)' = {}
  <2>1. SUFFICES ASSUME LastHolder(h) PROVE Cardinality(Holders(h)') = 0
    BY <1>2, HoldersFinite, FS_EmptySet, FS_RemoveElement
  <2> QED
    BY <1>1, <1>2, <2>1 DEF LastHolder
<1>8. ~LastHolder(h) => ref'[h] > 0
  BY <1>1, <1>3 DEF LastHolder, HeapInv, TypeOK
<1>9. HandlesOwned'
  <2>1. \A k \in live' : k \in live /\ (k = h => ~LastHolder(h))
    BY <1>0 DEF Release
  <2>2. \A k \in live' : ref'[k] = Cardinality(Holders(k)') /\ ref'[k] > 0
    BY <1>5, <1>6, <1>8, <2>1
  <2>3. ASSUME NEW d \in Attached' PROVE clients'[d] \in live'
    <3>1. clients'[d] = clients[d] /\ clients[d] \in live /\ d # c
      BY DEF HeapInv, HandlesOwned
    <3>2. CASE clients[d] = h
      <4>1. d \in Holders(h)'
        BY <3>1, <3>2 DEF Holders
      <4> QED
        BY <1>0, <1>7, <3>1, <4>1 DEF Release
    <3>3. CASE clients[d] # h
      BY <1>0, <3>1, <3>3 DEF Release
    <3> QED
      BY <3>2, <3>3
  <2> QED
    BY <2>2, <2>3 DEF HandlesOwned
<1>10. OneHandlePerUser' /\ NamesKnown'
  BY <1>0, <1>1 DEF Release, HeapInv, TypeOK, OneHandlePerUser, NamesKnown
<1>11. /\ live' \subseteq Handle
       /\ name' \in [Handle -> User \cup {NoUser}]
       /\ groups' \in [Handle -> SUBSET Group]
       /\ tsubs' \subseteq Client
  BY <1>0, <1>1 DEF Release, HeapInv, TypeOK
<1>12. view' \in [Client -> [Group -> SUBSET User]]
  <2>1. ViewsAfterLeave(h, groups[h]) \in [Client -> [Group -> SUBSET User]]
    BY DEF ViewsAfterLeave, HeapInv, TypeOK
  <2>2. ASSUME NEW v \in [Client -> [Group -> SUBSET User]]
        PROVE  Forget(v, c) \in [Client -> [Group -> SUBSET User]]
    BY DEF Forget
  <2> QED
    BY <1>0, <2>1, <2>2 DEF Release, HeapInv, TypeOK
<1> QED
  BY <1>4, <1>9, <1>10, <1>11, <1>12

-----------------------------------------------------------------------------
(* The actions that touch the tree or the handles.                         *)

\* A further client of a user shares the handle the search finds.
LEMMA SharedKeepsHeap ==
    ASSUME HeapInv, NEW c \in Client, NEW u \in User, SubscribeShared(c, u)
    PROVE  HeapInv'
<1>1. PICK h \in HandlesOf(u) : /\ ref' = Retain(h)
                                /\ clients' = [clients EXCEPT ![c] = h]
  BY DEF SubscribeShared
<1>2. pc = "select" /\ pc' = "loop" /\ released = {} /\ released' = {} /\ c \notin Subscribed
  BY DEF SubscribeShared, Receives, Return, HeapInv, ReleasedAtExit, Subscribed
<1>3. h \in live /\ h \in Handle /\ h # NoHandle
  BY <1>2, HandleAssumption
  DEF HandlesOf, Attached, Subscribed, HeapInv, HandlesOwned, TypeOK
<1>4. /\ c \notin Attached /\ Attached' = Attached \cup {c} /\ clients'[c] = h
      /\ \A d \in Attached : clients'[d] = clients[d]
  BY <1>1, <1>2, <1>3 DEF Attached, Subscribed, HeapInv, TypeOK
<1>5. \A k : /\ k # h => Holders(k)' = Holders(k)
             /\ k = h => Cardinality(Holders(k)') = Cardinality(Holders(k)) + 1
  BY <1>4, HoldersAfterAttach
<1>6. /\ ref' = [ref EXCEPT ![h] = @ + 1]
      /\ UNCHANGED <<live, name, groups>>
  BY <1>1 DEF Retain, SubscribeShared
<1>7. \A k \in live : ref'[k] = Cardinality(Holders(k)') /\ ref'[k] > 0
  <2> TAKE k \in live
  <2>1. ref[k] = Cardinality(Holders(k)) /\ ref[k] > 0 /\ k \in Handle /\ ref[k] \in Nat
    BY DEF HeapInv, TypeOK, HandlesOwned
  <2>2. CASE k = h
    BY <1>5, <1>6, <2>1, <2>2 DEF HeapInv, TypeOK
  <2>3. CASE k # h
    BY <1>5, <1>6, <2>1, <2>3 DEF HeapInv, TypeOK
  <2> QED
    BY <2>2, <2>3
<1>8. HandlesOwned'
  BY <1>3, <1>4, <1>6, <1>7 DEF HeapInv, HandlesOwned
<1>9. TypeOK'
  BY <1>1, <1>2, <1>3, <1>6 DEF HeapInv, TypeOK, SubscribeShared, Return
<1> QED
  BY <1>2, <1>6, <1>8, <1>9 DEF HeapInv, OneHandlePerUser, NamesKnown, ReleasedAtExit

\* The first client of a user gets a handle of its own: nobody holds it and
\* no other handle has the user's name.
LEMMA FirstKeepsHeap ==
    ASSUME HeapInv, NEW c \in Client, NEW u \in User, SubscribeFirst(c, u)
    PROVE  HeapInv'
<1>1. PICK h \in Handle \ live :
          /\ live' = live \cup {h}
          /\ name' = [name EXCEPT ![h] = u]
          /\ ref' = [ref EXCEPT ![h] = 1]
          /\ groups' = [groups EXCEPT ![h] = {}]
          /\ clients' = [clients EXCEPT ![c] = h]
  BY DEF SubscribeFirst, InitialRef
<1>2. /\ pc = "select" /\ pc' = "loop" /\ released = {} /\ released' = {}
      /\ c \notin Subscribed /\ h # NoHandle
  BY HandleAssumption
  DEF SubscribeFirst, Receives, Return, HeapInv, ReleasedAtExit, Subscribed
<1>3. /\ c \notin Attached /\ Attached' = Attached \cup {c} /\ clients'[c] = h
      /\ \A d \in Attached : clients'[d] = clients[d]
  BY <1>1, <1>2 DEF Attached, Subscribed, HeapInv, TypeOK
<1>4. Holders(h) = {}
  BY DEF Holders, HeapInv, HandlesOwned
<1>5. \A k : /\ k # h => Holders(k)' = Holders(k)
             /\ k = h => Cardinality(Holders(k)') = 1
  BY <1>3, <1>4, HoldersAfterAttach, FS_EmptySet
<1>6. \A k \in live' : ref'[k] = Cardinality(Holders(k)') /\ ref'[k] > 0
  BY <1>1, <1>5 DEF HeapInv, TypeOK, HandlesOwned
<1>7. HandlesOwned'
  BY <1>1, <1>3, <1>6 DEF HeapInv, HandlesOwned
<1>8. \A k \in live : name[k] # u
  <2>1. SUFFICES ASSUME NEW k \in live, name[k] = u PROVE FALSE
    OBVIOUS
  <2>2. Holders(k) # {}
    BY HoldersFinite, FS_EmptySet DEF HeapInv, HandlesOwned
  <2>3. PICK d \in Subscribed : clients[d] = k
    BY <2>2 DEF Holders, Attached
  <2>4. k \in HandlesOf(u)
    BY <2>1, <2>3 DEF HandlesOf
  <2> QED
    BY <2>4 DEF SubscribeFirst
<1>9. OneHandlePerUser' /\ NamesKnown'
  BY <1>1, <1>8 DEF HeapInv, TypeOK, OneHandlePerUser, NamesKnown
<1>10. TypeOK'
  BY <1>1, <1>2 DEF HeapInv, TypeOK, SubscribeFirst, Return
<1> QED
  BY <1>2, <1>7, <1>9, <1>10 DEF HeapInv, ReleasedAtExit

\* CHANNEL_UNSUBSCRIBE of an attached client.
LEMMA UnsubscribeKeepsHeap ==
    ASSUME HeapInv, NEW c \in Client, Unsubscribe(c)
    PROVE  HeapInv'
<1>1. /\ pc = "select" /\ pc' = "loop" /\ released = {} /\ released' = {} /\ Release(c)
      /\ clients' = [clients EXCEPT ![c] = NoHandle] /\ clients[c] # NoHandle
  BY DEF Unsubscribe, Known, Receives, Return, HeapInv, ReleasedAtExit
<1>2. /\ c \in Attached /\ Attached' = Attached \ {c}
      /\ \A d \in Attached' : clients'[d] = clients[d]
  BY <1>1 DEF Attached, Subscribed, HeapInv, TypeOK
<1>3. /\ HandlesOwned' /\ OneHandlePerUser' /\ NamesKnown'
      /\ live' \subseteq Handle
      /\ ref' \in [Handle -> Nat]
      /\ name' \in [Handle -> User \cup {NoUser}]
      /\ groups' \in [Handle -> SUBSET Group]
      /\ tsubs' \subseteq Client
      /\ view' \in [Client -> [Group -> SUBSET User]]
  BY <1>1, <1>2, ReleaseKeepsHeap
<1>4. TypeOK'
  BY <1>1, <1>3 DEF HeapInv, TypeOK, Unsubscribe, Return
<1> QED
  BY <1>1, <1>3, <1>4 DEF HeapInv, ReleasedAtExit

\* One step of the final loop.
LEMMA ShutdownReleaseKeepsHeap ==
    ASSUME HeapInv, NEW c \in Client, ShutdownRelease(c)
    PROVE  HeapInv'
<1>1. /\ pc = "shutdown" /\ pc' = "shutdown" /\ Release(c) /\ c \in Attached
      /\ clients' = clients /\ released' = released \cup {c}
  BY DEF ShutdownRelease
<1>2. Attached' = Attached \ {c} /\ \A d \in Attached' : clients'[d] = clients[d]
  BY <1>1 DEF Attached, Subscribed
<1>3. /\ HandlesOwned' /\ OneHandlePerUser' /\ NamesKnown'
      /\ live' \subseteq Handle
      /\ ref' \in [Handle -> Nat]
      /\ name' \in [Handle -> User \cup {NoUser}]
      /\ groups' \in [Handle -> SUBSET Group]
      /\ tsubs' \subseteq Client
      /\ view' \in [Client -> [Group -> SUBSET User]]
  BY <1>1, <1>2, ReleaseKeepsHeap
<1>4. fault' \in Faults
  BY DEF ShutdownRelease, Faulty, Faults, HeapInv, TypeOK
<1>5. TypeOK'
  BY <1>1, <1>3, <1>4 DEF HeapInv, TypeOK, ShutdownRelease
<1> QED
  BY <1>1, <1>3, <1>5 DEF HeapInv, ReleasedAtExit

\* The tree is freed once nobody is attached, and by then no handle is left.
LEMMA SendCloseKeepsHeap ==
    ASSUME HeapInv, SendClose
    PROVE  HeapInv'
<1>1. Attached = {} /\ Attached' = {}
  BY DEF SendClose, Attached, Subscribed
<1>2. live = {}
  <2>1. \A h : Holders(h) = {}
    BY <1>1 DEF Holders
  <2> QED
    BY <2>1, FS_EmptySet DEF HeapInv, HandlesOwned
<1>3. TypeOK'
  BY DEF SendClose, heap, HeapInv, TypeOK
<1> QED
  BY <1>1, <1>2, <1>3
  DEF SendClose, heap, HeapInv, HandlesOwned, OneHandlePerUser, NamesKnown, ReleasedAtExit

-----------------------------------------------------------------------------
(* Every step keeps the invariant.                                         *)

\* Join and leave change group lists and views, and nothing that is counted.
LEMMA GroupsKeepHeap ==
    ASSUME HeapInv, NEW c \in Client, NEW g \in Group, Join(c, g) \/ Leave(c, g)
    PROVE  HeapInv'
<1>1. clients[c] \in Handle /\ g \in Group
  BY DEF Join, Leave, Known, HeapInv, TypeOK
<1>2. UNCHANGED <<clients, live, name, ref, released, running, link, fault, tsubs>>
      /\ pc = "select" /\ pc' = "loop" /\ reply' = "buffer" /\ released = {}
  BY DEF Join, Leave, Known, Receives, Return, HeapInv, ReleasedAtExit
<1>3. groups' \in [Handle -> SUBSET Group]
  BY <1>1 DEF Join, Leave, HeapInv, TypeOK
<1>4. view' \in [Client -> [Group -> SUBSET User]]
  <2>1. CASE Join(c, g)
    <3>1. name[clients[c]] \in User
      BY <1>2, <2>1 DEF Join, Known, HeapInv, HandlesOwned, NamesKnown, Attached, Subscribed
    <3>2. ViewsAfterJoin(name[clients[c]], g) \in [Client -> [Group -> SUBSET User]]
      BY <3>1 DEF ViewsAfterJoin, HeapInv, TypeOK
    <3> QED
      BY <2>1, <3>2 DEF Join
  <2>2. CASE Leave(c, g)
    <3>1. ViewsAfterLeave(clients[c], {g}) \in [Client -> [Group -> SUBSET User]]
      BY DEF ViewsAfterLeave, HeapInv, TypeOK
    <3> QED
      BY <2>2, <3>1 DEF Leave
  <2> QED
    BY <2>1, <2>2
<1>5. TypeOK'
  BY <1>2, <1>3, <1>4 DEF HeapInv, TypeOK
<1> QED
  BY <1>2, <1>5, HeapFrame

\* The other messages, and everything around the handlers.
LEMMA ControlKeepsHeap ==
    ASSUME HeapInv,
           \/ \E ok, payload \in BOOLEAN : OpenReply(ok, payload)
           \/ OpenFails \/ CheckRunning \/ Interrupt \/ LinkDown \/ ReadFails \/ Close
           \/ ErrorReply \/ Forward \/ ForwardEmpty
           \/ \E c \in Client : \/ SubscribeTooLong(c) \/ SubscribeAgain(c) \/ OtherControl(c)
                                \/ UnsubscribeUnknown(c) \/ ShutdownCrash(c)
                                \/ \E g \in Group : QueryUser(c, g)
    PROVE  HeapInv'
<1>1. UNCHANGED <<clients, live, name, ref, groups, released>>
  BY DEF OpenReply, OpenFails, CheckRunning, Interrupt, LinkDown, ReadFails, Close,
         ErrorReply, Forward, ForwardEmpty, SubscribeTooLong, SubscribeAgain, OtherControl,
         UnsubscribeUnknown, ShutdownCrash, QueryUser, Return, Dies, heap
<1>2. pc' = pc \/ pc' = "crashed" \/ pc \in {"opening", "loop", "select", "closing"}
  BY DEF OpenReply, OpenFails, CheckRunning, Interrupt, LinkDown, ReadFails, Close,
         ErrorReply, Forward, ForwardEmpty, SubscribeTooLong, SubscribeAgain, OtherControl,
         UnsubscribeUnknown, ShutdownCrash, QueryUser, Return, Receives, Known, Dies
<1>3. view' \in [Client -> [Group -> SUBSET User]]
  <2>1. ASSUME NEW c \in Client, NEW g \in Group, QueryUser(c, g)
        PROVE  view' \in [Client -> [Group -> SUBSET User]]
    <3>1. Members(g) \subseteq User
      BY DEF Members, Hears, HeapInv, NamesKnown
    <3> QED
      BY <2>1, <3>1 DEF QueryUser, HeapInv, TypeOK
  <2> QED
    BY <2>1 DEF OpenReply, OpenFails, CheckRunning, Interrupt, LinkDown, ReadFails, Close,
         ErrorReply, Forward, ForwardEmpty, SubscribeTooLong, SubscribeAgain, OtherControl,
         UnsubscribeUnknown, ShutdownCrash, HeapInv, TypeOK
<1>4. /\ tsubs' \subseteq Client
      /\ reply' \in {"null", "freed", "buffer"}
      /\ running' \in BOOLEAN
  BY DEF OpenReply, OpenFails, CheckRunning, Interrupt, LinkDown, ReadFails, Close,
         ErrorReply, Forward, ForwardEmpty, SubscribeTooLong, SubscribeAgain, OtherControl,
         UnsubscribeUnknown, ShutdownCrash, QueryUser, Return, Dies,
         RunningAfterReadError, HeapInv, TypeOK
<1>5. /\ pc' \in {"opening", "loop", "select", "shutdown", "closing"} \cup Final
      /\ link' \in {"up", "down"}
      /\ fault' \in Faults
  BY DEF OpenReply, OpenFails, CheckRunning, Interrupt, LinkDown, ReadFails, Close,
         ErrorReply, Forward, ForwardEmpty, SubscribeTooLong, SubscribeAgain, OtherControl,
         UnsubscribeUnknown, ShutdownCrash, QueryUser, Return, Dies, Faulty, Faults, Final,
         HeapInv, TypeOK
<1>6. TypeOK'
  BY <1>1, <1>3, <1>4, <1>5 DEF HeapInv, TypeOK
<1> QED
  BY <1>1, <1>2, <1>6, HeapFrame DEF HeapInv, ReleasedAtExit

\* The induction step.
LEMMA NextKeepsHeap ==
    ASSUME HeapInv, [Next]_vars
    PROVE  HeapInv'
<1>1. CASE UNCHANGED vars
  <2>1. TypeOK'
    BY <1>1 DEF vars, HeapInv, TypeOK
  <2> QED
    BY <1>1, <2>1, HeapFrame DEF vars
<1>2. CASE \E c \in Client, u \in User : SubscribeShared(c, u) \/ SubscribeFirst(c, u)
  BY <1>2, SharedKeepsHeap, FirstKeepsHeap
<1>3. CASE \E c \in Client, g \in Group : Join(c, g) \/ Leave(c, g)
  BY <1>3, GroupsKeepHeap
<1>4. CASE \E c \in Client : Unsubscribe(c) \/ ShutdownRelease(c)
  BY <1>4, UnsubscribeKeepsHeap, ShutdownReleaseKeepsHeap
<1>5. CASE SendClose
  BY <1>5, SendCloseKeepsHeap
<1>6. CASE \/ \E ok, payload \in BOOLEAN : OpenReply(ok, payload)
           \/ OpenFails \/ CheckRunning \/ Interrupt \/ LinkDown \/ ReadFails \/ Close
           \/ ErrorReply \/ Forward \/ ForwardEmpty
           \/ \E c \in Client : \/ SubscribeTooLong(c) \/ SubscribeAgain(c) \/ OtherControl(c)
                                \/ UnsubscribeUnknown(c) \/ ShutdownCrash(c)
                                \/ \E g \in Group : QueryUser(c, g)
  BY <1>6, ControlKeepsHeap
<1> QED
  BY <1>1, <1>2, <1>3, <1>4, <1>5, <1>6 DEF Next, Handlers, Shutdown

\* The heap of the publisher is sound in every reachable state.
THEOREM HeapSafe == Spec => []HeapInv
<1>1. Init => HeapInv
  BY FS_EmptySet
  DEF Init, HeapInv, TypeOK, HandlesOwned, OneHandlePerUser, NamesKnown, ReleasedAtExit,
      Attached, Subscribed, Final, Faults
<1>2. HeapInv /\ [Next]_vars => HeapInv'
  BY NextKeepsHeap
<1> QED
  BY <1>1, <1>2, PTL DEF Spec

\* The variables keep their types; in particular no count goes negative.
THEOREM TypeCorrect == Spec => []TypeOK
BY HeapSafe, PTL DEF HeapInv

\* Reference counts are exact: no handle leaks, none is used after its free
\* by an attached client.
THEOREM CountsExact == Spec => []HandlesOwned
BY HeapSafe, PTL DEF HeapInv

\* A user never has two handles.
THEOREM SharedByUser == Spec => []OneHandlePerUser
BY HeapSafe, PTL DEF HeapInv

-----------------------------------------------------------------------------
(* Groups: who is in one, and how each handler changes it.                 *)

\* The members of a group can be read off the handles alone.
LEMMA MembersByHandle ==
    HeapInv => \A g \in Group : \A u :
        u \in Members(g) <=> \E h \in live : g \in groups[h] /\ u = name[h]
<1> SUFFICES ASSUME HeapInv, NEW g \in Group, NEW u
             PROVE  u \in Members(g) <=> \E h \in live : g \in groups[h] /\ u = name[h]
  OBVIOUS
<1>1. \A d \in Attached : clients[d] \in live
  BY DEF HeapInv, HandlesOwned
<1>2. \A h \in live : \E d \in Attached : clients[d] = h
  <2> SUFFICES ASSUME NEW h \in live PROVE Holders(h) # {}
    BY DEF Holders
  <2> QED
    BY FS_EmptySet, HoldersFinite DEF HeapInv, HandlesOwned
<1> QED
  BY <1>1, <1>2 DEF Members, Hears

\* The same in the next state.
LEMMA MembersByHandleNext ==
    HeapInv' => \A g \in Group : \A u :
        u \in Members(g)' <=> \E h \in live' : g \in groups'[h] /\ u = name'[h]
<1>1. (HeapInv => \A g \in Group : \A u :
           u \in Members(g) <=> \E h \in live : g \in groups[h] /\ u = name[h])'
  BY MembersByHandle, PTL
<1> QED
  BY <1>1

\* A subscription changes no group: a new handle is in none, and a shared
\* one adds no name.
LEMMA SubscribeMembers ==
    ASSUME HeapInv, NEW c \in Client, NEW u \in User,
           SubscribeShared(c, u) \/ SubscribeFirst(c, u)
    PROVE  \A g \in Group : Members(g)' = Members(g)
<1>1. HeapInv'
  BY SharedKeepsHeap, FirstKeepsHeap
<1>2. CASE SubscribeShared(c, u)
  <2>1. UNCHANGED <<live, name, groups>>
    BY <1>2 DEF SubscribeShared
  <2> TAKE g \in Group
  <2>2. \A x : x \in Members(g) <=> \E k \in live : g \in groups[k] /\ x = name[k]
    BY MembersByHandle
  <2>3. \A x : x \in Members(g)' <=> \E k \in live' : g \in groups'[k] /\ x = name'[k]
    BY <1>1, MembersByHandleNext
  <2>4. \A x : x \in Members(g)' <=> x \in Members(g)
    BY <2>1, <2>2, <2>3
  <2> QED
    BY <2>4
<1>3. CASE SubscribeFirst(c, u)
  <2>1. PICK h \in Handle \ live : /\ live' = live \cup {h}
                                   /\ name' = [name EXCEPT ![h] = u]
                                   /\ groups' = [groups EXCEPT ![h] = {}]
    BY <1>3 DEF SubscribeFirst
  <2> TAKE g \in Group
  <2>2. \A k : k \in live' /\ g \in groups'[k] <=> k \in live /\ g \in groups[k]
    BY <2>1 DEF HeapInv, TypeOK
  <2>3. \A k \in live : name'[k] = name[k]
    BY <2>1 DEF HeapInv, TypeOK
  <2>4. \A x : x \in Members(g) <=> \E k \in live : g \in groups[k] /\ x = name[k]
    BY MembersByHandle
  <2>5. \A x : x \in Members(g)' <=> \E k \in live' : g \in groups'[k] /\ x = name'[k]
    BY <1>1, MembersByHandleNext
  <2>6. \A x : x \in Members(g)' <=> x \in Members(g)
    BY <2>2, <2>3, <2>4, <2>5
  <2> QED
    BY <2>6
<1> QED
  BY <1>2, <1>3

\* A known client is attached, so its handle is in use.
LEMMA KnownAttached ==
    ASSUME HeapInv, NEW c \in Client, Known(c)
    PROVE  /\ c \in Attached /\ Attached = Subscribed /\ released = {}
           /\ clients[c] \in live /\ clients[c] \in Handle /\ name[clients[c]] \in User
BY DEF Known, Receives, HeapInv, ReleasedAtExit, HandlesOwned, NamesKnown, TypeOK,
       Attached, Subscribed

\* The user of a client that joins becomes a member of that group only.
LEMMA JoinMembers ==
    ASSUME HeapInv, NEW c \in Client, NEW g \in Group, Join(c, g)
    PROVE  \A k \in Group : Members(k)' = IF k = g THEN Members(k) \cup {name[clients[c]]}
                                          ELSE Members(k)
<1>1. /\ HeapInv' /\ UNCHANGED <<live, name>>
      /\ groups' = [groups EXCEPT ![clients[c]] = @ \cup {g}]
      /\ clients[c] \in live /\ clients[c] \in Handle
  BY GroupsKeepHeap, KnownAttached DEF Join
<1> TAKE k \in Group
<1>2. \A h : h \in live' /\ k \in groups'[h] <=>
                (h \in live /\ k \in groups[h]) \/ (k = g /\ h = clients[c])
  BY <1>1 DEF HeapInv, TypeOK
<1>3. \A x : x \in Members(k) <=> \E h \in live : k \in groups[h] /\ x = name[h]
  BY MembersByHandle
<1>4. \A x : x \in Members(k)' <=> \E h \in live' : k \in groups'[h] /\ x = name'[h]
  BY <1>1, MembersByHandleNext
<1>5. \A x : x \in Members(k)' <=> x \in Members(k) \/ (k = g /\ x = name[clients[c]])
  BY <1>1, <1>2, <1>3, <1>4
<1> QED
  BY <1>5

\* The user of a client that leaves is no longer a member of that group.
LEMMA LeaveMembers ==
    ASSUME HeapInv, NEW c \in Client, NEW g \in Group, Leave(c, g)
    PROVE  \A k \in Group : Members(k)' = IF k = g THEN Members(k) \ {name[clients[c]]}
                                          ELSE Members(k)
<1>1. /\ HeapInv' /\ UNCHANGED <<live, name>>
      /\ groups' = [groups EXCEPT ![clients[c]] = @ \ {g}]
      /\ clients[c] \in live /\ clients[c] \in Handle
  BY GroupsKeepHeap, KnownAttached DEF Leave
<1> TAKE k \in Group
<1>2. \A h : h \in live' /\ k \in groups'[h] <=>
                h \in live /\ k \in groups[h] /\ ~(k = g /\ h = clients[c])
  BY <1>1 DEF HeapInv, TypeOK
<1>3. \A x : x \in Members(k) <=> \E h \in live : k \in groups[h] /\ x = name[h]
  BY MembersByHandle
<1>4. \A x : x \in Members(k)' <=> \E h \in live' : k \in groups'[h] /\ x = name'[h]
  BY <1>1, MembersByHandleNext
<1>5. \A x : x \in Members(k)' <=> x \in Members(k) /\ ~(k = g /\ x = name[clients[c]])
  BY <1>1, <1>2, <1>3, <1>4 DEF HeapInv, OneHandlePerUser
<1> QED
  BY <1>5

\* The last client of a user takes the user out of every group, any other
\* one changes no group; "last" means that no attached client is left.
LEMMA ReleaseMembers ==
    ASSUME HeapInv, HeapInv', NEW c \in Attached, Release(c), Attached' = Attached \ {c},
           \A d \in Attached' : clients'[d] = clients[d]
    PROVE  /\ LastHolder(clients[c]) <=> \A d \in Attached \ {c} : clients[d] # clients[c]
           /\ \A g \in Group : Members(g)' = IF LastHolder(clients[c])
                                             THEN Members(g) \ {name[clients[c]]}
                                             ELSE Members(g)
<1>0. PICK h : h = clients[c]
  OBVIOUS
<1>1. /\ h \in live /\ h \in Handle /\ ref[h] = Cardinality(Holders(h)) /\ ref[h] \in Nat
  BY <1>0 DEF HeapInv, TypeOK, HandlesOwned
<1>2. /\ Holders(h)' = Holders(h) \ {c}
      /\ Cardinality(Holders(h)') = Cardinality(Holders(h)) - 1
  BY <1>0, HoldersAfterRelease
<1>3. LastHolder(h) <=> Holders(h) \ {c} = {}
  BY <1>1, <1>2, HoldersFinite, FS_EmptySet, FS_RemoveElement, FS_CardinalityType DEF LastHolder
<1>4. CASE LastHolder(h)
  <2>1. live' = live \ {h} /\ name' = [name EXCEPT ![h] = NoUser]
        /\ groups' = [groups EXCEPT ![h] = {}]
    BY <1>0, <1>4 DEF Release
  <2>2. \A g \in Group : \A k : k \in live' /\ g \in groups'[k] <=>
                                    k \in live /\ g \in groups[k] /\ k # h
    BY <2>1 DEF HeapInv, TypeOK
  <2>3. \A k \in live \ {h} : name'[k] = name[k] /\ name[k] # name[h]
    BY <1>1, <2>1 DEF HeapInv, TypeOK, OneHandlePerUser
  <2>4. ASSUME NEW g \in Group PROVE Members(g)' = Members(g) \ {name[h]}
    <3>1. \A x : x \in Members(g) <=> \E k \in live : g \in groups[k] /\ x = name[k]
      BY MembersByHandle
    <3>2. \A x : x \in Members(g)' <=> \E k \in live' : g \in groups'[k] /\ x = name'[k]
      BY MembersByHandleNext
    <3>3. \A x : x \in Members(g)' <=> x \in Members(g) /\ x # name[h]
      BY <1>1, <2>1, <2>2, <2>3, <3>1, <3>2
    <3> QED
      BY <3>3
  <2> QED
    BY <1>0, <1>3, <1>4, <2>4 DEF Holders
<1>5. CASE ~LastHolder(h)
  <2>1. UNCHANGED <<live, name, groups>>
    BY <1>0, <1>5 DEF Release
  <2>2. ASSUME NEW g \in Group PROVE Members(g)' = Members(g)
    <3>1. \A x : x \in Members(g) <=> \E k \in live : g \in groups[k] /\ x = name[k]
      BY MembersByHandle
    <3>2. \A x : x \in Members(g)' <=> \E k \in live' : g \in groups'[k] /\ x = name'[k]
      BY MembersByHandleNext
    <3>3. \A x : x \in Members(g)' <=> x \in Members(g)
      BY <2>1, <3>1, <3>2
    <3> QED
      BY <3>3
  <2> QED
    BY <1>0, <1>3, <1>5, <2>2 DEF Holders
<1> QED
  BY <1>4, <1>5

-----------------------------------------------------------------------------
(* What the clients believe.                                               *)

\* A step that changes no heap, no tree and no view changes no belief and
\* no fact it is about.
LEMMA ViewFrame ==
    ASSUME ViewExact, UNCHANGED <<clients, live, name, groups, released, view>>,
           link' = "up" => link = "up", pc # "crashed"
    PROVE  ViewExact'
<1>1. /\ Attached' = Attached
      /\ \A c, g : Hears(c, g)' <=> Hears(c, g)
      /\ \A g : Members(g)' = Members(g)
  BY DEF Attached, Subscribed, Hears, Members
<1> QED
  BY <1>1 DEF ViewExact

\* The answer to BC_QUERY_USER is the list of the members.
LEMMA QueryKeepsView ==
    ASSUME HeapInv, ViewExact, NEW c \in Client, NEW g \in Group, QueryUser(c, g)
    PROVE  ViewExact'
<1>1. /\ UNCHANGED <<clients, live, name, groups, released, link>>
      /\ pc # "crashed" /\ c \in Attached /\ Hears(c, g)
      /\ link = "up" => view' = [view EXCEPT ![c][g] = Members(g)]
  BY KnownAttached DEF QueryUser, Return, Known, Receives, heap, Hears
<1>2. /\ Attached' = Attached
      /\ \A d, k : Hears(d, k)' <=> Hears(d, k)
      /\ \A k : Members(k)' = Members(k)
  BY <1>1 DEF Attached, Subscribed, Hears, Members
<1> QED
  BY <1>1, <1>2 DEF ViewExact, HeapInv, TypeOK

\* A client that subscribes believes nothing yet, and the others are right
\* to believe what they did.
LEMMA SubscribeKeepsView ==
    ASSUME HeapInv, ViewExact, NEW c \in Client, NEW u \in User,
           SubscribeShared(c, u) \/ SubscribeFirst(c, u)
    PROVE  ViewExact'
<1>1. /\ pc # "crashed" /\ c \notin Attached /\ UNCHANGED <<view, link, released>>
      /\ \A d \in Client \ {c} : clients'[d] = clients[d]
  BY DEF SubscribeShared, SubscribeFirst, Receives, Return, Attached, Subscribed, HeapInv, TypeOK
<1>2. Attached \subseteq Attached'
  BY <1>1 DEF Attached, Subscribed
<1>3. \A g \in Group, d \in Attached : Hears(d, g) => Hears(d, g)'
  <2> SUFFICES ASSUME NEW g \in Group, NEW d \in Attached, Hears(d, g) PROVE Hears(d, g)'
    OBVIOUS
  <2>1. clients'[d] = clients[d] /\ clients[d] \in live /\ g \in groups[clients[d]]
    BY <1>1 DEF Hears, Attached, Subscribed
  <2>2. clients[d] \in live' /\ groups'[clients[d]] = groups[clients[d]]
    BY <2>1 DEF SubscribeShared, SubscribeFirst, HeapInv, TypeOK
  <2> QED
    BY <2>1, <2>2 DEF Hears
<1>4. \A g \in Group : Members(g)' = Members(g)
  BY SubscribeMembers
<1> QED
  BY <1>1, <1>2, <1>3, <1>4 DEF ViewExact

\* Everybody in the group hears of a join.
LEMMA JoinKeepsView ==
    ASSUME HeapInv, ViewExact, NEW c \in Client, NEW g \in Group, Join(c, g)
    PROVE  ViewExact'
<1>1. /\ pc # "crashed" /\ c \in Attached /\ UNCHANGED <<live, clients, name, link, released>>
      /\ groups' = [groups EXCEPT ![clients[c]] = @ \cup {g}]
      /\ view' = ViewsAfterJoin(name[clients[c]], g)
  BY KnownAttached DEF Join, Known, Receives, Return
<1>2. Attached' = Attached
  BY <1>1 DEF Attached, Subscribed
<1>3. \A d \in Client, k \in Group : Hears(d, k) => Hears(d, k)'
  BY <1>1 DEF Hears, HeapInv, TypeOK
<1>4. \A k \in Group : Members(k)' = IF k = g THEN Members(k) \cup {name[clients[c]]}
                                    ELSE Members(k)
  BY JoinMembers
<1>5. SUFFICES ASSUME link' = "up", NEW d \in Client, NEW k \in Group, view'[d][k] # {}
               PROVE  d \in Attached' /\ Hears(d, k)' /\ view'[d][k] = Members(k)'
  BY DEF ViewExact
<1>6. view'[d][k] = IF k = g /\ Hears(d, g) /\ view[d][g] # {}
                    THEN view[d][g] \cup {name[clients[c]]} ELSE view[d][k]
  BY <1>1, <1>5 DEF ViewsAfterJoin
<1>7. view[d][k] # {}
  BY <1>5, <1>6
<1>8. d \in Attached /\ Hears(d, k) /\ view[d][k] = Members(k)
  BY <1>1, <1>5, <1>7 DEF ViewExact
<1> QED
  BY <1>2, <1>3, <1>4, <1>6, <1>7, <1>8

\* Everybody in the group hears of a leave, the user's own clients included.
LEMMA LeaveKeepsView ==
    ASSUME HeapInv, ViewExact, NEW c \in Client, NEW g \in Group, Leave(c, g)
    PROVE  ViewExact'
<1>1. /\ pc # "crashed" /\ c \in Attached /\ UNCHANGED <<live, clients, name, link, released>>
      /\ groups' = [groups EXCEPT ![clients[c]] = @ \ {g}]
      /\ view' = ViewsAfterLeave(clients[c], {g})
  BY KnownAttached DEF Leave, Known, Receives, Return
<1>2. Attached' = Attached
  BY <1>1 DEF Attached, Subscribed
<1>3. \A k \in Group : Members(k)' = IF k = g THEN Members(k) \ {name[clients[c]]}
                                    ELSE Members(k)
  BY LeaveMembers
<1>4. SUFFICES ASSUME link' = "up", NEW d \in Client, NEW k \in Group, view'[d][k] # {}
               PROVE  d \in Attached' /\ Hears(d, k)' /\ view'[d][k] = Members(k)'
  BY DEF ViewExact
<1>5. view'[d][k] = IF k = g /\ Hears(d, k)
                    THEN IF clients[d] = clients[c] THEN {} ELSE view[d][k] \ {name[clients[c]]}
                    ELSE view[d][k]
  BY <1>1, <1>4 DEF ViewsAfterLeave
<1>6. d \in Attached /\ Hears(d, k) /\ view[d][k] = Members(k)
  BY <1>1, <1>4, <1>5 DEF ViewExact
<1>7. k = g => clients[d] # clients[c]
  BY <1>4, <1>5, <1>6
<1>8. Hears(d, k)'
  BY <1>1, <1>6, <1>7 DEF Hears, HeapInv, TypeOK
<1> QED
  BY <1>2, <1>3, <1>5, <1>6, <1>7, <1>8

\* A client that goes believes nothing any more; if it was the last of its
\* user, everybody in the user's groups hears of it.
LEMMA ReleaseKeepsView ==
    ASSUME HeapInv, HeapInv', ViewExact, NEW c \in Attached, Release(c),
           Attached' = Attached \ {c}, \A d \in Attached' : clients'[d] = clients[d],
           link' = link, pc # "crashed"
    PROVE  ViewExact'
<1>1. SUFFICES ASSUME link' = "up", NEW d \in Client, NEW k \in Group, view'[d][k] # {}
               PROVE  d \in Attached' /\ Hears(d, k)' /\ view'[d][k] = Members(k)'
  BY DEF ViewExact
<1>2. PICK h : h = clients[c]
  OBVIOUS
<1>3. /\ c \in Client /\ h \in live /\ h \in Handle
      /\ view' = Forget(IF LastHolder(h) THEN ViewsAfterLeave(h, groups[h]) ELSE view, c)
      /\ \A g \in Group : Members(g)' = IF LastHolder(h) THEN Members(g) \ {name[h]}
                                        ELSE Members(g)
      /\ LastHolder(h) <=> \A e \in Attached \ {c} : clients[e] # h
  BY <1>2, ReleaseMembers DEF Release, Attached, Subscribed, HeapInv, TypeOK, HandlesOwned
<1>4. d # c
  <2>1. view'[c] = [g \in Group |-> {}]
    BY <1>3 DEF Forget, ViewsAfterLeave, HeapInv, TypeOK
  <2> QED
    BY <1>1, <2>1
<1>5. CASE LastHolder(h)
  <2>1. view'[d][k] = IF k \in groups[h] /\ Hears(d, k)
                      THEN IF clients[d] = h THEN {} ELSE view[d][k] \ {name[h]}
                      ELSE view[d][k]
    BY <1>1, <1>3, <1>4, <1>5 DEF Forget, ViewsAfterLeave
  <2>2. d \in Attached /\ Hears(d, k) /\ view[d][k] = Members(k)
    BY <1>1, <2>1 DEF ViewExact
  <2>3. clients[d] # h /\ clients'[d] = clients[d] /\ d \in Attached'
    BY <1>3, <1>4, <1>5, <2>2
  <2>4. Hears(d, k)'
    BY <1>2, <1>5, <2>2, <2>3 DEF Release, Hears, HeapInv, TypeOK
  <2>5. k \notin groups[h] => name[h] \notin Members(k)
    BY <1>3, MembersByHandle DEF HeapInv, OneHandlePerUser
  <2> QED
    BY <1>3, <1>5, <2>1, <2>2, <2>3, <2>4, <2>5
<1>6. CASE ~LastHolder(h)
  <2>1. view'[d][k] = view[d][k]
    BY <1>1, <1>3, <1>4, <1>6 DEF Forget, HeapInv, TypeOK
  <2>2. d \in Attached /\ Hears(d, k) /\ view[d][k] = Members(k)
    BY <1>1, <2>1 DEF ViewExact
  <2>3. d \in Attached' /\ clients'[d] = clients[d] /\ UNCHANGED <<live, groups>>
    BY <1>2, <1>4, <1>6, <2>2 DEF Release
  <2> QED
    BY <1>3, <1>6, <2>1, <2>2, <2>3 DEF Hears
<1> QED
  BY <1>5, <1>6

\* The induction step.
LEMMA NextKeepsView ==
    ASSUME HeapInv, HeapInv', ViewExact, [Next]_vars
    PROVE  ViewExact'
<1>1. CASE \/ UNCHANGED vars
           \/ \E ok, payload \in BOOLEAN : OpenReply(ok, payload)
           \/ OpenFails \/ CheckRunning \/ Interrupt \/ LinkDown \/ ReadFails \/ Close
           \/ ErrorReply \/ Forward \/ ForwardEmpty
           \/ \E c \in Client : \/ SubscribeTooLong(c) \/ SubscribeAgain(c) \/ OtherControl(c)
                                \/ UnsubscribeUnknown(c) \/ ShutdownCrash(c)
  <2>1. /\ UNCHANGED <<clients, live, name, groups, released, view>>
        /\ link' = "up" => link = "up"
    BY <1>1 DEF vars, OpenReply, OpenFails, CheckRunning, Interrupt, LinkDown, ReadFails, Close,
         ErrorReply, Forward, ForwardEmpty, SubscribeTooLong, SubscribeAgain, OtherControl,
         UnsubscribeUnknown, ShutdownCrash, Return, Dies, heap
  <2>2. pc = "crashed" => pc' = "crashed"
    BY <1>1 DEF vars, OpenReply, OpenFails, CheckRunning, Interrupt, LinkDown, ReadFails, Close,
         ErrorReply, Forward, ForwardEmpty, SubscribeTooLong, SubscribeAgain, OtherControl,
         UnsubscribeUnknown, ShutdownCrash, Receives, Known, Final
  <2>3. CASE pc = "crashed"
    BY <2>2, <2>3 DEF ViewExact
  <2> QED
    BY <2>1, <2>3, ViewFrame
<1>2. CASE \E c \in Client, u \in User : SubscribeShared(c, u) \/ SubscribeFirst(c, u)
  BY <1>2, SubscribeKeepsView
<1>3. CASE \E c \in Client, g \in Group : Join(c, g) \/ Leave(c, g) \/ QueryUser(c, g)
  BY <1>3, JoinKeepsView, LeaveKeepsView, QueryKeepsView
<1>4. ASSUME NEW c \in Client, Unsubscribe(c) PROVE ViewExact'
  <2>1. /\ Release(c) /\ clients' = [clients EXCEPT ![c] = NoHandle] /\ pc # "crashed"
        /\ UNCHANGED <<link, released>>
    BY <1>4 DEF Unsubscribe, Known, Receives, Return
  <2>2. /\ c \in Attached /\ Attached' = Attached \ {c}
        /\ \A d \in Attached' : clients'[d] = clients[d]
    BY <1>4, <2>1, KnownAttached DEF Unsubscribe, Attached, Subscribed, HeapInv, TypeOK
  <2> QED
    BY <2>1, <2>2, ReleaseKeepsView
<1>5. ASSUME NEW c \in Client, ShutdownRelease(c) PROVE ViewExact'
  <2>1. /\ Release(c) /\ c \in Attached /\ pc # "crashed"
        /\ UNCHANGED <<link, clients>> /\ released' = released \cup {c}
    BY <1>5 DEF ShutdownRelease
  <2>2. Attached' = Attached \ {c} /\ \A d \in Attached' : clients'[d] = clients[d]
    BY <2>1 DEF Attached, Subscribed
  <2> QED
    BY <2>1, <2>2, ReleaseKeepsView
<1>6. CASE SendClose
  BY <1>6 DEF SendClose, ViewExact
<1> QED
  BY <1>1, <1>2, <1>3, <1>4, <1>5, <1>6 DEF Next, Handlers, Shutdown

\* Whatever the order of joins, leaves, disconnections and signals, a client
\* that follows the notices is never wrong about a group it has asked about.
THEOREM ViewsExact == Spec => []ViewExact
<1>1. Init => ViewExact
  BY DEF Init, ViewExact
<1>2. HeapInv /\ HeapInv' /\ ViewExact /\ [Next]_vars => ViewExact'
  BY NextKeepsView
<1> QED
  BY <1>1, <1>2, HeapSafe, PTL DEF Spec

-----------------------------------------------------------------------------
(* The publisher implements GroupService.                                  *)

\* The user a client acts for, as GroupService sees it.
UserOf == [c \in Client |-> IF c \in Attached THEN name[clients[c]] ELSE NoUser]
MembersOf == [g \in Group |-> Members(g)]

\* Steps that leave the tree, the names and the groups alone are invisible.
LEMMA StutterStep ==
    ASSUME UNCHANGED <<clients, live, name, groups, released>>
    PROVE  UNCHANGED <<UserOf, MembersOf>>
BY DEF UserOf, MembersOf, Attached, Subscribed, Hears, Members

\* A subscription is a subscription.
LEMMA SubscribeStep ==
    ASSUME HeapInv, NEW c \in Client, NEW u \in User,
           SubscribeShared(c, u) \/ SubscribeFirst(c, u)
    PROVE  /\ UserOf[c] = NoUser
           /\ UserOf' = [UserOf EXCEPT ![c] = u]
           /\ MembersOf' = MembersOf
<1>1. /\ c \notin Attached /\ released = {} /\ released' = {}
  BY DEF SubscribeShared, SubscribeFirst, Receives, Return, Attached, Subscribed,
         HeapInv, ReleasedAtExit
<1>2. PICK h \in Handle : clients' = [clients EXCEPT ![c] = h] /\ name'[h] = u
  <2>1. CASE SubscribeShared(c, u)
    <3>1. PICK h \in HandlesOf(u) : clients' = [clients EXCEPT ![c] = h]
      BY <2>1 DEF SubscribeShared
    <3>2. h \in Handle /\ name[h] = u
      BY DEF HandlesOf, Subscribed, HeapInv, TypeOK
    <3> QED
      BY <2>1, <3>1, <3>2 DEF SubscribeShared
  <2>2. CASE SubscribeFirst(c, u)
    BY <2>2 DEF SubscribeFirst, HeapInv, TypeOK
  <2> QED
    BY <2>1, <2>2
<1>3. Attached' = Attached \cup {c} /\ \A d \in Attached : clients'[d] = clients[d]
  BY <1>1, <1>2, HandleAssumption DEF Attached, Subscribed, HeapInv, TypeOK
<1>4. \A d \in Attached : name'[clients[d]] = name[clients[d]]
  BY DEF SubscribeShared, SubscribeFirst, HeapInv, HandlesOwned, TypeOK
<1>5. clients'[c] = h
  BY <1>2 DEF HeapInv, TypeOK
<1>6. UserOf' = [UserOf EXCEPT ![c] = u]
  <2>1. ASSUME NEW d \in Client
        PROVE  (IF d \in Attached' THEN name'[clients'[d]] ELSE NoUser) =
               IF d = c THEN u ELSE IF d \in Attached THEN name[clients[d]] ELSE NoUser
    BY <1>1, <1>2, <1>3, <1>4, <1>5
  <2> QED
    BY <2>1 DEF UserOf
<1> QED
  BY <1>1, <1>6, SubscribeMembers DEF UserOf, MembersOf

\* A release is the departure of one client.
LEMMA ReleaseStep ==
    ASSUME HeapInv, HeapInv', NEW c \in Attached, Release(c), Attached' = Attached \ {c},
           \A d \in Attached' : clients'[d] = clients[d]
    PROVE  GS!Unsubscribe(c)
<1>0. PICK h : h = clients[c]
  OBVIOUS
<1>1. /\ c \in Client /\ h \in live /\ name[h] \in User /\ UserOf[c] = name[h]
      /\ \A d \in Attached : clients[d] \in live
  BY <1>0 DEF UserOf, Attached, Subscribed, HeapInv, HandlesOwned, NamesKnown
<1>2. /\ LastHolder(h) <=> \A d \in Attached \ {c} : clients[d] # h
      /\ \A g \in Group : Members(g)' = IF LastHolder(h) THEN Members(g) \ {name[h]}
                                        ELSE Members(g)
  BY <1>0, ReleaseMembers
<1>3. \A d \in Attached : name[clients[d]] = name[h] <=> clients[d] = h
  BY <1>1 DEF HeapInv, OneHandlePerUser
<1>4. LastHolder(h) <=> ~ \E d \in Client \ {c} : UserOf[d] = UserOf[c]
  BY <1>1, <1>2, <1>3, UserAssumption DEF UserOf, Attached, Subscribed
<1>5. \A d \in Attached' : name'[clients'[d]] = name[clients[d]]
  <2> SUFFICES ASSUME NEW d \in Attached' PROVE name'[clients[d]] = name[clients[d]]
    OBVIOUS
  <2>1. LastHolder(h) => clients[d] # h
    BY <1>2
  <2> QED
    BY <1>0, <2>1 DEF Release, HeapInv, TypeOK
<1>6. UserOf' = [UserOf EXCEPT ![c] = NoUser]
  BY <1>1, <1>5 DEF UserOf
<1>7. MembersOf' = [g \in Group |-> IF \E d \in Client \ {c} : UserOf[d] = UserOf[c]
                                    THEN MembersOf[g] ELSE MembersOf[g] \ {UserOf[c]}]
  BY <1>1, <1>2, <1>4 DEF MembersOf
<1> QED
  BY <1>1, <1>6, <1>7, UserAssumption DEF GS!Unsubscribe, GS!Shared, UserOf, MembersOf

\* Every step of the publisher is a step of the abstract service or none.
LEMMA NextImplements ==
    ASSUME HeapInv, HeapInv', [Next]_vars
    PROVE  [GS!Next]_(GS!vars)
<1>1. CASE \/ UNCHANGED vars
           \/ \E ok, payload \in BOOLEAN : OpenReply(ok, payload)
           \/ OpenFails \/ CheckRunning \/ Interrupt \/ LinkDown \/ ReadFails \/ Close
           \/ ErrorReply \/ Forward \/ ForwardEmpty
           \/ \E c \in Client : \/ SubscribeTooLong(c) \/ SubscribeAgain(c) \/ OtherControl(c)
                                \/ UnsubscribeUnknown(c) \/ ShutdownCrash(c)
                                \/ \E g \in Group : QueryUser(c, g)
  <2>1. UNCHANGED <<clients, live, name, groups, released>>
    BY <1>1 DEF vars, OpenReply, OpenFails, CheckRunning, Interrupt, LinkDown, ReadFails, Close,
         ErrorReply, Forward, ForwardEmpty, SubscribeTooLong, SubscribeAgain, OtherControl,
         UnsubscribeUnknown, ShutdownCrash, QueryUser, Return, Dies, heap
  <2> QED
    BY <2>1, StutterStep DEF GS!vars, UserOf, MembersOf
<1>2. ASSUME NEW c \in Client, NEW u \in User, SubscribeShared(c, u) \/ SubscribeFirst(c, u)
      PROVE  GS!Subscribe(c, u)
  BY <1>2, SubscribeStep DEF GS!Subscribe, UserOf, MembersOf
<1>3. ASSUME NEW c \in Client, NEW g \in Group, Join(c, g) \/ Leave(c, g)
      PROVE  GS!Join(c, g) \/ GS!Leave(c, g)
  <2>1. /\ c \in Attached /\ clients[c] \in live /\ name[clients[c]] \in User
        /\ UNCHANGED <<clients, released, name>>
    BY <1>3, KnownAttached DEF Join, Leave, Return
  <2>2. UserOf' = UserOf /\ UserOf[c] = name[clients[c]] /\ UserOf[c] # NoUser
    BY <2>1, UserAssumption DEF UserOf, Attached, Subscribed
  <2>3. CASE Join(c, g)
    <3>1. MembersOf' = [MembersOf EXCEPT ![g] = @ \cup {UserOf[c]}]
      BY <2>2, <2>3, JoinMembers DEF MembersOf
    <3> QED
      BY <2>2, <3>1 DEF GS!Join, UserOf, MembersOf
  <2>4. CASE Leave(c, g)
    <3>1. MembersOf' = [MembersOf EXCEPT ![g] = @ \ {UserOf[c]}]
      BY <2>2, <2>4, LeaveMembers DEF MembersOf
    <3> QED
      BY <2>2, <3>1 DEF GS!Leave, UserOf, MembersOf
  <2> QED
    BY <1>3, <2>3, <2>4
<1>4. ASSUME NEW c \in Client, Unsubscribe(c) PROVE GS!Unsubscribe(c)
  <2>1. /\ Release(c) /\ clients' = [clients EXCEPT ![c] = NoHandle] /\ UNCHANGED released
    BY <1>4 DEF Unsubscribe, Return
  <2>2. /\ c \in Attached /\ Attached' = Attached \ {c}
        /\ \A d \in Attached' : clients'[d] = clients[d]
    BY <1>4, <2>1, KnownAttached DEF Unsubscribe, Attached, Subscribed, HeapInv, TypeOK
  <2> QED
    BY <2>1, <2>2, ReleaseStep
<1>5. ASSUME NEW c \in Client, ShutdownRelease(c) PROVE GS!Unsubscribe(c)
  <2>1. /\ Release(c) /\ c \in Attached
        /\ UNCHANGED clients /\ released' = released \cup {c}
    BY <1>5 DEF ShutdownRelease
  <2>2. Attached' = Attached \ {c} /\ \A d \in Attached' : clients'[d] = clients[d]
    BY <2>1 DEF Attached, Subscribed
  <2> QED
    BY <2>1, <2>2, ReleaseStep
<1>6. CASE SendClose
  <2>1. Attached = {} /\ Attached' = {}
    BY <1>6 DEF SendClose, Attached, Subscribed
  <2>2. UserOf' = UserOf /\ MembersOf' = MembersOf
    BY <2>1 DEF UserOf, MembersOf, Members
  <2> QED
    BY <2>2 DEF GS!vars, UserOf, MembersOf
<1> QED
  BY <1>1, <1>2, <1>3, <1>4, <1>5, <1>6 DEF Next, Handlers, Shutdown, GS!Next

\* The publisher keeps the promise of GroupService: memberships follow users
\* and end with the last client of each, on the normal paths and on exit.
THEOREM ImplementsGroupService == Spec => Implements
<1>1. Init => GS!Init
  BY DEF Init, GS!Init, Attached, Subscribed, Members
<1>2. HeapInv /\ HeapInv' /\ [Next]_vars => [GS!Next]_(GS!vars)
  BY NextImplements
<1> QED
  BY <1>1, <1>2, HeapSafe, PTL DEF Spec, Implements, GS!Spec
=============================================================================
