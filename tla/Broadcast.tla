------------------------------ MODULE Broadcast ------------------------------
(***************************************************************************)
(* The broadcast publisher (broadcast/broadcast.c): one process, one       *)
(* socket (the hotline) to the tunnel service, and a loop that selects on  *)
(* that socket, reads one message and runs its handler to the end.         *)
(*                                                                         *)
(* The table `clients` maps a client id to a heap handle (bc_client_t)     *)
(* that all clients of one user share; a handle holds the user's name, a   *)
(* reference count and the groups the user is in.  Handles are kept        *)
(* explicit here (allocation, sharing, free, stale pointers).  Group names *)
(* are the hashes the program itself compares; message bytes, logs and the *)
(* shape of the binary trees are left out.                                 *)
(*                                                                         *)
(* `view` is no program state: it is what an ideal client has learnt from  *)
(* the messages written to it.  It asks for the users of a group           *)
(* (BC_QUERY_USER) and then follows the join and leave notices; {} means   *)
(* that it knows nothing about the group.                                  *)
(***************************************************************************)
EXTENDS Integers, FiniteSets

CONSTANTS Client,    \* client ids of the tunnel
          User,      \* user names short enough to be accepted
          Group,     \* hashes of group names
          Handle,    \* addresses malloc returns for a bc_client_t
          NoHandle,  \* NULL, or "no node for this client id"
          NoUser     \* the name in a handle that is not allocated

ASSUME ClientAssumption == IsFiniteSet(Client)
ASSUME HandleAssumption == NoHandle \notin Handle
ASSUME UserAssumption == NoUser \notin User

VARIABLES
    pc,        \* where main() is
    running,   \* cleared by SIGINT and by fatal errors
    link,      \* state of the hotline socket
    clients,   \* the tree of subscribed clients: client id -> handle
    live,      \* handles that are allocated
    name,      \* handle -> bc_client_t.name
    ref,       \* handle -> bc_client_t.ref
    groups,    \* handle -> bc_client_t.groups
    reply,     \* what response.data points to
    released,  \* nodes the final loop has run unsubscribe() on (they stay in the tree)
    fault,     \* first access through an invalid pointer, if any
    tsubs,     \* clients the tunnel holds as subscribers of the channel
    view       \* client -> group -> users it believes are in the group

vars == <<pc, running, link, clients, live, name, ref, groups, reply,
          released, fault, tsubs, view>>
heap == <<live, name, ref, groups>>

Final == {"closed", "crashed"}
Faults == {"none", "node", "reply", "handle", "payload"}

TypeOK ==
    /\ pc \in {"opening", "loop", "select", "shutdown", "closing"} \cup Final
    /\ running \in BOOLEAN
    /\ link \in {"up", "down"}
    /\ clients \in [Client -> Handle \cup {NoHandle}]
    /\ live \subseteq Handle
    /\ name \in [Handle -> User \cup {NoUser}]
    /\ ref \in [Handle -> Nat]
    /\ groups \in [Handle -> SUBSET Group]
    /\ reply \in {"null", "freed", "buffer"}
    /\ released \subseteq Client
    /\ fault \in Faults
    /\ tsubs \subseteq Client
    /\ view \in [Client -> [Group -> SUBSET User]]

-----------------------------------------------------------------------------
(* Operators on the tree and the heap.                                     *)

Subscribed == {c \in Client : clients[c] # NoHandle}
Attached == Subscribed \ released
Holders(h) == {c \in Attached : clients[c] = h}

\* bc_notify: the node's handle has the group in its tree.
Hears(d, g) == clients[d] \in live /\ g \in groups[clients[d]]

\* The users in group g, counting only clients that are still attached.
Members(g) == {name[clients[d]] : d \in {e \in Attached : Hears(e, g)}}

\* bc_get_handle over all clients: the handle that already serves user u.
HandlesOfNobody(u) == {}    \* (mutant: the search never finds a handle)
HandlesOf(u) == {clients[d] : d \in {e \in Subscribed : name[clients[e]] = u}}

\* bc_client->ref++ for a further client of the same user.
RetainForgotten(h) == ref   \* (mutant: no ref++)
Retain(h) == [ref EXCEPT ![h] = @ + 1]

\* The value a new handle's ref starts from.
InitialRefZero == 0         \* (mutant: counts the further clients only)
InitialRef == 1

\* unsubscribe(): after ref--, is this the last client of the user?
AnyHolder(h) == h \in live  \* (mutant: the first client to go frees the handle)
LastHolder(h) == ref[h] - 1 <= 0

-----------------------------------------------------------------------------
(* What notices do to the clients' views.  A write on a broken socket is   *)
(* logged and lost, so it changes no view.                                 *)

\* [BC_SUBSCRIPTION, u, g] to every client in g.
ViewsAfterJoin(u, g) ==
    [d \in Client |-> [k \in Group |->
        IF link = "up" /\ k = g /\ Hears(d, g) /\ view[d][g] # {}
        THEN view[d][g] \cup {u} ELSE view[d][k]]]

\* [BC_UNSUBSCRIPTION, name[h], g] for every g in G, to every client in g:
\* a client of the same user learns that it no longer belongs to the group.
ViewsAfterLeaveDeletedFirst(h, G) ==  \* (mutant: bst_delete before the notices)
    [d \in Client |-> [k \in Group |->
        IF link = "up" /\ k \in G /\ Hears(d, k) /\ clients[d] # h
        THEN view[d][k] \ {name[h]} ELSE view[d][k]]]
ViewsAfterLeave(h, G) ==
    [d \in Client |-> [k \in Group |->
        IF link = "up" /\ k \in G /\ Hears(d, k)
        THEN IF clients[d] = h THEN {} ELSE view[d][k] \ {name[h]}
        ELSE view[d][k]]]

\* CHANNEL_UNSUBSCRIBE to client c: it drops everything it knew.
Forget(v, c) == [v EXCEPT ![c] = [g \in Group |-> {}]]

-----------------------------------------------------------------------------
(* Start-up: the CHANNEL_OPEN request is written, main() reads the answer. *)

Init ==
    /\ pc = "opening"
    /\ running = TRUE
    /\ link = "up"
    /\ clients = [c \in Client |-> NoHandle]
    /\ live = {}
    /\ name = [h \in Handle |-> NoUser]
    /\ ref = [h \in Handle |-> 0]
    /\ groups = [h \in Handle |-> {}]
    /\ reply = "null"
    /\ released = {}
    /\ fault = "none"
    /\ tsubs = {}
    /\ view = [c \in Client |-> [g \in Group |-> {}]]

\* The answer is CHANNEL_OK or not; its payload, if any, is freed and the
\* pointer in response.data is left as it was.
OpenReply(ok, payload) ==
    /\ pc = "opening"
    /\ pc' = "loop"
    /\ running' = (running /\ ok)
    /\ reply' = IF payload THEN "freed" ELSE "null"
    /\ UNCHANGED <<link, clients, heap, released, fault, tsubs, view>>

\* msg_read fails: close the socket and return.
OpenFails ==
    /\ pc = "opening" /\ link = "down"
    /\ pc' = "closed"
    /\ UNCHANGED <<running, link, clients, heap, reply, released, fault, tsubs, view>>

-----------------------------------------------------------------------------
(* The main loop: test `running`, block in select, run one handler.        *)

CheckRunning ==
    /\ pc = "loop"
    /\ pc' = IF running THEN "select" ELSE "shutdown"
    /\ UNCHANGED <<running, link, clients, heap, reply, released, fault, tsubs, view>>

\* SIGINT clears `running`.  A process blocked in select is woken by EINTR
\* (select returns -1); a signal that lands just before select is entered
\* wakes nothing.
Interrupt ==
    /\ pc \notin Final
    /\ running' = FALSE
    /\ \/ pc' = pc
       \/ pc = "select" /\ pc' = "loop"
    /\ UNCHANGED <<link, clients, heap, reply, released, fault, tsubs, view>>

\* The tunnel service goes away.
LinkDown ==
    /\ link = "up" /\ pc \notin Final
    /\ link' = "down"
    /\ UNCHANGED <<pc, running, clients, heap, reply, released, fault, tsubs, view>>

\* msg_read reaches the end of a closed socket: leave the loop.
KeepRunningAfterReadError == running  \* (mutant: the error is only logged)
RunningAfterReadError == FALSE
ReadFails ==
    /\ pc = "select" /\ link = "down"
    /\ pc' = "loop"
    /\ running' = RunningAfterReadError
    /\ UNCHANGED <<link, clients, heap, reply, released, fault, tsubs, view>>

\* A handler starts when select reports a readable socket and msg_read
\* returns a message, and ends where the loop tests `running` again.
Receives == pc = "select"
Return == pc' = "loop" /\ UNCHANGED <<running, link, released, fault>>

\* An access through an invalid pointer: only the first one is recorded.
Faulty(kind) == fault' = IF fault = "none" THEN kind ELSE fault
Dies(kind) == pc' = "crashed" /\ Faulty(kind) /\ UNCHANGED <<running, link, released>>

-----------------------------------------------------------------------------
(* CHANNEL_SUBSCRIBE: the tunnel has entered c among the subscribers and   *)
(* tells the publisher, with the user's name as the payload.               *)

\* The name does not fit: logged, no answer.
SubscribeTooLong(c) ==
    /\ Receives /\ Return
    /\ tsubs' = tsubs \cup {c}
    /\ UNCHANGED <<clients, heap, reply, view>>

\* The id is already in the tree: logged, no answer.
SubscribeAgain(c) ==
    /\ Receives /\ Return
    /\ clients[c] # NoHandle
    /\ tsubs' = tsubs \cup {c}
    /\ UNCHANGED <<clients, heap, reply, view>>

\* Another client of user u has a handle: share it.
SubscribeShared(c, u) ==
    /\ Receives /\ Return
    /\ clients[c] = NoHandle
    /\ \E h \in HandlesOf(u) : /\ ref' = Retain(h)
                              /\ clients' = [clients EXCEPT ![c] = h]
    /\ tsubs' = tsubs \cup {c}
    /\ UNCHANGED <<live, name, groups, reply, view>>

\* The first client of user u: malloc a handle.
SubscribeFirst(c, u) ==
    /\ Receives /\ Return
    /\ clients[c] = NoHandle /\ HandlesOf(u) = {}
    /\ \E h \in Handle \ live :
          /\ live' = live \cup {h}
          /\ name' = [name EXCEPT ![h] = u]
          /\ ref' = [ref EXCEPT ![h] = InitialRef]
          /\ groups' = [groups EXCEPT ![h] = {}]
          /\ clients' = [clients EXCEPT ![c] = h]
    /\ tsubs' = tsubs \cup {c}
    /\ UNCHANGED <<reply, view>>

-----------------------------------------------------------------------------
(* CHANNEL_CTRL.  Every accepted request first points response.data at     *)
(* msg_buffer; BC_ERROR formats into response.data whatever it points at.  *)

Known(c) == Receives /\ clients[c] # NoHandle

Join(c, g) ==
    /\ Known(c) /\ Return
    /\ groups' = [groups EXCEPT ![clients[c]] = @ \cup {g}]
    /\ view' = ViewsAfterJoin(name[clients[c]], g)
    /\ reply' = "buffer"
    /\ UNCHANGED <<clients, live, name, ref, tsubs>>

\* The user need not be in the group: the notices go out all the same.
Leave(c, g) ==
    /\ Known(c) /\ Return
    /\ view' = ViewsAfterLeave(clients[c], {g})
    /\ groups' = [groups EXCEPT ![clients[c]] = @ \ {g}]
    /\ reply' = "buffer"
    /\ UNCHANGED <<clients, live, name, ref, tsubs>>

QueryUser(c, g) ==
    /\ Known(c) /\ Return
    /\ g \in groups[clients[c]]
    /\ view' = IF link = "up" THEN [view EXCEPT ![c][g] = Members(g)] ELSE view
    /\ reply' = "buffer"
    /\ UNCHANGED <<clients, heap, tsubs>>

\* BC_QUERY_GROUP, an unknown code, or BC_QUERY_USER from a client that is
\* not in the group: the answer changes nothing else.
OtherControl(c) ==
    /\ Known(c) /\ Return
    /\ reply' = "buffer"
    /\ UNCHANGED <<clients, heap, tsubs, view>>

\* BC_ERROR outside the accepted requests: a bad size, or a client that is
\* not in the tree.  snprintf writes through response.data.
ErrorReply ==
    /\ Receives
    /\ \/ reply = "buffer" /\ Return
       \/ reply # "buffer" /\ Dies("reply")
       \/ /\ reply = "freed" /\ pc' = "loop" /\ Faulty("reply")
          /\ UNCHANGED <<running, link, released>>
    /\ UNCHANGED <<clients, heap, reply, tsubs, view>>

-----------------------------------------------------------------------------
\* CHANNEL_DATA is forwarded to the clients in the group it names; a
\* message of any other type is only logged.
Forward ==
    /\ Receives /\ Return
    /\ UNCHANGED <<clients, heap, reply, tsubs, view>>

\* An empty CHANNEL_DATA has no payload to copy the group from.
ForwardEmpty ==
    /\ Receives /\ Dies("payload")
    /\ UNCHANGED <<clients, heap, reply, tsubs, view>>

-----------------------------------------------------------------------------
(* CHANNEL_UNSUBSCRIBE and unsubscribe().                                  *)

\* ref--, and the last client of a user takes the handle and the user's
\* memberships with it, after the members have been told; then the client
\* itself is told.
Release(c) ==
    LET h == clients[c]
        last == LastHolder(h)
    IN  /\ ref' = [ref EXCEPT ![h] = @ - 1]
        /\ live' = IF last THEN live \ {h} ELSE live
        /\ name' = IF last THEN [name EXCEPT ![h] = NoUser] ELSE name
        /\ groups' = IF last THEN [groups EXCEPT ![h] = {}] ELSE groups
        /\ view' = Forget(IF last THEN ViewsAfterLeave(h, groups[h]) ELSE view, c)
        /\ tsubs' = tsubs \ {c}

Unsubscribe(c) ==
    /\ Known(c) /\ Return
    /\ Release(c)
    /\ clients' = [clients EXCEPT ![c] = NoHandle]
    /\ UNCHANGED reply

\* A client that the tunnel counts as a subscriber but the publisher does
\* not: unsubscribe(NULL) reads node->data before it tests node.
UnsubscribeUnknown(c) ==
    /\ Receives /\ Dies("node")
    /\ c \in tsubs /\ clients[c] = NoHandle
    /\ UNCHANGED <<clients, heap, reply, tsubs, view>>

-----------------------------------------------------------------------------
(* Leaving the loop: unsubscribe() on every node, then close the channel.  *)
(* The nodes stay in the tree until bst_free, so the notices of a later    *)
(* step visit released nodes, whose handle may be gone.                    *)

Dangling == \E d \in Subscribed \cap released : clients[d] \notin live

\* Whether the notices of c's release look into a handle that is gone.
LooksAtFreed(c) == LastHolder(clients[c]) /\ groups[clients[c]] # {} /\ Dangling

ShutdownRelease(c) ==
    /\ pc = "shutdown" /\ c \in Attached
    /\ Release(c)
    /\ released' = released \cup {c}
    /\ IF LooksAtFreed(c) THEN Faulty("handle") ELSE UNCHANGED fault
    /\ UNCHANGED <<pc, running, link, clients, reply>>

ShutdownCrash(c) ==
    /\ pc = "shutdown" /\ c \in Attached
    /\ LooksAtFreed(c) /\ Dies("handle")
    /\ UNCHANGED <<clients, heap, reply, tsubs, view>>

\* bst_free, CHANNEL_CLOSE; the final msg_read waits for an answer.
SendClose ==
    /\ pc = "shutdown" /\ Attached = {}
    /\ pc' = "closing"
    /\ clients' = [c \in Client |-> NoHandle]
    /\ released' = {}
    /\ UNCHANGED <<running, link, heap, reply, fault, tsubs, view>>

\* The answer, whatever it is, or the end of the socket.
Close ==
    /\ pc = "closing"
    /\ pc' = "closed"
    /\ UNCHANGED <<running, link, clients, heap, reply, released, fault, tsubs, view>>

-----------------------------------------------------------------------------
Handlers ==
    \/ \E c \in Client : \/ SubscribeTooLong(c) \/ SubscribeAgain(c)
                         \/ OtherControl(c) \/ Unsubscribe(c) \/ UnsubscribeUnknown(c)
    \/ \E c \in Client, u \in User : SubscribeShared(c, u) \/ SubscribeFirst(c, u)
    \/ \E c \in Client, g \in Group : Join(c, g) \/ Leave(c, g) \/ QueryUser(c, g)
    \/ ErrorReply \/ Forward \/ ForwardEmpty

Shutdown == \/ \E c \in Client : ShutdownRelease(c) \/ ShutdownCrash(c)
            \/ SendClose

Next ==
    \/ \E ok, payload \in BOOLEAN : OpenReply(ok, payload)
    \/ OpenFails \/ CheckRunning \/ Interrupt \/ LinkDown \/ ReadFails
    \/ Handlers \/ Shutdown \/ Close

Spec == Init /\ [][Next]_vars

\* The process takes the steps it can take.  Once the tunnel is gone the
\* socket holds finitely many messages, so reading it reaches the end; while
\* it is there, nothing obliges it to answer.
LiveSpec == /\ Spec
            /\ WF_vars(OpenFails) /\ WF_vars(CheckRunning) /\ WF_vars(Shutdown)
            /\ WF_vars(Close /\ link = "down")
            /\ SF_vars(ReadFails)

-----------------------------------------------------------------------------
(* Properties.                                                             *)

\* A handle's reference count is the number of clients attached to it, no
\* allocated handle is without a client (no leak), and no attached client
\* has a freed handle.  (ref++ at 334, ref-- at 128, free at 144.)
HandlesOwned ==
    /\ \A h \in live : ref[h] = Cardinality(Holders(h)) /\ ref[h] > 0
    /\ \A c \in Attached : clients[c] \in live

\* All the clients of a user share one handle, so a user joins and leaves
\* for all of them.  (bc_get_handle, 70-86.)
OneHandlePerUser == \A h, k \in live : name[h] = name[k] => h = k

\* The rest of the inductive invariant (see BroadcastProofs): a handle in
\* use carries a user's name, and only the final loop releases nodes.
NamesKnown == \A h \in live : name[h] \in User
ReleasedAtExit == released # {} => pc \in {"shutdown", "crashed"}
HeapInv == TypeOK /\ HandlesOwned /\ OneHandlePerUser /\ NamesKnown /\ ReleasedAtExit

\* While the tunnel is up, a client that asked who is in a group and has
\* followed the notices since knows exactly the users who are in it, and
\* knows nothing of a group it is not in: no join, leave or disconnection is
\* missed, in any order of events.
\* (bc_notify before and after the changes of the trees, 380-409, 138-145.)
ViewExact ==
    link = "up" /\ pc # "crashed" =>
        \A c \in Client, g \in Group :
            view[c][g] # {} => c \in Attached /\ Hears(c, g) /\ view[c][g] = Members(g)

\* When the tunnel service goes away, the publisher stops (so that systemd
\* can start it again).  (302-305, 290-296, 489-510.)
StopsWithTunnel == link = "down" ~> pc \in Final

\* The abstract service: a user's memberships outlive a client as long as
\* another client of the user is subscribed, and end with the last one.
GS == INSTANCE GroupService WITH
        user <- [c \in Client |-> IF c \in Attached THEN name[clients[c]] ELSE NoUser],
        members <- [g \in Group |-> Members(g)]
Implements == GS!Spec

\* A bad request is answered with an error (449, 454): the answer is
\* formatted into a buffer that exists.  It does not hold (see the README).
AnswersErrors == fault # "reply"

\* "unsubscribe all client" (489): the final loop reaches every client,
\* none of its steps ends the process.
UnsubscribesAll == pc = "crashed" => fault # "handle"
=============================================================================
