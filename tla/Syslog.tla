------------------------------- MODULE Syslog -------------------------------
(***************************************************************************)
(* The syslog publisher (syslog/syslog.c): it reads datagrams from a local *)
(* socket and sends each to all the clients of the channel.  A message of  *)
(* the tunnel always goes before a datagram.                               *)
(*                                                                         *)
(* Datagrams are numbered as they arrive.  The walk that sends one is a    *)
(* step per client, because the connection may break in between.  `heard`  *)
(* is no program state: it counts the datagrams a client has got, or did   *)
(* not need because it subscribed later.                                   *)
(***************************************************************************)
EXTENDS Hotline

CONSTANTS MaxDatagrams,  \* bound: datagrams written to the local socket
          None           \* no topic

ASSUME MaxDatagramsAssumption == MaxDatagrams \in Nat /\ None # "log"

VARIABLES
    pc,        \* where main() is
    running,   \* cleared by SIGINT and by fatal errors
    clients,   \* the tree of subscribed clients
    arrived,   \* datagrams written to the local socket
    taken,     \* datagrams read from it
    todo,      \* clients the current datagram has still to be sent to
    heard      \* client -> number of datagrams

vars == <<tunnel, pc, running, clients, arrived, taken, todo, heard>>
datagrams == <<arrived, taken, todo, heard>>

TypeOK ==
    /\ TunnelTypeOK
    /\ pc \in {"opening", "loop", "select", "sending", "shutdown", "closing", "closed"}
    /\ running \in BOOLEAN
    /\ clients \subseteq Client
    /\ arrived \in 0 .. MaxDatagrams
    /\ taken \in 0 .. arrived
    /\ todo \subseteq clients
    /\ heard \in [Client -> 0 .. MaxDatagrams]

-----------------------------------------------------------------------------
(* Start-up: the sockets exist, CHANNEL_OPEN is written.                   *)

Init ==
    /\ TunnelInit
    /\ pc = "opening" /\ running = TRUE
    /\ clients = {}
    /\ arrived = 0 /\ taken = 0 /\ todo = {}
    /\ heard = [c \in Client |-> 0]

\* The answer is CHANNEL_OK or not.
OpenReply(ok) ==
    /\ pc = "opening"
    /\ pc' = "loop"
    /\ running' = (running /\ ok)
    /\ UNCHANGED <<tunnel, clients, datagrams>>

OpenFails ==
    /\ pc = "opening" /\ link = "down"
    /\ pc' = "closed"
    /\ UNCHANGED <<tunnel, running, clients, datagrams>>

-----------------------------------------------------------------------------
(* The environment.                                                        *)

Tunnel ==
    /\ pc \notin {"opening", "closing", "closed"} /\ TunnelActs
    /\ UNCHANGED <<pc, running, clients, datagrams>>

\* Before the channel is open, and after it is closed, the tunnel sends
\* nothing, but it may still go away.
TunnelBreaks ==
    /\ pc \in {"opening", "closing"} /\ LinkDown
    /\ UNCHANGED <<pc, running, clients, datagrams>>

Arrive ==
    /\ arrived < MaxDatagrams /\ pc # "closed"
    /\ arrived' = arrived + 1
    /\ UNCHANGED <<tunnel, pc, running, clients, taken, todo, heard>>

\* SIGINT; it wakes a process that is blocked in select, and nothing if it
\* lands just before select is entered.
Interrupt ==
    /\ pc # "closed"
    /\ running' = FALSE
    /\ \/ pc' = pc
       \/ pc = "select" /\ pc' = "loop"
    /\ UNCHANGED <<tunnel, clients, datagrams>>

-----------------------------------------------------------------------------
(* The main loop.                                                          *)

CheckRunning ==
    /\ pc = "loop"
    /\ pc' = IF running THEN "select" ELSE "shutdown"
    /\ UNCHANGED <<tunnel, running, clients, datagrams>>

\* One message, one handler.
Receives == pc = "select" /\ pc' = "loop"

\* bst_insert and bst_delete.
InsertNothing(c) == clients    \* (mutant: the subscription is only logged)
Insert(c) == clients \cup {c}
Subscribe(c) ==
    /\ Receives /\ Reads(Subscription(c))
    /\ clients' = Insert(c)
    /\ heard' = [heard EXCEPT ![c] = taken]
    /\ UNCHANGED <<tsubs, running, arrived, taken, todo>>

Unsubscribe(c) ==
    /\ Receives /\ Reads(Unsubscription(c))
    /\ clients' = clients \ {c}
    /\ UNCHANGED <<tsubs, running, datagrams>>

\* A message of any other type is only logged.
Other ==
    /\ Receives /\ \E m \in Requests : Reads(m)
    /\ UNCHANGED <<tsubs, running, clients, datagrams>>

KeepRunningAfterReadError == running  \* (mutant: the error is only logged)
RunningAfterReadError == FALSE
ReadFails ==
    /\ Receives /\ AtEnd
    /\ running' = RunningAfterReadError
    /\ UNCHANGED <<tunnel, clients, datagrams>>

-----------------------------------------------------------------------------
(* A datagram, when the hotline has nothing to read.                       *)

\* FD_ISSET(sock_fd): there is a datagram.
AnyTime == TRUE          \* (mutant: recvfrom is called without looking)
Waiting == taken < arrived

DatagramTurn == pc = "select" /\ ~Readable

TakeDatagram ==
    /\ DatagramTurn /\ Waiting
    /\ pc' = "sending"
    /\ taken' = taken + 1
    /\ todo' = clients
    /\ UNCHANGED <<tunnel, running, clients, arrived, heard>>

\* recvfrom fails.
DatagramFails ==
    /\ DatagramTurn
    /\ pc' = "loop"
    /\ running' = FALSE
    /\ UNCHANGED <<tunnel, clients, datagrams>>

\* send_data() on one node, which bst_for_each visits once; on a broken
\* connection the datagram is lost.
VisitedAgain(c) == todo  \* (mutant: the walk comes to a node again)
Visited(c) == todo \ {c}
SendTo(c) ==
    /\ pc = "sending" /\ c \in todo
    /\ todo' = Visited(c)
    /\ heard' = IF link = "up" THEN [heard EXCEPT ![c] = @ + 1] ELSE heard
    /\ UNCHANGED <<tunnel, pc, running, clients, arrived, taken>>

\* The walk is over when it has visited every node.
SentSome == TRUE         \* (mutant: the walk stops early)
SentAll == todo = {}
SendDone ==
    /\ pc = "sending" /\ SentAll
    /\ pc' = "loop"
    /\ todo' = {}
    /\ UNCHANGED <<tunnel, running, clients, arrived, taken, heard>>

-----------------------------------------------------------------------------
(* Leaving the loop: unsubscribe() on every node, then close the channel.  *)

ShutdownTell(c) ==
    /\ pc = "shutdown" /\ c \in clients
    /\ Tells(c)
    /\ clients' = clients \ {c}
    /\ UNCHANGED <<pc, running, datagrams>>

ToldSome == TRUE         \* (mutant: the channel is closed first)
ToldAll == clients = {}
SendClose ==
    /\ pc = "shutdown" /\ ToldAll
    /\ pc' = "closing"
    /\ clients' = {}
    /\ UNCHANGED <<tunnel, running, datagrams>>

\* The final msg_read returns the answer, what was sent before it, or the
\* end of the socket.
Close ==
    /\ pc = "closing"
    /\ pc' = "closed"
    /\ UNCHANGED <<tunnel, running, clients, datagrams>>

-----------------------------------------------------------------------------
Handlers == \/ \E c \in Client : Subscribe(c) \/ Unsubscribe(c)
            \/ Other \/ ReadFails

Sending == (\E c \in Client : SendTo(c)) \/ SendDone
Shutdown == (\E c \in Client : ShutdownTell(c)) \/ SendClose

Next ==
    \/ \E ok \in BOOLEAN : OpenReply(ok)
    \/ OpenFails \/ Tunnel \/ TunnelBreaks \/ Arrive \/ Interrupt
    \/ CheckRunning \/ Handlers \/ TakeDatagram \/ DatagramFails \/ Sending
    \/ Shutdown \/ Close

Spec == Init /\ [][Next]_vars

\* The process takes the steps it can take: select returns when there is a
\* message, the end of the socket or a datagram.  Weak fairness is enough,
\* because no datagram goes before a message.
LiveSpec ==
    /\ Spec
    /\ WF_vars(OpenFails) /\ WF_vars(CheckRunning) /\ WF_vars(Handlers)
    /\ WF_vars(TakeDatagram) /\ WF_vars(Sending) /\ WF_vars(Shutdown)
    /\ WF_vars(Close /\ link = "down")

-----------------------------------------------------------------------------
(* Properties.                                                             *)

\* As long as it serves, the clients the publisher sends datagrams to are the
\* subscribers of the tunnel, but for the messages it has not read yet; when
\* the channel is closed, every subscriber has been told, except one whose
\* subscription was never read.  (172-188, 218-227.)
Serves ==
    /\ pc \notin {"shutdown", "closing", "closed"} => InStep(clients)
    /\ pc = "closing" /\ link = "up" => \A c \in tsubs : Queued(Subscription(c))

\* The rest of the inductive invariant (see SyslogProofs): a walk is over
\* when the datagram is sent; on the way out the subscribers that are not
\* told yet are still in the table; who is up to date.
WalkOver == pc # "sending" => todo = {}
Leaving == /\ pc = "closing" => clients = {}
           /\ pc \in {"shutdown", "closing"} /\ link = "up" =>
                 \A c \in tsubs : c \in clients \/ Queued(Subscription(c))
UpToDate == link = "up" => \A c \in clients :
                heard[c] = IF c \in todo THEN taken - 1 ELSE taken
SyslogInv == TypeOK /\ Serves /\ WalkOver /\ Leaving /\ UpToDate

\* The datagrams reach every subscriber, in order and once, as long as the
\* connection holds.  (33-43, 195-213.)
R == INSTANCE Relay WITH
        Topic <- {"log"}, Nothing <- None,
        topic <- [c \in Client |-> IF c \in clients THEN "log" ELSE None],
        published <- [t \in {"log"} |-> taken],
        up <- link = "up"
Implements == R!Spec

\* When the tunnel service goes away, the publisher stops.  (165-169, 218-236.)
StopsWithTunnel == link = "down" ~> pc = "closed"
=============================================================================
