------------------------------ MODULE Hotline ------------------------------
(***************************************************************************)
(* The tunnel service as a publisher sees it through its socket, the       *)
(* hotline: it keeps the set of the channel's subscribers and forwards     *)
(* subscriptions and the clients' messages.  What it has sent waits in the *)
(* socket until the publisher reads it, so its set and the publisher's     *)
(* table differ by the messages that are on the way.  What the publisher   *)
(* writes is taken to be handled at once.                                  *)
(*                                                                         *)
(* The tunnel is not in this repository: this is what its publishers rely  *)
(* on.  Syslog, Wfifo and V4l2cam extend this module.                      *)
(***************************************************************************)
EXTENDS Integers, Sequences

CONSTANTS Client,    \* client ids of the tunnel
          Requests,  \* messages of clients: records with a type and a client
          MaxQueue   \* bound: messages on the way to the publisher

VARIABLES
    link,      \* state of the socket
    hotline,   \* messages the publisher has not read
    tsubs      \* clients the tunnel holds as subscribers of the channel

tunnel == <<link, hotline, tsubs>>

Subscription(c) == [type |-> "SUBSCRIBE", client |-> c]
Unsubscription(c) == [type |-> "UNSUBSCRIBE", client |-> c]
Message == Requests \cup {Subscription(c) : c \in Client}
                    \cup {Unsubscription(c) : c \in Client}

ASSUME RequestsAssumption ==
    /\ MaxQueue \in Nat
    /\ \A c \in Client : Subscription(c) \notin Requests /\ Unsubscription(c) \notin Requests

TunnelTypeOK == /\ link \in {"up", "down"}
                /\ hotline \in Seq(Message)
                /\ tsubs \subseteq Client

TunnelInit == link = "up" /\ hotline = <<>> /\ tsubs = {}

-----------------------------------------------------------------------------
(* What the tunnel does.                                                   *)

Posts(m) == Len(hotline) < MaxQueue /\ hotline' = Append(hotline, m)

TunnelSubscribes(c) ==
    /\ link = "up" /\ Posts(Subscription(c))
    /\ tsubs' = tsubs \cup {c}
    /\ UNCHANGED link

TunnelUnsubscribes(c) ==
    /\ link = "up" /\ c \in tsubs /\ Posts(Unsubscription(c))
    /\ tsubs' = tsubs \ {c}
    /\ UNCHANGED link

TunnelForwards(m) ==
    /\ link = "up" /\ Posts(m)
    /\ UNCHANGED <<link, tsubs>>

\* The service goes away; the publisher still gets what has come so far, and
\* the rest of what was on the way is lost.
LinkDown ==
    /\ link = "up"
    /\ link' = "down"
    /\ \E n \in 0 .. Len(hotline) : hotline' = SubSeq(hotline, 1, n)
    /\ UNCHANGED tsubs

TunnelActs == \/ \E c \in Client : TunnelSubscribes(c) \/ TunnelUnsubscribes(c)
              \/ \E m \in Requests : TunnelForwards(m)
              \/ LinkDown

-----------------------------------------------------------------------------
(* The publisher's side.                                                   *)

\* msg_read returns the message m, or finds the end of the socket.
Reads(m) == hotline # <<>> /\ m = Head(hotline) /\ hotline' = Tail(hotline) /\ UNCHANGED link
AtEnd == link = "down" /\ hotline = <<>>

\* select() reports the hotline.
Readable == hotline # <<>> \/ link = "down"

\* A write succeeds (ok) on a connection that holds; on a broken one it may
\* still be accepted by the socket.
Accepted(ok) == link = "up" => ok

\* CHANNEL_UNSUBSCRIBE is written to client c.
Tells(c) == tsubs' = tsubs \ {c} /\ UNCHANGED <<link, hotline>>

-----------------------------------------------------------------------------
(* The two sides.                                                          *)

\* Message m is in the queue q.
Holds(q, m) == \E i \in 1 .. Len(q) : q[i] = m

\* A subscription of c is in the queue q, and nothing that takes it back.
Joins(q, c) ==
    \E i \in 1 .. Len(q) :
        /\ q[i] = Subscription(c)
        /\ \A j \in i + 1 .. Len(q) : q[j] # Unsubscription(c)

\* T is what the set S will be once the queue q is read.
Agree(S, q, T) == \A c \in Client :
    c \in T <=> Joins(q, c) \/ (c \in S /\ ~Holds(q, Unsubscription(c)))

Queued(m) == Holds(hotline, m)

\* The tunnel's subscribers are those the set S of the publisher will be
\* once it has read what is on the way.
InStep(S) == link = "up" => Agree(S, hotline, tsubs)
=============================================================================
