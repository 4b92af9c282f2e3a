------------------------------- MODULE Relay -------------------------------
(***************************************************************************)
(* What the publishers that only pass data on promise: every subscriber of *)
(* a topic hears each item published after its subscription, in order and  *)
(* once, and nothing of any other topic.  When the connection breaks, what *)
(* was not heard yet may be lost.  Items are counted, not described.       *)
(***************************************************************************)
EXTENDS Naturals

CONSTANTS Client, Topic,
          Nothing   \* the topic of a client that is not subscribed

VARIABLES
    topic,      \* client -> the topic it is subscribed to
    published,  \* topic -> number of items published
    heard,      \* client -> number of the last item it needs no more
    up          \* the connection

vars == <<topic, published, heard, up>>

Init ==
    /\ topic = [c \in Client |-> Nothing]
    /\ published = [t \in Topic |-> 0]
    /\ heard = [c \in Client |-> 0]
    /\ up = TRUE

Subscribe(c, t) ==
    /\ topic' = [topic EXCEPT ![c] = t]
    /\ heard' = [heard EXCEPT ![c] = published[t]]
    /\ UNCHANGED <<published, up>>

Leave(c) ==
    /\ topic' = [topic EXCEPT ![c] = Nothing]
    /\ UNCHANGED <<published, heard, up>>

\* The next item comes only when everybody has heard the previous one.
Publish(t) ==
    /\ up => \A c \in Client : topic[c] = t => heard[c] = published[t]
    /\ published' = [published EXCEPT ![t] = @ + 1]
    /\ UNCHANGED <<topic, heard, up>>

Deliver(c) ==
    /\ up /\ topic[c] # Nothing
    /\ heard[c] < published[topic[c]]
    /\ heard' = [heard EXCEPT ![c] = @ + 1]
    /\ UNCHANGED <<topic, published, up>>

Break == up' = FALSE /\ UNCHANGED <<topic, published, heard>>

Next ==
    \/ \E c \in Client : Leave(c) \/ Deliver(c) \/ (\E t \in Topic : Subscribe(c, t))
    \/ \E t \in Topic : Publish(t)
    \/ Break

Spec == Init /\ [][Next]_vars
=============================================================================
