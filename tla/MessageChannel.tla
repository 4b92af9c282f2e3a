--------------------------- MODULE MessageChannel ---------------------------
(* What the publishers take the connection with the tunnel to be: messages  *)
(* arrive whole, unaltered, once each and in the order in which they were   *)
(* sent.  When the connection breaks, the last ones may not arrive.         *)
EXTENDS Naturals, Sequences

CONSTANT Messages
VARIABLES sent, delivered

Init == sent = <<>> /\ delivered = <<>>

Send(m) == sent' = Append(sent, m) /\ UNCHANGED delivered

Deliver ==
    /\ Len(delivered) < Len(sent)
    /\ delivered' = Append(delivered, sent[Len(delivered) + 1])
    /\ UNCHANGED sent

Next == (\E m \in Messages : Send(m)) \/ Deliver

Spec == Init /\ [][Next]_<<sent, delivered>>
=============================================================================
