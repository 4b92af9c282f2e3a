------------------------------ MODULE MCSyslog ------------------------------
(* Small instances of Syslog: clients also send messages that it ignores.  *)
EXTENDS Syslog

SomeRequests == {[type |-> "DATA", client |-> c] : c \in Client}
=============================================================================
