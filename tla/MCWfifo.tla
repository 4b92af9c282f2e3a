------------------------------- MODULE MCWfifo -------------------------------
(* Small instances of Wfifo: a common FIFO, a FIFO for each of two users,   *)
(* and two users whose paths have the same hash.                           *)
EXTENDS Wfifo, TLC

CONSTANTS c1, c2, p1, p2

SomeRequests == {[type |-> "DATA", client |-> c] : c \in {c1}}

Common == [base |-> p1, path |-> (c1 :> p1 @@ c2 :> p1), hash |-> (p1 :> 1 @@ p2 :> 2)]
Private == [Common EXCEPT !.base = None, !.path = (c1 :> p1 @@ c2 :> p2)]
Colliding == [Private EXCEPT !.hash = (p1 :> 1 @@ p2 :> 1)]

SomeSetups == {[mode |-> x[1], base |-> x[2].base, path |-> x[2].path, hash |-> x[2].hash] :
                  x \in {<<"r", Common>>, <<"r", Private>>, <<"w", Colliding>>}}
=============================================================================
