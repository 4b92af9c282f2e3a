----------------------------- MODULE MCV4l2cam -----------------------------
(* A small instance of V4l2cam: two settings, one with a size the camera   *)
(* cannot do, one with a rate the timer cannot do; one of the clients      *)
(* sends control messages.                                                 *)
EXTENDS V4l2cam

CONSTANT c1

Start == [size |-> "vga", fps |-> 5]
Slow == [size |-> "qvga", fps |-> 1]

SomeRequests == {[type |-> "CTRL", client |-> c1, setting |-> s] : s \in Setting}
                    \cup {[type |-> "DATA", client |-> c1]}
SomeSettings == {Start, Slow}
=============================================================================
