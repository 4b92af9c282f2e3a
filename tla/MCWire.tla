------------------------------- MODULE MCWire -------------------------------
(* Small instances of Wire: payloads that look like the magic numbers, ids   *)
(* of both bytes, a message without payload.                               *)
EXTENDS Wire

SomeMessages ==
    {[type |-> 6, channel |-> 1, client |-> 256, data |-> <<84, 68>>],
     [type |-> 7, channel |-> MagicBegin, client |-> MagicEnd, data |-> <<65, 78, 0>>],
     [type |-> 3, channel |-> 513, client |-> 0, data |-> <<>>]}
=============================================================================
