------------------------------ MODULE MCVterm ------------------------------
(* Small instances of Vterm.                                               *)
EXTENDS Vterm
=============================================================================
