------------------------------ MODULE MCRunner ------------------------------
(* Small instances of Runner.                                              *)
EXTENDS Runner
=============================================================================
