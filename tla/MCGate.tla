------------------------------- MODULE MCGate -------------------------------
(* Gate on a small instance.                                               *)
EXTENDS Gate
CONSTANTS c1, c2, h1
=============================================================================
