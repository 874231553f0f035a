----------------------------- MODULE MCPortDev -----------------------------
(* Model-checking instance of PortDev.                                     *)
EXTENDS PortDev, TLC

Symmetry == Permutations(Ports) \cup Permutations(Files)
=============================================================================
