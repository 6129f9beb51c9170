-------------------------- MODULE MCTerminalStream --------------------------
(* TerminalStream on small instances.                                       *)
EXTENDS TerminalStream, TLC

Symmetry == Permutations(Sockets)
=============================================================================
