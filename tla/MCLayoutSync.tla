---------------------------- MODULE MCLayoutSync ----------------------------
(* LayoutSync with two browsers and a few edits.                            *)
EXTENDS LayoutSync, TLC

Symmetry == Permutations(Clients) \union Permutations(Edits)
=============================================================================
