----------------------------- MODULE MCFileStore -----------------------------
(* FileStore on a small instance: three updates, two of them exclusive.     *)
EXTENDS FileStore, TLC

Symmetry == Permutations(Exclusive) \union Permutations(Readers)
=============================================================================
