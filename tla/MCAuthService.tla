---------------------------- MODULE MCAuthService ----------------------------
(* AuthService on a small instance: ids and requests are interchangeable.   *)
EXTENDS AuthService, TLC

Symmetry ==
    Permutations(Requests) \union Permutations(SessionIds) \union Permutations(Enrolments)
=============================================================================
