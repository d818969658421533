-------------------------- MODULE MCRunCoordinator --------------------------
(* TLC instances of RunCoordinator. *)
EXTENDS RunCoordinator, TLC

CONSTANTS s1, s2, s3, d1, k1, x1, x2, y1

OneSession == (s1 :> k1) @@ (s2 :> k1) @@ (s3 :> k1)
OneSessionOfTwo == (s1 :> k1) @@ (s2 :> k1)

\* Submissions of one session, and calls of Close, are interchangeable.
Symmetry == Permutations({s1, s2, s3}) \cup Permutations({x1, x2})
=============================================================================
