------------------------------ MODULE MCRunLane ------------------------------
(* TLC instances of RunLane. *)
EXTENDS RunLane, TLC

CONSTANTS c1, c2, m1

\* Well-formed commands are interchangeable.
Symmetry == Permutations({c1, c2})
=============================================================================
