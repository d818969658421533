------------------------- MODULE MCInteractionRouter -------------------------
(* TLC instances of InteractionRouter. *)
EXTENDS InteractionRouter, TLC

CONSTANTS r1, r2, q1, q2, i1, i2

\* Two runs ask, and the first is answered twice; an action that is unknown is
\* a consent for the first and none for the second.
RunOfTwo   == q1 :> r1 @@ q2 :> r2
IdOfTwo    == q1 :> i1 @@ q2 :> i2
NotPlain   == q1 :> {"deny", "other"} @@ q2 :> {"approve", "other"}
FirstTwice == q1 :> 2 @@ q2 :> 1
==============================================================================
