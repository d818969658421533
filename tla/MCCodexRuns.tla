------------------------------ MODULE MCCodexRuns ------------------------------
(* The instance of CodexRuns that TLC checks.                               *)
EXTENDS CodexRuns
=============================================================================
