-------------------------- MODULE MCWorkerDeployments --------------------------
(* The model values of the deployment runs.                                 *)
EXTENDS WorkerDeployments
CONSTANTS a1, a2, u1, u2, u3
=============================================================================
