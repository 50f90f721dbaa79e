---------------------------- MODULE MCDeployment ----------------------------
(* TLC's instance of Deployment. *)
EXTENDS Deployment
=============================================================================
