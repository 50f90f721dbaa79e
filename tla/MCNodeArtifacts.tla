-------------------------- MODULE MCNodeArtifacts --------------------------
(* TLC instance of NodeArtifacts: one node with a persistent data disk and *)
(* one without.                                                            *)
EXTENDS NodeArtifacts
=============================================================================
