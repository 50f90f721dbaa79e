---------------------------- MODULE MCImageStore ----------------------------
(* TLC instances of ImageStore: a command that creates the node on a       *)
(* catalog image or a local image, next to one that changes the cache.     *)
EXTENDS ImageStore, TLC

CONSTANTS creator, changer, old, new

Commands == creator :> {"up", "prune"} @@ changer :> {"pull", "import", "prune"}
PullingCommands == creator :> {"up", "pull"} @@ changer :> {"pull", "prune"}

\* Nothing tells one digest from another.
DigestSymmetry == Permutations({old, new})
=============================================================================
