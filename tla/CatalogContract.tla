-------------------------- MODULE CatalogContract --------------------------
(***************************************************************************)
(* What the manifest registry promises about each repository slot: a       *)
(* high-water mark that never falls, and an active revision that drops     *)
(* below the mark only when somebody agreed to it, or because the built-in *)
(* catalog was restored.  A command touches the slot it was asked for and  *)
(* no other.                                                               *)
(***************************************************************************)
EXTENDS Integers

CONSTANT Repos

VARIABLES mark,     \* slot -> newest revision ever accepted
          active,   \* slot -> active revision, 0 for the built-in catalog
          consent   \* slot -> whether the active revision was accepted with --allow-downgrade

cvars == <<mark, active, consent>>

Others(r) ==
  \A q \in Repos \ {r} : /\ mark'[q] = mark[q]
                         /\ active'[q] = active[q]
                         /\ consent'[q] = consent[q]

Init == /\ mark = [r \in Repos |-> 0]
        /\ active = [r \in Repos |-> 0]
        /\ consent = [r \in Repos |-> FALSE]

Accept(r) ==
  /\ active'[r] > 0
  /\ active'[r] >= mark[r] \/ consent'[r]
  /\ mark'[r] >= mark[r]
  /\ mark'[r] >= active'[r]
  /\ Others(r)

Restore(r) ==
  /\ active'[r] = 0
  /\ mark'[r] >= mark[r]
  /\ ~consent'[r]
  /\ Others(r)

Next == \E r \in Repos : Accept(r) \/ Restore(r)

Spec == Init /\ [][Next]_cvars
=============================================================================
