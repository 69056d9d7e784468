------------------------- MODULE MCWorkshopWorkflow -------------------------
(***************************************************************************)
(* Bounded instances of WorkshopWorkflow.  Two packs make a stale answer   *)
(* distinguishable from a current one, two forms a moved pin, two exports  *)
(* an artifact that replaces another.                                      *)
(***************************************************************************)
EXTENDS WorkshopWorkflow, TLC

Symmetry == Permutations(Packs) \cup Permutations(Forms)

=============================================================================
