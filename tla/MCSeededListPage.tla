-------------------------- MODULE MCSeededListPage --------------------------
(***************************************************************************)
(* Three lists, one of them of an item the platform does not declare; a    *)
(* row that is there from the start and one that only an activation or     *)
(* another user brings.  Three loads let the user leave a list and return  *)
(* to it while its first load is pending.                                  *)
(***************************************************************************)
EXTENDS SeededListPage

CONSTANTS a, b, undeclared, early, late

MCTargets == {a, b, undeclared}
MCKnown == {a, b}
MCRows == {early, late}
MCBorn == [r \in MCRows |-> IF r = early THEN 0 ELSE 1]

=============================================================================
