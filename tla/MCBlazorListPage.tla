-------------------------- MODULE MCBlazorListPage --------------------------
(***************************************************************************)
(* The lists and rows of MCSeededListPage, for the Blazor lane.            *)
(***************************************************************************)
EXTENDS BlazorListPage

CONSTANTS a, b, undeclared, early, late

MCTargets == {a, b, undeclared}
MCKnown == {a, b}
MCRows == {early, late}
MCBorn == [r \in MCRows |-> IF r = early THEN 0 ELSE 1]

=============================================================================
