-------------------------- MODULE MCAdministration --------------------------
(* A small instance of Administration. *)
EXTENDS Administration

CONSTANTS d1, officer, steward, a1, a2

MCOffered == [d \in {d1} |-> {officer, steward}]

=============================================================================
