------------------------------ MODULE Catalogue ------------------------------
(***************************************************************************)
(* The node's definition catalogue as the Workshop list pages read it.     *)
(* The node is not in this repository: what is here is what the pages'     *)
(* requests and the reading of their answers say of it.  The catalogue     *)
(* passes through revisions; a read is served at some revision between the *)
(* moment it is sent and the moment its answer arrives.                    *)
(***************************************************************************)
EXTENDS Naturals

CONSTANTS
    Targets,        \* an item and the view it is shown with
    Known,          \* the targets whose item the platform declares (KINDS)
    Rows,           \* row identities, id@version
    Born,           \* the revision at which a row enters the catalogue
    None,           \* an absent value: null in the source
    MaxRevision,    \* bound on catalogue revisions
    MaxLoads        \* bound on the loads a page starts

Maybe(S) == S \cup {None}

ASSUME CatalogueOK ==
    /\ Known \subseteq Targets
    /\ Born \in [Rows -> Nat]
    /\ MaxRevision \in Nat /\ MaxLoads \in Nat
    /\ None \notin Targets /\ None \notin Rows
    /\ None \notin Nat /\ None \notin Targets \X Rows

RowsAt(n) == {r \in Rows : Born[r] =< n}

\* A list read carries no target: it is the target of its load.
Read == [kind : {"load", "refresh"}, load : Nat, since : Nat]

=============================================================================
