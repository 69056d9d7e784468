------------------------------ MODULE LocalNode ------------------------------
(***************************************************************************)
(* The local node as both Workshop lanes use it.  The node's code is not   *)
(* in this repository: what is here is what the lanes read in its answers. *)
(* It validates pack documents, signs artifacts, verifies, installs and    *)
(* activates them, and creates records of projected types.  `node` values  *)
(* remember what it did; the place of an artifact or a record in its       *)
(* sequence is the number the lanes know it by.                            *)
(***************************************************************************)
EXTENDS Naturals, Sequences

CONSTANTS
    Packs,          \* pack documents an author can type
    Forms,          \* versions of the property form a record type may pin
    None            \* an absent value: undefined or null in the source

Maybe(S) == S \cup {None}

Artifact   == [pack : Packs, serial : Nat]
Activation == [pack : Packs, form : Forms]
Receipt    == [id : Nat, of : Activation]

Node ==
    [ validated : SUBSET Packs,       \* packs reported valid
      signed    : Seq(Packs),         \* the pack of each artifact handed out
      verified  : SUBSET Artifact,    \* artifacts reported Verified
      installed : SUBSET Artifact,    \* artifacts installed, reported or not
      projected : SUBSET Packs,       \* packs reported active without refusals
      records   : Seq(Packs) ]        \* whose type each record is of, reported or not

FreshNode ==
    [ validated |-> {}, signed |-> <<>>, verified |-> {}, installed |-> {},
      projected |-> {}, records |-> <<>> ]

Signed(node, artifact) ==
    artifact.serial \in DOMAIN node.signed /\ node.signed[artifact.serial] = artifact.pack

Recorded(node, receipt) ==
    receipt.id \in DOMAIN node.records /\ node.records[receipt.id] = receipt.of.pack

(***************************************************************************)
(* The node a request leaves behind when its answer never arrives: an      *)
(* installation or a record may or may not have been made.                 *)
(***************************************************************************)
Unanswered(node, request) ==
    {node} \cup
    IF request.op = "pack.install"
      THEN {[node EXCEPT !.installed = @ \cup {request.subject}]}
    ELSE IF request.op = "record.create"
      THEN {[node EXCEPT !.records = Append(@, request.subject.pack)]}
    ELSE {}

=============================================================================
