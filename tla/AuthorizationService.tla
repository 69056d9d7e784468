------------------------ MODULE AuthorizationService ------------------------
(***************************************************************************)
(* The authorization service as the React administration pages use it.    *)
(* The service is not in the repository; fixtureClient.ts is the only code *)
(* that says what a narrowing does, httpClient.ts how the answers of the   *)
(* real one arrive.  A binding carries the roles that are still effective  *)
(* and counts its narrowings.                                              *)
(***************************************************************************)
EXTENDS Naturals

CONSTANTS
    Definitions,    \* the capability definitions
    Roles,          \* the roles they offer
    Offered,        \* the roles each definition starts with
    Audits,         \* identities of the refusals the service records
    None            \* an absent value: undefined or null in the source

ASSUME DefinitionsAssumption == Definitions # {}
ASSUME OfferedAssumption == Offered \in [Definitions -> SUBSET Roles]
ASSUME NoneAssumption == None \notin Audits /\ \A roles \in SUBSET Roles : None # roles

Maybe(S) == {None} \cup S

Binding == [revision : Nat, roles : SUBSET Roles]

ASSUME AbsentBindingAssumption == None \notin Binding

NarrowsMutant(roles, b) == TRUE

\* A removed role cannot be restored: what is selected must still be effective.
Narrows(roles, b) == roles \subseteq b.roles

Narrowed(roles, b) == [revision |-> b.revision + 1, roles |-> roles]

\* a is a binding the service had when, or before, it had b.
IsPast(a, b) ==
    /\ a.revision <= b.revision
    /\ b.roles \subseteq a.roles
    /\ a.revision = b.revision => a = b

-----------------------------------------------------------------------------
(***************************************************************************)
(* The trace under a refusal: what AuthorizationTrace.tsx has read of the  *)
(* decision it was mounted for, if anything.                               *)
(***************************************************************************)

Trace == [status : {"unread", "loading", "told", "failed"},
          of : Maybe(Audits)]

Unread == [status |-> "unread", of |-> None]

\* Opening the disclosure reads once; only a failure or a denial, both "failed"
\* here, offers to read again.
Readable(t) == t.status \in {"unread", "failed"}

=============================================================================
