--------------------------- MODULE CatalogueReader ---------------------------
(***************************************************************************)
(* What a Workshop list page promises whoever looks at it, whichever lane  *)
(* it runs in: it shows the rows of a place only after it asked for them   *)
(* there, and as the catalogue had them between the question and its       *)
(* answer; it leaves the selection to the user; and each activation is     *)
(* followed by a question.  SeededListPage (React) and BlazorListPage      *)
(* implement this specification.  They differ in a question that is never  *)
(* answered: the React page shows an error, the Blazor page goes on        *)
(* showing what it shows, though it be the note that the list is loading   *)
(* (MayLapse).                                                             *)
(***************************************************************************)
EXTENDS Catalogue

CONSTANT MayLapse       \* a question may end without the page taking notice

VARIABLES
    place,      \* the target the page is for, or None
    selected,   \* the selected row
    page,       \* what there is to see
    pending,    \* the questions whose answer the page still takes
    revision    \* the catalogue's revision

vars == <<place, selected, page, pending, revision>>

\* What there is to see: nothing, a note that the list is loading, an error, or
\* the rows of one revision.
Blank(state) == [state |-> state, at |-> 0]
Listed(n)    == [state |-> "listed", at |-> n]

\* The page asks for the place anew and forgets what it asked before; a place
\* the platform does not declare is an error without a question.
Ask(t) ==
    /\ page' = Blank(IF t \in Known THEN "waiting" ELSE "failed")
    /\ t \in Known <=> pending' # {}
    /\ \A read \in pending' : read.kind = "load" /\ read.since = revision

Init ==
    /\ place \in Targets
    /\ selected \in Maybe(Rows)
    /\ page = Blank(IF place \in Known THEN "waiting" ELSE "failed")
    /\ revision = 0
    /\ place \in Known <=> pending # {}
    /\ \A read \in pending : read.kind = "load" /\ read.since = 0

Visit(t) ==
    /\ t # place
    /\ place' = t
    /\ selected' = None
    /\ Ask(t)
    /\ UNCHANGED revision

AskAgain ==
    /\ place # None
    /\ Ask(place)
    /\ UNCHANGED <<place, selected, revision>>

Quit ==
    /\ place # None
    /\ place' = None
    /\ selected' = None
    /\ page' = Blank("away")
    /\ pending' = {}
    /\ UNCHANGED revision

\* A row that is listed; the page may ask anew.
Select(row) ==
    /\ page.state = "listed"
    /\ row \in RowsAt(page.at)
    /\ selected' = row
    /\ Ask(place) \/ UNCHANGED <<page, pending>>
    /\ UNCHANGED <<place, revision>>

\* The rows of an answer replace the note, or the rows of an earlier answer.
Answer(read) ==
    /\ read \in pending
    /\ pending' = pending \ {read}
    /\ page.state = (IF read.kind = "load" THEN "waiting" ELSE "listed")
    /\ \E n \in read.since .. revision : page' = Listed(n)
    /\ UNCHANGED <<place, selected, revision>>

\* An error takes the place of whatever there was to see.
Break ==
    /\ page.state # "away"
    /\ page' = Blank("failed")
    /\ pending' \subseteq pending
    /\ UNCHANGED <<place, selected, revision>>

\* The question times out, and the page goes on as if it were still on its way.
Lapse(read) ==
    /\ MayLapse
    /\ read \in pending
    /\ pending' = pending \ {read}
    /\ UNCHANGED <<place, selected, page, revision>>

\* An activation from this page changes the catalogue, and the page asks again.
Activate ==
    /\ page.state \in {"listed", "failed"}
    /\ revision' = revision + 1
    /\ \E read \in pending' \ pending :
          /\ read.kind = "refresh" /\ read.since = revision'
          /\ pending' = pending \cup {read}
    /\ UNCHANGED <<place, selected, page>>

\* Somebody else's change.
Publish ==
    /\ revision' = revision + 1
    /\ UNCHANGED <<place, selected, page, pending>>

Next ==
    \/ \E t \in Targets : Visit(t)
    \/ AskAgain \/ Quit
    \/ \E row \in Rows : Select(row)
    \/ \E read \in pending : Answer(read) \/ Lapse(read)
    \/ Break \/ Activate \/ Publish

Spec == Init /\ [][Next]_vars

=============================================================================
