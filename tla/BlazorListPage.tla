---------------------------- MODULE BlazorListPage ----------------------------
(***************************************************************************)
(* A Workshop list page of the Blazor lane                                 *)
(* (apps/blazor/Workshop/SeededListPage.razor) and the state the shell     *)
(* keeps for it.  Every time the shell hands the page its parameters the   *)
(* page starts over: it counts a new request, makes a new workflow and     *)
(* reads the view and the rows again.  Answers to earlier requests are     *)
(* told by their number; nothing is cancelled before the page is disposed. *)
(* A read that its client times out ends as cancelled, which neither catch *)
(* takes and which the renderer passes over: the page stays as it is.      *)
(*                                                                         *)
(* The workflow that a start replaces may still run a command; what that   *)
(* does to the catalogue is like anybody else's change (Publish).          *)
(*                                                                         *)
(* A synchronous stretch of the renderer is one action, the callbacks into *)
(* the shell and the parameters the shell hands back down included.  When  *)
(* it re-renders with the same parameters, whether they are handed down    *)
(* again is the framework's choice.  A disposed page and its successor     *)
(* share the counter here, which keeps their requests apart.               *)
(***************************************************************************)
EXTENDS Catalogue

VARIABLES
    target,     \* what the shell shows (ItemId and ViewId), or None
    selected,   \* SelectedRowId, held by the shell
    inspected,  \* the row in the shell's inspector (selectedDefinition)
    list,       \* plan, list, rows and supported
    failed,     \* whether an error is shown (error)
    request,    \* requestVersion
    reads,      \* the reads awaiting an answer
    restored,   \* the selection already restored (restoredSelection)
    busy,       \* the workflow runs a command (Busy)
    worked,     \* a command of this workflow has completed (history)
    echoes,     \* loads the page caused itself since the last outside event (history)
    lapsed,     \* the load of the present request has timed out (history)
    revision    \* the catalogue's revision (external)

vars == <<target, selected, inspected, list, failed, request, reads, restored,
          busy, worked, echoes, lapsed, revision>>

List == [request : Nat, revision : Nat, available : BOOLEAN, supported : BOOLEAN]

ASSUME ListOK == None \notin List

TypeOK ==
    /\ target \in Maybe(Targets)
    /\ selected \in Maybe(Rows)
    /\ inspected \in Maybe(Rows)
    /\ list \in Maybe(List)
    /\ failed \in BOOLEAN
    /\ request \in Nat
    /\ reads \subseteq Read
    /\ restored \in Maybe(Targets \X Rows)
    /\ busy \in BOOLEAN
    /\ worked \in BOOLEAN
    /\ echoes \in Nat
    /\ lapsed \in BOOLEAN
    /\ revision \in Nat

ReadsOf(t, n) ==
    IF t \in Known THEN {[kind |-> "load", load |-> n, since |-> revision]} ELSE {}

\* The address may name a target and a row of it.
Init ==
    /\ target \in Targets
    /\ selected \in Maybe(Rows)
    /\ inspected = None
    /\ list = None
    /\ failed = (target \notin Known)
    /\ request = 1
    /\ revision = 0
    /\ reads = ReadsOf(target, 1)
    /\ restored = None
    /\ busy = FALSE
    /\ worked = FALSE
    /\ echoes = 0
    /\ lapsed = FALSE

-----------------------------------------------------------------------------
(***************************************************************************)
(* Parts shared by the actions.  A definition whose name ends in Mutant is *)
(* a plausible slip in the definition after it; no action uses one.        *)
(***************************************************************************)

\* The list offers its rows and its actions.
Operable(l) == l # None /\ l.available /\ l.supported /\ ~failed

StartMutant(t, pending) ==
    /\ request' = request + 1
    /\ list' = None
    /\ failed' = FALSE
    /\ reads' = pending \cup ReadsOf(t, request')
    /\ busy' = FALSE
    /\ worked' = FALSE
    /\ lapsed' = FALSE

\* OnParametersSetAsync up to its first await, with other reads pending.
Start(t, pending) ==
    /\ request' = request + 1
    /\ list' = None
    /\ failed' = (t \notin Known)
    /\ reads' = pending \cup ReadsOf(t, request')
    /\ busy' = FALSE
    /\ worked' = FALSE
    /\ lapsed' = FALSE

\* An event from outside the page hands it its parameters.
SetParameters(t) ==
    /\ request < MaxLoads
    /\ Start(t, reads)
    /\ echoes' = 0
    /\ UNCHANGED revision

-----------------------------------------------------------------------------
(***************************************************************************)
(* The shell.                                                              *)
(***************************************************************************)

ShowMutant(t) ==
    /\ t # target
    /\ target' = t
    /\ selected' = None
    /\ SetParameters(t)
    /\ UNCHANGED <<inspected, restored>>

\* Navigation to another list; the selection does not go along.  A page that
\* is already mounted stays, with the selection it last restored.
Show(t) ==
    /\ t # target
    /\ target' = t
    /\ selected' = None
    /\ inspected' = None
    /\ SetParameters(t)
    /\ UNCHANGED restored

\* The shell renders for a reason of its own, a panel or the role vocabulary.
Rerender ==
    /\ target # None
    /\ SetParameters(target)
    /\ UNCHANGED <<target, selected, inspected, restored>>

\* Navigation to an item that is not a Workshop list disposes the page.
Leave ==
    /\ target # None
    /\ target' = None
    /\ selected' = None
    /\ inspected' = None
    /\ restored' = None
    /\ list' = None
    /\ failed' = FALSE
    /\ reads' = {}
    /\ busy' = FALSE
    /\ worked' = FALSE
    /\ echoes' = 0
    /\ lapsed' = FALSE
    /\ UNCHANGED <<request, revision>>

\* SelectRowAsync: the shell selects and inspects the row, and its render
\* hands the page the new parameter.
Select(row) ==
    /\ Operable(list)
    /\ ~busy
    /\ row \in RowsAt(list.revision)
    /\ selected' = row
    /\ inspected' = row
    /\ SetParameters(target)
    /\ UNCHANGED <<target, restored>>

-----------------------------------------------------------------------------
(***************************************************************************)
(* Reads.                                                                  *)
(***************************************************************************)

CurrentMutant(read) == target # None

Current(read) == read.load = request

\* The selection is in the rows and was not restored before.
Restorable(l) ==
    /\ selected # None
    /\ Operable(l)
    /\ selected \in RowsAt(l.revision)
    /\ restored # <<target, selected>>

Loaded(n, read, available, supported) ==
    [request |-> read.load, revision |-> n, available |-> available, supported |-> supported]

\* The list is bound, or the read failed; nothing starts over.
Stay(read) ==
    /\ reads' = reads \ {read}
    /\ UNCHANGED <<request, busy, worked, echoes, lapsed>>

FinishLoadMutant(read) ==
    /\ read.kind = "load"
    /\ Current(read)
    /\ \E n \in read.since .. revision, available, supported \in BOOLEAN :
         LET l == Loaded(n, read, available, supported) IN
         IF selected # None /\ Operable(l) /\ selected \in RowsAt(n)
           THEN /\ inspected' = selected
                /\ Start(target, reads \ {read})
                /\ echoes' = echoes + 1
                /\ UNCHANGED restored
           ELSE /\ list' = l
                /\ Stay(read)
                /\ UNCHANGED <<inspected, restored, failed>>

\* OnParametersSetAsync after its reads, RestoreSelectionAsync included: the
\* callback makes the shell render, which may start the page over.
FinishLoad(read) ==
    /\ read.kind = "load"
    /\ Current(read)
    /\ \/ \E n \in read.since .. revision, available, supported \in BOOLEAN :
            LET l == Loaded(n, read, available, supported) IN
            IF Restorable(l)
              THEN /\ restored' = <<target, selected>>
                   /\ inspected' = selected
                   /\ \/ /\ Start(target, reads \ {read})
                         /\ echoes' = echoes + 1
                      \/ /\ list' = l
                         /\ Stay(read)
                         /\ UNCHANGED failed
              ELSE /\ list' = l
                   /\ restored' = IF selected = None THEN None ELSE restored
                   /\ Stay(read)
                   /\ UNCHANGED <<inspected, failed>>
       \/ /\ failed' = TRUE
          /\ Stay(read)
          /\ UNCHANGED <<list, inspected, restored>>

\* The refresh after an activation restores no selection, and a failed one
\* leaves its error beside the list; rows without a plan show nothing.
FinishRefresh(read) ==
    /\ read.kind = "refresh"
    /\ Current(read)
    /\ \/ \E n \in read.since .. revision, available \in BOOLEAN :
            /\ list' = IF list = None THEN None
                       ELSE [list EXCEPT !.revision = n, !.available = available]
            /\ UNCHANGED failed
       \/ /\ failed' = TRUE
          /\ UNCHANGED list
    /\ Stay(read)
    /\ UNCHANGED <<inspected, restored>>

\* The answer to an earlier request is dropped.
DropRead(read) ==
    /\ ~Current(read)
    /\ Stay(read)
    /\ UNCHANGED <<inspected, list, failed, restored>>

\* A read that times out is cancelled by its client, not by the page: neither
\* catch takes it, no error is set and nothing is rendered.
TimeOut(read) ==
    /\ reads' = reads \ {read}
    /\ lapsed' = (lapsed \/ (read.kind = "load" /\ Current(read)))
    /\ UNCHANGED <<request, busy, worked, echoes, inspected, list, failed, restored>>

Settle(n) ==
    \E read \in reads :
        /\ read.load = n
        /\ FinishLoad(read) \/ FinishRefresh(read) \/ DropRead(read) \/ TimeOut(read)
        /\ UNCHANGED <<target, selected, revision>>

-----------------------------------------------------------------------------
(***************************************************************************)
(* The page's workflow, as far as the page takes part in it.  It is idle   *)
(* again before the page refreshes its rows.                               *)
(***************************************************************************)

Begin ==
    /\ Operable(list)
    /\ ~busy
    /\ busy' = TRUE
    /\ echoes' = 0
    /\ UNCHANGED <<target, selected, inspected, list, failed, request, reads,
                   restored, worked, lapsed, revision>>

\* An activation completed: the node changed the catalogue, and the page
\* reads the rows again.
Activated ==
    /\ busy
    /\ revision < MaxRevision
    /\ revision' = revision + 1
    /\ reads' = reads \cup {[kind |-> "refresh", load |-> request, since |-> revision']}
    /\ busy' = FALSE
    /\ worked' = TRUE
    /\ UNCHANGED <<target, selected, inspected, list, failed, request, restored, echoes, lapsed>>

\* Another command completed, or one was refused, failed or timed out.  After a
\* timeout Busy is released but nothing is rendered: the controls stay disabled
\* until the page is next rendered, which the model does not wait for.
Ended ==
    /\ busy
    /\ busy' = FALSE
    /\ worked' \in {worked, TRUE}
    /\ UNCHANGED <<target, selected, inspected, list, failed, request, reads,
                   restored, echoes, lapsed, revision>>

\* Somebody else's change to the catalogue.
Publish ==
    /\ revision < MaxRevision
    /\ revision' = revision + 1
    /\ UNCHANGED <<target, selected, inspected, list, failed, request, reads,
                   restored, busy, worked, echoes, lapsed>>

Next ==
    \/ \E t \in Targets : Show(t)
    \/ Rerender \/ Leave
    \/ \E row \in Rows : Select(row)
    \/ \E n \in 1 .. request : Settle(n)
    \/ Begin \/ Activated \/ Ended
    \/ Publish

Spec == Init /\ [][Next]_vars

\* The node or the client's timeout settles every read.
FairSpec == Spec /\ \A n \in 1 .. MaxLoads + 1 : WF_vars(Settle(n))

\* What the page renders: an error, the note that it is loading, or the list.
Seen ==
    IF target = None THEN [state |-> "away", at |-> 0]
    ELSE IF failed THEN [state |-> "failed", at |-> 0]
    ELSE IF list = None THEN [state |-> "waiting", at |-> 0]
    ELSE [state |-> "listed", at |-> list.revision]

-----------------------------------------------------------------------------
(***************************************************************************)
(* Properties.                                                             *)
(***************************************************************************)

\* The list on the page answers the page's latest request, however late the
\* answers to earlier ones arrive (the requestVersion tests).
ListIsCurrent ==
    list # None => list.request = request

\* While the page shows neither rows nor an error, a read that can end the
\* waiting is on its way, or that very read has timed out: then the page waits
\* for nothing until it is handed its parameters again.  No other course of
\* events (a restart, an undeclared item, an outdated answer) leaves it so.
WaitingIsAnswered ==
    target # None /\ list = None /\ ~failed =>
        lapsed \/ \E read \in reads : read.kind = "load" /\ read.load = request

\* Reporting a restored selection makes the shell render, and that may start
\* the page over; it happens once, not for ever (restoredSelection).
EchoEnds == echoes =< 1

\* The inspector never shows a row other than the selected one.
InspectorFollows == inspected # None => inspected = selected

\* Every load ends in rows or in an error, unless the user leaves first or the
\* client times the load out, after which the page shows that it is loading for
\* as long as nothing hands it its parameters.
LoadingEnds ==
    \A t \in Targets :
        (target = t /\ list = None /\ ~failed)
            ~> (target # t \/ list # None \/ failed \/ lapsed)

\* What a reader of both lanes may expect, and does not get: selecting a row
\* leaves the workflow of the list, and what was done with it, alone.
SelectionKeepsWork ==
    [][ selected' # selected /\ target' = target => worked' = worked ]_vars

\* Nor this: the rows of one load never go back to an earlier catalogue.
RowsNeverGoBack ==
    [][ list # None /\ list' # None /\ list'.request = list.request
          => list'.revision >= list.revision ]_vars

\* The page keeps the promise both lanes make to whoever looks at it: the answers
\* it takes are those to what it asked last, and no rows appear, and no
\* selection is made, without them.  An answer that times out goes unnoticed.
Reader == INSTANCE CatalogueReader WITH
    MayLapse <- TRUE,
    place <- target,
    page <- Seen,
    pending <- {read \in reads : Current(read)}

ReaderProtocol == Reader!Spec

=============================================================================
