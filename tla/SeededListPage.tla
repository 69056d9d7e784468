---------------------------- MODULE SeededListPage ----------------------------
(***************************************************************************)
(* A Workshop list page of the React lane                                  *)
(* (apps/react/src/workshop/SeededListPage.tsx) and the state the shell    *)
(* keeps for it.  The page loads a compiled view and the rows of its kind, *)
(* hands the workflow its rows, refreshes them when an activation          *)
(* completes, and restores the selection an address names.                 *)
(*                                                                         *)
(* An event handler or a settled promise, the render that follows it and   *)
(* the effects of that render are one action: React runs them before the   *)
(* next event.  The views of one target are told apart only by whether     *)
(* they can be shown; entries by their identity.                           *)
(***************************************************************************)
EXTENDS Catalogue

VARIABLES
    target,     \* what the shell shows (itemId and viewId), or None
    selected,   \* selectedRowId, held by the shell
    inspected,  \* the row in the shell's inspector (selectedDefinition)
    list,       \* the loaded view and rows (state)
    failed,     \* the target whose error is shown (error)
    request,    \* the load whose controller is active and not aborted
    loads,      \* the controllers made so far
    reads,      \* the reads awaiting an answer
    resolved,   \* the selection already restored (resolvedSelection)
    command,    \* what the page's workflow is doing
    promised,   \* the revision the workflow's last activation made (history)
    revision    \* the catalogue's revision (external)

vars == <<target, selected, inspected, list, failed, request, loads, reads,
          resolved, command, promised, revision>>
shell == <<target, selected, inspected>>

List == [target : Targets, request : Nat, revision : Nat,
         available : BOOLEAN, supported : BOOLEAN]

ASSUME ListOK == None \notin List

TypeOK ==
    /\ target \in Maybe(Targets)
    /\ selected \in Maybe(Rows)
    /\ inspected \in Maybe(Rows)
    /\ list \in Maybe(List)
    /\ failed \in Maybe(Targets)
    /\ request \in Maybe(Nat)
    /\ loads \in Nat
    /\ reads \subseteq Read
    /\ resolved \in Maybe(Targets \X Rows)
    /\ command \in {"none", "running", "refreshing"}
    /\ promised \in Nat
    /\ revision \in Nat

\* What a page sends when it starts to load a target: nothing for an item the
\* platform does not declare.
ReadsOf(t, n) ==
    IF t \in Known THEN {[kind |-> "load", load |-> n, since |-> revision]} ELSE {}

\* The address may name a target and a row of it.
Init ==
    /\ target \in Targets
    /\ selected \in Maybe(Rows)
    /\ inspected = None
    /\ list = None
    /\ failed = IF target \in Known THEN None ELSE target
    /\ request = 1
    /\ loads = 1
    /\ revision = 0
    /\ reads = ReadsOf(target, 1)
    /\ resolved = None
    /\ command = "none"
    /\ promised = 0

-----------------------------------------------------------------------------
(***************************************************************************)
(* Parts shared by the actions.  A definition whose name ends in Mutant is *)
(* a plausible slip in the definition after it; no action uses one.        *)
(***************************************************************************)

\* The list offers its rows and its actions.
Operable(l) == l # None /\ l.available /\ l.supported

RestoreEagerMutant ==
    IF selected' = None
      THEN resolved' = None /\ UNCHANGED inspected
    ELSE IF Operable(list') /\ resolved # <<target', selected'>>
      THEN /\ resolved' = <<target', selected'>>
           /\ inspected' = IF selected' \in RowsAt(list'.revision) THEN selected' ELSE inspected
    ELSE UNCHANGED <<resolved, inspected>>

\* The effect that reports the selected row to the shell, once per selection.
Restore ==
    IF selected' = None
      THEN resolved' = None /\ UNCHANGED inspected
    ELSE IF /\ Operable(list')
            /\ list'.target = target'
            /\ selected' \in RowsAt(list'.revision)
            /\ resolved # <<target', selected'>>
      THEN resolved' = <<target', selected'>> /\ inspected' = selected'
    ELSE UNCHANGED <<resolved, inspected>>

LoadMutant(t) ==
    /\ loads < MaxLoads
    /\ loads' = loads + 1
    /\ request' = loads'
    /\ list' = None
    /\ failed' = None
    /\ reads' = reads \cup ReadsOf(t, loads')
    /\ command' = "none"
    /\ promised' = 0
    /\ UNCHANGED revision

\* The effect that aborts the previous load and starts the next.
Load(t) ==
    /\ loads < MaxLoads
    /\ loads' = loads + 1
    /\ request' = loads'
    /\ list' = None
    /\ failed' = IF t \in Known THEN None ELSE t
    /\ reads' = reads \cup ReadsOf(t, loads')
    /\ command' = "none"
    /\ promised' = 0
    /\ UNCHANGED revision

-----------------------------------------------------------------------------
(***************************************************************************)
(* The shell.                                                              *)
(***************************************************************************)

\* Navigation to another list; the selection does not go along.
Show(t) ==
    /\ t # target
    /\ target' = t
    /\ selected' = None
    /\ inspected' = None
    /\ resolved' = None
    /\ Load(t)

\* The shell mounts the page anew when the pack's navigation arrives.
Remount ==
    /\ target # None
    /\ resolved' = None
    /\ Load(target)
    /\ UNCHANGED shell

\* Navigation to an item that is not a Workshop list unmounts the page.
Leave ==
    /\ target # None
    /\ target' = None
    /\ selected' = None
    /\ inspected' = None
    /\ resolved' = None
    /\ list' = None
    /\ failed' = None
    /\ request' = None
    /\ command' = "none"
    /\ promised' = 0
    /\ UNCHANGED <<loads, reads, revision>>

\* onRowActivate: the shell selects and inspects the row, and the page's
\* restoration effect then finds it as well.
Select(row) ==
    /\ Operable(list)
    /\ row \in RowsAt(list.revision)
    /\ selected' = row
    /\ inspected' = row
    /\ resolved' = <<target, row>>
    /\ UNCHANGED <<target, list, failed, request, loads, reads, command, promised, revision>>

-----------------------------------------------------------------------------
(***************************************************************************)
(* Reads.                                                                  *)
(***************************************************************************)

CurrentMutant(read) == request # None

\* activeRequest is the read's controller and it is not aborted.
Current(read) == read.load = request

\* Both reads of a load arrived; the view may have no compiled plan.
FinishLoad(read) ==
    /\ read.kind = "load"
    /\ Current(read)
    /\ \/ \E n \in read.since .. revision, available, supported \in BOOLEAN :
             /\ list' = [target |-> target, request |-> read.load, revision |-> n,
                         available |-> available, supported |-> supported]
             /\ UNCHANGED failed
             /\ Restore
       \/ /\ failed' = target
          /\ UNCHANGED <<list, inspected, resolved>>
    /\ UNCHANGED <<command, promised>>

\* The workflow's activation ends with the answer to its refresh; a list whose
\* kind became unavailable takes the workflow off the page, and rows without a
\* list on the page change nothing (the test of current in setState).
FinishRefresh(read) ==
    /\ read.kind = "refresh"
    /\ Current(read)
    /\ command' = "none"
    /\ \/ \E n \in read.since .. revision, available \in BOOLEAN :
             /\ list' = IF list = None THEN None
                        ELSE [list EXCEPT !.revision = n, !.available = available]
             /\ promised' = IF available THEN promised ELSE 0
             /\ UNCHANGED failed
             /\ Restore
       \/ /\ list' = None
          /\ failed' = target
          /\ promised' = 0
          /\ UNCHANGED <<inspected, resolved>>

\* An answer to an aborted load or refresh is dropped.
DropRead(read) ==
    /\ ~Current(read)
    /\ UNCHANGED <<inspected, list, failed, resolved, command, promised>>

Settle(n) ==
    \E read \in reads :
        /\ read.load = n
        /\ reads' = reads \ {read}
        /\ UNCHANGED <<target, selected, request, loads, revision>>
        /\ FinishLoad(read) \/ FinishRefresh(read) \/ DropRead(read)

-----------------------------------------------------------------------------
(***************************************************************************)
(* The page's workflow, as far as the page takes part in it.               *)
(***************************************************************************)

Begin ==
    /\ Operable(list)
    /\ command = "none"
    /\ command' = "running"
    /\ UNCHANGED <<target, selected, inspected, list, failed, request, loads,
                   reads, resolved, promised, revision>>

ActivatedMutant ==
    /\ command = "running"
    /\ revision < MaxRevision
    /\ revision' = revision + 1
    /\ promised' = revision'
    /\ reads' = reads \cup {[kind |-> "refresh", load |-> list.request, since |-> revision']}
    /\ command' = "none"
    /\ UNCHANGED <<target, selected, inspected, list, failed, request, loads, resolved>>

\* An activation completed: the node changed the catalogue, and refreshRows
\* reads the rows again unless the list's load is no longer the active one.
Activated ==
    /\ command = "running"
    /\ revision < MaxRevision
    /\ revision' = revision + 1
    /\ promised' = revision'
    /\ IF request = list.request
         THEN /\ reads' = reads \cup {[kind |-> "refresh", load |-> request, since |-> revision']}
              /\ command' = "refreshing"
         ELSE /\ command' = "none"
              /\ UNCHANGED reads
    /\ UNCHANGED <<target, selected, inspected, list, failed, request, loads, resolved>>

\* Any other command, or an activation that failed or was refused.
Ended ==
    /\ command = "running"
    /\ command' = "none"
    /\ UNCHANGED <<target, selected, inspected, list, failed, request, loads,
                   reads, resolved, promised, revision>>

\* Somebody else's change to the catalogue.
Publish ==
    /\ revision < MaxRevision
    /\ revision' = revision + 1
    /\ UNCHANGED <<target, selected, inspected, list, failed, request, loads,
                   reads, resolved, command, promised>>

Next ==
    \/ \E t \in Targets : Show(t)
    \/ Remount \/ Leave
    \/ \E row \in Rows : Select(row)
    \/ \E n \in 1 .. loads : Settle(n)
    \/ Begin \/ Activated \/ Ended
    \/ Publish

Spec == Init /\ [][Next]_vars

\* The browser settles every fetch; a later one does not starve an earlier.
FairSpec == Spec /\ \A n \in 1 .. MaxLoads : WF_vars(Settle(n))

\* What the page renders for its target: an error, the note that it is loading,
\* or the list.
Seen ==
    IF target = None THEN [state |-> "away", at |-> 0]
    ELSE IF failed = target THEN [state |-> "failed", at |-> 0]
    ELSE IF list = None \/ list.target # target THEN [state |-> "waiting", at |-> 0]
    ELSE [state |-> "listed", at |-> list.revision]

-----------------------------------------------------------------------------
(***************************************************************************)
(* Properties.                                                             *)
(***************************************************************************)

\* The list on the page was loaded for what the shell shows, by the load that
\* is still active: leaving a list and coming back while its first load is
\* under way never lets that load's late answer in, which would leave a page
\* that silently refuses to refresh (the aborted tests of the load effect and
\* of refreshRows).
ListIsCurrent ==
    list # None => list.target = target /\ list.request = request /\ failed = None

\* While the page shows neither rows nor an error, a read that can end the
\* waiting is on its way (the load effect's early return and its catch).
WaitingIsAnswered ==
    target # None /\ list = None /\ failed = None =>
        \E read \in reads : read.kind = "load" /\ read.load = request

\* The rows of one load never go back to an earlier catalogue (refreshRows is
\* awaited by the activation, so refreshes do not overlap).
RowsNeverGoBack ==
    [][ list # None /\ list' # None /\ list'.request = list.request
          => list'.revision >= list.revision ]_vars

\* Once the workflow is idle again, the rows on the page include what its last
\* activation brought into the catalogue (onActivated).
ActivationIsShown ==
    Operable(list) /\ command = "none" => list.revision >= promised

\* The inspector shows the selected row or nothing, and it does show it once
\* the row is listed, be it by the first load, by the load of a remounted page
\* or by a refresh (the restoration effect).
InspectorFollows ==
    /\ inspected # None => inspected = selected
    /\ selected # None /\ Operable(list) /\ selected \in RowsAt(list.revision)
         => inspected = selected

\* Every load ends in rows or an error, unless the user leaves first.
LoadingEnds ==
    \A t \in Targets :
        (target = t /\ list = None /\ failed = None)
            ~> (target # t \/ list # None \/ failed # None)

\* The page keeps the promise both lanes make to whoever looks at it: the answers
\* it takes are those to what it asked last, and no rows appear, and no
\* selection is made, without them.
Reader == INSTANCE CatalogueReader WITH
    MayLapse <- FALSE,
    place <- target,
    page <- Seen,
    pending <- {read \in reads : Current(read)}

ReaderProtocol == Reader!Spec

=============================================================================
