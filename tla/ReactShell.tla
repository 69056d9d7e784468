------------------------------ MODULE ReactShell ------------------------------
(***************************************************************************)
(* The application shell of the React lane (apps/react/src/App.tsx): which *)
(* item, row and panels it shows, the inspector, and the address it keeps. *)
(*                                                                         *)
(* It starts from the address before the pack's navigation is known and    *)
(* corrects what it shows when the declaration arrives.  An event, the     *)
(* render that follows it and the effects that clear the selection and     *)
(* write the address are one action.                                       *)
(***************************************************************************)
EXTENDS ShellNavigation

VARIABLES
    chrome,     \* activeItemId, selectedRowId and openPanelIds
    inspected,  \* the row in the inspector (selectedDefinition)
    nav,        \* packNavigation and navigationError
    first,      \* which parameters the first address had (initialAddress)
    address     \* the browser's address

vars == <<chrome, inspected, nav, first, address>>

TypeOK ==
    /\ chrome \in Chrome
    /\ inspected \in Maybe(Rows)
    /\ nav \in Navigation
    /\ first \in [item : BOOLEAN, panels : BOOLEAN]
    /\ address \in Address

\* A definition whose name ends in Mutant is a plausible slip in the definition
\* after it; no action uses one.
ClearedMutant(c, n) == c

\* The effect that drops the selection outside the Workshop.
Cleared(c, n) ==
    IF c.item \in WorkshopItemIds(n) THEN c ELSE [c EXCEPT !.selected = None]

\* readChromeAddress and the first render.
Opened(a) ==
    Cleared([item     |-> Or(a.item, Assets),
             selected |-> a.selected,
             panels   |-> Or(a.panels, {})], "reading")

FirstOf(a) == [item |-> a.item # None, panels |-> a.panels # None]

\* The navigation effect, when the declaration n arrived.
Corrected(c, f, n) ==
    Cleared([item     |-> IF f.item /\ c.item \notin Shown(n).items THEN Assets ELSE c.item,
             selected |-> c.selected,
             panels   |-> IF f.panels THEN c.panels \cap Shown(n).panels ELSE Shown(n).open], n)

\* A render of chrome c with navigation n, and its effects.
Render(c, n) ==
    /\ chrome' = Cleared(c, n)
    /\ nav' = n
    /\ address' = Written(chrome')

\* The page opens at an address.
OpenAt(a) ==
    /\ chrome = Opened(a)
    /\ inspected = None
    /\ nav = "reading"
    /\ first = FirstOf(a)
    /\ address = Written(chrome)

Init == \E a \in Address : OpenAt(a)

Reload ==
    /\ chrome' = Opened(address)
    /\ inspected' = None
    /\ nav' = "reading"
    /\ first' = FirstOf(address)
    /\ address' = Written(chrome')

Arrive(n) ==
    /\ nav = "reading"
    /\ Render(Corrected(chrome, first, n), n)
    /\ inspected' = IF chrome'.selected = None THEN None ELSE inspected
    /\ UNCHANGED first

Fail ==
    /\ nav = "reading"
    /\ nav' = "failed"
    /\ UNCHANGED <<chrome, inspected, first, address>>

Retry ==
    /\ nav = "failed"
    /\ nav' = "reading"
    /\ UNCHANGED <<chrome, inspected, first, address>>

\* navigate
Navigate(item) ==
    /\ item \in Shown(nav).items
    /\ Render([chrome EXCEPT !.item = item, !.selected = None], nav)
    /\ inspected' = None
    /\ UNCHANGED first

\* A panel is opened or closed from the shell (setOpenPanelIds).
TogglePanel(panel) ==
    /\ panel \in Shown(nav).panels
    /\ Render([chrome EXCEPT !.panels =
                  IF panel \in @ THEN @ \ {panel} ELSE @ \cup {panel}], nav)
    /\ UNCHANGED <<inspected, first>>

WithInspector(c) ==
    IF Inspector \in Shown(nav).panels THEN [c EXCEPT !.panels = @ \cup {Inspector}] ELSE c

\* openInspector
OpenInspector ==
    /\ Render(WithInspector(chrome), nav)
    /\ UNCHANGED <<inspected, first>>

\* inspectDefinition, on a row of the Workshop list on the page.
Inspect(row) ==
    /\ chrome.item \in WorkshopItemIds(nav)
    /\ Render(WithInspector([chrome EXCEPT !.selected = row]), nav)
    /\ inspected' = row
    /\ UNCHANGED first

\* The list page restored the selection (onSelectionRestored).
Restored ==
    /\ chrome.selected # None
    /\ inspected' = chrome.selected
    /\ UNCHANGED <<chrome, nav, first, address>>

Next ==
    \/ \E n \in Arrived : Arrive(n)
    \/ Fail \/ Retry \/ Reload
    \/ \E item \in Items : Navigate(item)
    \/ \E panel \in Panels : TogglePanel(panel)
    \/ OpenInspector
    \/ \E row \in Rows : Inspect(row)
    \/ Restored

Spec == Init /\ [][Next]_vars

-----------------------------------------------------------------------------

\* A place is where the user is: the item and the row.
Place(c) == <<c.item, c.selected>>

\* Reopening the address the browser shows, with the same declaration, leads
\* back to the same item and the same row (the address effect and the restore
\* of docs/workshop-view-host.md).
AddressKeepsPlace ==
    nav \in Arrived =>
        Place(Corrected(Opened(address), FirstOf(address), nav)) = Place(chrome)

\* The inspector shows the selected row or nothing, and a row is selected only
\* on a Workshop list (the clearing effect).
InspectorFollows ==
    /\ inspected # None => inspected = chrome.selected
    /\ chrome.selected # None => chrome.item \in WorkshopItemIds(nav)

=============================================================================
