----------------------------- MODULE BlazorShell -----------------------------
(***************************************************************************)
(* The application shell of the Blazor lane (apps/blazor/Shell.razor).  It *)
(* shows a default place until the pack's navigation arrives, reads the    *)
(* address only then, and writes it in the handlers that change the place. *)
(***************************************************************************)
EXTENDS ShellNavigation

VARIABLES
    chrome,     \* activeItemId, selectedRowId and openPanelIds
    inspected,  \* the row in the inspector (selectedDefinition)
    nav,        \* packNavigation and navigationError
    address     \* the browser's address

vars == <<chrome, inspected, nav, address>>

TypeOK ==
    /\ chrome \in Chrome
    /\ inspected \in Maybe(Rows)
    /\ nav \in Navigation
    /\ address \in Address

Unopened == [item |-> Assets, selected |-> None, panels |-> {}]

OpenAt(a) ==
    /\ chrome = Unopened
    /\ inspected = None
    /\ nav = "reading"
    /\ address = a

Init == \E a \in Address : OpenAt(a)

Reload ==
    /\ chrome' = Unopened
    /\ inspected' = None
    /\ nav' = "reading"
    /\ UNCHANGED address

ReplaceAddress == address' = Written(chrome')

\* What an address opens under the declaration n (LoadNavigationAsync).
Restore(a, n) ==
    LET item == IF a.item \in Shown(n).items THEN a.item ELSE Assets IN
    [item     |-> item,
     selected |-> IF item \in WorkshopItemIds(n) THEN a.selected ELSE None,
     panels   |-> IF a.panels = None THEN Shown(n).open ELSE a.panels \cap Shown(n).panels]

Arrive(n) ==
    /\ nav = "reading"
    /\ nav' = n
    /\ chrome' = Restore(address, n)
    /\ inspected' = None
    /\ IF address = [item |-> None, selected |-> None, panels |-> None]
         THEN UNCHANGED address
         ELSE ReplaceAddress

Fail ==
    /\ nav = "reading"
    /\ nav' = "failed"
    /\ UNCHANGED <<chrome, inspected, address>>

Retry ==
    /\ nav = "failed"
    /\ nav' = "reading"
    /\ UNCHANGED <<chrome, inspected, address>>

\* A definition whose name ends in Mutant is a plausible slip in the definition
\* after it; no action uses one.
NavigateMutant(item) ==
    /\ item \in Shown(nav).items
    /\ chrome' = [chrome EXCEPT !.item = item, !.selected = None]
    /\ inspected' = None
    /\ UNCHANGED <<nav, address>>

\* NavigateAsync
Navigate(item) ==
    /\ item \in Shown(nav).items
    /\ chrome' = [chrome EXCEPT !.item = item, !.selected = None]
    /\ inspected' = None
    /\ ReplaceAddress
    /\ UNCHANGED nav

\* SetOpenPanelIdsAsync
TogglePanel(panel) ==
    /\ panel \in Shown(nav).panels
    /\ chrome' = [chrome EXCEPT !.panels =
                     IF panel \in @ THEN @ \ {panel} ELSE @ \cup {panel}]
    /\ ReplaceAddress
    /\ UNCHANGED <<inspected, nav>>

\* OpenInspectorAsync on chrome c: it returns before it writes the address
\* when no inspector is declared.
ShowInspector(c) ==
    IF Inspector \in Shown(nav).panels
      THEN /\ chrome' = [c EXCEPT !.panels = @ \cup {Inspector}]
           /\ ReplaceAddress
      ELSE /\ chrome' = c
           /\ UNCHANGED address

OpenInspector ==
    /\ ShowInspector(chrome)
    /\ UNCHANGED <<inspected, nav>>

InspectMutant(row) ==
    /\ chrome.item \in WorkshopItemIds(nav)
    /\ ShowInspector(chrome)
    /\ inspected' = row
    /\ UNCHANGED nav

\* SelectDefinitionAsync, on a row of the Workshop list on the page.
Inspect(row) ==
    /\ chrome.item \in WorkshopItemIds(nav)
    /\ ShowInspector([chrome EXCEPT !.selected = row])
    /\ inspected' = row
    /\ UNCHANGED nav

\* The list page restored the selection (SelectionRestored).
Restored ==
    /\ chrome.selected # None
    /\ inspected' = chrome.selected
    /\ UNCHANGED <<chrome, nav, address>>

Next ==
    \/ \E n \in Arrived : Arrive(n)
    \/ Fail \/ Retry \/ Reload
    \/ \E item \in Items : Navigate(item)
    \/ \E panel \in Panels : TogglePanel(panel)
    \/ OpenInspector
    \/ \E row \in Rows : Inspect(row)
    \/ Restored

Spec == Init /\ [][Next]_vars

-----------------------------------------------------------------------------

Place(c) == <<c.item, c.selected>>

\* Reopening the address the browser shows, with the same declaration, leads
\* back to the same item and the same row.
AddressKeepsPlace ==
    nav \in Arrived => Place(Restore(address, nav)) = Place(chrome)

\* The inspector shows the selected row or nothing, and a row is selected only
\* on a Workshop list.
InspectorFollows ==
    /\ inspected # None => inspected = chrome.selected
    /\ chrome.selected # None => chrome.item \in WorkshopItemIds(nav)

=============================================================================
