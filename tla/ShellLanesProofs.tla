--------------------------- MODULE ShellLanesProofs ---------------------------
(***************************************************************************)
(* The two shells agree for every set of items, rows and panels and every  *)
(* declaration within Mirrored: the inductive invariant LInv and what      *)
(* follows from it.  ShellLanes has counterexamples outside Mirrored.      *)
(*                                                                         *)
(* What a lane owes its own user needs less: the inspector follows the     *)
(* selection for every user and every declaration, and an address leads    *)
(* back within ReactReopens and BlazorReopens.                             *)
(***************************************************************************)
EXTENDS ShellLanes, TLAPS

\* What the lanes need to agree: the user waits for the navigation, the pack
\* declares an inspector and no Workshop item beyond the seeded ones, and
\* neither the default item nor the fallback navigation is in the Workshop.
Mirrored ==
    /\ Patient
    /\ Pack.workshop \subseteq Seeded
    /\ Inspector \in Pack.panels
    /\ Assets \notin Seeded
    /\ Fallback.items \cap Seeded = {}

Bare == [item |-> None, selected |-> None, panels |-> None]

\* A place the declaration n admits.
Settled(c, n) ==
    /\ c \in Chrome
    /\ c.item \in Shown(n).items \cup {Assets}
    /\ c.panels \subseteq Shown(n).panels
    /\ c.selected # None => c.item \in WorkshopItemIds(n)

\* Before the declaration arrives, correcting what React shows and restoring
\* what Blazor's address says lead to one place; afterwards both show it, and
\* both addresses lead to it.
LInv ==
    /\ TypeOK
    /\ InspectorsFollow
    /\ reactAddress = Written(reactChrome)
    /\ nav \notin Arrived =>
         /\ R!Corrected(reactChrome, reactFirst, served) = B!Restore(blazorAddress, served)
         /\ blazorChrome = B!Unopened
         /\ blazorInspected = None
    /\ nav \in Arrived =>
         /\ nav = served
         /\ reactChrome = blazorChrome
         /\ Settled(blazorChrome, served)
         /\ \/ blazorAddress = Written(blazorChrome)
            \/ blazorAddress = Bare /\ blazorChrome = B!Restore(Bare, served)

-----------------------------------------------------------------------------

LEMMA ShownType ==
    \A n \in Arrived :
        /\ Shown(n).items \subseteq Items
        /\ Shown(n).panels \subseteq Panels
        /\ Shown(n).open \subseteq Shown(n).panels
        /\ WorkshopItemIds(n) \subseteq Items
BY NavigationOK DEF Shown, WorkshopItemIds, Declaration, Arrived

\* The lanes' copies of the shared operators are the shared operators.
LEMMA SharedOperators ==
    /\ \A n : R!Shown(n) = Shown(n) /\ B!Shown(n) = Shown(n)
    /\ \A n : /\ R!WorkshopItemIds(n) = WorkshopItemIds(n)
              /\ B!WorkshopItemIds(n) = WorkshopItemIds(n)
    /\ \A c : R!Written(c) = Written(c) /\ B!Written(c) = Written(c)
    /\ \A x, y : R!Or(x, y) = Or(x, y)
    /\ R!Arrived = Arrived /\ B!Arrived = Arrived
BY DEF R!Shown, B!Shown, Shown, R!WorkshopItemIds, B!WorkshopItemIds, WorkshopItemIds,
       R!Written, B!Written, Written, R!Or, Or, R!Arrived, B!Arrived, Arrived

\* What an address opens is a place its declaration admits.
LEMMA RestoreSettles ==
    ASSUME NEW a \in Address, NEW n \in Arrived
    PROVE  Settled(B!Restore(a, n), n)
<1> DEFINE item == IF a.item \in Shown(n).items THEN a.item ELSE Assets
           selected == IF item \in WorkshopItemIds(n) THEN a.selected ELSE None
           panels == IF a.panels = None THEN Shown(n).open ELSE a.panels \cap Shown(n).panels
<1>1. B!Restore(a, n) = [item |-> item, selected |-> selected, panels |-> panels]
  BY SharedOperators DEF B!Restore
<1>2. item \in Items /\ item \in Shown(n).items \cup {Assets}
  BY NavigationOK, ShownType
<1>3. selected \in Maybe(Rows) /\ (selected # None => item \in WorkshopItemIds(n))
  BY DEF Address, Maybe
<1>4. panels \subseteq Shown(n).panels /\ panels \subseteq Panels
  BY ShownType DEF Address, Maybe
<1> HIDE DEF item, selected, panels
<1> QED
  BY <1>1, <1>2, <1>3, <1>4 DEF Settled, Chrome

\* React's two steps, opening and correcting, do what Blazor does in one.
LEMMA OpenAndCorrect ==
    ASSUME Mirrored, NEW a \in Address, NEW n \in Arrived
    PROVE  R!Corrected(R!Opened(a), R!FirstOf(a), n) = B!Restore(a, n)
<1> DEFINE f == R!FirstOf(a)
           o == R!Opened(a)
           p == IF a.panels = None THEN Shown(n).open ELSE a.panels \cap Shown(n).panels
           i == IF a.item \in Shown(n).items THEN a.item ELSE Assets
<1>1. WorkshopItemIds(n) \subseteq Seeded
  BY DEF Mirrored, WorkshopItemIds
<1>2. /\ o.item = Or(a.item, Assets)
      /\ o.panels = Or(a.panels, {})
      /\ o.selected = IF Or(a.item, Assets) \in Seeded THEN a.selected ELSE None
      /\ o = [item |-> o.item, selected |-> o.selected, panels |-> o.panels]
  BY SharedOperators DEF R!Opened, R!Cleared, WorkshopItemIds
<1>3. f.item = (a.item # None) /\ f.panels = (a.panels # None)
  BY DEF R!FirstOf
<1>4. (IF f.panels THEN o.panels \cap Shown(n).panels ELSE Shown(n).open) = p
  BY <1>2, <1>3 DEF Or
<1>5. None \notin Shown(n).items
  BY NavigationOK, ShownType
<1>6. (IF f.item /\ o.item \notin Shown(n).items THEN Assets ELSE o.item) = i
  BY <1>2, <1>3, <1>5 DEF Or
<1>7. R!Corrected(o, f, n) = R!Cleared([item |-> i, selected |-> o.selected, panels |-> p], n)
  <2>1. R!Corrected(o, f, n) =
          R!Cleared([item     |-> IF f.item /\ o.item \notin Shown(n).items THEN Assets ELSE o.item,
                     selected |-> o.selected,
                     panels   |-> IF f.panels THEN o.panels \cap Shown(n).panels
                                              ELSE Shown(n).open], n)
    BY SharedOperators DEF R!Corrected
  <2> HIDE DEF o, f, i, p
  <2> QED
    BY <2>1, <1>4, <1>6
<1>8. R!Cleared([item |-> i, selected |-> o.selected, panels |-> p], n)
        = [item |-> i, selected |-> IF i \in WorkshopItemIds(n) THEN o.selected ELSE None, panels |-> p]
  BY SharedOperators DEF R!Cleared
<1>9. i \in WorkshopItemIds(n) => o.selected = a.selected
  BY <1>1, <1>2, <1>5 DEF Mirrored, Or
<1> QED
  BY <1>7, <1>8, <1>9, SharedOperators DEF B!Restore

\* The address written for a settled place leads back to it, but for panels
\* all closed; an address without parameters leads where its writing leads.
LEMMA WrittenRestores ==
    ASSUME NEW c, NEW n \in Arrived, Settled(c, n)
    PROVE  /\ Written(c) \in Address
           /\ B!Restore(Written(c), n).item = c.item
           /\ B!Restore(Written(c), n).selected = c.selected
           /\ B!Restore(Written(c), n).panels =
                IF c.panels = {} THEN Shown(n).open ELSE c.panels
<1>1. Written(c) = [item |-> c.item, selected |-> c.selected,
                    panels |-> IF c.panels = {} THEN None ELSE c.panels]
  BY DEF Settled, Chrome, Written
<1>2. Written(c) \in Address
  BY <1>1 DEF Settled, Chrome, Address, Maybe
<1>3. c.panels # {} => c.panels # None
  BY NavigationOK DEF Settled, Chrome
<1>4. /\ Written(c).item \in Shown(n).items \/ Written(c).item = Assets
      /\ c.selected # None => Written(c).item \in WorkshopItemIds(n)
  BY <1>1 DEF Settled
<1>5. /\ B!Restore(Written(c), n).item = c.item
      /\ B!Restore(Written(c), n).selected = c.selected
  BY <1>1, <1>4, SharedOperators DEF B!Restore, Settled
<1>6. B!Restore(Written(c), n).panels =
        IF c.panels = {} THEN Shown(n).open ELSE c.panels
  <2>1. B!Restore(Written(c), n).panels =
          IF Written(c).panels = None THEN Shown(n).open ELSE Written(c).panels \cap Shown(n).panels
    BY SharedOperators DEF B!Restore
  <2>2. c.panels \cap Shown(n).panels = c.panels
    BY DEF Settled
  <2> QED
    BY <2>1, <2>2, <1>1, <1>3
<1> QED
  BY <1>2, <1>5, <1>6

LEMMA BareRestores ==
    ASSUME NEW n \in Arrived
    PROVE  /\ Bare \in Address
           /\ B!Restore(Written(B!Restore(Bare, n)), n) = B!Restore(Bare, n)
<1> DEFINE c == B!Restore(Bare, n)
<1>1. Bare \in Address
  BY DEF Bare, Address, Maybe
<1>2. Settled(c, n)
  BY <1>1, RestoreSettles
<1>3. c = [item |-> Assets, selected |-> None, panels |-> Shown(n).open]
  BY NavigationOK, ShownType, SharedOperators DEF B!Restore, Bare
<1>4. /\ B!Restore(Written(c), n).item = c.item
      /\ B!Restore(Written(c), n).selected = c.selected
      /\ B!Restore(Written(c), n).panels = IF c.panels = {} THEN Shown(n).open ELSE c.panels
  BY <1>2, WrittenRestores
<1>5. B!Restore(Written(c), n) =
        [item |-> B!Restore(Written(c), n).item,
         selected |-> B!Restore(Written(c), n).selected,
         panels |-> B!Restore(Written(c), n).panels]
  BY DEF B!Restore
<1> QED
  BY <1>1, <1>3, <1>4, <1>5

\* A settled place keeps its selection through a render.
LEMMA ClearedSettled ==
    ASSUME NEW c, NEW n \in Arrived, Settled(c, n)
    PROVE  R!Cleared(c, n) = c
BY SharedOperators DEF Settled, Chrome, R!Cleared


LEMMA ClearedType ==
    ASSUME NEW c \in Chrome, NEW n
    PROVE  /\ R!Cleared(c, n) \in Chrome
           /\ R!Cleared(c, n).item = c.item
           /\ R!Cleared(c, n).selected # None =>
                /\ R!Cleared(c, n).selected = c.selected
                /\ c.item \in WorkshopItemIds(n)
BY SharedOperators DEF Chrome, Maybe, R!Cleared

LEMMA WrittenType ==
    ASSUME NEW c \in Chrome
    PROVE  Written(c) \in Address
<1>1. Written(c) = [item |-> c.item, selected |-> c.selected,
                    panels |-> IF c.panels = {} THEN None ELSE c.panels]
  BY DEF Chrome, Written
<1> QED
  BY <1>1 DEF Chrome, Address, Maybe

LEMMA OpenedType ==
    ASSUME NEW a \in Address
    PROVE  /\ R!Opened(a) \in Chrome
           /\ R!FirstOf(a) \in [item : BOOLEAN, panels : BOOLEAN]
           /\ R!Opened(a).selected # None => R!Opened(a).item \in Seeded
<1> DEFINE o == [item |-> Or(a.item, Assets), selected |-> a.selected,
                 panels |-> Or(a.panels, {})]
<1>1. o \in Chrome
  BY NavigationOK DEF Address, Chrome, Maybe, Or
<1>2. R!Opened(a) = R!Cleared(o, "reading")
  BY SharedOperators DEF R!Opened
<1>3. R!FirstOf(a) \in [item : BOOLEAN, panels : BOOLEAN]
  BY DEF R!FirstOf
<1> HIDE DEF o
<1> QED
  BY <1>1, <1>2, <1>3, ClearedType DEF WorkshopItemIds

\* The lanes' copies of the shared sets are the shared sets.
LEMMA SharedSets ==
    /\ R!Chrome = Chrome /\ B!Chrome = Chrome
    /\ R!Address = Address /\ B!Address = Address
    /\ R!Navigation = Navigation /\ B!Navigation = Navigation
    /\ R!Maybe(Rows) = Maybe(Rows) /\ B!Maybe(Rows) = Maybe(Rows)
BY DEF R!Chrome, B!Chrome, Chrome, R!Address, B!Address, Address, R!Maybe, B!Maybe, Maybe,
       R!Navigation, B!Navigation, Navigation, R!Arrived, B!Arrived, Arrived

\* Both lanes show the place d and write its address.
LEMMA Placed ==
    ASSUME Mirrored, NEW d, Settled(d, served), served' \in Arrived, nav' = served',
           served' = served,
           reactChrome' = R!Cleared(d, served), reactAddress' = R!Written(reactChrome'),
           blazorChrome' = d,
           \/ blazorAddress' = B!Written(blazorChrome')
           \/ blazorAddress' = Bare /\ d = B!Restore(Bare, served),
           reactInspected' \in Maybe(Rows), blazorInspected' \in Maybe(Rows),
           reactInspected' # None => reactInspected' = d.selected,
           blazorInspected' # None => blazorInspected' = d.selected,
           reactFirst' \in [item : BOOLEAN, panels : BOOLEAN]
    PROVE  LInv'
<1>1. reactChrome' = d
  BY ClearedSettled
<1>2. d \in Chrome /\ (d.selected # None => d.item \in WorkshopItemIds(served))
  BY DEF Settled
<1>3. Written(d) \in Address /\ Bare \in Address
  BY <1>2, WrittenType, BareRestores
<1>4. reactAddress' = Written(d)
  BY <1>1, SharedOperators
<1>5. \/ blazorAddress' = Written(d)
      \/ blazorAddress' = Bare /\ d = B!Restore(Bare, served)
  BY SharedOperators
<1>6. nav' = served /\ nav' \in Navigation /\ nav' \in Arrived
  BY DEF Navigation
<1>7. TypeOK'
  BY <1>1, <1>2, <1>3, <1>4, <1>5, <1>6, SharedSets DEF TypeOK, R!TypeOK, B!TypeOK
<1>8. InspectorsFollow'
  <2>1. /\ reactInspected' # None => reactInspected' = reactChrome'.selected
        /\ reactChrome'.selected # None => reactChrome'.item \in WorkshopItemIds(nav')
        /\ blazorInspected' # None => blazorInspected' = blazorChrome'.selected
        /\ blazorChrome'.selected # None => blazorChrome'.item \in WorkshopItemIds(nav')
    BY <1>1, <1>2, <1>6
  <2> QED
    BY <2>1, SharedOperators DEF InspectorsFollow, R!InspectorFollows, B!InspectorFollows
<1> QED
  BY <1>1, <1>4, <1>5, <1>6, <1>7, <1>8, SharedOperators DEF LInv

THEOREM LInvInit == Mirrored /\ Init => LInv
<1> SUFFICES ASSUME Mirrored, Init PROVE LInv
  OBVIOUS
<1>1. PICK a \in Address : R!OpenAt(a) /\ B!OpenAt(a)
  BY DEF Init
<1>2. /\ reactChrome = R!Opened(a) /\ reactInspected = None /\ nav = "reading"
      /\ reactFirst = R!FirstOf(a) /\ reactAddress = Written(reactChrome)
      /\ blazorChrome = B!Unopened /\ blazorInspected = None /\ blazorAddress = a
      /\ served \in Arrived
  BY <1>1, SharedOperators DEF Init, R!OpenAt, B!OpenAt
<1>3. B!Unopened \in Chrome /\ B!Unopened.selected = None
  BY NavigationOK DEF B!Unopened, Chrome, Maybe
<1>4. WorkshopItemIds("reading") = Seeded /\ "reading" \in Navigation /\ "reading" \notin Arrived
  BY DEF WorkshopItemIds, Navigation, Arrived
<1>5. TypeOK
  BY <1>2, <1>3, <1>4, OpenedType, WrittenType, SharedSets DEF Maybe, TypeOK, R!TypeOK, B!TypeOK
<1>6. InspectorsFollow
  BY <1>2, <1>3, <1>4, OpenedType, SharedOperators
  DEF InspectorsFollow, R!InspectorFollows, B!InspectorFollows
<1>7. R!Corrected(reactChrome, reactFirst, served) = B!Restore(blazorAddress, served)
  BY <1>2, OpenAndCorrect
<1> QED
  BY <1>2, <1>4, <1>5, <1>6, <1>7 DEF LInv

\* A settled place that has been served, and what LInv says of it.
LEMMA Served ==
    ASSUME LInv, nav \in Arrived
    PROVE  /\ nav = served /\ served \in Arrived
           /\ reactChrome = blazorChrome /\ Settled(blazorChrome, served)
           /\ reactAddress = Written(blazorChrome)
           /\ reactInspected \in Maybe(Rows) /\ blazorInspected \in Maybe(Rows)
           /\ reactInspected # None => reactInspected = blazorChrome.selected
           /\ blazorInspected # None => blazorInspected = blazorChrome.selected
           /\ reactFirst \in [item : BOOLEAN, panels : BOOLEAN]
           /\ reactAddress \in Address /\ blazorAddress \in Address
BY SharedSets DEF LInv, TypeOK, InspectorsFollow, R!TypeOK, B!TypeOK,
                  R!InspectorFollows, B!InspectorFollows

LEMMA ArriveStep == Mirrored /\ LInv /\ Arrive => LInv'
<1> SUFFICES ASSUME Mirrored, LInv, Arrive PROVE LInv'
  OBVIOUS
<1> DEFINE d == B!Restore(blazorAddress, served)
           r == R!Corrected(reactChrome, reactFirst, served)
<1>1. /\ nav = "reading" /\ nav \notin Arrived /\ served \in Arrived
      /\ blazorAddress \in Address
      /\ reactInspected \in Maybe(Rows) /\ reactFirst \in [item : BOOLEAN, panels : BOOLEAN]
      /\ reactInspected # None => reactInspected = reactChrome.selected
      /\ r = d
  BY SharedSets DEF Arrive, R!Arrive, Arrived, LInv, TypeOK, R!TypeOK, B!TypeOK,
                    InspectorsFollow, R!InspectorFollows
<1>2. Settled(d, served)
  BY <1>1, RestoreSettles
<1>3. /\ nav' = served /\ served' = served
      /\ reactChrome' = R!Cleared(d, served)
      /\ reactAddress' = R!Written(reactChrome')
      /\ reactInspected' = IF reactChrome'.selected = None THEN None ELSE reactInspected
      /\ reactFirst' = reactFirst
      /\ blazorChrome' = d /\ blazorInspected' = None
  BY <1>1 DEF Arrive, R!Arrive, R!Render, B!Arrive
<1>4. \/ blazorAddress' = B!Written(blazorChrome')
      \/ blazorAddress' = Bare /\ d = B!Restore(Bare, served)
  BY DEF Arrive, B!Arrive, B!ReplaceAddress, Bare
<1>5. reactChrome' = d
  BY <1>1, <1>2, <1>3, ClearedSettled
<1>6. d.selected # None => d.selected = reactChrome.selected
  BY <1>1, SharedOperators DEF R!Corrected, R!Cleared
<1>7. /\ reactInspected' \in Maybe(Rows) /\ blazorInspected' \in Maybe(Rows)
      /\ reactInspected' # None => reactInspected' = d.selected
      /\ blazorInspected' # None => blazorInspected' = d.selected
  BY <1>1, <1>3, <1>5, <1>6 DEF Maybe
<1> HIDE DEF d
<1> QED
  BY <1>1, <1>2, <1>3, <1>4, <1>7, Placed

LEMMA ReloadStep == Mirrored /\ LInv /\ Reload => LInv'
<1> SUFFICES ASSUME Mirrored, LInv, Reload PROVE LInv'
  OBVIOUS
<1> DEFINE c == blazorChrome
           a == Written(c)
<1>1. nav \in Arrived /\ served' = served
  BY DEF Reload, Admitted, Mirrored
<1>2. /\ served \in Arrived /\ Settled(c, served) /\ a \in Address /\ reactAddress = a
      /\ blazorAddress \in Address
      /\ blazorAddress = a \/ (blazorAddress = Bare /\ c = B!Restore(Bare, served))
  BY <1>1, Served, SharedOperators DEF LInv
<1>3. /\ reactChrome' = R!Opened(a) /\ reactInspected' = None /\ nav' = "reading"
      /\ reactFirst' = R!FirstOf(a) /\ reactAddress' = Written(reactChrome')
      /\ blazorChrome' = B!Unopened /\ blazorInspected' = None
      /\ blazorAddress' = blazorAddress
  BY <1>2, SharedOperators DEF Reload, R!Reload, B!Reload
<1>4. B!Restore(a, served) = B!Restore(blazorAddress, served)
  BY <1>2, BareRestores
<1>5. R!Corrected(reactChrome', reactFirst', served') = B!Restore(blazorAddress', served')
  BY <1>1, <1>2, <1>3, <1>4, OpenAndCorrect
<1>6. B!Unopened \in Chrome /\ B!Unopened.selected = None
  BY NavigationOK DEF B!Unopened, Chrome, Maybe
<1>7. WorkshopItemIds("reading") = Seeded /\ "reading" \in Navigation /\ "reading" \notin Arrived
  BY DEF WorkshopItemIds, Navigation, Arrived
<1> HIDE DEF a
<1>8. TypeOK'
  BY <1>1, <1>2, <1>3, <1>6, <1>7, OpenedType, WrittenType, SharedSets
  DEF Maybe, TypeOK, R!TypeOK, B!TypeOK
<1>9. InspectorsFollow'
  BY <1>2, <1>3, <1>6, <1>7, OpenedType, SharedOperators
  DEF InspectorsFollow, R!InspectorFollows, B!InspectorFollows
<1> QED
  BY <1>3, <1>5, <1>7, <1>8, <1>9 DEF LInv

\* The reading fails or is asked again: nothing shown changes.
LEMMA FailRetryStep == LInv /\ (Fail \/ Retry) => LInv'
<1> SUFFICES ASSUME LInv, Fail \/ Retry PROVE LInv'
  OBVIOUS
<1>1. /\ nav \in {"reading", "failed"} /\ nav' \in {"reading", "failed"}
      /\ UNCHANGED <<react, blazor, served>>
  BY DEF Fail, Retry, R!Fail, B!Fail, R!Retry, B!Retry, react, blazor
<1>2. /\ nav \notin Arrived /\ nav' \notin Arrived /\ nav' \in Navigation
      /\ WorkshopItemIds(nav) = Seeded /\ WorkshopItemIds(nav') = Seeded
  BY <1>1 DEF Arrived, Navigation, WorkshopItemIds
<1>3. TypeOK'
  BY <1>1, <1>2, SharedSets DEF LInv, TypeOK, R!TypeOK, B!TypeOK, react, blazor
<1>4. InspectorsFollow'
  BY <1>1, <1>2, SharedOperators
  DEF LInv, InspectorsFollow, R!InspectorFollows, B!InspectorFollows, react, blazor
<1> QED
  BY <1>1, <1>2, <1>3, <1>4 DEF LInv, react, blazor

LEMMA NavigateStep ==
    ASSUME Mirrored, LInv, NEW item \in Items, Navigate(item)
    PROVE  LInv'
<1> DEFINE d == [blazorChrome EXCEPT !.item = item, !.selected = None]
<1>1. nav \in Arrived /\ served' = served
  BY DEF Navigate, Admitted, Mirrored
<1>2. Settled(d, served)
  <2>1. /\ d.item = item /\ d.selected = None /\ d.panels = blazorChrome.panels
        /\ d \in Chrome
    BY <1>1, Served DEF Settled, Chrome, Maybe
  <2>2. item \in Shown(served).items
    BY <1>1, Served, SharedOperators DEF Navigate, B!Navigate
  <2> HIDE DEF d
  <2> QED
    BY <1>1, <2>1, <2>2, Served DEF Settled
<1>3. /\ reactChrome' = R!Cleared(d, served) /\ reactAddress' = R!Written(reactChrome')
      /\ nav' = served /\ reactInspected' = None /\ reactFirst' = reactFirst
      /\ blazorChrome' = d /\ blazorInspected' = None
      /\ blazorAddress' = B!Written(blazorChrome')
  BY <1>1, Served DEF Navigate, R!Navigate, R!Render, B!Navigate, B!ReplaceAddress
<1> HIDE DEF d
<1> QED
  BY <1>1, <1>2, <1>3, Served, Placed DEF Maybe

LEMMA TogglePanelStep ==
    ASSUME Mirrored, LInv, NEW panel \in Panels, TogglePanel(panel)
    PROVE  LInv'
<1> DEFINE open == IF panel \in blazorChrome.panels THEN blazorChrome.panels \ {panel}
                                                   ELSE blazorChrome.panels \cup {panel}
           d == [blazorChrome EXCEPT !.panels = open]
<1>1. nav \in Arrived /\ served' = served
  BY DEF TogglePanel, Admitted, Mirrored
<1>2. Settled(d, served)
  <2>1. /\ d.item = blazorChrome.item /\ d.selected = blazorChrome.selected /\ d.panels = open
        /\ d \in Chrome
    BY <1>1, Served DEF Settled, Chrome
  <2>2. open \subseteq Shown(served).panels
    BY <1>1, Served, SharedOperators DEF TogglePanel, B!TogglePanel, Settled
  <2> HIDE DEF d, open
  <2> QED
    BY <1>1, <2>1, <2>2, Served DEF Settled
<1>3. /\ reactChrome' = R!Cleared(d, served) /\ reactAddress' = R!Written(reactChrome')
      /\ nav' = served /\ reactInspected' = reactInspected /\ reactFirst' = reactFirst
      /\ blazorChrome' = d /\ blazorInspected' = blazorInspected
      /\ blazorAddress' = B!Written(blazorChrome')
  BY <1>1, Served DEF TogglePanel, R!TogglePanel, R!Render, B!TogglePanel, B!ReplaceAddress
<1>4. d.selected = blazorChrome.selected
  BY <1>1, Served DEF Settled, Chrome
<1> HIDE DEF d
<1> QED
  BY <1>1, <1>2, <1>3, <1>4, Served, Placed

\* The inspector is opened on a settled place, where it is declared.
LEMMA WithInspectorSettles ==
    ASSUME NEW c, Settled(c, served), served \in Arrived, Inspector \in Shown(served).panels
    PROVE  /\ Settled([c EXCEPT !.panels = @ \cup {Inspector}], served)
           /\ [c EXCEPT !.panels = @ \cup {Inspector}].selected = c.selected
<1> DEFINE d == [c EXCEPT !.panels = @ \cup {Inspector}]
<1>1. /\ d.item = c.item /\ d.selected = c.selected /\ d.panels = c.panels \cup {Inspector}
      /\ d \in Chrome
  BY ShownType DEF Settled, Chrome
<1> HIDE DEF d
<1>2. Settled(d, served) /\ d.selected = c.selected
  BY <1>1 DEF Settled
<1> QED
  BY <1>2 DEF d

LEMMA OpenInspectorStep == Mirrored /\ LInv /\ OpenInspector => LInv'
<1> SUFFICES ASSUME Mirrored, LInv, OpenInspector PROVE LInv'
  OBVIOUS
<1> DEFINE d == [blazorChrome EXCEPT !.panels = @ \cup {Inspector}]
<1>1. nav \in Arrived /\ served' = served
  BY DEF OpenInspector, Admitted, Mirrored
<1>2. /\ nav' = served /\ reactInspected' = reactInspected /\ reactFirst' = reactFirst
      /\ blazorInspected' = blazorInspected
  BY <1>1, Served DEF OpenInspector, R!OpenInspector, B!OpenInspector, R!Render
<1>3. CASE Inspector \in Shown(served).panels
  <2>1. Settled(d, served) /\ d.selected = blazorChrome.selected
    BY <1>1, <1>3, Served, WithInspectorSettles
  <2>2. /\ reactChrome' = R!Cleared(d, served) /\ reactAddress' = R!Written(reactChrome')
        /\ blazorChrome' = d /\ blazorAddress' = B!Written(blazorChrome')
    BY <1>1, <1>3, Served, SharedOperators
    DEF OpenInspector, R!OpenInspector, R!Render, R!WithInspector, B!OpenInspector,
        B!ShowInspector, B!ReplaceAddress
  <2> HIDE DEF d
  <2> QED
    BY <1>1, <1>2, <2>1, <2>2, Served, Placed
<1>4. CASE Inspector \notin Shown(served).panels
  <2>1. /\ reactChrome' = R!Cleared(blazorChrome, served)
        /\ reactAddress' = R!Written(reactChrome')
        /\ blazorChrome' = blazorChrome /\ blazorAddress' = blazorAddress
    BY <1>1, <1>4, Served, SharedOperators
    DEF OpenInspector, R!OpenInspector, R!Render, R!WithInspector, B!OpenInspector, B!ShowInspector
  <2>2. \/ blazorAddress' = B!Written(blazorChrome')
        \/ blazorAddress' = Bare /\ blazorChrome = B!Restore(Bare, served)
    BY <1>1, <2>1, SharedOperators DEF LInv
  <2> QED
    BY <1>1, <1>2, <2>1, <2>2, Served, Placed
<1> QED
  BY <1>3, <1>4

LEMMA InspectStep ==
    ASSUME Mirrored, LInv, NEW row \in Rows, Inspect(row)
    PROVE  LInv'
<1> DEFINE c == [blazorChrome EXCEPT !.selected = row]
           d == [c EXCEPT !.panels = @ \cup {Inspector}]
<1>1. nav \in Arrived /\ served' = served
  BY DEF Inspect, Admitted, Mirrored
<1>2. blazorChrome.item \in WorkshopItemIds(served)
  BY <1>1, Served, SharedOperators DEF Inspect, B!Inspect
<1>3. served = "pack"
  <2>1. served # "pack" => blazorChrome.item \in Seeded /\ blazorChrome.item \in Fallback.items \cup {Assets}
    BY <1>1, <1>2, Served DEF WorkshopItemIds, Shown, Settled
  <2> QED
    BY <2>1 DEF Mirrored
<1>4. Inspector \in Shown(served).panels
  BY <1>3 DEF Mirrored, Shown
<1>5. Settled(c, served) /\ c.selected = row
  <2>1. /\ c.item = blazorChrome.item /\ c.selected = row /\ c.panels = blazorChrome.panels
        /\ c \in Chrome
    BY <1>1, Served DEF Settled, Chrome, Maybe
  <2> HIDE DEF c
  <2> QED
    BY <1>1, <1>2, <2>1, Served DEF Settled
<1>6. Settled(d, served) /\ d.selected = row
  <2> HIDE DEF c
  <2> QED
    BY <1>1, <1>4, <1>5, Served, WithInspectorSettles
<1>7. /\ reactChrome' = R!Cleared(d, served) /\ reactAddress' = R!Written(reactChrome')
      /\ nav' = served /\ reactInspected' = row /\ reactFirst' = reactFirst
      /\ blazorChrome' = d /\ blazorInspected' = row
      /\ blazorAddress' = B!Written(blazorChrome')
  BY <1>1, <1>4, Served, SharedOperators
  DEF Inspect, R!Inspect, R!Render, R!WithInspector, B!Inspect, B!ShowInspector, B!ReplaceAddress
<1> HIDE DEF c, d
<1> QED
  BY <1>1, <1>6, <1>7, Served, Placed DEF Maybe

LEMMA RestoredStep == LInv /\ (ReactRestored \/ BlazorRestored) => LInv'
<1> SUFFICES ASSUME LInv, ReactRestored \/ BlazorRestored PROVE LInv'
  OBVIOUS
<1>1. /\ UNCHANGED <<reactChrome, reactFirst, reactAddress, blazorChrome, blazorAddress, nav, served>>
      /\ reactInspected' \in {reactInspected, reactChrome.selected}
      /\ \/ blazorInspected' = blazorInspected
         \/ blazorChrome.selected # None /\ blazorInspected' = blazorChrome.selected
  BY DEF ReactRestored, BlazorRestored, R!Restored, B!Restored, react, blazor
<1>2. reactChrome \in Chrome /\ blazorChrome \in Chrome
  BY SharedSets DEF LInv, TypeOK, R!TypeOK, B!TypeOK
<1>3. TypeOK'
  BY <1>1, <1>2, SharedSets DEF LInv, TypeOK, R!TypeOK, B!TypeOK, Chrome
<1>4. InspectorsFollow'
  BY <1>1, SharedOperators DEF LInv, InspectorsFollow, R!InspectorFollows, B!InspectorFollows
<1>5. nav \notin Arrived => blazorInspected' = None
  BY <1>1 DEF LInv, B!Unopened
<1> QED
  BY <1>1, <1>3, <1>4, <1>5 DEF LInv

\* Every step preserves the invariant.
THEOREM LInvStep == Mirrored /\ LInv /\ [Next]_vars => LInv'
<1> SUFFICES ASSUME Mirrored, LInv, [Next]_vars PROVE LInv'
  OBVIOUS
<1>1. CASE Arrive
  BY <1>1, ArriveStep
<1>2. CASE Fail \/ Retry
  BY <1>2, FailRetryStep
<1>3. CASE Reload
  BY <1>3, ReloadStep
<1>4. ASSUME NEW item \in Items, Navigate(item) PROVE LInv'
  BY <1>4, NavigateStep
<1>5. ASSUME NEW panel \in Panels, TogglePanel(panel) PROVE LInv'
  BY <1>5, TogglePanelStep
<1>6. CASE OpenInspector
  BY <1>6, OpenInspectorStep
<1>7. ASSUME NEW row \in Rows, Inspect(row) PROVE LInv'
  BY <1>7, InspectStep
<1>8. CASE ReactRestored \/ BlazorRestored
  BY <1>8, RestoredStep
<1>9. CASE UNCHANGED vars
  BY <1>9 DEF vars, react, blazor, LInv, TypeOK, R!TypeOK, B!TypeOK,
              InspectorsFollow, R!InspectorFollows, B!InspectorFollows
<1> QED
  BY <1>1, <1>2, <1>3, <1>4, <1>5, <1>6, <1>7, <1>8, <1>9 DEF Next

THEOREM LanesInvariant ==
    ASSUME Mirrored
    PROVE  Spec => []LInv
<1>1. Init => LInv
  BY LInvInit
<1>2. LInv /\ [Next]_vars => LInv'
  BY LInvStep
<1> QED
  BY <1>1, <1>2, PTL DEF Spec

\* However many items, rows and panels there are, and whatever the pack
\* declares within Mirrored, both lanes show the same place once the
\* navigation is known: the reading, every step and every reload.
THEOREM LanesAlwaysAgree ==
    ASSUME Mirrored
    PROVE  Spec => []LanesAgree
<1>1. LInv => LanesAgree
  BY DEF LInv, LanesAgree
<1> QED
  BY <1>1, LanesInvariant, PTL

-----------------------------------------------------------------------------
(***************************************************************************)
(* What holds of each lane outside Mirrored too: for a user who does not   *)
(* wait, and whatever the pack declares.                                   *)
(***************************************************************************)

ReactOK  == R!TypeOK /\ R!InspectorFollows
BlazorOK == B!TypeOK /\ B!InspectorFollows

\* React's state, in the words of the shared operators.
LEMMA ReactIs ==
    ReactOK <=> /\ reactChrome \in Chrome /\ reactInspected \in Maybe(Rows)
                /\ nav \in Navigation /\ reactAddress \in Address
                /\ reactFirst \in [item : BOOLEAN, panels : BOOLEAN]
                /\ reactInspected # None => reactInspected = reactChrome.selected
                /\ reactChrome.selected # None => reactChrome.item \in WorkshopItemIds(nav)
BY SharedSets, SharedOperators DEF ReactOK, R!TypeOK, R!InspectorFollows

LEMMA BlazorIs ==
    BlazorOK <=> /\ blazorChrome \in Chrome /\ blazorInspected \in Maybe(Rows)
                 /\ nav \in Navigation /\ blazorAddress \in Address
                 /\ blazorInspected # None => blazorInspected = blazorChrome.selected
                 /\ blazorChrome.selected # None => blazorChrome.item \in WorkshopItemIds(nav)
BY SharedSets, SharedOperators DEF BlazorOK, B!TypeOK, B!InspectorFollows

\* The same of the next state.
LEMMA ReactNext ==
    ASSUME reactChrome' \in Chrome, reactInspected' \in Maybe(Rows),
           nav' \in Navigation, reactAddress' \in Address,
           reactFirst' \in [item : BOOLEAN, panels : BOOLEAN],
           reactInspected' # None => reactInspected' = reactChrome'.selected,
           reactChrome'.selected # None => reactChrome'.item \in WorkshopItemIds(nav')
    PROVE  ReactOK'
BY SharedSets, SharedOperators DEF ReactOK, R!TypeOK, R!InspectorFollows

LEMMA BlazorNext ==
    ASSUME blazorChrome' \in Chrome, blazorInspected' \in Maybe(Rows),
           nav' \in Navigation, blazorAddress' \in Address,
           blazorInspected' # None => blazorInspected' = blazorChrome'.selected,
           blazorChrome'.selected # None => blazorChrome'.item \in WorkshopItemIds(nav')
    PROVE  BlazorOK'
BY SharedSets, SharedOperators DEF BlazorOK, B!TypeOK, B!InspectorFollows

\* A chrome with another row is a chrome, and one with another item and no row.
LEMMA RowChanges ==
    ASSUME NEW c \in Chrome, NEW row \in Maybe(Rows)
    PROVE  /\ [c EXCEPT !.selected = row] \in Chrome
           /\ [c EXCEPT !.selected = row].selected = row
           /\ [c EXCEPT !.selected = row].item = c.item
BY DEF Chrome

LEMMA ItemChanges ==
    ASSUME NEW c \in Chrome, NEW item \in Items
    PROVE  /\ [c EXCEPT !.item = item, !.selected = None] \in Chrome
           /\ [c EXCEPT !.item = item, !.selected = None].selected = None
           /\ [c EXCEPT !.item = item, !.selected = None].item = item
BY DEF Chrome, Maybe

\* The panels a shell's handlers leave open.
LEMMA PanelChanges ==
    ASSUME NEW c \in Chrome, NEW panel \in Panels
    PROVE  /\ [c EXCEPT !.panels = IF panel \in @ THEN @ \ {panel} ELSE @ \cup {panel}] \in Chrome
           /\ [c EXCEPT !.panels = IF panel \in @ THEN @ \ {panel}
                                    ELSE @ \cup {panel}].selected = c.selected
           /\ [c EXCEPT !.panels = IF panel \in @ THEN @ \ {panel}
                                    ELSE @ \cup {panel}].item = c.item
           /\ [c EXCEPT !.panels = @ \cup {panel}] \in Chrome
           /\ [c EXCEPT !.panels = @ \cup {panel}].selected = c.selected
           /\ [c EXCEPT !.panels = @ \cup {panel}].item = c.item
BY DEF Chrome

\* A render of React clears a row that has no Workshop list.
LEMMA Rendered ==
    ASSUME NEW c \in Chrome, NEW n \in Navigation, R!Render(c, n),
           reactInspected' \in Maybe(Rows), reactFirst' \in [item : BOOLEAN, panels : BOOLEAN],
           reactInspected' # None => reactInspected' = reactChrome'.selected
    PROVE  ReactOK'
<1>1. /\ reactChrome' = R!Cleared(c, n) /\ nav' = n /\ reactAddress' = Written(reactChrome')
  BY SharedOperators DEF R!Render
<1>2. /\ reactChrome' \in Chrome
      /\ reactChrome'.selected # None => reactChrome'.item \in WorkshopItemIds(n)
  BY <1>1, ClearedType
<1>3. reactAddress' \in Address
  BY <1>1, <1>2, WrittenType
<1> QED
  BY <1>1, <1>2, <1>3, ReactNext

\* A render that leaves row and item alone leaves the inspector right.
LEMMA RenderedSame ==
    ASSUME ReactOK, NEW c \in Chrome, c.selected = reactChrome.selected,
           c.item = reactChrome.item, R!Render(c, nav), UNCHANGED <<reactInspected, reactFirst>>
    PROVE  ReactOK'
<1>1. reactChrome' = R!Cleared(c, nav)
  BY DEF R!Render
<1>2. reactChrome'.selected = reactChrome.selected
  BY <1>1, ReactIs, SharedOperators DEF R!Cleared, Chrome
<1> QED
  BY <1>2, ReactIs, Rendered

\* Correcting what is shown either keeps the row or clears it.
LEMMA CorrectedType ==
    ASSUME NEW c \in Chrome, NEW f, NEW n \in Arrived
    PROVE  \E d \in Chrome :
               /\ d.selected = c.selected
               /\ f.item \/ c.item = Assets => d.item \in Shown(n).items \cup {Assets}
               /\ R!Corrected(c, f, n) = R!Cleared(d, n)
<1> DEFINE d == [item     |-> IF f.item /\ c.item \notin Shown(n).items THEN Assets ELSE c.item,
                 selected |-> c.selected,
                 panels   |-> IF f.panels THEN c.panels \cap Shown(n).panels ELSE Shown(n).open]
<1>1. R!Corrected(c, f, n) = R!Cleared(d, n)
  BY SharedOperators DEF R!Corrected
<1>2. d \in Chrome
  <2>1. /\ (IF f.item /\ c.item \notin Shown(n).items THEN Assets ELSE c.item) \in Items
        /\ (IF f.panels THEN c.panels \cap Shown(n).panels ELSE Shown(n).open) \in SUBSET Panels
    BY NavigationOK, ShownType DEF Chrome
  <2> QED
    BY <2>1 DEF Chrome
<1> QED
  BY <1>1, <1>2

LEMMA ReactKeeps ==
    ASSUME ReactOK, served \in Arrived,
           \/ R!Arrive(served) \/ R!Fail \/ R!Retry \/ R!Reload
           \/ \E item \in Items : R!Navigate(item)
           \/ \E panel \in Panels : R!TogglePanel(panel)
           \/ R!OpenInspector
           \/ \E row \in Rows : R!Inspect(row)
           \/ R!Restored
    PROVE  ReactOK'
<1>0. /\ reactChrome \in Chrome /\ reactInspected \in Maybe(Rows) /\ nav \in Navigation
      /\ reactAddress \in Address /\ reactFirst \in [item : BOOLEAN, panels : BOOLEAN]
      /\ None \in Maybe(Rows) /\ Inspector \in Panels
  BY ReactIs, NavigationOK DEF Maybe
<1>1. CASE R!Arrive(served)
  <2>1. PICK d \in Chrome : /\ d.selected = reactChrome.selected
                            /\ R!Corrected(reactChrome, reactFirst, served) = R!Cleared(d, served)
    BY <1>0, CorrectedType
  <2>2. /\ reactChrome' = R!Cleared(R!Cleared(d, served), served)
        /\ R!Render(R!Cleared(d, served), served)
        /\ reactInspected' = IF reactChrome'.selected = None THEN None ELSE reactInspected
        /\ reactFirst' = reactFirst
    BY <1>1, <2>1 DEF R!Arrive, R!Render
  <2>3. /\ R!Cleared(d, served) \in Chrome
        /\ R!Cleared(d, served).selected # None => R!Cleared(d, served).selected = d.selected
    BY ClearedType
  <2>4. reactChrome'.selected # None => reactChrome'.selected = reactChrome.selected
    BY <2>1, <2>2, <2>3, ClearedType
  <2>5. reactInspected' \in Maybe(Rows)
        /\ (reactInspected' # None => reactInspected' = reactChrome'.selected)
    BY <1>0, <2>2, <2>4, ReactIs
  <2> QED
    BY <1>0, <2>2, <2>3, <2>5, Rendered DEF Navigation
<1>2. CASE R!Fail \/ R!Retry
  <2>1. /\ UNCHANGED <<reactChrome, reactInspected, reactFirst, reactAddress>>
        /\ nav \in {"reading", "failed"} /\ nav' \in {"reading", "failed"}
    BY <1>2 DEF R!Fail, R!Retry
  <2>2. nav' \in Navigation /\ WorkshopItemIds(nav) = WorkshopItemIds(nav')
    BY <2>1 DEF WorkshopItemIds, Navigation
  <2> QED
    BY <1>0, <2>1, <2>2, ReactIs, ReactNext
<1>3. CASE R!Reload
  <2>1. /\ reactChrome' = R!Opened(reactAddress) /\ reactInspected' = None /\ nav' = "reading"
        /\ reactFirst' = R!FirstOf(reactAddress) /\ reactAddress' = Written(reactChrome')
    BY <1>3, SharedOperators DEF R!Reload
  <2>2. /\ reactChrome' \in Chrome /\ reactAddress' \in Address
        /\ reactFirst' \in [item : BOOLEAN, panels : BOOLEAN]
        /\ reactChrome'.selected # None => reactChrome'.item \in Seeded
    BY <1>0, <2>1, OpenedType, WrittenType
  <2>3. nav' \in Navigation /\ WorkshopItemIds(nav') = Seeded
    BY <2>1 DEF Navigation, WorkshopItemIds
  <2> QED
    BY <1>0, <2>1, <2>2, <2>3, ReactNext
<1>4. CASE \E item \in Items : R!Navigate(item)
  <2> PICK item \in Items : R!Navigate(item)
    BY <1>4
  <2>1. [reactChrome EXCEPT !.item = item, !.selected = None] \in Chrome
    BY <1>0, ItemChanges
  <2> QED
    BY <1>0, <2>1, Rendered DEF R!Navigate
<1>5. CASE \E panel \in Panels : R!TogglePanel(panel)
  <2> PICK panel \in Panels : R!TogglePanel(panel)
    BY <1>5
  <2> DEFINE c == [reactChrome EXCEPT !.panels =
                      IF panel \in @ THEN @ \ {panel} ELSE @ \cup {panel}]
  <2>1. c \in Chrome /\ c.selected = reactChrome.selected /\ c.item = reactChrome.item
    BY <1>0, PanelChanges
  <2>2. R!Render(c, nav) /\ UNCHANGED <<reactInspected, reactFirst>>
    BY DEF R!TogglePanel
  <2> HIDE DEF c
  <2> QED
    BY <2>1, <2>2, RenderedSame
<1>6. CASE R!OpenInspector
  <2>1. /\ R!WithInspector(reactChrome) \in Chrome
        /\ R!WithInspector(reactChrome).selected = reactChrome.selected
        /\ R!WithInspector(reactChrome).item = reactChrome.item
    BY <1>0, PanelChanges DEF R!WithInspector
  <2> QED
    BY <1>6, <2>1, RenderedSame DEF R!OpenInspector
<1>7. CASE \E row \in Rows : R!Inspect(row)
  <2> PICK row \in Rows : R!Inspect(row)
    BY <1>7
  <2> DEFINE c == [reactChrome EXCEPT !.selected = row]
             d == R!WithInspector(c)
  <2>1. c \in Chrome /\ c.selected = row /\ c.item = reactChrome.item
    BY <1>0, RowChanges DEF Maybe
  <2>2. /\ R!Render(d, nav) /\ reactInspected' = row /\ reactFirst' = reactFirst
        /\ reactChrome.item \in WorkshopItemIds(nav)
    BY SharedOperators DEF R!Inspect
  <2> HIDE DEF c
  <2>3. d \in Chrome /\ d.selected = row /\ d.item = reactChrome.item
    BY <1>0, <2>1, PanelChanges DEF R!WithInspector
  <2> HIDE DEF d
  <2>4. reactChrome' = d
    BY <2>2, <2>3, SharedOperators DEF R!Render, R!Cleared
  <2> QED
    BY <1>0, <2>2, <2>3, <2>4, Rendered DEF Maybe
<1>8. CASE R!Restored
  <2>1. /\ UNCHANGED <<reactChrome, nav, reactFirst, reactAddress>>
        /\ reactInspected' = reactChrome.selected
    BY <1>8 DEF R!Restored
  <2> QED
    BY <1>0, <2>1, ReactIs, ReactNext DEF Chrome
<1> QED
  BY <1>1, <1>2, <1>3, <1>4, <1>5, <1>6, <1>7, <1>8

\* What an address opens in Blazor is a chrome with a row on a Workshop list only.
LEMMA Shows ==
    ASSUME NEW c \in Chrome, B!ShowInspector(c), BlazorOK,
           c.selected # None => c.item \in WorkshopItemIds(nav),
           nav' = nav, blazorInspected' \in Maybe(Rows),
           blazorInspected' # None => blazorInspected' = c.selected
    PROVE  BlazorOK'
<1>0. blazorAddress \in Address /\ nav \in Navigation /\ Inspector \in Panels
  BY BlazorIs, NavigationOK
<1>1. CASE Inspector \in Shown(nav).panels
  <2> DEFINE d == [c EXCEPT !.panels = @ \cup {Inspector}]
  <2>1. d \in Chrome /\ d.selected = c.selected /\ d.item = c.item
    BY <1>0, PanelChanges
  <2>2. blazorChrome' = d /\ blazorAddress' = Written(blazorChrome')
    BY <1>1, SharedOperators DEF B!ShowInspector, B!ReplaceAddress
  <2> HIDE DEF d
  <2>3. blazorAddress' \in Address
    BY <2>1, <2>2, WrittenType
  <2> QED
    BY <1>0, <2>1, <2>2, <2>3, BlazorNext
<1>2. CASE Inspector \notin Shown(nav).panels
  <2>1. blazorChrome' = c /\ blazorAddress' = blazorAddress
    BY <1>2, SharedOperators DEF B!ShowInspector
  <2> QED
    BY <1>0, <2>1, BlazorNext
<1> QED
  BY <1>1, <1>2

LEMMA BlazorKeeps ==
    ASSUME BlazorOK, served \in Arrived,
           \/ B!Arrive(served) \/ B!Fail \/ B!Retry \/ B!Reload
           \/ \E item \in Items : B!Navigate(item)
           \/ \E panel \in Panels : B!TogglePanel(panel)
           \/ B!OpenInspector
           \/ \E row \in Rows : B!Inspect(row)
           \/ B!Restored
    PROVE  BlazorOK'
<1>0. /\ blazorChrome \in Chrome /\ blazorInspected \in Maybe(Rows) /\ nav \in Navigation
      /\ blazorAddress \in Address /\ None \in Maybe(Rows) /\ Inspector \in Panels
      /\ blazorInspected # None => blazorInspected = blazorChrome.selected
      /\ blazorChrome.selected # None => blazorChrome.item \in WorkshopItemIds(nav)
  BY BlazorIs, NavigationOK DEF Maybe
<1>1. CASE B!Arrive(served)
  <2>1. /\ blazorChrome' = B!Restore(blazorAddress, served) /\ nav' = served
        /\ blazorInspected' = None
        /\ blazorAddress' = blazorAddress \/ blazorAddress' = Written(blazorChrome')
    BY <1>1, SharedOperators DEF B!Arrive, B!ReplaceAddress
  <2>2. Settled(blazorChrome', served)
    BY <1>0, <2>1, RestoreSettles
  <2>3. blazorAddress' \in Address
    BY <1>0, <2>1, <2>2, WrittenType DEF Settled
  <2> QED
    BY <1>0, <2>1, <2>2, <2>3, BlazorNext DEF Settled, Navigation
<1>2. CASE B!Fail \/ B!Retry
  <2>1. /\ UNCHANGED <<blazorChrome, blazorInspected, blazorAddress>>
        /\ nav \in {"reading", "failed"} /\ nav' \in {"reading", "failed"}
    BY <1>2 DEF B!Fail, B!Retry
  <2>2. nav' \in Navigation /\ WorkshopItemIds(nav) = WorkshopItemIds(nav')
    BY <2>1 DEF WorkshopItemIds, Navigation
  <2> QED
    BY <1>0, <2>1, <2>2, BlazorNext
<1>3. CASE B!Reload
  <2>1. /\ blazorChrome' = B!Unopened /\ blazorInspected' = None /\ nav' = "reading"
        /\ blazorAddress' = blazorAddress
    BY <1>3 DEF B!Reload
  <2>2. B!Unopened \in Chrome /\ B!Unopened.selected = None
    BY NavigationOK DEF B!Unopened, Chrome, Maybe
  <2> QED
    BY <1>0, <2>1, <2>2, BlazorNext DEF Navigation
<1>4. CASE \E item \in Items : B!Navigate(item)
  <2> PICK item \in Items : B!Navigate(item)
    BY <1>4
  <2> DEFINE c == [blazorChrome EXCEPT !.item = item, !.selected = None]
  <2>1. c \in Chrome /\ c.selected = None
    BY <1>0, ItemChanges
  <2>2. /\ blazorChrome' = c /\ blazorInspected' = None /\ nav' = nav
        /\ blazorAddress' = Written(blazorChrome')
    BY SharedOperators DEF B!Navigate, B!ReplaceAddress
  <2> HIDE DEF c
  <2>3. blazorAddress' \in Address
    BY <2>1, <2>2, WrittenType
  <2> QED
    BY <1>0, <2>1, <2>2, <2>3, BlazorNext
<1>5. CASE \E panel \in Panels : B!TogglePanel(panel)
  <2> PICK panel \in Panels : B!TogglePanel(panel)
    BY <1>5
  <2> DEFINE c == [blazorChrome EXCEPT !.panels =
                      IF panel \in @ THEN @ \ {panel} ELSE @ \cup {panel}]
  <2>1. c \in Chrome /\ c.selected = blazorChrome.selected /\ c.item = blazorChrome.item
    BY <1>0, PanelChanges
  <2>2. /\ blazorChrome' = c /\ blazorInspected' = blazorInspected /\ nav' = nav
        /\ blazorAddress' = Written(blazorChrome')
    BY SharedOperators DEF B!TogglePanel, B!ReplaceAddress
  <2> HIDE DEF c
  <2>3. blazorAddress' \in Address
    BY <2>1, <2>2, WrittenType
  <2> QED
    BY <1>0, <2>1, <2>2, <2>3, BlazorNext
<1>6. CASE B!OpenInspector
  BY <1>0, <1>6, Shows DEF B!OpenInspector
<1>7. CASE \E row \in Rows : B!Inspect(row)
  <2> PICK row \in Rows : B!Inspect(row)
    BY <1>7
  <2> DEFINE c == [blazorChrome EXCEPT !.selected = row]
  <2>1. c \in Chrome /\ c.selected = row /\ c.item = blazorChrome.item
    BY <1>0, RowChanges DEF Maybe
  <2>2. /\ B!ShowInspector(c) /\ blazorInspected' = row /\ nav' = nav
        /\ blazorChrome.item \in WorkshopItemIds(nav)
    BY SharedOperators DEF B!Inspect
  <2> HIDE DEF c
  <2> QED
    BY <2>1, <2>2, Shows DEF Maybe
<1>8. CASE B!Restored
  <2>1. /\ UNCHANGED <<blazorChrome, nav, blazorAddress>>
        /\ blazorInspected' = blazorChrome.selected
    BY <1>8 DEF B!Restored
  <2> QED
    BY <1>0, <2>1, BlazorNext DEF Chrome
<1> QED
  BY <1>1, <1>2, <1>3, <1>4, <1>5, <1>6, <1>7, <1>8

\* Both lanes at once, from any address.
LEMMA EachLaneKeeps == Spec => [](ReactOK /\ BlazorOK /\ served \in Arrived)
<1> DEFINE Inv == ReactOK /\ BlazorOK /\ served \in Arrived
<1>1. Init => Inv
  <2> SUFFICES ASSUME Init PROVE Inv
    OBVIOUS
  <2>1. PICK a \in Address : R!OpenAt(a) /\ B!OpenAt(a)
    BY DEF Init
  <2>2. /\ nav \in Navigation /\ WorkshopItemIds(nav) = Seeded /\ None \in Maybe(Rows)
    BY <2>1 DEF R!OpenAt, Navigation, WorkshopItemIds, Maybe
  <2>3. ReactOK
    <3>1. /\ reactChrome = R!Opened(a) /\ reactInspected = None
          /\ reactFirst = R!FirstOf(a) /\ reactAddress = Written(reactChrome)
      BY <2>1, SharedOperators DEF R!OpenAt
    <3>2. reactChrome \in Chrome /\ reactAddress \in Address
      BY <3>1, OpenedType, WrittenType
    <3> QED
      BY <2>2, <3>1, <3>2, OpenedType, ReactIs
  <2>4. BlazorOK
    <3>1. blazorChrome = B!Unopened /\ blazorInspected = None /\ blazorAddress = a
      BY <2>1 DEF B!OpenAt
    <3>2. B!Unopened \in Chrome /\ B!Unopened.selected = None
      BY NavigationOK DEF B!Unopened, Chrome, Maybe
    <3> QED
      BY <2>2, <3>1, <3>2, BlazorIs
  <2> QED
    BY <2>3, <2>4 DEF Init
<1>2. Inv /\ [Next]_vars => Inv'
  <2> SUFFICES ASSUME Inv, [Next]_vars PROVE Inv'
    OBVIOUS
  <2>1. CASE UNCHANGED vars
    <3>1. UNCHANGED <<react, blazor, nav, served>>
      BY <2>1 DEF vars
    <3> QED
      BY <3>1, ReactIs, ReactNext, BlazorIs, BlazorNext DEF react, blazor
  <2>2. CASE ReactRestored
    <3>1. R!Restored /\ UNCHANGED <<blazor, nav, served>>
      BY <2>2 DEF ReactRestored, R!Restored
    <3>2. ReactOK'
      BY <3>1, ReactKeeps
    <3>3. BlazorOK'
      BY <3>1, BlazorIs, BlazorNext DEF blazor
    <3> QED
      BY <3>1, <3>2, <3>3
  <2>3. CASE BlazorRestored
    <3>1. B!Restored /\ UNCHANGED <<react, nav, served>>
      BY <2>3 DEF BlazorRestored, B!Restored
    <3>2. BlazorOK'
      BY <3>1, BlazorKeeps
    <3>3. ReactOK'
      BY <3>1, ReactIs, ReactNext DEF react
    <3> QED
      BY <3>1, <3>2, <3>3
  <2>4. CASE Arrive \/ Fail \/ Retry \/ Reload
    BY <2>4, ReactKeeps, BlazorKeeps DEF Arrive, Fail, Retry, Reload, Admitted
  <2>5. CASE OpenInspector
    BY <2>5, ReactKeeps, BlazorKeeps DEF OpenInspector, Admitted
  <2>6. CASE \E item \in Items : Navigate(item)
    <3> PICK item \in Items : Navigate(item)
      BY <2>6
    <3>1. R!Navigate(item) /\ B!Navigate(item) /\ UNCHANGED served
      BY DEF Navigate, Admitted
    <3>2. ReactOK'
      BY <3>1, ReactKeeps
    <3>3. BlazorOK'
      BY <3>1, BlazorKeeps
    <3> QED
      BY <3>1, <3>2, <3>3
  <2>7. CASE \E panel \in Panels : TogglePanel(panel)
    <3> PICK panel \in Panels : TogglePanel(panel)
      BY <2>7
    <3>1. R!TogglePanel(panel) /\ B!TogglePanel(panel) /\ UNCHANGED served
      BY DEF TogglePanel, Admitted
    <3>2. ReactOK'
      BY <3>1, ReactKeeps
    <3>3. BlazorOK'
      BY <3>1, BlazorKeeps
    <3> QED
      BY <3>1, <3>2, <3>3
  <2>8. CASE \E row \in Rows : Inspect(row)
    <3> PICK row \in Rows : Inspect(row)
      BY <2>8
    <3>1. R!Inspect(row) /\ B!Inspect(row) /\ UNCHANGED served
      BY DEF Inspect, Admitted
    <3>2. ReactOK'
      BY <3>1, ReactKeeps
    <3>3. BlazorOK'
      BY <3>1, BlazorKeeps
    <3> QED
      BY <3>1, <3>2, <3>3
  <2> QED
    BY <2>1, <2>2, <2>3, <2>4, <2>5, <2>6, <2>7, <2>8 DEF Next
<1> QED
  BY <1>1, <1>2, PTL DEF Spec

\* In each lane a row is selected only on a Workshop list, and the inspector
\* shows the selected row or nothing, also for a user who acts while the
\* navigation is being read.
THEOREM InspectorsAlwaysFollow == Spec => []InspectorsFollow
<1>1. ReactOK /\ BlazorOK => InspectorsFollow
  BY DEF ReactOK, BlazorOK, InspectorsFollow
<1> QED
  BY <1>1, EachLaneKeeps, PTL

\* The type invariant of both lanes, whatever the pack declares.
THEOREM LanesTypeCorrect == Spec => []TypeOK
<1>1. ReactOK /\ BlazorOK /\ served \in Arrived => TypeOK
  BY DEF ReactOK, BlazorOK, TypeOK
<1> QED
  BY <1>1, EachLaneKeeps, PTL

-----------------------------------------------------------------------------
(***************************************************************************)
(* What each lane needs to keep its address: less than the two need to     *)
(* agree.                                                                  *)
(***************************************************************************)

\* React needs a user who waits and no Workshop item beyond the seeded ones.
ReactReopens == Patient /\ Pack.workshop \subseteq Seeded

\* Blazor needs an inspector wherever a row can be selected.
BlazorReopens ==
    /\ Inspector \in Pack.panels
    /\ Inspector \in Fallback.panels \/ Fallback.items \cap Seeded = {}

\* An item the navigation known so far, or the first address, accounts for.
ReactPlaced ==
    /\ reactAddress = Written(reactChrome)
    /\ nav \notin Arrived => reactFirst.item \/ reactChrome.item = Assets
    /\ nav \in Arrived => reactChrome.item \in Shown(nav).items \cup {Assets}

BlazorPlaced ==
    nav \in Arrived =>
        /\ blazorChrome.item \in Shown(nav).items \cup {Assets}
        /\ B!Restore(blazorAddress, nav).item = blazorChrome.item
        /\ B!Restore(blazorAddress, nav).selected = blazorChrome.selected

\* A place the declaration n admits is reopened from its address by Blazor,
\* whatever panels are open,
LEMMA BlazorReopensWritten ==
    ASSUME NEW c \in Chrome, NEW n \in Arrived, c.item \in Shown(n).items \cup {Assets},
           c.selected # None => c.item \in WorkshopItemIds(n)
    PROVE  /\ B!Restore(Written(c), n).item = c.item
           /\ B!Restore(Written(c), n).selected = c.selected
<1>1. Written(c).item = c.item /\ Written(c).selected = c.selected
  BY DEF Written, Chrome
<1> QED
  BY <1>1, SharedOperators DEF B!Restore

\* and by React when the seeded items contain the pack's.
LEMMA ReactReopensWritten ==
    ASSUME NEW c \in Chrome, NEW n \in Arrived, c.item \in Shown(n).items \cup {Assets},
           c.selected # None => c.item \in WorkshopItemIds(n),
           Pack.workshop \subseteq Seeded
    PROVE  R!Place(R!Corrected(R!Opened(Written(c)), R!FirstOf(Written(c)), n)) = R!Place(c)
<1> DEFINE a == Written(c)
           o == R!Opened(a)
<1>1. a.item = c.item /\ a.selected = c.selected
  BY DEF Written, Chrome
<1>2. c.item # None /\ (c.selected # None => c.item \in Seeded)
  BY NavigationOK DEF Chrome, WorkshopItemIds
<1>3. R!WorkshopItemIds("reading") = Seeded
  BY SharedOperators DEF WorkshopItemIds
<1>4. o.item = c.item /\ o.selected = c.selected
  BY <1>1, <1>2, <1>3, SharedOperators DEF R!Opened, R!Cleared, Or
<1>5. R!FirstOf(a).item
  BY <1>1, <1>2 DEF R!FirstOf
<1> HIDE DEF a, o
<1>6. /\ R!Corrected(o, R!FirstOf(a), n).item = c.item
      /\ R!Corrected(o, R!FirstOf(a), n).selected = c.selected
  BY <1>4, <1>5, SharedOperators DEF R!Corrected, R!Cleared
<1> QED
  BY <1>6 DEF R!Place, a, o

\* An address without an item opens the default one.
LEMMA OpenedItem ==
    ASSUME NEW a \in Address
    PROVE  a.item = None => R!Opened(a).item = Assets
BY SharedOperators DEF R!Opened, R!Cleared, Or

\* A render that leaves React at an item of the navigation.
LEMMA RenderedPlaced ==
    ASSUME NEW d \in Chrome, nav \in Arrived, R!Render(d, nav),
           d.item \in Shown(nav).items \cup {Assets}
    PROVE  ReactPlaced'
<1>1. /\ reactChrome' = R!Cleared(d, nav) /\ nav' = nav
      /\ reactAddress' = Written(reactChrome')
  BY SharedOperators DEF R!Render
<1>2. reactChrome'.item = d.item
  BY <1>1, ClearedType
<1> QED
  BY <1>1, <1>2 DEF ReactPlaced

LEMMA ReactStaysPlaced ==
    ASSUME Patient, ReactOK, ReactPlaced, served \in Arrived,
           \/ R!Arrive(served) \/ R!Fail \/ R!Retry
           \/ nav \in Arrived /\ R!Reload
           \/ \E item \in Items : nav \in Arrived /\ R!Navigate(item)
           \/ \E panel \in Panels : nav \in Arrived /\ R!TogglePanel(panel)
           \/ nav \in Arrived /\ R!OpenInspector
           \/ \E row \in Rows : nav \in Arrived /\ R!Inspect(row)
           \/ R!Restored
    PROVE  ReactPlaced'
<1>0. reactChrome \in Chrome /\ reactAddress \in Address /\ Inspector \in Panels
  BY ReactIs, NavigationOK
<1>1. CASE R!Arrive(served)
  <2>1. PICK d \in Chrome :
             /\ d.item \in Shown(served).items \cup {Assets}
             /\ R!Corrected(reactChrome, reactFirst, served) = R!Cleared(d, served)
    BY <1>0, <1>1, CorrectedType DEF ReactPlaced, R!Arrive, Arrived
  <2>2. /\ reactChrome' = R!Cleared(R!Cleared(d, served), served) /\ nav' = served
        /\ reactAddress' = Written(reactChrome')
    BY <1>1, <2>1, SharedOperators DEF R!Arrive, R!Render
  <2>3. reactChrome'.item = d.item
    BY <2>2, ClearedType
  <2> QED
    BY <2>1, <2>2, <2>3 DEF ReactPlaced
<1>2. CASE R!Fail \/ R!Retry
  BY <1>2 DEF R!Fail, R!Retry, ReactPlaced, Arrived
<1>3. CASE nav \in Arrived /\ R!Reload
  <2>1. /\ reactChrome' = R!Opened(reactAddress) /\ nav' = "reading"
        /\ reactFirst' = R!FirstOf(reactAddress) /\ reactAddress' = Written(reactChrome')
    BY <1>3, SharedOperators DEF R!Reload
  <2>2. reactFirst'.item \/ reactChrome'.item = Assets
    BY <1>0, <2>1, OpenedItem DEF R!FirstOf
  <2> QED
    BY <2>1, <2>2 DEF ReactPlaced, Arrived
<1>4. CASE \E item \in Items : nav \in Arrived /\ R!Navigate(item)
  <2> PICK item \in Items : nav \in Arrived /\ R!Navigate(item)
    BY <1>4
  <2> DEFINE d == [reactChrome EXCEPT !.item = item, !.selected = None]
  <2>1. d \in Chrome /\ d.item = item
    BY <1>0, ItemChanges
  <2>2. item \in Shown(nav).items /\ R!Render(d, nav)
    BY SharedOperators DEF R!Navigate
  <2> HIDE DEF d
  <2> QED
    BY <2>1, <2>2, RenderedPlaced
<1>5. CASE \E panel \in Panels : nav \in Arrived /\ R!TogglePanel(panel)
  <2> PICK panel \in Panels : nav \in Arrived /\ R!TogglePanel(panel)
    BY <1>5
  <2> DEFINE d == [reactChrome EXCEPT !.panels =
                      IF panel \in @ THEN @ \ {panel} ELSE @ \cup {panel}]
  <2>1. d \in Chrome /\ d.item = reactChrome.item
    BY <1>0, PanelChanges
  <2>2. R!Render(d, nav)
    BY DEF R!TogglePanel
  <2> HIDE DEF d
  <2> QED
    BY <2>1, <2>2, RenderedPlaced DEF ReactPlaced
<1>6. CASE nav \in Arrived /\ R!OpenInspector
  <2>1. R!WithInspector(reactChrome) \in Chrome
        /\ R!WithInspector(reactChrome).item = reactChrome.item
    BY <1>0, PanelChanges DEF R!WithInspector
  <2> QED
    BY <1>6, <2>1, RenderedPlaced DEF ReactPlaced, R!OpenInspector
<1>7. CASE \E row \in Rows : nav \in Arrived /\ R!Inspect(row)
  <2> PICK row \in Rows : nav \in Arrived /\ R!Inspect(row)
    BY <1>7
  <2> DEFINE c == [reactChrome EXCEPT !.selected = row]
             d == R!WithInspector(c)
  <2>1. c \in Chrome /\ c.item = reactChrome.item
    BY <1>0, RowChanges DEF Maybe
  <2>2. R!Render(d, nav)
    BY DEF R!Inspect
  <2> HIDE DEF c
  <2>3. d \in Chrome /\ d.item = reactChrome.item
    BY <1>0, <2>1, PanelChanges DEF R!WithInspector
  <2> HIDE DEF d
  <2> QED
    BY <2>2, <2>3, RenderedPlaced DEF ReactPlaced
<1>8. CASE R!Restored
  BY <1>8 DEF R!Restored, ReactPlaced
<1> QED
  BY <1>1, <1>2, <1>3, <1>4, <1>5, <1>6, <1>7, <1>8

\* A written place of Blazor stays placed.
LEMMA BlazorWrites ==
    ASSUME NEW d \in Chrome, nav' \in Arrived, blazorChrome' = d,
           blazorAddress' = Written(blazorChrome'),
           d.item \in Shown(nav').items \cup {Assets},
           d.selected # None => d.item \in WorkshopItemIds(nav')
    PROVE  BlazorPlaced'
<1>1. /\ B!Restore(Written(d), nav').item = d.item
      /\ B!Restore(Written(d), nav').selected = d.selected
  BY BlazorReopensWritten
<1> QED
  BY <1>1 DEF BlazorPlaced

\* Opening the inspector on chrome c leaves Blazor placed: an address that is
\* not written is one of an unchanged place.
LEMMA BlazorShows ==
    ASSUME BlazorReopens, BlazorPlaced, nav \in Arrived, nav' = nav, NEW c \in Chrome,
           B!ShowInspector(c), c.item = blazorChrome.item,
           c.selected # None => c.item \in WorkshopItemIds(nav),
           c.selected = blazorChrome.selected \/ c.item \in WorkshopItemIds(nav)
    PROVE  BlazorPlaced'
<1>1. CASE Inspector \in Shown(nav).panels
  <2> DEFINE d == [c EXCEPT !.panels = @ \cup {Inspector}]
  <2>1. d \in Chrome /\ d.selected = c.selected /\ d.item = c.item
    BY NavigationOK, PanelChanges
  <2>2. blazorChrome' = d /\ blazorAddress' = Written(blazorChrome')
    BY <1>1, SharedOperators DEF B!ShowInspector, B!ReplaceAddress
  <2> HIDE DEF d
  <2> QED
    BY <2>1, <2>2, BlazorWrites DEF BlazorPlaced
<1>2. CASE Inspector \notin Shown(nav).panels
  <2>1. blazorChrome' = c /\ blazorAddress' = blazorAddress
    BY <1>2, SharedOperators DEF B!ShowInspector
  <2>2. c.selected = blazorChrome.selected
    BY <1>2, NavigationOK DEF BlazorReopens, BlazorPlaced, Arrived, Shown, WorkshopItemIds
  <2> QED
    BY <2>1, <2>2 DEF BlazorPlaced
<1> QED
  BY <1>1, <1>2

LEMMA BlazorStaysPlaced ==
    ASSUME BlazorReopens, BlazorOK, BlazorPlaced, served \in Arrived,
           \/ B!Arrive(served) \/ B!Fail \/ B!Retry \/ B!Reload
           \/ \E item \in Items : B!Navigate(item)
           \/ \E panel \in Panels : B!TogglePanel(panel)
           \/ B!OpenInspector
           \/ \E row \in Rows : B!Inspect(row)
           \/ B!Restored
    PROVE  BlazorPlaced'
<1>0. /\ blazorChrome \in Chrome /\ blazorAddress \in Address
      /\ blazorChrome.selected # None => blazorChrome.item \in WorkshopItemIds(nav)
  BY BlazorIs
<1>1. CASE B!Arrive(served)
  <2>1. /\ blazorChrome' = B!Restore(blazorAddress, served) /\ nav' = served
        /\ blazorAddress' = blazorAddress \/ blazorAddress' = Written(blazorChrome')
    BY <1>1, SharedOperators DEF B!Arrive, B!ReplaceAddress
  <2>2. Settled(blazorChrome', served)
    BY <1>0, <2>1, RestoreSettles
  <2>3. CASE blazorAddress' = blazorAddress
    BY <2>1, <2>2, <2>3 DEF Settled, BlazorPlaced
  <2>4. CASE blazorAddress' = Written(blazorChrome')
    BY <2>1, <2>2, <2>4, BlazorWrites DEF Settled
  <2> QED
    BY <2>1, <2>3, <2>4
<1>2. CASE nav \notin Arrived /\ nav' = nav
  BY <1>2 DEF BlazorPlaced
<1>3. CASE B!Fail \/ B!Retry \/ B!Reload
  BY <1>3 DEF B!Fail, B!Retry, B!Reload, BlazorPlaced, Arrived
<1>4. CASE nav \in Arrived /\ \E item \in Items : B!Navigate(item)
  <2> PICK item \in Items : B!Navigate(item)
    BY <1>4
  <2> DEFINE c == [blazorChrome EXCEPT !.item = item, !.selected = None]
  <2>1. c \in Chrome /\ c.selected = None /\ c.item = item
    BY <1>0, ItemChanges
  <2>2. /\ blazorChrome' = c /\ nav' = nav /\ item \in Shown(nav).items
        /\ blazorAddress' = Written(blazorChrome')
    BY SharedOperators DEF B!Navigate, B!ReplaceAddress
  <2> HIDE DEF c
  <2> QED
    BY <1>4, <2>1, <2>2, BlazorWrites
<1>5. CASE nav \in Arrived /\ \E panel \in Panels : B!TogglePanel(panel)
  <2> PICK panel \in Panels : B!TogglePanel(panel)
    BY <1>5
  <2> DEFINE c == [blazorChrome EXCEPT !.panels =
                      IF panel \in @ THEN @ \ {panel} ELSE @ \cup {panel}]
  <2>1. c \in Chrome /\ c.selected = blazorChrome.selected /\ c.item = blazorChrome.item
    BY <1>0, PanelChanges
  <2>2. blazorChrome' = c /\ nav' = nav /\ blazorAddress' = Written(blazorChrome')
    BY SharedOperators DEF B!TogglePanel, B!ReplaceAddress
  <2> HIDE DEF c
  <2> QED
    BY <1>0, <1>5, <2>1, <2>2, BlazorWrites DEF BlazorPlaced
<1>6. CASE nav \in Arrived /\ B!OpenInspector
  BY <1>0, <1>6, BlazorShows DEF B!OpenInspector
<1>7. CASE nav \in Arrived /\ \E row \in Rows : B!Inspect(row)
  <2> PICK row \in Rows : B!Inspect(row)
    BY <1>7
  <2> DEFINE c == [blazorChrome EXCEPT !.selected = row]
  <2>1. c \in Chrome /\ c.selected = row /\ c.item = blazorChrome.item
    BY <1>0, RowChanges DEF Maybe
  <2>2. B!ShowInspector(c) /\ nav' = nav /\ blazorChrome.item \in WorkshopItemIds(nav)
    BY SharedOperators DEF B!Inspect
  <2> HIDE DEF c
  <2> QED
    BY <1>7, <2>1, <2>2, BlazorShows
<1>8. CASE B!Restored
  BY <1>8 DEF B!Restored, BlazorPlaced
<1>9. ASSUME nav \notin Arrived,
             \/ \E item \in Items : B!Navigate(item)
             \/ \E panel \in Panels : B!TogglePanel(panel)
             \/ B!OpenInspector
             \/ \E row \in Rows : B!Inspect(row)
      PROVE  nav' = nav
  BY <1>9 DEF B!Navigate, B!TogglePanel, B!OpenInspector, B!Inspect
<1> QED
  BY <1>1, <1>2, <1>3, <1>4, <1>5, <1>6, <1>7, <1>8, <1>9

\* In each lane the address the browser shows leads back to the item and the
\* row the user is at, when the user waits, no Workshop item of the pack is
\* beyond the seeded ones and an inspector is declared wherever there are rows.
THEOREM AddressesAlwaysKeepPlace ==
    ASSUME ReactReopens, BlazorReopens
    PROVE  Spec => []AddressesKeepPlace
<1> DEFINE Inv == ReactPlaced /\ BlazorPlaced
           Typed == ReactOK /\ BlazorOK /\ served \in Arrived
<1>1. Init => Inv
  <2> SUFFICES ASSUME Init PROVE Inv
    OBVIOUS
  <2>1. PICK a \in Address : R!OpenAt(a) /\ B!OpenAt(a)
    BY DEF Init
  <2>2. /\ reactChrome = R!Opened(a) /\ nav = "reading"
        /\ reactFirst = R!FirstOf(a) /\ reactAddress = Written(reactChrome)
    BY <2>1, SharedOperators DEF R!OpenAt
  <2>3. reactFirst.item \/ reactChrome.item = Assets
    BY <2>2, OpenedItem DEF R!FirstOf
  <2> QED
    BY <2>2, <2>3 DEF ReactPlaced, BlazorPlaced, Arrived
<1>2. Typed /\ Inv /\ [Next]_vars => Inv'
  <2> SUFFICES ASSUME Typed, Inv, [Next]_vars PROVE Inv'
    OBVIOUS
  <2>0. Patient /\ BlazorReopens
    BY DEF ReactReopens
  <2>1. CASE UNCHANGED vars
    <3>1. UNCHANGED <<react, blazor, nav, served>>
      BY <2>1 DEF vars
    <3> QED
      BY <3>1 DEF react, blazor, ReactPlaced, BlazorPlaced
  <2>2. CASE ReactRestored
    <3>1. R!Restored /\ UNCHANGED <<blazor, nav, served>>
      BY <2>2 DEF ReactRestored, R!Restored
    <3>2. ReactPlaced'
      BY <2>0, <3>1, ReactStaysPlaced
    <3>3. BlazorPlaced'
      BY <3>1 DEF blazor, BlazorPlaced
    <3> QED
      BY <3>2, <3>3
  <2>3. CASE BlazorRestored
    <3>1. B!Restored /\ UNCHANGED <<react, nav, served>>
      BY <2>3 DEF BlazorRestored, B!Restored
    <3>2. BlazorPlaced'
      BY <2>0, <3>1, BlazorStaysPlaced
    <3>3. ReactPlaced'
      BY <3>1 DEF react, ReactPlaced
    <3> QED
      BY <3>2, <3>3
  <2>4. CASE Arrive \/ Fail \/ Retry \/ Reload
    <3>1. ReactPlaced'
      BY <2>0, <2>4, ReactStaysPlaced DEF Arrive, Fail, Retry, Reload, Admitted
    <3>2. BlazorPlaced'
      BY <2>0, <2>4, BlazorStaysPlaced DEF Arrive, Fail, Retry, Reload
    <3> QED
      BY <3>1, <3>2
  <2>5. CASE OpenInspector
    <3>1. ReactPlaced'
      BY <2>0, <2>5, ReactStaysPlaced DEF OpenInspector, Admitted
    <3>2. BlazorPlaced'
      BY <2>0, <2>5, BlazorStaysPlaced DEF OpenInspector
    <3> QED
      BY <3>1, <3>2
  <2>6. CASE \E item \in Items : Navigate(item)
    <3> PICK item \in Items : Navigate(item)
      BY <2>6
    <3>1. nav \in Arrived /\ R!Navigate(item) /\ B!Navigate(item)
      BY <2>0 DEF Navigate, Admitted
    <3>2. ReactPlaced'
      BY <2>0, <3>1, ReactStaysPlaced
    <3>3. BlazorPlaced'
      BY <2>0, <3>1, BlazorStaysPlaced
    <3> QED
      BY <3>2, <3>3
  <2>7. CASE \E panel \in Panels : TogglePanel(panel)
    <3> PICK panel \in Panels : TogglePanel(panel)
      BY <2>7
    <3>1. nav \in Arrived /\ R!TogglePanel(panel) /\ B!TogglePanel(panel)
      BY <2>0 DEF TogglePanel, Admitted
    <3>2. ReactPlaced'
      BY <2>0, <3>1, ReactStaysPlaced
    <3>3. BlazorPlaced'
      BY <2>0, <3>1, BlazorStaysPlaced
    <3> QED
      BY <3>2, <3>3
  <2>8. CASE \E row \in Rows : Inspect(row)
    <3> PICK row \in Rows : Inspect(row)
      BY <2>8
    <3>1. nav \in Arrived /\ R!Inspect(row) /\ B!Inspect(row)
      BY <2>0 DEF Inspect, Admitted
    <3>2. ReactPlaced'
      BY <2>0, <3>1, ReactStaysPlaced
    <3>3. BlazorPlaced'
      BY <2>0, <3>1, BlazorStaysPlaced
    <3> QED
      BY <3>2, <3>3
  <2> QED
    BY <2>1, <2>2, <2>3, <2>4, <2>5, <2>6, <2>7, <2>8 DEF Next
<1>3. Typed /\ Inv => AddressesKeepPlace
  <2> SUFFICES ASSUME Typed, Inv, nav \in Arrived PROVE AddressesKeepPlace
    BY SharedOperators DEF AddressesKeepPlace, R!AddressKeepsPlace, B!AddressKeepsPlace
  <2>1. R!Place(R!Corrected(R!Opened(reactAddress), R!FirstOf(reactAddress), nav))
          = R!Place(reactChrome)
    BY ReactIs, ReactReopensWritten DEF ReactPlaced, ReactReopens
  <2>2. B!Place(B!Restore(blazorAddress, nav)) = B!Place(blazorChrome)
    BY DEF BlazorPlaced, B!Place
  <2> QED
    BY <2>1, <2>2 DEF AddressesKeepPlace, R!AddressKeepsPlace, B!AddressKeepsPlace
<1> QED
  BY <1>1, <1>2, <1>3, EachLaneKeeps, PTL DEF Spec

=============================================================================
