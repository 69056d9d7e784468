--------------------------- MODULE ShellNavigation ---------------------------
(***************************************************************************)
(* What the two application shells have in common: the navigation an       *)
(* active pack declares, the navigation they show without one, and the     *)
(* address that reopens a place.                                           *)
(***************************************************************************)
EXTENDS Naturals

CONSTANTS
    Items,      \* navigation items, declared or only named by an address
    Assets,     \* the item shown when nothing else can be
    Rows,       \* row identities
    Panels,     \* panels, declared or only named by an address
    Inspector,  \* the panel that follows the selection
    Seeded,     \* the Workshop items known without a declaration
    Pack,       \* the active pack's declaration
    Fallback,   \* the navigation of a node without a configured pack
    None        \* an absent value or parameter

Maybe(S) == S \cup {None}

Declaration ==
    { d \in [items : SUBSET Items, workshop : SUBSET Items,
             panels : SUBSET Panels, open : SUBSET Panels] :
        d.workshop \subseteq d.items /\ d.open \subseteq d.panels }

ASSUME NavigationOK ==
    /\ Assets \in Items /\ Inspector \in Panels /\ Seeded \subseteq Items
    /\ Pack \in Declaration
    /\ Fallback \in Declaration /\ Assets \in Fallback.items
    /\ None \notin Items /\ None \notin Rows /\ \A open \in SUBSET Panels : None # open

\* The declaration is being read, could not be read, or arrived; a node
\* without a configured pack answers with none.
Arrived == {"pack", "fallback"}
Navigation == {"reading", "failed"} \cup Arrived

Shown(nav) == IF nav = "pack" THEN Pack ELSE Fallback

WorkshopItemIds(nav) == IF nav = "pack" THEN Pack.workshop ELSE Seeded

\* What the shell shows, and what an address says of it.
Chrome  == [item : Items, selected : Maybe(Rows), panels : SUBSET Panels]
Address == [item : Maybe(Items), selected : Maybe(Rows), panels : Maybe(SUBSET Panels)]

\* The address of a place: without panels there is no panels parameter.
Written(chrome) ==
    [chrome EXCEPT !.panels = IF chrome.panels = {} THEN None ELSE chrome.panels]

Or(value, default) == IF value = None THEN default ELSE value

=============================================================================
