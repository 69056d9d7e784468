----------------------------- MODULE MCShellLanes -----------------------------
(***************************************************************************)
(* A pack that declares the default item, a Workshop list, an item of      *)
(* another workspace and two panels, one open by default; and an address   *)
(* that may name any of them or things no declaration knows.               *)
(***************************************************************************)
EXTENDS ShellLanes

CONSTANTS assets, report, forms, fourteenth, ghost, inspector, pilot, lost, r1, r2

MCItems == {assets, report, forms, fourteenth, ghost}
MCRows == {r1, r2}
MCPanels == {inspector, pilot, lost}
MCSeeded == {forms}

\* The navigation both shells are built with.
MCFallback == [items |-> {assets, report}, workshop |-> {}, panels |-> {pilot}, open |-> {}]

\* A pack that declares only seeded Workshop items.
MCPack == [items |-> {assets, forms}, workshop |-> {forms},
           panels |-> {inspector, pilot}, open |-> {pilot}]

\* A pack that declares one more.
MCWiderPack == [items |-> {assets, forms, fourteenth}, workshop |-> {forms, fourteenth},
                panels |-> {inspector, pilot}, open |-> {pilot}]

\* A pack that declares no inspector.
MCBarePack == [items |-> {assets, forms}, workshop |-> {forms},
               panels |-> {pilot}, open |-> {}]

=============================================================================
