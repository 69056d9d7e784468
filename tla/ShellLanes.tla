------------------------------ MODULE ShellLanes ------------------------------
(***************************************************************************)
(* One user, two lanes: the React and the Blazor shell opened at the same  *)
(* address, given the same navigation and taken through the same steps.    *)
(* Each source says that the two mirror each other; this composition says  *)
(* what that means, and ReactShell and BlazorShell say what they do.       *)
(***************************************************************************)
EXTENDS ShellNavigation

CONSTANT
    Patient     \* whether the user waits for the navigation before acting

VARIABLES
    reactChrome, reactInspected, reactFirst, reactAddress,
    blazorChrome, blazorInspected, blazorAddress,
    nav,        \* the same answer at the same time in both lanes
    served      \* what the node answers, the same at every reload

react  == <<reactChrome, reactInspected, reactFirst, reactAddress>>
blazor == <<blazorChrome, blazorInspected, blazorAddress>>
vars   == <<react, blazor, nav, served>>

R == INSTANCE ReactShell WITH
        chrome <- reactChrome, inspected <- reactInspected,
        first <- reactFirst, address <- reactAddress

B == INSTANCE BlazorShell WITH
        chrome <- blazorChrome, inspected <- blazorInspected,
        address <- blazorAddress

TypeOK == R!TypeOK /\ B!TypeOK /\ served \in Arrived

Init ==
    /\ \E a \in Address : R!OpenAt(a) /\ B!OpenAt(a)
    /\ served \in Arrived

\* The navigation service answers, fails or is asked again.
Arrive == R!Arrive(served) /\ B!Arrive(served) /\ UNCHANGED served
Fail   == R!Fail /\ B!Fail /\ UNCHANGED served
Retry  == R!Retry /\ B!Retry /\ UNCHANGED served

\* A user who waits acts once the navigation has arrived.
Admitted == (Patient => nav \in Arrived) /\ UNCHANGED served

Reload             == Admitted /\ R!Reload /\ B!Reload
Navigate(item)     == Admitted /\ R!Navigate(item) /\ B!Navigate(item)
TogglePanel(panel) == Admitted /\ R!TogglePanel(panel) /\ B!TogglePanel(panel)
OpenInspector      == Admitted /\ R!OpenInspector /\ B!OpenInspector
Inspect(row)       == Admitted /\ R!Inspect(row) /\ B!Inspect(row)

\* Each lane's list page reports the restored row when it has loaded it.
ReactRestored  == R!Restored /\ UNCHANGED <<blazor, served>>
BlazorRestored == B!Restored /\ UNCHANGED <<react, served>>

Next ==
    \/ Arrive \/ Fail \/ Retry \/ Reload
    \/ \E item \in Items : Navigate(item)
    \/ \E panel \in Panels : TogglePanel(panel)
    \/ OpenInspector
    \/ \E row \in Rows : Inspect(row)
    \/ ReactRestored \/ BlazorRestored

Spec == Init /\ [][Next]_vars

-----------------------------------------------------------------------------

\* With the navigation known, both lanes show the same item, the same selected
\* row and the same panels ("when they disagree, one of them is wrong").
LanesAgree == nav \in Arrived => reactChrome = blazorChrome

\* In each lane the address leads back to where the user is.
AddressesKeepPlace == R!AddressKeepsPlace /\ B!AddressKeepsPlace

\* In each lane the inspector and the selection belong to the list shown.
InspectorsFollow == R!InspectorFollows /\ B!InspectorFollows

=============================================================================
