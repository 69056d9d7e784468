--------------------------- MODULE Administration ---------------------------
(***************************************************************************)
(* The administration part of the React application.  App.tsx shows the    *)
(* page of the active item and no other, so that the pages over the two    *)
(* services replace each other; what one left under way goes on while the  *)
(* other is shown, and the service it finds on return is not the one it    *)
(* left.                                                                   *)
(***************************************************************************)
EXTENDS AuthorizationPages

CONSTANTS MaxVersions, MaxActs, MaxVisits       \* bounds

VARIABLES change, surface, stage, proposed, busy, asked, acts, visits

configuration == <<change, surface, stage, proposed, busy, asked, acts>>
all == <<vars, configuration, visits>>

C == INSTANCE ConfigurationPages

ASSUME AbsentAssumption == None \notin C!Surfaces /\ None \notin C!Change

\* The application starts at any item.
AppInit ==
    /\ Init
    /\ C!Init
    /\ page = None \/ surface = None
    /\ visits = 0

\* The shell makes an item active: both pages change in one render.
Navigate(p, q) ==
    /\ p = None \/ q = None
    /\ <<p, q>> # <<page, surface>>
    /\ visits < MaxVisits
    /\ visits' = visits + 1
    /\ Mount(p)
    /\ C!Visit(q)

AuthorizationStep == Step /\ UNCHANGED <<configuration, visits>>
ConfigurationStep == C!Step /\ UNCHANGED <<vars, visits>>

AppNext ==
    \/ AuthorizationStep
    \/ ConfigurationStep
    \/ \E p \in Maybe(Pages), q \in Maybe(C!Surfaces) : Navigate(p, q)

AppSpec == AppInit /\ [][AppNext]_all

\* Every call of a client ends in an answer or an error, whatever else is under
\* way; nothing else is fair.
AppFairness ==
    /\ \A s \in Slots : WF_all(SettleRead(s) /\ UNCHANGED <<configuration, visits>>)
    /\ \A d \in Definitions :
          WF_all(SettleNarrowing(d) /\ UNCHANGED <<configuration, visits>>)
    /\ WF_all(C!Settle /\ UNCHANGED <<vars, visits>>)

FairAppSpec == AppSpec /\ AppFairness

-----------------------------------------------------------------------------
(***************************************************************************)
(* Properties of the pages of both services.                               *)
(***************************************************************************)

AppTypeOK == TypeOK /\ C!TypeOK /\ visits \in Nat

\* Whatever page is shown shows a state its service has or had: what was left
\* under way, lost, refused or made by others never makes a page claim roles
\* that are gone, versions that are not there or releases that did not happen
\* (onSaved; the 422 that send reads as an answer).
AppShowsPast == ShownIsPast /\ C!ProposalIsPast

\* A step takes no page that stays mounted back to an earlier state of its service.
GoesForward ==
    /\ \A d \in Definitions :
          shown[d] # None /\ shown'[d] # None
              => shown'[d].revision >= shown[d].revision
    /\ proposed # None /\ proposed' # None
          => /\ proposed'.versions >= proposed.versions
             /\ proposed.released \subseteq proposed'.released

\* No answer undoes what the page shows of an earlier one: one narrowing of a
\* definition, and one act on the change, is awaited at a time (submitting; busy).
AppNeverGoesBack == [][GoesForward]_all

\* Nothing stays locked or loading, on a page that stays or on one that was
\* left and mounted again (the catch and finally of each handler).
AppSettles ==
    /\ PagesSettle
    /\ stage = "loading" ~> stage # "loading"
    /\ busy ~> ~busy

=============================================================================
