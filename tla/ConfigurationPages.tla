------------------------- MODULE ConfigurationPages -------------------------
(***************************************************************************)
(* The React pages over the configuration service: the effective           *)
(* generation (ConfigurationActivationPage.tsx), read once, and a proposed *)
(* change (ConfigurationProposalPage.tsx), read, saved as a version and    *)
(* released.  The service is external; of a proposal the page tells apart  *)
(* whether it has edits, how many versions were saved, whether the check   *)
(* of the last one is current, and which versions were released.           *)
(***************************************************************************)
EXTENDS Naturals

CONSTANTS
    None,
    MaxVersions, MaxActs    \* bounds

VARIABLES
    change,     \* the proposed change at the service
    surface,    \* the page that is mounted, or None
    stage,      \* whether it loads, shows or shows an error
    proposed,   \* the change on the page
    busy,
    asked,      \* the calls that are not answered yet
    acts        \* the acts sent so far

vars == <<change, surface, stage, proposed, busy, asked, acts>>

Maybe(S) == {None} \cup S

Surfaces == {"activation", "proposal"}

Change == [edited : BOOLEAN, versions : Nat, checked : BOOLEAN, released : SUBSET Nat]

Call == [id : Nat, act : {"read", "save", "release"}, ordinal : Nat,
         live : BOOLEAN, result : Maybe(Change)]

TypeOK ==
    /\ change \in Change
    /\ surface \in Maybe(Surfaces)
    /\ stage \in {"away", "loading", "ready", "failed"}
    /\ (stage = "away") = (surface = None)
    /\ proposed \in Maybe(Change)
    /\ busy \in BOOLEAN
    /\ asked \subseteq Call
    /\ acts \in Nat

CallOf(id, act, ordinal) ==
    [id |-> id, act |-> act, ordinal |-> ordinal, live |-> TRUE, result |-> None]

FirstCalls(p) == IF p = None THEN {} ELSE {CallOf(0, "read", 0)}

Init ==
    /\ change = [edited |-> FALSE, versions |-> 0, checked |-> FALSE, released |-> {}]
    /\ surface \in Maybe(Surfaces)
    /\ stage = IF surface = None THEN "away" ELSE "loading"
    /\ proposed = None
    /\ busy = FALSE
    /\ asked = FirstCalls(surface)
    /\ acts = 0

\* The calls of a page that is gone: its read is aborted; an act is not, and one
\* the service has not seen yet may still reach it.
Abandoned ==
    {[c EXCEPT !.live = FALSE] :
       c \in {e \in asked : e.act # "read" /\ e.result = None}}

\* The shell mounts a page.
Visit(p) ==
    /\ surface' = p
    /\ stage' = IF p = None THEN "away" ELSE "loading"
    /\ proposed' = None
    /\ busy' = FALSE
    /\ asked' = FirstCalls(p) \cup Abandoned
    /\ UNCHANGED <<change, acts>>

-----------------------------------------------------------------------------
\* The buttons are there and enabled.
Usable == surface = "proposal" /\ stage = "ready" /\ ~busy

Act(act, ordinal) ==
    /\ acts < MaxActs
    /\ acts' = acts + 1
    /\ busy' = TRUE
    /\ asked' = asked \cup {CallOf(acts', act, ordinal)}
    /\ UNCHANGED <<change, surface, stage, proposed>>

Save == Usable /\ proposed.edited /\ Act("save", 0)

\* What is released is the last version the page has seen.
Release ==
    /\ Usable
    /\ proposed.versions > 0
    /\ proposed.checked
    /\ Act("release", proposed.versions)

Saved == [change EXCEPT !.versions = @ + 1]
Released(ordinal) == [change EXCEPT !.released = @ \cup {ordinal}]

\* The service takes the call, or refuses it: a refusal (422) is an answer too
\* and carries the change as it is.
Serve(c) ==
    /\ c.result = None
    /\ \/ UNCHANGED change
       \/ c.act = "save" /\ change.versions < MaxVersions /\ change' = Saved
       \/ c.act = "release" /\ c.ordinal <= change.versions /\ change' = Released(c.ordinal)
    /\ asked' = (asked \ {c}) \cup
          IF c.live THEN {[c EXCEPT !.result = change']} ELSE {}
    /\ UNCHANGED <<surface, stage, proposed, busy, acts>>

\* An answer to the read or to an act: the page shows what it says.
Finish(c) ==
    /\ c.live
    /\ c.result # None
    /\ stage' = IF c.act = "read" THEN "ready" ELSE stage
    /\ proposed' = IF surface = "proposal" THEN c.result ELSE None
    /\ busy' = IF c.act = "read" THEN busy ELSE FALSE
    /\ asked' = asked \ {c}
    /\ UNCHANGED <<change, surface, acts>>

\* Any other failure replaces the page by its message; an act may have been,
\* or may yet be, made.
Fail(c) ==
    /\ c.live
    /\ stage' = "failed"
    /\ busy' = IF c.act = "read" THEN busy ELSE FALSE
    /\ asked' = (asked \ {c}) \cup
          IF c.act # "read" /\ c.result = None THEN {[c EXCEPT !.live = FALSE]} ELSE {}
    /\ UNCHANGED <<change, surface, proposed, acts>>

\* External: another author edits, has the working state checked, or saves.
\* While the page is away the service may wait: what is done meanwhile is the
\* same to the page as what is done just before its read is served.
OtherAuthor ==
    /\ surface = "proposal"
    /\ \/ change' = [change EXCEPT !.edited = TRUE, !.checked = FALSE]
       \/ change' = [change EXCEPT !.checked = TRUE]
       \/ change.edited /\ change.versions < MaxVersions /\ change' = Saved
    /\ UNCHANGED <<surface, stage, proposed, busy, asked, acts>>

Settle ==
    \E c \in asked : Finish(c) \/ Fail(c)

Step ==
    \/ Save \/ Release \/ OtherAuthor \/ Settle
    \/ \E c \in asked : Serve(c)

-----------------------------------------------------------------------------
(***************************************************************************)
(* Properties.                                                             *)
(***************************************************************************)

\* The page shows no version and no release the service does not have: a
\* refused release does not present itself as a release (send reads a 422).
ProposalIsPast ==
    proposed # None =>
        proposed.versions <= change.versions /\ proposed.released \subseteq change.released

=============================================================================
