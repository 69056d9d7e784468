------------------------- MODULE AuthorizationPages -------------------------
(***************************************************************************)
(* The React pages over the authorization service: the access holders      *)
(* (AccessHoldersPage.tsx) and the capability bindings with an editor for  *)
(* each definition (AuthorizationAdminPage.tsx, CapabilityBindingEditor).  *)
(*                                                                         *)
(* A page that is left aborts its reads and answers to them go nowhere;    *)
(* a narrowing is not aborted and still takes effect.  A call is sent,     *)
(* served, and answered at three different times, and other administrators *)
(* narrow the same bindings in between.                                    *)
(***************************************************************************)
EXTENDS AuthorizationService

CONSTANTS MaxRevision, MaxSent      \* bounds

VARIABLES
    binding,    \* the service's binding of each definition
    page,       \* the page that is mounted, or None
    phase,      \* whether it loads, shows or failed to load
    shown,      \* the binding of each row of the page (definitions)
    editor,     \* each row's editor
    refusal,    \* refusalId, of the page and of each editor
    trace,      \* the trace mounted under each refusal
    reads,      \* the reads the mounted page awaits
    narrowings, \* the narrowings that are not answered yet
    sent        \* the narrowings sent so far

vars == <<binding, page, phase, shown, editor, refusal, trace, reads,
          narrowings, sent>>

Pages == {"holders", "authorization"}
Slots == Definitions \cup {"page"}

ASSUME PagesAssumption == None \notin Pages

Editor == [selected : SUBSET Roles, pending : Maybe(SUBSET Roles),
           submitting : BOOLEAN]

Read == [kind : {"holders", "lists", "binding", "trace"}, slot : Slots,
         audit : Maybe(Audits), result : Maybe(Binding)]

Narrowing == [id : Nat, of : Definitions, roles : SUBSET Roles, live : BOOLEAN,
              status : {"sent", "accepted", "refused"},
              result : Maybe(Binding), audit : Maybe(Audits)]

TypeOK ==
    /\ binding \in [Definitions -> Binding]
    /\ page \in Maybe(Pages)
    /\ phase \in {"away", "loading", "ready", "failed"}
    /\ (phase = "away") = (page = None)
    /\ shown \in [Definitions -> Maybe(Binding)]
    /\ editor \in [Definitions -> Editor]
    /\ refusal \in [Slots -> Maybe(Audits)]
    /\ trace \in [Slots -> Trace]
    /\ reads \subseteq Read
    /\ narrowings \subseteq Narrowing
    /\ sent \in Nat

ReadOf(kind, slot, audit) ==
    [kind |-> kind, slot |-> slot, audit |-> audit, result |-> None]

FirstReads(p) ==
    IF p = "holders" THEN {ReadOf("holders", "page", None)}
    ELSE IF p = "authorization" THEN {ReadOf("lists", "page", None)}
    ELSE {}

FreshEditor(roles) == [selected |-> roles, pending |-> None, submitting |-> FALSE]

NoRows == [d \in Definitions |-> None]
NoEditors == [d \in Definitions |-> FreshEditor({})]

Init ==
    /\ binding = [d \in Definitions |-> [revision |-> 0, roles |-> Offered[d]]]
    /\ page \in Maybe(Pages)
    /\ phase = IF page = None THEN "away" ELSE "loading"
    /\ shown = NoRows
    /\ editor = NoEditors
    /\ refusal = [s \in Slots |-> None]
    /\ trace = [s \in Slots |-> Unread]
    /\ reads = FirstReads(page)
    /\ narrowings = {}
    /\ sent = 0

-----------------------------------------------------------------------------
(***************************************************************************)
(* Mounting, leaving and loading.  A definition whose name ends in Mutant  *)
(* is a plausible slip in the definition after it; no action uses one.     *)
(***************************************************************************)

\* The narrowings of a page that is gone: those the service has not seen yet
\* may still reach it.
Abandoned ==
    {[n EXCEPT !.live = FALSE] : n \in {m \in narrowings : m.status = "sent"}}

\* The shell mounts another page, or the same page's effect runs again.
Mount(p) ==
    /\ page' = p
    /\ phase' = IF p = None THEN "away" ELSE "loading"
    /\ shown' = NoRows
    /\ editor' = NoEditors
    /\ refusal' = [s \in Slots |-> None]
    /\ trace' = [s \in Slots |-> Unread]
    /\ reads' = FirstReads(p)
    /\ narrowings' = Abandoned
    /\ UNCHANGED <<binding, sent>>

\* Only the error view has the button; it shows no editors.
Retry == phase = "failed" /\ Mount(page)

FinishHolders(r) ==
    /\ r.kind = "holders"
    /\ phase' = "ready"
    /\ reads' = reads \ {r}
    /\ UNCHANGED <<binding, page, shown, editor, refusal, trace, narrowings, sent>>

\* The three lists arrived; each definition's binding is then read by itself.
FinishLists(r) ==
    /\ r.kind = "lists"
    /\ reads' = {ReadOf("binding", d, None) : d \in Definitions}
    /\ UNCHANGED <<binding, page, phase, shown, editor, refusal, trace,
                   narrowings, sent>>

ServeBinding(r) ==
    /\ r.kind = "binding"
    /\ r.result = None
    /\ reads' = (reads \ {r}) \cup {[r EXCEPT !.result = binding[r.slot]]}
    /\ UNCHANGED <<binding, page, phase, shown, editor, refusal, trace,
                   narrowings, sent>>

\* The page shows its rows when it has every binding.
FinishBinding(r) ==
    /\ r.kind = "binding"
    /\ r.result # None
    /\ reads' = reads \ {r}
    /\ shown' = [shown EXCEPT ![r.slot] = r.result]
    /\ IF \E d \in Definitions : shown'[d] = None
         THEN UNCHANGED <<phase, editor>>
         ELSE /\ phase' = "ready"
              /\ editor' = [d \in Definitions |-> FreshEditor(shown'[d].roles)]
    /\ UNCHANGED <<binding, page, refusal, trace, narrowings, sent>>

\* One of the page's reads failed: the others no longer count.  The error has
\* the identity of the refusal if the service recorded one.
FailLoad(r) ==
    /\ r.kind \in {"holders", "lists", "binding"}
    /\ phase' = "failed"
    /\ shown' = NoRows
    /\ reads' = {}
    /\ \E a \in Maybe(Audits) : refusal' = [refusal EXCEPT !["page"] = a]
    /\ UNCHANGED <<binding, page, editor, trace, narrowings, sent>>

-----------------------------------------------------------------------------
(***************************************************************************)
(* The trace of a refusal.                                                 *)
(***************************************************************************)

OpenTrace(s) ==
    /\ refusal[s] # None
    /\ Readable(trace[s])
    /\ trace' = [trace EXCEPT ![s] = [status |-> "loading", of |-> None]]
    /\ reads' = reads \cup {ReadOf("trace", s, refusal[s])}
    /\ UNCHANGED <<binding, page, phase, shown, editor, refusal, narrowings, sent>>

\* What is recorded, that nothing is, or that it cannot be told is all "told".
FinishTrace(r) ==
    /\ r.kind = "trace"
    /\ \E status \in {"told", "failed"} :
          trace' = [trace EXCEPT ![r.slot] = [status |-> status, of |-> r.audit]]
    /\ reads' = reads \ {r}
    /\ UNCHANGED <<binding, page, phase, shown, editor, refusal, narrowings, sent>>

TraceReads(s) == {r \in reads : r.kind = "trace" /\ r.slot = s}

-----------------------------------------------------------------------------
(***************************************************************************)
(* The editor of one definition.                                           *)
(***************************************************************************)

Editing(d) == page = "authorization" /\ phase = "ready" /\ ~editor[d].submitting

\* What would be kept: only effective roles can be.
SelectedRoles(d) == shown[d].roles \cap editor[d].selected

Toggle(d, role) ==
    /\ Editing(d)
    /\ role \in shown[d].roles
    /\ editor' = [editor EXCEPT ![d].selected =
                     IF role \in @ THEN @ \ {role} ELSE @ \cup {role}]
    /\ UNCHANGED <<binding, page, phase, shown, refusal, trace, reads, narrowings, sent>>

\* Both buttons open the confirmation for the roles selected at that time.
Review(d) ==
    /\ Editing(d)
    /\ \/ SelectedRoles(d) # shown[d].roles
          /\ editor' = [editor EXCEPT ![d].pending = SelectedRoles(d)]
       \/ shown[d].roles # {}
          /\ editor' = [editor EXCEPT ![d].pending = {}]
    /\ UNCHANGED <<binding, page, phase, shown, refusal, trace, reads, narrowings, sent>>

Dismiss(d) ==
    /\ editor[d].pending # None
    /\ editor' = [editor EXCEPT ![d].pending = None]
    /\ UNCHANGED <<binding, page, phase, shown, refusal, trace, reads, narrowings, sent>>

Request(d) ==
    [id |-> sent + 1, of |-> d, roles |-> editor[d].pending, live |-> TRUE,
     status |-> "sent", result |-> None, audit |-> None]

ConfirmUnkeyedMutant(d) ==
    /\ editor[d].pending # None
    /\ sent < MaxSent
    /\ sent' = sent + 1
    /\ narrowings' = narrowings \cup {Request(d)}
    /\ editor' = [editor EXCEPT ![d].pending = None, ![d].submitting = TRUE]
    /\ refusal' = [refusal EXCEPT ![d] = None]
    /\ UNCHANGED <<binding, page, phase, shown, trace, reads>>

ConfirmOpenMutant(d) ==
    /\ editor[d].pending # None
    /\ sent < MaxSent
    /\ sent' = sent + 1
    /\ narrowings' = narrowings \cup {Request(d)}
    /\ editor' = [editor EXCEPT ![d].pending = None]
    /\ refusal' = [refusal EXCEPT ![d] = None]
    /\ trace' = [trace EXCEPT ![d] = Unread]
    /\ reads' = reads \ TraceReads(d)
    /\ UNCHANGED <<binding, page, phase, shown>>

\* The trace goes with the refusal: it is keyed by the refusal's identity.
Confirm(d) ==
    /\ editor[d].pending # None
    /\ sent < MaxSent
    /\ sent' = sent + 1
    /\ narrowings' = narrowings \cup {Request(d)}
    /\ editor' = [editor EXCEPT ![d].pending = None, ![d].submitting = TRUE]
    /\ refusal' = [refusal EXCEPT ![d] = None]
    /\ trace' = [trace EXCEPT ![d] = Unread]
    /\ reads' = reads \ TraceReads(d)
    /\ UNCHANGED <<binding, page, phase, shown>>

\* The service refuses what would widen the binding, and whatever else it has
\* reasons to; an answer nobody waits for is dropped.
Serve(n) ==
    /\ n.status = "sent"
    /\ \/ /\ Narrows(n.roles, binding[n.of])
          /\ binding[n.of].revision < MaxRevision
          /\ binding' = [binding EXCEPT ![n.of] = Narrowed(n.roles, @)]
          /\ narrowings' = (narrowings \ {n}) \cup
                IF n.live THEN {[n EXCEPT !.status = "accepted", !.result = binding'[n.of]]}
                ELSE {}
       \/ \E a \in Maybe(Audits) :
          /\ narrowings' = (narrowings \ {n}) \cup
                IF n.live THEN {[n EXCEPT !.status = "refused", !.audit = a]} ELSE {}
          /\ UNCHANGED binding
    /\ UNCHANGED <<page, phase, shown, editor, refusal, trace, reads, sent>>

\* onSaved puts the new binding into its row, and the editor selects its roles.
FinishNarrowing(n) ==
    /\ n.live
    /\ n.status = "accepted"
    /\ shown' = [shown EXCEPT ![n.of] = n.result]
    /\ editor' = [editor EXCEPT ![n.of] = [@ EXCEPT !.selected = n.result.roles,
                                                    !.submitting = FALSE]]
    /\ narrowings' = narrowings \ {n}
    /\ UNCHANGED <<binding, page, phase, refusal, trace, reads, sent>>

LoseNarrowingMutant(n) ==
    /\ n.live
    /\ narrowings' = (narrowings \ {n}) \cup
          IF n.status = "sent" THEN {[n EXCEPT !.live = FALSE]} ELSE {}
    /\ UNCHANGED <<binding, page, phase, shown, editor, refusal, trace, reads, sent>>

FailNarrowing(n) ==
    /\ n.live
    /\ n.status = "refused"
    /\ refusal' = [refusal EXCEPT ![n.of] = n.audit]
    /\ editor' = [editor EXCEPT ![n.of].submitting = FALSE]
    /\ narrowings' = narrowings \ {n}
    /\ UNCHANGED <<binding, page, phase, shown, trace, reads, sent>>

\* The transport fails: the narrowing may have been, or may yet be, made.
LoseNarrowing(n) ==
    /\ n.live
    /\ editor' = [editor EXCEPT ![n.of].submitting = FALSE]
    /\ narrowings' = (narrowings \ {n}) \cup
          IF n.status = "sent" THEN {[n EXCEPT !.live = FALSE]} ELSE {}
    /\ UNCHANGED <<binding, page, phase, shown, refusal, trace, reads, sent>>

\* Another administrator's narrowing.  While the page is away the service may
\* wait: what is done meanwhile is the same to the page as what is done just
\* before its reads are served.
OtherNarrows(d) ==
    /\ page = "authorization"
    /\ binding[d].revision < MaxRevision
    /\ \E roles \in SUBSET binding[d].roles :
          binding' = [binding EXCEPT ![d] = Narrowed(roles, @)]
    /\ UNCHANGED <<page, phase, shown, editor, refusal, trace, reads,
                   narrowings, sent>>

-----------------------------------------------------------------------------
User(d) ==
    \/ \E role \in Roles : Toggle(d, role)
    \/ Review(d) \/ Dismiss(d) \/ Confirm(d)

SettleRead(slot) ==
    \E r \in reads :
        /\ r.slot = slot
        /\ \/ FinishHolders(r) \/ FinishLists(r) \/ FinishBinding(r)
           \/ FailLoad(r) \/ FinishTrace(r)

SettleNarrowing(d) ==
    \E n \in narrowings :
        n.of = d /\ (FinishNarrowing(n) \/ FailNarrowing(n) \/ LoseNarrowing(n))

Step ==
    \/ Retry
    \/ \E s \in Slots : OpenTrace(s) \/ SettleRead(s)
    \/ \E d \in Definitions : User(d) \/ SettleNarrowing(d) \/ OtherNarrows(d)
    \/ \E r \in reads : ServeBinding(r)
    \/ \E n \in narrowings : Serve(n)

-----------------------------------------------------------------------------
(***************************************************************************)
(* Properties.                                                             *)
(***************************************************************************)

\* A row shows a binding the service has or had: every role that is still
\* effective is shown effective, however many narrowings were lost, retried or
\* made by others meanwhile (the widening check and the row that onSaved
\* replaces).
ShownIsPast ==
    \A d \in Definitions : shown[d] # None => IsPast(shown[d], binding[d])

\* A narrowing that an editor awaits asks to keep a part of what its row
\* shows: the service refuses it as a widening only if the row is out of date
\* (selectedRoles, and the buttons that are disabled while submitting).
AsksWithinShown ==
    \A n \in narrowings :
        n.live => shown[n.of] # None /\ n.roles \subseteq shown[n.of].roles

\* A trace is of the refusal it stands under, also when a second refusal
\* arrives while the trace of the first is being read (the key of the trace).
TraceIsOfRefusal ==
    \A s \in Slots : trace[s].of # None => trace[s].of = refusal[s]

\* Loading ends in rows or an error, an editor unlocks after every narrowing
\* and a trace that is being read is told or fails (the catch and finally of
\* each handler).
PagesSettle ==
    /\ phase = "loading" ~> phase # "loading"
    /\ \A d \in Definitions : editor[d].submitting ~> ~editor[d].submitting
    /\ \A s \in Slots : trace[s].status = "loading" ~> trace[s].status # "loading"

=============================================================================
