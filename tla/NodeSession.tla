----------------------------- MODULE NodeSession -----------------------------
(***************************************************************************)
(* What a Workshop page promises the local node, whichever lane it runs    *)
(* in: its workflow asks one thing at a time, it asks in the order         *)
(* validate, export, verify, install, activate, create, read, and each     *)
(* question is about something the node itself reported earlier.  A page   *)
(* may put a new workflow in the place of one that still awaits an answer; *)
(* the old one then only finishes what it began.  WorkshopWorkflow (React, *)
(* which never does so) and BlazorWorkflow implement this specification.   *)
(***************************************************************************)
EXTENDS LocalNode

CONSTANT Past           \* names for workflows that finish out of sight

VARIABLES
    asked,      \* the workflow's question in progress: its operation and its subject
    left,       \* the questions of the workflows in Past
    node        \* what the node has done

vars == <<asked, left, node>>

Quiet == [op |-> "idle", subject |-> None]

Init ==
    /\ asked = Quiet
    /\ left = [w \in Past |-> Quiet]
    /\ node = FreshNode

(***************************************************************************)
(* What a page may ask, given what the node reported.                      *)
(***************************************************************************)
Admissible(op, subject, n) ==
    \/ op \in {"form.load", "rows.refresh"}
    \/ op = "pack.submit"   /\ subject \in Packs
    \/ op = "pack.export"   /\ subject \in n.validated
    \/ op = "pack.verify"   /\ subject \in Artifact /\ Signed(n, subject)
    \/ op = "pack.install"  /\ subject \in n.verified
    \/ op = "pack.activate" /\ \E a \in n.installed : a.pack = subject
    \/ op = "type.read"     /\ subject \in n.projected
    \/ op = "form.read"     /\ subject \in Activation /\ subject.pack \in n.projected
    \/ op = "record.create" /\ subject \in Activation /\ subject.pack \in n.projected
    \/ op = "record.read"   /\ subject \in Receipt /\ Recorded(n, subject)

Ask ==
    /\ asked = Quiet
    /\ asked' # Quiet
    /\ Admissible(asked'.op, asked'.subject, node)
    /\ UNCHANGED <<left, node>>

\* A new workflow takes the page; the old one goes on awaiting its answer.
Leave(w) ==
    /\ asked # Quiet
    /\ left[w] = Quiet
    /\ left' = [left EXCEPT ![w] = asked]
    /\ asked' = Quiet
    /\ UNCHANGED node

(***************************************************************************)
(* What the node may have done by the time a question is settled; it may   *)
(* also have refused, or never have received it.                           *)
(***************************************************************************)
Serve(q) ==
    \/ node' = node
    \/ /\ q.op = "pack.submit"
       /\ node' = [node EXCEPT !.validated = @ \cup {q.subject}]
    \/ /\ q.op = "pack.export"
       /\ node' = [node EXCEPT !.signed = Append(@, q.subject)]
    \/ /\ q.op = "pack.verify"
       /\ node' = [node EXCEPT !.verified = @ \cup {q.subject}]
    \/ /\ q.op = "pack.install"
       /\ node' = [node EXCEPT !.installed = @ \cup {q.subject}]
    \/ /\ q.op = "pack.activate"
       /\ node' = [node EXCEPT !.projected = @ \cup {q.subject}]
    \/ /\ q.op = "record.create"
       /\ node' = [node EXCEPT !.records = Append(@, q.subject.pack)]

\* An activation goes on reading without letting go of the page.
Continuation ==
    { <<"pack.activate", "type.read">>, <<"type.read", "form.read">>,
      <<"form.read", "rows.refresh">> }

\* After q the workflow may read on.
Continues(q, next) ==
    /\ <<q.op, next.op>> \in Continuation
    /\ Admissible(next.op, next.subject, node')

Settle ==
    /\ asked # Quiet
    /\ Serve(asked)
    /\ asked' = Quiet \/ Continues(asked, asked')
    /\ UNCHANGED left

\* A workflow nobody sees any more gets its answer.
SettleLeft(w) ==
    /\ left[w] # Quiet
    /\ Serve(left[w])
    /\ \/ left' = [left EXCEPT ![w] = Quiet]
       \/ /\ left' = [left EXCEPT ![w] = left'[w]]
          /\ Continues(left[w], left'[w])
    /\ UNCHANGED asked

Next ==
    \/ Ask \/ Settle
    \/ \E w \in Past : Leave(w) \/ SettleLeft(w)

Spec == Init /\ [][Next]_vars

\* Every question is settled, by an answer, a failure or the end of the page.
FairSpec == Spec /\ WF_vars(Settle) /\ \A w \in Past : WF_vars(SettleLeft(w))

-----------------------------------------------------------------------------

\* A question in progress is one the node has grounds to answer, that of a
\* workflow the page has left included.
AskedWithGrounds ==
    /\ asked # Quiet => Admissible(asked.op, asked.subject, node)
    /\ \A w \in Past : left[w] # Quiet => Admissible(left[w].op, left[w].subject, node)

\* What the promise is for: on a node that only this page works with, nothing is
\* signed that was not reported valid, nothing is verified that was not signed,
\* for the pack it names, nothing is installed that was not reported verified, a
\* pack is projected only after one of its artifacts was installed, and every
\* record is of a projected pack's type.
NodeChain ==
    /\ \A i \in DOMAIN node.signed : node.signed[i] \in node.validated
    /\ \A artifact \in node.verified : Signed(node, artifact)
    /\ node.installed \subseteq node.verified
    /\ \A pack \in node.projected : \E artifact \in node.installed : artifact.pack = pack
    /\ \A i \in DOMAIN node.records : node.records[i] \in node.projected

=============================================================================
