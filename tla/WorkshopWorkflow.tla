--------------------------- MODULE WorkshopWorkflow ---------------------------
(***************************************************************************)
(* The Workshop command workflow of the React lane                         *)
(* (apps/react/src/workshop/WorkshopWorkflow.tsx): a pack is validated,    *)
(* exported, verified, installed and activated on the local node, and      *)
(* then records of its type are created and read back.                     *)
(*                                                                         *)
(* Every command is one asynchronous handler.  Its synchronous prefix is   *)
(* an action that sends a request; what follows each await is an action    *)
(* whose name begins with Finish.  Between the two the user may edit the   *)
(* open form, or leave the page.                                           *)
(*                                                                         *)
(* Data is abstracted to what the properties tell apart.  A pack document  *)
(* is a member of Packs, a text that does not parse is Malformed, an empty *)
(* form is None.  The node numbers the artifacts it signs and the records  *)
(* it creates.  `results` keeps the record evidence alone, since the       *)
(* results of pack commands enable nothing; `message` is wording and is    *)
(* left out.  The fields `candidate` and `validation` are always assigned  *)
(* together, as are `activation`, `assetType`, `assetContent` and          *)
(* `propertyForm`: each group is one field here.                           *)
(***************************************************************************)
EXTENDS LocalNode

CONSTANTS
    Malformed,      \* a text the pack parser refuses
    MaxGeneration,  \* bound: user steps stop when the generation reaches it
    MaxExports,     \* bound on the artifacts the node signs
    MaxRecords      \* bound on the records the node creates

VARIABLES
    authored,           \* the author form's pack text (authorValues)
    form,               \* the open form (activeForm)
    workflow,           \* the evidence gathered so far (WorkflowState)
    results,            \* the record evidence on the page
    busy,               \* busyRef and busy
    request,            \* what the handler in progress awaits
    recordGeneration,   \* the counter that outdates record answers
    node                \* what the local node has done (external)

vars == <<authored, form, workflow, results, busy, request, recordGeneration, node>>

Verification == [of : Artifact, verdict : {"Verified", "Refused"}]
Installation == [of : Artifact, installed : BOOLEAN]

ASSUME ConstantsOK ==
    /\ MaxGeneration \in Nat /\ MaxExports \in Nat /\ MaxRecords \in Nat
    /\ Malformed \notin Packs /\ Malformed # None
    /\ None \notin Packs /\ None \notin Forms
    /\ None \notin Artifact /\ None \notin Verification
    /\ None \notin Installation /\ None \notin Activation /\ None \notin Receipt

Workflow ==
    [ candidate    : Maybe(Packs),
      artifact     : Maybe(Artifact),
      verification : Maybe(Verification),
      installation : Maybe(Installation),
      active       : Maybe(Activation),
      receipt      : Maybe(Receipt) ]

NoWorkflow ==
    [ candidate |-> None, artifact |-> None, verification |-> None,
      installation |-> None, active |-> None, receipt |-> None ]

Form == [kind : {"none", "pack", "record"}, entry : Maybe(Forms)]

NoForm     == [kind |-> "none", entry |-> None]
PackForm   == [kind |-> "pack", entry |-> None]
RecordForm(f) == [kind |-> "record", entry |-> f]

(***************************************************************************)
(* A request names its operation and subject; the record operations also   *)
(* capture the generation at which they started.                           *)
(***************************************************************************)
RequestOf(ops, subjects) == [op : ops, subject : subjects, generation : Nat]

Request ==
    RequestOf({"idle", "form.load", "rows.refresh"}, {None})
    \cup RequestOf({"pack.submit", "pack.export", "pack.activate", "type.read"}, Packs)
    \cup RequestOf({"pack.verify", "pack.install"}, Artifact)
    \cup RequestOf({"form.read", "record.create"}, Activation)
    \cup RequestOf({"record.read"}, Receipt)

Idle == [op |-> "idle", subject |-> None, generation |-> 0]

Evidence == [op : {"record.create", "record.read"}, receipt : Maybe(Receipt)]

TypeOK ==
    /\ authored \in Packs \cup {None, Malformed}
    /\ form \in Form
    /\ workflow \in Workflow
    /\ results \subseteq Evidence
    /\ busy \in BOOLEAN
    /\ request \in Request
    /\ recordGeneration \in Nat
    /\ node \in Node

Init ==
    /\ authored = None
    /\ form = NoForm
    /\ workflow = NoWorkflow
    /\ results = {}
    /\ busy = FALSE
    /\ request = Idle
    /\ recordGeneration = 0
    /\ node = FreshNode

-----------------------------------------------------------------------------
(***************************************************************************)
(* Parts shared by the handlers.  A definition whose name ends in Mutant   *)
(* is a plausible slip in the definition after it; no action uses one.     *)
(***************************************************************************)

\* invalidateRecord: outdates pending record answers and drops the evidence;
\* the handler's assignment of workflow drops the receipt.
InvalidateRecord ==
    /\ recordGeneration' = recordGeneration + 1
    /\ results' = {}

WithoutReceipt(w) == [w EXCEPT !.receipt = None]

\* A workflow that has come as far as a validated candidate.
Validated(candidate) == [NoWorkflow EXCEPT !.candidate = candidate]

\* What a verify, an install and an activate clear before they are sent.
WithoutActivation(w)   == [WithoutReceipt(w) EXCEPT !.active = None]
WithoutInstallation(w) == [WithoutActivation(w) EXCEPT !.installation = None]
WithoutVerification(w) == [WithoutInstallation(w) EXCEPT !.verification = None]

AdmittedMutant == recordGeneration < MaxGeneration

\* The busyRef test every handler opens with, and the bound on user steps.
Admitted ==
    /\ ~busy
    /\ recordGeneration < MaxGeneration

Await(op, subject, generation) ==
    /\ busy' = TRUE
    /\ request' = [op |-> op, subject |-> subject, generation |-> generation]

SettleMutant ==
    /\ UNCHANGED busy
    /\ request' = Idle

\* The finally block.
Settle ==
    /\ busy' = FALSE
    /\ request' = Idle

-----------------------------------------------------------------------------
(***************************************************************************)
(* Pack commands.                                                          *)
(***************************************************************************)

OpenPackForm ==
    /\ Admitted
    /\ InvalidateRecord
    /\ workflow' = WithoutReceipt(workflow)
    /\ Await("form.load", None, 0)
    /\ UNCHANGED <<authored, form, node>>

FinishOpenPackForm ==
    /\ request.op = "form.load"
    /\ form' \in {PackForm, form}       \* loaded, or refused
    /\ Settle
    /\ UNCHANGED <<authored, workflow, results, recordGeneration, node>>

SubmitPack ==
    /\ form.kind = "pack"
    /\ Admitted
    /\ authored \in Packs
    /\ InvalidateRecord
    /\ workflow' = NoWorkflow
    /\ Await("pack.submit", authored, 0)
    /\ UNCHANGED <<authored, form, node>>

\* The text does not parse: the handler returns before it sends anything.
SubmitUnreadablePack ==
    /\ form.kind = "pack"
    /\ Admitted
    /\ authored \notin Packs
    /\ InvalidateRecord
    /\ workflow' = NoWorkflow
    /\ UNCHANGED <<authored, form, busy, request, node>>

FinishSubmitPack ==
    /\ request.op = "pack.submit"
    /\ \/ /\ workflow' = Validated(request.subject)
          /\ node' = [node EXCEPT !.validated = @ \cup {request.subject}]
       \/ UNCHANGED <<workflow, node>>  \* invalid, or the request failed
    /\ Settle
    /\ UNCHANGED <<authored, form, results, recordGeneration>>

Export ==
    /\ Admitted
    /\ workflow.candidate # None
    /\ Len(node.signed) < MaxExports
    /\ InvalidateRecord
    /\ workflow' = WithoutReceipt(workflow)
    /\ Await("pack.export", workflow.candidate, 0)
    /\ UNCHANGED <<authored, form, node>>

FinishExportMutant ==
    /\ request.op = "pack.export"
    /\ LET signed == [pack |-> request.subject, serial |-> Len(node.signed) + 1] IN
       /\ workflow' = [workflow EXCEPT !.artifact = signed]
       /\ node' = [node EXCEPT !.signed = Append(@, request.subject)]
    /\ Settle
    /\ UNCHANGED <<authored, form, results, recordGeneration>>

\* The artifact signed for the candidate that was sent joins whatever
\* candidate the page holds when the answer arrives.
FinishExport ==
    /\ request.op = "pack.export"
    /\ \/ LET signed == [pack |-> request.subject, serial |-> Len(node.signed) + 1] IN
          /\ workflow' = [Validated(workflow.candidate) EXCEPT !.artifact = signed]
          /\ node' = [node EXCEPT !.signed = Append(@, request.subject)]
       \/ UNCHANGED <<workflow, node>>
    /\ Settle
    /\ UNCHANGED <<authored, form, results, recordGeneration>>

Verify ==
    /\ Admitted
    /\ workflow.artifact # None
    /\ InvalidateRecord
    /\ workflow' = WithoutVerification(workflow)
    /\ Await("pack.verify", workflow.artifact, 0)
    /\ UNCHANGED <<authored, form, node>>

FinishVerify ==
    /\ request.op = "pack.verify"
    /\ \/ \E verdict \in {"Verified", "Refused"} :
             /\ workflow' = [WithoutInstallation(workflow) EXCEPT
                                !.verification = [of |-> request.subject, verdict |-> verdict]]
             /\ node' = IF verdict = "Verified"
                          THEN [node EXCEPT !.verified = @ \cup {request.subject}]
                          ELSE node
       \/ UNCHANGED <<workflow, node>>
    /\ Settle
    /\ UNCHANGED <<authored, form, results, recordGeneration>>

Verified(w) == w.verification # None /\ w.verification.verdict = "Verified"

Install ==
    /\ Admitted
    /\ Verified(workflow)
    /\ workflow.artifact # None
    /\ InvalidateRecord
    /\ workflow' = WithoutInstallation(workflow)
    /\ Await("pack.install", workflow.artifact, 0)
    /\ UNCHANGED <<authored, form, node>>

FinishInstall ==
    /\ request.op = "pack.install"
    /\ \/ \E installed \in BOOLEAN :
             /\ workflow' = [WithoutActivation(workflow) EXCEPT
                                !.installation = [of |-> request.subject, installed |-> installed]]
             /\ node' = IF installed
                          THEN [node EXCEPT !.installed = @ \cup {request.subject}]
                          ELSE node
       \/ /\ node' \in Unanswered(node, request)
          /\ UNCHANGED workflow
    /\ Settle
    /\ UNCHANGED <<authored, form, results, recordGeneration>>

InstalledMutant(w) == w.installation # None

Installed(w) == w.installation # None /\ w.installation.installed

Activate ==
    /\ Admitted
    /\ Installed(workflow)
    /\ workflow.candidate # None
    /\ InvalidateRecord
    /\ workflow' = WithoutActivation(workflow)
    /\ Await("pack.activate", workflow.candidate, 0)
    /\ UNCHANGED <<authored, form, node>>

\* Only an activation without refusals, of a pack that declares exactly one
\* record type, goes on to read that type.
FinishActivate ==
    /\ request.op = "pack.activate"
    /\ \/ /\ node' = [node EXCEPT !.projected = @ \cup {request.subject}]
          /\ Await("type.read", request.subject, 0)
       \/ /\ Settle
          /\ UNCHANGED node
    /\ UNCHANGED <<authored, form, workflow, results, recordGeneration>>

FinishTypeRead ==
    /\ request.op = "type.read"
    /\ \/ \E pinned \in Forms :
             Await("form.read", [pack |-> request.subject, form |-> pinned], 0)
       \/ Settle
    /\ UNCHANGED <<authored, form, workflow, results, recordGeneration, node>>

FinishFormRead ==
    /\ request.op = "form.read"
    /\ \/ /\ workflow' = [workflow EXCEPT !.active = request.subject]
          /\ Await("rows.refresh", None, 0)
       \/ /\ Settle
          /\ UNCHANGED workflow
    /\ UNCHANGED <<authored, form, results, recordGeneration, node>>

FinishRefresh ==
    /\ request.op = "rows.refresh"
    /\ Settle
    /\ UNCHANGED <<authored, form, workflow, results, recordGeneration, node>>

-----------------------------------------------------------------------------
(***************************************************************************)
(* Record commands.                                                        *)
(***************************************************************************)

OpenRecordForm ==
    /\ Admitted
    /\ InvalidateRecord
    /\ workflow' = WithoutReceipt(workflow)
    /\ form' = IF workflow.active # None THEN RecordForm(workflow.active.form) ELSE form
    /\ UNCHANGED <<authored, busy, request, node>>

\* A declared action whose input the lane does not support invalidates once
\* before it throws and once in the catch.
OpenUnsupportedRecordForm ==
    /\ Admitted
    /\ recordGeneration' = recordGeneration + 2
    /\ results' = {}
    /\ workflow' = WithoutReceipt(workflow)
    /\ UNCHANGED <<authored, form, busy, request, node>>

FormIsPinnedMutant == workflow.active # None

\* The form on the page must still be the one the activation pins.
FormIsPinned ==
    /\ workflow.active # None
    /\ form.entry = workflow.active.form

SubmitRecord ==
    /\ form.kind = "record"
    /\ Admitted
    /\ FormIsPinned
    /\ Len(node.records) < MaxRecords
    /\ InvalidateRecord
    /\ workflow' = WithoutReceipt(workflow)
    /\ Await("record.create", [pack |-> workflow.active.pack, form |-> form.entry],
             recordGeneration')
    /\ UNCHANGED <<authored, form, node>>

\* Refused on the page: another form is pinned, or no display name is found.
RefuseRecord ==
    /\ form.kind = "record"
    /\ Admitted
    /\ InvalidateRecord
    /\ workflow' = WithoutReceipt(workflow)
    /\ UNCHANGED <<authored, form, busy, request, node>>

CurrentMutant == TRUE

Current == request.generation = recordGeneration

FinishSubmitRecord ==
    /\ request.op = "record.create"
    /\ \/ LET receipt == [id |-> Len(node.records) + 1, of |-> request.subject] IN
          /\ node' = [node EXCEPT !.records = Append(@, request.subject.pack)]
          /\ IF Current
               THEN /\ workflow' = [workflow EXCEPT !.receipt = receipt]
                    /\ results' = results \cup {[op |-> "record.create", receipt |-> receipt]}
               ELSE UNCHANGED <<workflow, results>>
       \/ \* refused by validation: the refusal is shown
          /\ results' = IF Current
                          THEN results \cup {[op |-> "record.create", receipt |-> None]}
                          ELSE results
          /\ UNCHANGED <<workflow, node>>
       \/ \* an incomplete receipt, or a failure
          /\ node' \in Unanswered(node, request)
          /\ UNCHANGED <<workflow, results>>
    /\ Settle
    /\ UNCHANGED <<authored, form, recordGeneration>>

ReadRecord ==
    /\ ~busy
    /\ workflow.receipt # None
    /\ Await("record.read", workflow.receipt, recordGeneration)
    /\ UNCHANGED <<authored, form, workflow, results, recordGeneration, node>>

FinishReadRecord ==
    /\ request.op = "record.read"
    /\ \/ /\ ~Current
          /\ UNCHANGED <<workflow, results, recordGeneration>>
       \/ /\ Current
          /\ results' = results \cup {[op |-> "record.read", receipt |-> request.subject]}
          /\ UNCHANGED <<workflow, recordGeneration>>
       \/ /\ Current                    \* the record or its trace was refused
          /\ InvalidateRecord
          /\ workflow' = WithoutReceipt(workflow)
    /\ Settle
    /\ UNCHANGED <<authored, form, node>>

-----------------------------------------------------------------------------
(***************************************************************************)
(* The user edits a form or leaves the page.  SchemaForm disables its      *)
(* fields while its own submission is pending, and only then.              *)
(***************************************************************************)

EditPackMutant(text) ==
    /\ form.kind = "pack"
    /\ request.op # "pack.submit"
    /\ recordGeneration < MaxGeneration
    /\ text # authored
    /\ authored' = text
    /\ UNCHANGED <<form, workflow, results, busy, request, recordGeneration, node>>

EditPack(text) ==
    /\ form.kind = "pack"
    /\ request.op # "pack.submit"
    /\ recordGeneration < MaxGeneration
    /\ text # authored
    /\ authored' = text
    /\ IF workflow.candidate = None /\ workflow.artifact = None
         THEN UNCHANGED <<workflow, results, recordGeneration>>
         ELSE /\ InvalidateRecord
              /\ workflow' = NoWorkflow
    /\ UNCHANGED <<form, busy, request, node>>

EditRecord ==
    /\ form.kind = "record"
    /\ request.op # "record.create"
    /\ recordGeneration < MaxGeneration
    /\ InvalidateRecord
    /\ workflow' = WithoutReceipt(workflow)
    /\ UNCHANGED <<authored, form, busy, request, node>>

\* The page unmounts the component and aborts its request, which the node
\* may already have served; the next mount starts afresh.
Remount ==
    /\ authored' = None
    /\ form' = NoForm
    /\ workflow' = NoWorkflow
    /\ results' = {}
    /\ recordGeneration' = 0
    /\ Settle
    /\ node' \in Unanswered(node, request)

User ==
    \/ OpenPackForm \/ SubmitPack \/ SubmitUnreadablePack
    \/ Export \/ Verify \/ Install \/ Activate
    \/ OpenRecordForm \/ OpenUnsupportedRecordForm
    \/ SubmitRecord \/ RefuseRecord \/ ReadRecord
    \/ \E text \in Packs \cup {None, Malformed} : EditPack(text)
    \/ EditRecord
    \/ Remount

Finish ==
    \/ FinishOpenPackForm \/ FinishSubmitPack \/ FinishExport
    \/ FinishVerify \/ FinishInstall
    \/ FinishActivate \/ FinishTypeRead \/ FinishFormRead \/ FinishRefresh
    \/ FinishSubmitRecord \/ FinishReadRecord

Next == User \/ Finish

Spec == Init /\ [][Next]_vars

\* Every awaited request settles: the node answers or the browser reports a
\* failure.  The user is under no obligation.
FairSpec == Spec /\ WF_vars(Finish)

-----------------------------------------------------------------------------
(***************************************************************************)
(* Properties.                                                             *)
(***************************************************************************)

\* A validated candidate is the pack on the page: an edit, even one made while
\* a command is pending, withdraws it (submitPack, invalidateAuthoredPack).
CandidateIsShown ==
    workflow.candidate # None => workflow.candidate = authored

\* Each piece of evidence is about the piece it follows.  A late answer may
\* arrive after an edit emptied the workflow, so a piece can be missing; what
\* is there never speaks of another pack or of an earlier export.
EvidenceChain ==
    /\ workflow.candidate # None /\ workflow.artifact # None
         => workflow.artifact.pack = workflow.candidate
    /\ workflow.verification # None /\ workflow.artifact # None
         => workflow.verification.of = workflow.artifact
    /\ workflow.installation # None /\ workflow.artifact # None
         => workflow.installation.of = workflow.artifact

\* The node is asked to sign only a pack it reported valid, to install only an
\* artifact it verified, and to activate only a pack of which it installed an
\* artifact.
NodeAskedInOrder ==
    /\ request.op = "pack.export" => request.subject \in node.validated
    /\ request.op = "pack.install" => request.subject \in node.verified
    /\ request.op = "pack.activate" =>
         \E artifact \in node.installed : artifact.pack = request.subject

\* A record is submitted only under the activation the page holds, with the
\* form that activation pins, and the node projected that pack.
RecordsFollowProjection ==
    request.op = "record.create" =>
        /\ request.subject = workflow.active
        /\ request.subject.pack \in node.projected

\* Record evidence on the page belongs to the receipt the page holds, and the
\* receipt to the activation it holds: a late answer never revives evidence
\* that an edit, a new submission or a pack command withdrew.
EvidenceIsCurrent ==
    /\ \A shown \in results : shown.receipt = workflow.receipt
    /\ workflow.receipt # None => workflow.receipt.of = workflow.active

\* Every command, activation with its three reads included, hands the page
\* back to the user.
CommandsSettle == busy ~> ~busy

\* The page keeps the promise both lanes make to the node: one handler at a
\* time, each asking what the answers so far allow.  A page that is left aborts
\* its request, so no question is left behind.
Session == INSTANCE NodeSession WITH
    asked <- [op |-> request.op, subject |-> request.subject],
    left <- [w \in {} |-> None],
    Past <- {}

NodeProtocol == Session!Spec

\* ... and settles every question it asks.
FairNodeProtocol == Session!FairSpec

\* What the promise is for: whatever answers are lost and whatever is edited or
\* left meanwhile, the node signs only packs it reported valid, verifies only
\* what it signed, installs only what it reported verified, projects only packs
\* of which it installed an artifact, and each record is of a projected pack.
NodeChain == Session!NodeChain

\* What a reader of the code may expect, and does not get: after an edit of
\* the author form, no artifact of the earlier text is offered.
EditWithdrawsArtifact ==
    workflow.artifact # None => workflow.artifact.pack = authored

=============================================================================
