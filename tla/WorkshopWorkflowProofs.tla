------------------------ MODULE WorkshopWorkflowProofs ------------------------
(***************************************************************************)
(* Proofs about WorkshopWorkflow, for every set of packs and forms and     *)
(* every value of the bounds.                                              *)
(***************************************************************************)
EXTENDS WorkshopWorkflow, TLAPS

(***************************************************************************)
(* The inductive invariant.  The properties say nothing of the request in  *)
(* progress; what makes them inductive is what stays true of it while the  *)
(* user edits.                                                             *)
(***************************************************************************)

\* A pending pack command works on the pack, or the artifact, that the
\* workflow still shows, if an edit has left it there.
PendingPack ==
    /\ request.op = "pack.submit" => request.subject = authored
    /\ request.op = "pack.export" /\ workflow.candidate # None
         => request.subject = workflow.candidate
    /\ request.op \in {"pack.verify", "pack.install"} /\ workflow.artifact # None
         => request.subject = workflow.artifact
    /\ request.op \in {"pack.verify", "pack.install"} /\ workflow.candidate # None
         => request.subject.pack = workflow.candidate

\* An installation the page holds is of its candidate, also when an edit and
\* a late answer left no artifact beside them.
InstalledCandidate ==
    workflow.installation # None /\ workflow.candidate # None
        => workflow.installation.of.pack = workflow.candidate

\* What the page holds as evidence, the node did.
NodeBacksEvidence ==
    /\ Verified(workflow) => workflow.verification.of \in node.verified
    /\ Installed(workflow) => workflow.installation.of \in node.installed
    /\ workflow.active # None => workflow.active.pack \in node.projected
    /\ request.op = "type.read" => request.subject \in node.projected
    /\ request.op \in {"form.read", "record.create"}
         => request.subject.pack \in node.projected

\* Candidate, artifact and receipt are ones the node knows.
NodeKnows ==
    /\ workflow.candidate # None => workflow.candidate \in node.validated
    /\ workflow.artifact # None => Signed(node, workflow.artifact)
    /\ workflow.receipt # None => Recorded(node, workflow.receipt)

\* No record evidence is on the page while a command other than a read runs.
PendingRecord ==
    /\ request.op \notin {"idle", "record.read"}
         => workflow.receipt = None /\ results = {}
    /\ request.op = "record.create"
         => form.kind = "record" /\ request.subject = workflow.active
    /\ request.op = "record.read"
         => /\ request.generation =< recordGeneration
            /\ request.generation = recordGeneration
                 => request.subject = workflow.receipt

\* The page is locked exactly while a handler awaits its answer.
BusyWhileAwaiting == busy <=> request # Idle

IInv ==
    /\ TypeOK
    /\ BusyWhileAwaiting
    /\ CandidateIsShown
    /\ EvidenceChain
    /\ NodeAskedInOrder
    /\ RecordsFollowProjection
    /\ EvidenceIsCurrent
    /\ PendingPack
    /\ InstalledCandidate
    /\ NodeBacksEvidence
    /\ NodeKnows
    /\ PendingRecord

-----------------------------------------------------------------------------
(***************************************************************************)
(* Types.                                                                  *)
(***************************************************************************)

\* The workflow stays well typed whichever of its fields an answer assigns.
LEMMA WorkflowTypes ==
    ASSUME NEW w \in Workflow
    PROVE  /\ WithoutReceipt(w) \in Workflow
           /\ WithoutActivation(w) \in Workflow
           /\ WithoutInstallation(w) \in Workflow
           /\ WithoutVerification(w) \in Workflow
           /\ \A v \in Verification : [WithoutInstallation(w) EXCEPT !.verification = v] \in Workflow
           /\ \A i \in Installation : [WithoutActivation(w) EXCEPT !.installation = i] \in Workflow
           /\ \A a \in Activation : [w EXCEPT !.active = a] \in Workflow
           /\ \A r \in Receipt : [w EXCEPT !.receipt = r] \in Workflow
  BY DEF Workflow, Maybe, WithoutReceipt, WithoutActivation, WithoutInstallation,
         WithoutVerification

\* The empty workflow a submission or an edit starts over from.
LEMMA NoWorkflowType == NoWorkflow \in Workflow
  BY DEF NoWorkflow, Workflow, Maybe

\* A validated candidate, alone or with the artifact signed for it.
LEMMA ValidatedTypes ==
    ASSUME NEW candidate \in Maybe(Packs)
    PROVE  /\ Validated(candidate) \in Workflow
           /\ \A a \in Artifact : [Validated(candidate) EXCEPT !.artifact = a] \in Workflow
<1>1. Validated(candidate) \in Workflow
  BY NoWorkflowType DEF Validated, Workflow
<1>2. ASSUME NEW a \in Artifact
      PROVE [Validated(candidate) EXCEPT !.artifact = a] \in Workflow
  BY <1>1 DEF Workflow, Maybe
<1>3. QED
  BY <1>1, <1>2

\* What the node hands out next takes the next number, and leaves the others.
LEMMA Appended ==
    ASSUME NEW made \in Seq(Packs), NEW p \in Packs
    PROVE  /\ Append(made, p) \in Seq(Packs)
           /\ Len(made) + 1 \in DOMAIN Append(made, p)
           /\ Append(made, p)[Len(made) + 1] = p
           /\ \A i \in DOMAIN made : i \in DOMAIN Append(made, p) /\ Append(made, p)[i] = made[i]
           /\ \A i \in DOMAIN Append(made, p) : i \in DOMAIN made \/ i = Len(made) + 1
           /\ Len(made) + 1 \in Nat
  OBVIOUS

\* What a request of each operation is about.
LEMMA SubjectTypes ==
    ASSUME NEW r \in Request
    PROVE  /\ r.op \in {"pack.submit", "pack.export", "pack.activate", "type.read"}
                => r.subject \in Packs
           /\ r.op \in {"pack.verify", "pack.install"} => r.subject \in Artifact
           /\ r.op \in {"form.read", "record.create"} => r.subject \in Activation
           /\ r.op = "record.read" => r.subject \in Receipt
           /\ r.generation \in Nat
  BY DEF Request, RequestOf

\* Every request a handler sends is a request.
LEMMA RequestTypes ==
    /\ Idle \in Request
    /\ \A g \in Nat :
         /\ [op |-> "form.load", subject |-> None, generation |-> g] \in Request
         /\ [op |-> "rows.refresh", subject |-> None, generation |-> g] \in Request
         /\ \A p \in Packs :
              /\ [op |-> "pack.submit", subject |-> p, generation |-> g] \in Request
              /\ [op |-> "pack.export", subject |-> p, generation |-> g] \in Request
              /\ [op |-> "pack.activate", subject |-> p, generation |-> g] \in Request
              /\ [op |-> "type.read", subject |-> p, generation |-> g] \in Request
         /\ \A a \in Artifact :
              /\ [op |-> "pack.verify", subject |-> a, generation |-> g] \in Request
              /\ [op |-> "pack.install", subject |-> a, generation |-> g] \in Request
         /\ \A a \in Activation :
              /\ [op |-> "form.read", subject |-> a, generation |-> g] \in Request
              /\ [op |-> "record.create", subject |-> a, generation |-> g] \in Request
         /\ \A r \in Receipt :
              [op |-> "record.read", subject |-> r, generation |-> g] \in Request
  BY DEF Request, RequestOf, Idle

\* The type of each field of the workflow.
LEMMA FieldTypes ==
    ASSUME NEW w \in Workflow
    PROVE  /\ w.candidate # None => w.candidate \in Packs
           /\ w.artifact # None => w.artifact \in Artifact
           /\ w.verification # None => w.verification \in Verification
           /\ w.installation # None => w.installation \in Installation
           /\ w.active # None => w.active \in Activation
           /\ w.receipt # None => w.receipt \in Receipt
  BY DEF Workflow, Maybe

\* So is the node before it is asked anything.
LEMMA FreshNodeType == FreshNode \in Node
<1>1. <<>> \in Seq(Packs)
  OBVIOUS
<1>2. QED
  BY <1>1 DEF FreshNode, Node

\* The page is mounted with well-typed state.
LEMMA TypeOKInit == Init => TypeOK
<1> SUFFICES ASSUME Init PROVE TypeOK
  OBVIOUS
<1>1. request \in Request
  BY RequestTypes DEF Init
<1>2. QED
  BY <1>1, NoWorkflowType, FreshNodeType DEF Init, TypeOK, NoForm, Form, Maybe

\* Every handler, answer and edit keeps the state well typed.
LEMMA TypeOKStep == TypeOK /\ [Next]_vars => TypeOK'
<1> SUFFICES ASSUME TypeOK, [Next]_vars PROVE TypeOK'
  OBVIOUS
<1> USE RequestTypes DEF TypeOK, InvalidateRecord, Await, Settle
<1>1. CASE OpenPackForm
  <2>1. request' \in Request
    BY <1>1 DEF OpenPackForm
  <2>2. workflow' \in Workflow
    BY <1>1, WorkflowTypes DEF OpenPackForm
  <2>3. QED
    BY <1>1, <2>1, <2>2 DEF OpenPackForm
<1>2. CASE FinishOpenPackForm
  <2>1. form' \in Form
    BY <1>2 DEF FinishOpenPackForm, Form, PackForm, Maybe
  <2>2. QED
    BY <1>2, <2>1 DEF FinishOpenPackForm
<1>3. CASE SubmitPack
  <2>1. request' \in Request
    BY <1>3 DEF SubmitPack
  <2>2. workflow' \in Workflow
    BY <1>3, NoWorkflowType DEF SubmitPack
  <2>3. QED
    BY <1>3, <2>1, <2>2 DEF SubmitPack
<1>4. CASE SubmitUnreadablePack
  <2>1. workflow' \in Workflow
    BY <1>4, NoWorkflowType DEF SubmitUnreadablePack
  <2>2. QED
    BY <1>4, <2>1 DEF SubmitUnreadablePack
<1>5. CASE FinishSubmitPack
  <2>1. request.subject \in Packs
    BY <1>5, SubjectTypes DEF FinishSubmitPack
  <2>2. workflow' \in Workflow
    BY <1>5, <2>1, ValidatedTypes DEF FinishSubmitPack, Maybe
  <2>3. node' \in Node
    BY <1>5, <2>1 DEF FinishSubmitPack, Node
  <2>4. QED
    BY <1>5, <2>2, <2>3 DEF FinishSubmitPack
<1>6. CASE Export
  <2>1. workflow.candidate \in Packs
    BY <1>6, FieldTypes DEF Export
  <2>2. request' \in Request
    BY <1>6, <2>1 DEF Export
  <2>3. workflow' \in Workflow
    BY <1>6, WorkflowTypes DEF Export
  <2>4. QED
    BY <1>6, <2>1, <2>2, <2>3 DEF Export
<1>7. CASE FinishExport
  <2>1. request.subject \in Packs
    BY <1>7, SubjectTypes DEF FinishExport
  <2>2. workflow.candidate \in Maybe(Packs)
    BY <1>7 DEF FinishExport, Workflow
  <2>3. Len(node.signed) + 1 \in Nat /\ Append(node.signed, request.subject) \in Seq(Packs)
    BY <2>1, Appended DEF Node
  <2>4. [pack |-> request.subject, serial |-> Len(node.signed) + 1] \in Artifact
    BY <1>7, <2>1, <2>3 DEF FinishExport, Artifact
  <2>5. workflow' \in Workflow
    BY <1>7, <2>2, <2>4, ValidatedTypes DEF FinishExport
  <2>6. node' \in Node
    BY <1>7, <2>3 DEF FinishExport, Node
  <2>7. QED
    BY <1>7, <2>1, <2>2, <2>3, <2>4, <2>5, <2>6 DEF FinishExport
<1>8. CASE Verify
  <2>1. workflow.artifact \in Artifact
    BY <1>8, FieldTypes DEF Verify
  <2>2. request' \in Request
    BY <1>8, <2>1 DEF Verify
  <2>3. workflow' \in Workflow
    BY <1>8, WorkflowTypes DEF Verify
  <2>4. QED
    BY <1>8, <2>1, <2>2, <2>3 DEF Verify
<1>9. CASE FinishVerify
  <2>1. request.subject \in Artifact
    BY <1>9, SubjectTypes DEF FinishVerify
  <2>2. workflow' \in Workflow
    BY <1>9, <2>1, WorkflowTypes DEF FinishVerify, Verification
  <2>3. node' \in Node
    BY <1>9, <2>1 DEF FinishVerify, Node
  <2>4. QED
    BY <1>9, <2>1, <2>2, <2>3 DEF FinishVerify
<1>10. CASE Install
  <2>1. workflow.artifact \in Artifact
    BY <1>10, FieldTypes DEF Install
  <2>2. request' \in Request
    BY <1>10, <2>1 DEF Install
  <2>3. workflow' \in Workflow
    BY <1>10, WorkflowTypes DEF Install
  <2>4. QED
    BY <1>10, <2>1, <2>2, <2>3 DEF Install
<1>11. CASE FinishInstall
  <2>1. request.subject \in Artifact
    BY <1>11, SubjectTypes DEF FinishInstall
  <2>2. workflow' \in Workflow
    BY <1>11, <2>1, WorkflowTypes DEF FinishInstall, Installation
  <2>3. node' \in Node
    BY <1>11, <2>1 DEF FinishInstall, Node, Unanswered
  <2>4. QED
    BY <1>11, <2>1, <2>2, <2>3 DEF FinishInstall
<1>12. CASE Activate
  <2>1. workflow.candidate \in Packs
    BY <1>12, FieldTypes DEF Activate
  <2>2. request' \in Request
    BY <1>12, <2>1 DEF Activate
  <2>3. workflow' \in Workflow
    BY <1>12, WorkflowTypes DEF Activate
  <2>4. QED
    BY <1>12, <2>1, <2>2, <2>3 DEF Activate
<1>13. CASE FinishActivate
  <2>1. request.subject \in Packs
    BY <1>13, SubjectTypes DEF FinishActivate
  <2>2. request' \in Request
    <3>1. [op |-> "type.read", subject |-> request.subject, generation |-> 0] \in Request
      BY <2>1
    <3>2. QED
      BY <1>13, <3>1 DEF FinishActivate
  <2>3. node' \in Node
    BY <1>13, <2>1 DEF FinishActivate, Node
  <2>4. QED
    BY <1>13, <2>1, <2>2, <2>3 DEF FinishActivate
<1>14. CASE FinishTypeRead
  <2>1. request.subject \in Packs
    BY <1>14, SubjectTypes DEF FinishTypeRead
  <2>2. \A pinned \in Forms : [pack |-> request.subject, form |-> pinned] \in Activation
    BY <1>14, <2>1 DEF FinishTypeRead, Activation
  <2>3. request' \in Request
    BY <1>14, <2>2 DEF FinishTypeRead
  <2>4. QED
    BY <1>14, <2>1, <2>2, <2>3 DEF FinishTypeRead
<1>15. CASE FinishFormRead
  <2>1. request.subject \in Activation
    BY <1>15, SubjectTypes DEF FinishFormRead
  <2>2. request' \in Request
    BY <1>15 DEF FinishFormRead
  <2>3. workflow' \in Workflow
    BY <1>15, <2>1, WorkflowTypes DEF FinishFormRead
  <2>4. QED
    BY <1>15, <2>1, <2>2, <2>3 DEF FinishFormRead
<1>16. CASE FinishRefresh
  BY <1>16 DEF FinishRefresh
<1>17. CASE OpenRecordForm
  <2>1. workflow.active # None => workflow.active.form \in Forms
    BY <1>17, FieldTypes DEF OpenRecordForm, Activation
  <2>2. workflow' \in Workflow
    BY <1>17, WorkflowTypes DEF OpenRecordForm
  <2>3. form' \in Form
    BY <1>17, <2>1 DEF OpenRecordForm, Form, RecordForm, Maybe
  <2>4. QED
    BY <1>17, <2>1, <2>2, <2>3 DEF OpenRecordForm
<1>18. CASE OpenUnsupportedRecordForm
  <2>1. workflow' \in Workflow
    BY <1>18, WorkflowTypes DEF OpenUnsupportedRecordForm
  <2>2. QED
    BY <1>18, <2>1 DEF OpenUnsupportedRecordForm
<1>19. CASE SubmitRecord
  <2>1. [pack |-> workflow.active.pack, form |-> form.entry] \in Activation
    BY <1>19, FieldTypes DEF SubmitRecord, FormIsPinned, Activation
  <2>2. request' \in Request
    <3>1. recordGeneration' \in Nat
      BY <1>19 DEF SubmitRecord
    <3>2. QED
      BY <1>19, <2>1, <3>1 DEF SubmitRecord
  <2>3. workflow' \in Workflow
    BY <1>19, WorkflowTypes DEF SubmitRecord
  <2>4. QED
    BY <1>19, <2>1, <2>2, <2>3 DEF SubmitRecord
<1>20. CASE RefuseRecord
  <2>1. workflow' \in Workflow
    BY <1>20, WorkflowTypes DEF RefuseRecord
  <2>2. QED
    BY <1>20, <2>1 DEF RefuseRecord
<1>21. CASE FinishSubmitRecord
  <2>1. request.subject \in Activation
    BY <1>21, SubjectTypes DEF FinishSubmitRecord
  <2>2. /\ Len(node.records) + 1 \in Nat
        /\ Append(node.records, request.subject.pack) \in Seq(Packs)
    BY <2>1, Appended DEF Node, Activation
  <2>3. [id |-> Len(node.records) + 1, of |-> request.subject] \in Receipt
    BY <1>21, <2>1, <2>2 DEF FinishSubmitRecord, Receipt
  <2>4. workflow' \in Workflow
    BY <1>21, <2>3, WorkflowTypes DEF FinishSubmitRecord
  <2>5. node' \in Node
    BY <1>21, <2>2 DEF FinishSubmitRecord, Node, Unanswered
  <2>6. results' \subseteq Evidence
    BY <1>21, <2>3 DEF FinishSubmitRecord, Evidence, Maybe
  <2>7. QED
    BY <1>21, <2>1, <2>2, <2>3, <2>4, <2>5, <2>6 DEF FinishSubmitRecord
<1>22. CASE ReadRecord
  <2>1. workflow.receipt \in Receipt
    BY <1>22, FieldTypes DEF ReadRecord
  <2>2. request' \in Request
    BY <1>22, <2>1 DEF ReadRecord
  <2>3. QED
    BY <1>22, <2>1, <2>2 DEF ReadRecord
<1>23. CASE FinishReadRecord
  <2>1. request.subject \in Receipt
    BY <1>23, SubjectTypes DEF FinishReadRecord
  <2>2. workflow' \in Workflow
    BY <1>23, WorkflowTypes DEF FinishReadRecord
  <2>3. results' \subseteq Evidence
    BY <1>23, <2>1 DEF FinishReadRecord, Evidence, Maybe
  <2>4. request' \in Request /\ busy' \in BOOLEAN
    BY <1>23 DEF FinishReadRecord
  <2>5. recordGeneration' \in Nat
    BY <1>23 DEF FinishReadRecord
  <2>6. QED
    BY <1>23, <2>2, <2>3, <2>4, <2>5 DEF FinishReadRecord
<1>24. CASE EditRecord
  <2>1. workflow' \in Workflow
    BY <1>24, WorkflowTypes DEF EditRecord
  <2>2. QED
    BY <1>24, <2>1 DEF EditRecord
<1>25. CASE Remount
  <2>1. form' \in Form
    BY <1>25 DEF Remount, Form, NoForm, Maybe
  <2>2. workflow' \in Workflow
    BY <1>25, NoWorkflowType DEF Remount
  <2>3. node' \in Node
    <3>1. node' = node \/ request.op \in {"pack.install", "record.create"}
      BY <1>25 DEF Remount, Unanswered
    <3>2. CASE request.op = "pack.install"
      BY <1>25, <3>2, SubjectTypes DEF Remount, Node, Unanswered
    <3>3. CASE request.op = "record.create"
      <4>1. Append(node.records, request.subject.pack) \in Seq(Packs)
        BY <3>3, SubjectTypes, Appended DEF Node, Activation
      <4>2. QED
        BY <1>25, <3>3, <4>1 DEF Remount, Node, Unanswered
    <3>4. QED
      BY <3>1, <3>2, <3>3
  <2>4. QED
    BY <1>25, <2>1, <2>2, <2>3 DEF Remount
<1>26. CASE \E text \in Packs \cup {None, Malformed} : EditPack(text)
  BY <1>26, NoWorkflowType DEF EditPack
<1>27. CASE UNCHANGED vars
  BY <1>27 DEF vars
<1>28. QED
  BY <1>1, <1>2, <1>3, <1>4, <1>5, <1>6, <1>7, <1>8, <1>9, <1>10, <1>11, <1>12, <1>13, <1>14, <1>15, <1>16, <1>17, <1>18, <1>19, <1>20, <1>21, <1>22, <1>23, <1>24, <1>25, <1>26, <1>27 DEF Next, User, Finish

-----------------------------------------------------------------------------
(***************************************************************************)
(* The step, part by part.                                                 *)
(***************************************************************************)

\* A workflow by its fields.
Flow(c, a, v, i, p, r) ==
    [ candidate |-> c, artifact |-> a, verification |-> v,
      installation |-> i, active |-> p, receipt |-> r ]

\* Each update of the workflow, field by field.
LEMMA Updates ==
    ASSUME NEW w \in Workflow
    PROVE  /\ WithoutReceipt(w) =
                Flow(w.candidate, w.artifact, w.verification, w.installation, w.active, None)
           /\ WithoutActivation(w) =
                Flow(w.candidate, w.artifact, w.verification, w.installation, None, None)
           /\ WithoutInstallation(w) =
                Flow(w.candidate, w.artifact, w.verification, None, None, None)
           /\ WithoutVerification(w) =
                Flow(w.candidate, w.artifact, None, None, None, None)
           /\ \A p : [w EXCEPT !.active = p] =
                Flow(w.candidate, w.artifact, w.verification, w.installation, p, w.receipt)
           /\ \A r : [w EXCEPT !.receipt = r] =
                Flow(w.candidate, w.artifact, w.verification, w.installation, w.active, r)
<1>1. WithoutReceipt(w) =
        Flow(w.candidate, w.artifact, w.verification, w.installation, w.active, None)
  BY DEF WithoutReceipt, Workflow, Flow
<1>2. WithoutActivation(w) =
        Flow(w.candidate, w.artifact, w.verification, w.installation, None, None)
  BY <1>1 DEF WithoutActivation, Flow
<1>3. WithoutInstallation(w) =
        Flow(w.candidate, w.artifact, w.verification, None, None, None)
  BY <1>2 DEF WithoutInstallation, Flow
<1>4. WithoutVerification(w) =
        Flow(w.candidate, w.artifact, None, None, None, None)
  BY <1>3 DEF WithoutVerification, Flow
<1>5. ASSUME NEW p
      PROVE [w EXCEPT !.active = p] =
              Flow(w.candidate, w.artifact, w.verification, w.installation, p, w.receipt)
  BY DEF Workflow, Flow
<1>6. ASSUME NEW r
      PROVE [w EXCEPT !.receipt = r] =
              Flow(w.candidate, w.artifact, w.verification, w.installation, w.active, r)
  BY DEF Workflow, Flow
<1>7. QED
  BY <1>1, <1>2, <1>3, <1>4, <1>5, <1>6

\* What an answer puts into a workflow that was cleared for it.
LEMMA Additions ==
    ASSUME NEW w \in Workflow, NEW x, NEW y
    PROVE  /\ NoWorkflow = Flow(None, None, None, None, None, None)
           /\ Validated(x) = Flow(x, None, None, None, None, None)
           /\ [Validated(x) EXCEPT !.artifact = y] = Flow(x, y, None, None, None, None)
           /\ [WithoutInstallation(w) EXCEPT !.verification = x] =
                Flow(w.candidate, w.artifact, x, None, None, None)
           /\ [WithoutActivation(w) EXCEPT !.installation = x] =
                Flow(w.candidate, w.artifact, w.verification, x, None, None)
<1>1. NoWorkflow = Flow(None, None, None, None, None, None)
  BY DEF NoWorkflow, Flow
<1>2. Validated(x) = Flow(x, None, None, None, None, None)
  BY <1>1 DEF Validated, Flow
<1>3. [Validated(x) EXCEPT !.artifact = y] = Flow(x, y, None, None, None, None)
  BY <1>2 DEF Flow
<1>4. [WithoutInstallation(w) EXCEPT !.verification = x] =
        Flow(w.candidate, w.artifact, x, None, None, None)
  BY Updates DEF Flow
<1>5. [WithoutActivation(w) EXCEPT !.installation = x] =
        Flow(w.candidate, w.artifact, w.verification, x, None, None)
  BY Updates DEF Flow
<1>6. QED
  BY <1>1, <1>2, <1>3, <1>4, <1>5

\* The node never takes back what it did.
LEMMA NodeMonotone ==
    ASSUME TypeOK, [Next]_vars
    PROVE  /\ node.validated \subseteq node'.validated
           /\ node.verified \subseteq node'.verified
           /\ node.installed \subseteq node'.installed
           /\ node.projected \subseteq node'.projected
           /\ \A artifact : Signed(node, artifact) => Signed(node', artifact)
           /\ \A receipt : Recorded(node, receipt) => Recorded(node', receipt)
<1> DEFINE Longer(old, new) == new = old \/ \E p \in Packs : new = Append(old, p)
<1>1. /\ node.validated \subseteq node'.validated
      /\ node.verified \subseteq node'.verified
      /\ node.installed \subseteq node'.installed
      /\ node.projected \subseteq node'.projected
      /\ Longer(node.signed, node'.signed)
      /\ Longer(node.records, node'.records)
  <2> USE DEF TypeOK, Node
  <2>1. CASE UNCHANGED node
    BY <2>1
  <2>2. CASE FinishExport
    BY <2>2, SubjectTypes DEF FinishExport
  <2>3. CASE FinishVerify
    BY <2>3 DEF FinishVerify
  <2>4. CASE FinishInstall
    BY <2>4 DEF FinishInstall, Unanswered
  <2>5. CASE FinishActivate
    BY <2>5 DEF FinishActivate
  <2>6. CASE FinishSubmitRecord
    BY <2>6, SubjectTypes DEF FinishSubmitRecord, Unanswered, Activation
  <2>7. CASE Remount
    <3>1. node' \in Unanswered(node, request)
      BY <2>7 DEF Remount
    <3>2. CASE node' = node
      BY <3>2
    <3>3. CASE request.op = "pack.install" /\ node' # node
      BY <3>1, <3>3 DEF Unanswered
    <3>4. CASE request.op = "record.create" /\ node' # node
      <4>1. request.subject.pack \in Packs
        BY <3>4, SubjectTypes DEF Activation
      <4>2. node' = [node EXCEPT !.records = Append(@, request.subject.pack)]
        BY <3>1, <3>4 DEF Unanswered
      <4> QED
        BY <4>1, <4>2
    <3> QED
      BY <3>1, <3>2, <3>3, <3>4 DEF Unanswered
  <2>8. CASE FinishSubmitPack
    BY <2>8 DEF FinishSubmitPack
  <2>9. QED
    BY <2>1, <2>2, <2>3, <2>4, <2>5, <2>6, <2>7, <2>8
    DEF Next, User, Finish, vars, OpenPackForm, FinishOpenPackForm, SubmitPack,
        SubmitUnreadablePack, Export, Verify, Install, Activate,
        FinishTypeRead, FinishFormRead, FinishRefresh, OpenRecordForm,
        OpenUnsupportedRecordForm, SubmitRecord, RefuseRecord, ReadRecord,
        FinishReadRecord, EditPack, EditRecord
<1>2. ASSUME NEW old \in Seq(Packs), NEW new, Longer(old, new), NEW i \in DOMAIN old
      PROVE  i \in DOMAIN new /\ new[i] = old[i]
  BY <1>2, Appended
<1>3. node.signed \in Seq(Packs) /\ node.records \in Seq(Packs)
  BY DEF TypeOK, Node
<1>4. QED
  BY <1>1, <1>2, <1>3 DEF Signed, Recorded

\* Only the answer that brings it puts a candidate, an artifact or a receipt
\* into the workflow.
LEMMA OnlyAnswersBring ==
    ASSUME TypeOK, [Next]_vars
    PROVE  /\ workflow'.candidate \in {None, workflow.candidate} \/ FinishSubmitPack
           /\ workflow'.artifact \in {None, workflow.artifact} \/ FinishExport
           /\ workflow'.receipt \in {None, workflow.receipt} \/ FinishSubmitRecord
<1> workflow \in Workflow
  BY DEF TypeOK
<1> DEFINE Kept == /\ workflow'.candidate \in {None, workflow.candidate}
                   /\ workflow'.artifact \in {None, workflow.artifact}
                   /\ workflow'.receipt \in {None, workflow.receipt}
<1>1. CASE workflow' = workflow
  BY <1>1
<1>2. CASE workflow' = NoWorkflow
  BY <1>2 DEF NoWorkflow
<1>3. CASE workflow' \in {WithoutReceipt(workflow), WithoutActivation(workflow),
                          WithoutInstallation(workflow), WithoutVerification(workflow)}
  <2>1. Kept
    BY <1>3, Updates DEF Flow
  <2>2. QED
    BY <2>1
<1>4. CASE FinishSubmitPack
  <2>1. CASE workflow' = workflow
    BY <2>1
  <2>2. CASE workflow' = Validated(request.subject)
    <3>1. workflow' = Flow(request.subject, None, None, None, None, None)
      BY <2>2, Additions
    <3>2. QED
      BY <1>4, <3>1 DEF Flow
  <2>3. QED
    BY <1>4, <2>1, <2>2 DEF FinishSubmitPack
<1>5. CASE FinishExport
  <2>1. CASE workflow' = workflow
    BY <2>1
  <2>2. CASE \E a : workflow' = [Validated(workflow.candidate) EXCEPT !.artifact = a]
    <3>1. PICK a : workflow' = [Validated(workflow.candidate) EXCEPT !.artifact = a]
      BY <2>2
    <3>2. workflow' = Flow(workflow.candidate, a, None, None, None, None)
      BY <3>1, Additions
    <3>3. QED
      BY <1>5, <3>2 DEF Flow
  <2>3. QED
    BY <1>5, <2>1, <2>2 DEF FinishExport
<1>6. CASE FinishVerify
  <2>1. CASE workflow' = workflow
    BY <2>1
  <2>2. CASE \E v : workflow' = [WithoutInstallation(workflow) EXCEPT !.verification = v]
    <3>1. PICK v : workflow' = [WithoutInstallation(workflow) EXCEPT !.verification = v]
      BY <2>2
    <3>2. workflow' = Flow(workflow.candidate, workflow.artifact, v, None, None, None)
      BY <3>1, Additions
    <3>3. QED
      BY <3>2 DEF Flow
  <2>3. QED
    BY <1>6, <2>1, <2>2 DEF FinishVerify
<1>7. CASE FinishInstall
  <2>1. CASE workflow' = workflow
    BY <2>1
  <2>2. CASE \E i : workflow' = [WithoutActivation(workflow) EXCEPT !.installation = i]
    <3>1. PICK i : workflow' = [WithoutActivation(workflow) EXCEPT !.installation = i]
      BY <2>2
    <3>2. workflow' = Flow(workflow.candidate, workflow.artifact, workflow.verification,
                           i, None, None)
      BY <3>1, Additions
    <3>3. QED
      BY <3>2 DEF Flow
  <2>3. QED
    BY <1>7, <2>1, <2>2 DEF FinishInstall
<1>8. CASE FinishFormRead
  BY <1>8, Updates DEF FinishFormRead, Flow
<1>9. CASE FinishSubmitRecord
  <2>1. CASE workflow' = workflow
    BY <2>1
  <2>2. CASE \E r : workflow' = [workflow EXCEPT !.receipt = r]
    <3>1. PICK r : workflow' = [workflow EXCEPT !.receipt = r]
      BY <2>2
    <3>2. workflow' = Flow(workflow.candidate, workflow.artifact, workflow.verification,
                           workflow.installation, workflow.active, r)
      BY <3>1, Updates
    <3>3. QED
      BY <1>9, <3>2 DEF Flow
  <2>3. QED
    BY <1>9, <2>1, <2>2 DEF FinishSubmitRecord
<1>10. QED
  BY <1>1, <1>2, <1>3, <1>4, <1>5, <1>6, <1>7, <1>8, <1>9
  DEF Next, User, Finish, vars, OpenPackForm, FinishOpenPackForm, SubmitPack,
      SubmitUnreadablePack, Export, Verify, Install, Activate, FinishActivate,
      FinishTypeRead, FinishRefresh, OpenRecordForm,
      OpenUnsupportedRecordForm, SubmitRecord, RefuseRecord, ReadRecord,
      FinishReadRecord, EditPack, EditRecord, Remount

\* The node goes on knowing what the workflow holds.
LEMMA NodeKnowsStep ==
    ASSUME TypeOK, TypeOK', NodeKnows, [Next]_vars
    PROVE  NodeKnows'
<1> /\ workflow \in Workflow /\ workflow' \in Workflow /\ node \in Node /\ node' \in Node
    /\ request \in Request
  BY DEF TypeOK
<1>1. workflow'.candidate # None => workflow'.candidate \in node'.validated
  <2>1. CASE FinishSubmitPack
    <3>1. CASE UNCHANGED <<workflow, node>>
      BY <3>1 DEF NodeKnows
    <3>2. CASE /\ workflow' = Validated(request.subject)
               /\ node' = [node EXCEPT !.validated = @ \cup {request.subject}]
      <4>1. workflow' = Flow(request.subject, None, None, None, None, None)
        BY <3>2, Additions
      <4>2. request.subject \in node'.validated
        BY <3>2 DEF Node
      <4>3. QED
        BY <4>1, <4>2 DEF Flow
    <3>3. QED
      BY <2>1, <3>1, <3>2 DEF FinishSubmitPack
  <2>2. CASE workflow'.candidate \in {None, workflow.candidate}
    BY <2>2, NodeMonotone DEF NodeKnows
  <2>3. QED
    BY <2>1, <2>2, OnlyAnswersBring
<1>2. workflow'.artifact # None => Signed(node', workflow'.artifact)
  <2>1. CASE FinishExport
    <3> DEFINE signed == [pack |-> request.subject, serial |-> Len(node.signed) + 1]
    <3>1. CASE UNCHANGED <<workflow, node>>
      BY <3>1 DEF NodeKnows
    <3>2. CASE /\ workflow' = [Validated(workflow.candidate) EXCEPT !.artifact = signed]
               /\ node' = [node EXCEPT !.signed = Append(@, request.subject)]
      <4>1. workflow' = Flow(workflow.candidate, signed, None, None, None, None)
        BY <3>2, Additions
      <4>2. node'.signed = Append(node.signed, request.subject) /\ request.subject \in Packs
        BY <2>1, <3>2, SubjectTypes DEF Node, FinishExport
      <4>3. workflow'.artifact = signed
        BY <4>1 DEF Flow
      <4>4. Signed(node', signed)
        BY <4>2, Appended DEF Signed, Node
      <4>5. QED
        BY <4>3, <4>4
    <3>3. QED
      BY <2>1, <3>1, <3>2 DEF FinishExport
  <2>2. CASE workflow'.artifact \in {None, workflow.artifact}
    BY <2>2, NodeMonotone DEF NodeKnows
  <2>3. QED
    BY <2>1, <2>2, OnlyAnswersBring
<1>3. workflow'.receipt # None => Recorded(node', workflow'.receipt)
  <2>1. CASE workflow'.receipt \in {None, workflow.receipt}
    BY <2>1, NodeMonotone DEF NodeKnows
  <2>2. CASE FinishSubmitRecord
    <3> DEFINE receipt == [id |-> Len(node.records) + 1, of |-> request.subject]
    <3>1. CASE workflow' = workflow
      BY <2>1, <3>1
    <3>2. CASE /\ workflow' = [workflow EXCEPT !.receipt = receipt]
               /\ node' = [node EXCEPT !.records = Append(@, request.subject.pack)]
      <4>1. workflow' = Flow(workflow.candidate, workflow.artifact, workflow.verification,
                             workflow.installation, workflow.active, receipt)
        BY <3>2, Updates
      <4>2. /\ node'.records = Append(node.records, request.subject.pack)
            /\ request.subject.pack \in Packs
        BY <2>2, <3>2, SubjectTypes DEF Node, FinishSubmitRecord, Activation
      <4>3. workflow'.receipt = receipt
        BY <4>1 DEF Flow
      <4>4. Recorded(node', receipt)
        BY <4>2, Appended DEF Recorded, Node
      <4>5. QED
        BY <4>3, <4>4
    <3>3. QED
      BY <2>2, <3>1, <3>2 DEF FinishSubmitRecord
  <2>3. QED
    BY <2>1, <2>2, OnlyAnswersBring
<1>4. QED
  BY <1>1, <1>2, <1>3 DEF NodeKnows

\* Every handler that sends locks the page, and only its answer, or the
\* unmount, unlocks it.
LEMMA BusyStep == IInv /\ [Next]_vars => BusyWhileAwaiting'
<1> SUFFICES ASSUME IInv, [Next]_vars PROVE BusyWhileAwaiting'
  OBVIOUS
<1> USE DEF IInv, BusyWhileAwaiting, Await, Settle, Admitted, Idle
<1>1. CASE OpenPackForm
  BY <1>1 DEF OpenPackForm
<1>2. CASE FinishOpenPackForm
  BY <1>2 DEF FinishOpenPackForm
<1>3. CASE SubmitPack
  BY <1>3 DEF SubmitPack
<1>4. CASE SubmitUnreadablePack
  BY <1>4 DEF SubmitUnreadablePack
<1>5. CASE FinishSubmitPack
  BY <1>5 DEF FinishSubmitPack
<1>6. CASE Export
  BY <1>6 DEF Export
<1>7. CASE FinishExport
  BY <1>7 DEF FinishExport
<1>8. CASE Verify
  BY <1>8 DEF Verify
<1>9. CASE FinishVerify
  BY <1>9 DEF FinishVerify
<1>10. CASE Install
  BY <1>10 DEF Install
<1>11. CASE FinishInstall
  BY <1>11 DEF FinishInstall
<1>12. CASE Activate
  BY <1>12 DEF Activate
<1>13. CASE FinishActivate
  BY <1>13 DEF FinishActivate
<1>14. CASE FinishTypeRead
  BY <1>14 DEF FinishTypeRead
<1>15. CASE FinishFormRead
  BY <1>15 DEF FinishFormRead
<1>16. CASE FinishRefresh
  BY <1>16 DEF FinishRefresh
<1>17. CASE OpenRecordForm
  BY <1>17 DEF OpenRecordForm
<1>18. CASE OpenUnsupportedRecordForm
  BY <1>18 DEF OpenUnsupportedRecordForm
<1>19. CASE SubmitRecord
  BY <1>19 DEF SubmitRecord
<1>20. CASE RefuseRecord
  BY <1>20 DEF RefuseRecord
<1>21. CASE FinishSubmitRecord
  BY <1>21 DEF FinishSubmitRecord
<1>22. CASE ReadRecord
  BY <1>22 DEF ReadRecord
<1>23. CASE FinishReadRecord
  BY <1>23 DEF FinishReadRecord
<1>24. CASE EditRecord
  BY <1>24 DEF EditRecord
<1>25. CASE Remount
  BY <1>25 DEF Remount
<1>26. CASE \E text \in Packs \cup {None, Malformed} : EditPack(text)
  BY <1>26 DEF EditPack
<1>27. CASE UNCHANGED vars
  BY <1>27 DEF vars
<1>28. QED
  BY <1>1, <1>2, <1>3, <1>4, <1>5, <1>6, <1>7, <1>8, <1>9, <1>10, <1>11, <1>12, <1>13, <1>14, <1>15, <1>16, <1>17, <1>18, <1>19, <1>20, <1>21, <1>22, <1>23, <1>24, <1>25, <1>26, <1>27 DEF Next, User, Finish

\* The invariant is inductive: one step per action, and under it what the
\* action does to the workflow, then each part it can disturb.
LEMMA IInvStep == IInv /\ [Next]_vars => IInv'
<1> SUFFICES ASSUME IInv, [Next]_vars PROVE IInv'
  OBVIOUS
<1> TypeOK /\ TypeOK'
  BY TypeOKStep DEF IInv
<1> BusyWhileAwaiting'
  BY BusyStep
<1> NodeKnows'
  BY NodeKnowsStep DEF IInv
<1> /\ workflow \in Workflow /\ node \in Node /\ node' \in Node
    /\ busy \in BOOLEAN /\ recordGeneration \in Nat
  BY DEF TypeOK
<1> /\ BusyWhileAwaiting /\ CandidateIsShown /\ EvidenceChain /\ NodeAskedInOrder
    /\ RecordsFollowProjection /\ EvidenceIsCurrent /\ PendingPack /\ InstalledCandidate
    /\ NodeBacksEvidence /\ NodeKnows /\ PendingRecord
  BY DEF IInv
<1>1. CASE OpenPackForm
  <2>1. workflow' =
         Flow(workflow.candidate, workflow.artifact, workflow.verification,
              workflow.installation, workflow.active, None)
    BY <1>1, Updates DEF OpenPackForm
  <2>2. CandidateIsShown' /\ InstalledCandidate'
    BY <1>1, <2>1 DEF OpenPackForm, Flow, CandidateIsShown, InstalledCandidate, PendingPack
  <2>3. EvidenceChain'
    BY <1>1, <2>1 DEF OpenPackForm, Flow, EvidenceChain, PendingPack
  <2>4. PendingPack'
    BY <1>1, <2>1 DEF OpenPackForm, Flow, EvidenceChain, CandidateIsShown, PendingPack, Await, Settle, Idle, Admitted
  <2>5. NodeBacksEvidence'
    BY <1>1, <2>1, NodeMonotone DEF OpenPackForm, Flow, NodeBacksEvidence, Verified, Installed, FormIsPinned, Await, Settle, Idle, Admitted
  <2>6. NodeAskedInOrder' /\ RecordsFollowProjection'
    BY <1>1, <2>1, <2>5, NodeMonotone DEF OpenPackForm, Flow, NodeBacksEvidence, EvidenceChain, InstalledCandidate, NodeAskedInOrder, RecordsFollowProjection, PendingRecord, Verified, Installed, FormIsPinned, Await, Settle, Idle, Admitted
  <2>7. EvidenceIsCurrent' /\ PendingRecord'
    BY <1>1, <2>1 DEF OpenPackForm, Flow, EvidenceIsCurrent, PendingRecord, FormIsPinned, Current, InvalidateRecord, BusyWhileAwaiting, Await, Settle, Idle, Admitted
  <2>8. QED
    BY <2>2, <2>3, <2>4, <2>5, <2>6, <2>7 DEF IInv
<1>2. CASE FinishOpenPackForm
  <2>1. workflow' = workflow
    BY <1>2 DEF FinishOpenPackForm
  <2>2. CandidateIsShown' /\ InstalledCandidate'
    BY <1>2, <2>1 DEF FinishOpenPackForm, Flow, CandidateIsShown, InstalledCandidate, PendingPack
  <2>3. EvidenceChain'
    BY <1>2, <2>1 DEF FinishOpenPackForm, Flow, EvidenceChain, PendingPack
  <2>4. PendingPack'
    BY <1>2, <2>1 DEF FinishOpenPackForm, Flow, EvidenceChain, CandidateIsShown, PendingPack, Await, Settle, Idle, Admitted
  <2>5. NodeBacksEvidence'
    BY <1>2, <2>1, NodeMonotone DEF FinishOpenPackForm, Flow, NodeBacksEvidence, Verified, Installed, FormIsPinned, Await, Settle, Idle, Admitted
  <2>6. NodeAskedInOrder' /\ RecordsFollowProjection'
    BY <1>2, <2>1, <2>5, NodeMonotone DEF FinishOpenPackForm, Flow, NodeBacksEvidence, EvidenceChain, InstalledCandidate, NodeAskedInOrder, RecordsFollowProjection, PendingRecord, Verified, Installed, FormIsPinned, Await, Settle, Idle, Admitted
  <2>7. EvidenceIsCurrent' /\ PendingRecord'
    BY <1>2, <2>1 DEF FinishOpenPackForm, Flow, EvidenceIsCurrent, PendingRecord, FormIsPinned, Current, InvalidateRecord, BusyWhileAwaiting, Await, Settle, Idle, Admitted
  <2>8. QED
    BY <2>2, <2>3, <2>4, <2>5, <2>6, <2>7 DEF IInv
<1>3. CASE SubmitPack
  <2>1. workflow' = Flow(None, None, None, None, None, None)
    BY <1>3, Additions DEF SubmitPack
  <2>2. CandidateIsShown' /\ InstalledCandidate'
    BY <1>3, <2>1 DEF SubmitPack, Flow, CandidateIsShown, InstalledCandidate, PendingPack
  <2>3. EvidenceChain'
    BY <1>3, <2>1 DEF SubmitPack, Flow, EvidenceChain, PendingPack
  <2>4. PendingPack'
    BY <1>3, <2>1 DEF SubmitPack, Flow, EvidenceChain, CandidateIsShown, PendingPack, Await, Settle, Idle, Admitted
  <2>5. NodeBacksEvidence'
    BY <1>3, <2>1, NodeMonotone DEF SubmitPack, Flow, NodeBacksEvidence, Verified, Installed, FormIsPinned, Await, Settle, Idle, Admitted
  <2>6. NodeAskedInOrder' /\ RecordsFollowProjection'
    BY <1>3, <2>1, <2>5, NodeMonotone DEF SubmitPack, Flow, NodeBacksEvidence, EvidenceChain, InstalledCandidate, NodeAskedInOrder, RecordsFollowProjection, PendingRecord, Verified, Installed, FormIsPinned, Await, Settle, Idle, Admitted
  <2>7. EvidenceIsCurrent' /\ PendingRecord'
    BY <1>3, <2>1 DEF SubmitPack, Flow, EvidenceIsCurrent, PendingRecord, FormIsPinned, Current, InvalidateRecord, BusyWhileAwaiting, Await, Settle, Idle, Admitted
  <2>8. QED
    BY <2>2, <2>3, <2>4, <2>5, <2>6, <2>7 DEF IInv
<1>4. CASE SubmitUnreadablePack
  <2>1. workflow' = Flow(None, None, None, None, None, None)
    BY <1>4, Additions DEF SubmitUnreadablePack
  <2>2. CandidateIsShown' /\ InstalledCandidate'
    BY <1>4, <2>1 DEF SubmitUnreadablePack, Flow, CandidateIsShown, InstalledCandidate, PendingPack
  <2>3. EvidenceChain'
    BY <1>4, <2>1 DEF SubmitUnreadablePack, Flow, EvidenceChain, PendingPack
  <2>4. PendingPack'
    BY <1>4, <2>1 DEF SubmitUnreadablePack, Flow, EvidenceChain, CandidateIsShown, PendingPack, Await, Settle, Idle, Admitted
  <2>5. NodeBacksEvidence'
    BY <1>4, <2>1, NodeMonotone DEF SubmitUnreadablePack, Flow, NodeBacksEvidence, Verified, Installed, FormIsPinned, Await, Settle, Idle, Admitted
  <2>6. NodeAskedInOrder' /\ RecordsFollowProjection'
    BY <1>4, <2>1, <2>5, NodeMonotone DEF SubmitUnreadablePack, Flow, NodeBacksEvidence, EvidenceChain, InstalledCandidate, NodeAskedInOrder, RecordsFollowProjection, PendingRecord, Verified, Installed, FormIsPinned, Await, Settle, Idle, Admitted
  <2>7. EvidenceIsCurrent' /\ PendingRecord'
    BY <1>4, <2>1 DEF SubmitUnreadablePack, Flow, EvidenceIsCurrent, PendingRecord, FormIsPinned, Current, InvalidateRecord, BusyWhileAwaiting, Await, Settle, Idle, Admitted
  <2>8. QED
    BY <2>2, <2>3, <2>4, <2>5, <2>6, <2>7 DEF IInv
<1>5. CASE FinishSubmitPack
  <2>1. \/ workflow' = workflow
       \/ workflow' = Flow(request.subject, None, None, None, None, None)
    BY <1>5, Additions DEF FinishSubmitPack
  <2>2. CandidateIsShown' /\ InstalledCandidate'
    BY <1>5, <2>1 DEF FinishSubmitPack, Flow, CandidateIsShown, InstalledCandidate, PendingPack
  <2>3. EvidenceChain'
    BY <1>5, <2>1 DEF FinishSubmitPack, Flow, EvidenceChain, PendingPack
  <2>4. PendingPack'
    BY <1>5, <2>1 DEF FinishSubmitPack, Flow, EvidenceChain, CandidateIsShown, PendingPack, Await, Settle, Idle, Admitted
  <2>5. NodeBacksEvidence'
    BY <1>5, <2>1, NodeMonotone DEF FinishSubmitPack, Flow, NodeBacksEvidence, Verified, Installed, FormIsPinned, Await, Settle, Idle, Admitted
  <2>6. NodeAskedInOrder' /\ RecordsFollowProjection'
    BY <1>5, <2>1, <2>5, NodeMonotone DEF FinishSubmitPack, Flow, NodeBacksEvidence, EvidenceChain, InstalledCandidate, NodeAskedInOrder, RecordsFollowProjection, PendingRecord, Verified, Installed, FormIsPinned, Await, Settle, Idle, Admitted
  <2>7. EvidenceIsCurrent' /\ PendingRecord'
    BY <1>5, <2>1 DEF FinishSubmitPack, Flow, EvidenceIsCurrent, PendingRecord, FormIsPinned, Current, InvalidateRecord, BusyWhileAwaiting, Await, Settle, Idle, Admitted
  <2>8. QED
    BY <2>2, <2>3, <2>4, <2>5, <2>6, <2>7 DEF IInv
<1>6. CASE Export
  <2>1. workflow' =
         Flow(workflow.candidate, workflow.artifact, workflow.verification,
              workflow.installation, workflow.active, None)
    BY <1>6, Updates DEF Export
  <2>2. CandidateIsShown' /\ InstalledCandidate'
    BY <1>6, <2>1 DEF Export, Flow, CandidateIsShown, InstalledCandidate, PendingPack
  <2>3. EvidenceChain'
    BY <1>6, <2>1 DEF Export, Flow, EvidenceChain, PendingPack
  <2>4. PendingPack'
    BY <1>6, <2>1 DEF Export, Flow, EvidenceChain, CandidateIsShown, PendingPack, Await, Settle, Idle, Admitted
  <2>5. NodeBacksEvidence'
    BY <1>6, <2>1, NodeMonotone DEF Export, Flow, NodeBacksEvidence, Verified, Installed, FormIsPinned, Await, Settle, Idle, Admitted
  <2>6. NodeAskedInOrder' /\ RecordsFollowProjection'
    BY <1>6, <2>1, <2>5, NodeMonotone DEF Export, Flow, NodeKnows, NodeBacksEvidence, EvidenceChain, InstalledCandidate, NodeAskedInOrder, RecordsFollowProjection, PendingRecord, Verified, Installed, FormIsPinned, Await, Settle, Idle, Admitted
  <2>7. EvidenceIsCurrent' /\ PendingRecord'
    BY <1>6, <2>1 DEF Export, Flow, EvidenceIsCurrent, PendingRecord, FormIsPinned, Current, InvalidateRecord, BusyWhileAwaiting, Await, Settle, Idle, Admitted
  <2>8. QED
    BY <2>2, <2>3, <2>4, <2>5, <2>6, <2>7 DEF IInv
<1>7. CASE FinishExport
  <2>1. \/ workflow' = workflow
       \/ \E n : workflow' = Flow(workflow.candidate, [pack |-> request.subject, serial |-> n],
                               None, None, None, None)
    <3>1. ASSUME NEW n
          PROVE [Validated(workflow.candidate) EXCEPT !.artifact = [pack |-> request.subject, serial |-> n]]
                  = Flow(workflow.candidate, [pack |-> request.subject, serial |-> n],
                         None, None, None, None)
      BY Additions
    <3>2. QED
      BY <1>7, <3>1 DEF FinishExport
  <2>2. CandidateIsShown' /\ InstalledCandidate'
    BY <1>7, <2>1 DEF FinishExport, Flow, CandidateIsShown, InstalledCandidate, PendingPack
  <2>3. EvidenceChain'
    BY <1>7, <2>1 DEF FinishExport, Flow, EvidenceChain, PendingPack
  <2>4. PendingPack'
    BY <1>7, <2>1 DEF FinishExport, Flow, EvidenceChain, CandidateIsShown, PendingPack, Await, Settle, Idle, Admitted
  <2>5. NodeBacksEvidence'
    BY <1>7, <2>1, NodeMonotone DEF FinishExport, Flow, NodeBacksEvidence, Verified, Installed, FormIsPinned, Await, Settle, Idle, Admitted
  <2>6. NodeAskedInOrder' /\ RecordsFollowProjection'
    BY <1>7, <2>1, <2>5, NodeMonotone DEF FinishExport, Flow, NodeBacksEvidence, EvidenceChain, InstalledCandidate, NodeAskedInOrder, RecordsFollowProjection, PendingRecord, Verified, Installed, FormIsPinned, Await, Settle, Idle, Admitted
  <2>7. EvidenceIsCurrent' /\ PendingRecord'
    BY <1>7, <2>1 DEF FinishExport, Flow, EvidenceIsCurrent, PendingRecord, FormIsPinned, Current, InvalidateRecord, BusyWhileAwaiting, Await, Settle, Idle, Admitted
  <2>8. QED
    BY <2>2, <2>3, <2>4, <2>5, <2>6, <2>7 DEF IInv
<1>8. CASE Verify
  <2>1. workflow' =
         Flow(workflow.candidate, workflow.artifact, None, None, None, None)
    BY <1>8, Updates DEF Verify
  <2>2. CandidateIsShown' /\ InstalledCandidate'
    BY <1>8, <2>1 DEF Verify, Flow, CandidateIsShown, InstalledCandidate, PendingPack
  <2>3. EvidenceChain'
    BY <1>8, <2>1 DEF Verify, Flow, EvidenceChain, PendingPack
  <2>4. PendingPack'
    BY <1>8, <2>1 DEF Verify, Flow, EvidenceChain, CandidateIsShown, PendingPack, Await, Settle, Idle, Admitted
  <2>5. NodeBacksEvidence'
    BY <1>8, <2>1, NodeMonotone DEF Verify, Flow, NodeBacksEvidence, Verified, Installed, FormIsPinned, Await, Settle, Idle, Admitted
  <2>6. NodeAskedInOrder' /\ RecordsFollowProjection'
    BY <1>8, <2>1, <2>5, NodeMonotone DEF Verify, Flow, NodeBacksEvidence, EvidenceChain, InstalledCandidate, NodeAskedInOrder, RecordsFollowProjection, PendingRecord, Verified, Installed, FormIsPinned, Await, Settle, Idle, Admitted
  <2>7. EvidenceIsCurrent' /\ PendingRecord'
    BY <1>8, <2>1 DEF Verify, Flow, EvidenceIsCurrent, PendingRecord, FormIsPinned, Current, InvalidateRecord, BusyWhileAwaiting, Await, Settle, Idle, Admitted
  <2>8. QED
    BY <2>2, <2>3, <2>4, <2>5, <2>6, <2>7 DEF IInv
<1>9. CASE FinishVerify
  <2>1. \/ workflow' = workflow
       \/ \E verdict \in {"Verified", "Refused"} :
            /\ workflow' = Flow(workflow.candidate, workflow.artifact,
                                [of |-> request.subject, verdict |-> verdict], None, None, None)
            /\ verdict = "Verified" => request.subject \in node'.verified
    <3>1. CASE UNCHANGED <<workflow, node>>
      BY <3>1
    <3>2. CASE \E verdict \in {"Verified", "Refused"} :
                 /\ workflow' = [WithoutInstallation(workflow) EXCEPT
                                   !.verification = [of |-> request.subject, verdict |-> verdict]]
                 /\ node' = IF verdict = "Verified"
                              THEN [node EXCEPT !.verified = @ \cup {request.subject}]
                              ELSE node
      <4>1. PICK verdict \in {"Verified", "Refused"} :
                 /\ workflow' = [WithoutInstallation(workflow) EXCEPT
                                   !.verification = [of |-> request.subject, verdict |-> verdict]]
                 /\ node' = IF verdict = "Verified"
                              THEN [node EXCEPT !.verified = @ \cup {request.subject}]
                              ELSE node
        BY <3>2
      <4>2. workflow' = Flow(workflow.candidate, workflow.artifact,
                             [of |-> request.subject, verdict |-> verdict], None, None, None)
        BY <4>1, Additions
      <4>3. verdict = "Verified" => request.subject \in node'.verified
        BY <4>1 DEF Node
      <4>4. QED
        BY <4>2, <4>3
    <3>3. QED
      BY <1>9, <3>1, <3>2 DEF FinishVerify
  <2>2. CandidateIsShown' /\ InstalledCandidate'
    BY <1>9, <2>1 DEF FinishVerify, Flow, CandidateIsShown, InstalledCandidate, PendingPack
  <2>3. EvidenceChain'
    BY <1>9, <2>1 DEF FinishVerify, Flow, EvidenceChain, PendingPack
  <2>4. PendingPack'
    BY <1>9, <2>1 DEF FinishVerify, Flow, EvidenceChain, CandidateIsShown, PendingPack, Await, Settle, Idle, Admitted
  <2>5. NodeBacksEvidence'
    BY <1>9, <2>1, NodeMonotone DEF FinishVerify, Flow, NodeBacksEvidence, Verified, Installed, FormIsPinned, Await, Settle, Idle, Admitted
  <2>6. NodeAskedInOrder' /\ RecordsFollowProjection'
    BY <1>9, <2>1, <2>5, NodeMonotone DEF FinishVerify, Flow, NodeBacksEvidence, EvidenceChain, InstalledCandidate, NodeAskedInOrder, RecordsFollowProjection, PendingRecord, Verified, Installed, FormIsPinned, Await, Settle, Idle, Admitted
  <2>7. EvidenceIsCurrent' /\ PendingRecord'
    BY <1>9, <2>1 DEF FinishVerify, Flow, EvidenceIsCurrent, PendingRecord, FormIsPinned, Current, InvalidateRecord, BusyWhileAwaiting, Await, Settle, Idle, Admitted
  <2>8. QED
    BY <2>2, <2>3, <2>4, <2>5, <2>6, <2>7 DEF IInv
<1>10. CASE Install
  <2>1. workflow' =
         Flow(workflow.candidate, workflow.artifact, workflow.verification, None, None, None)
    BY <1>10, Updates DEF Install
  <2>2. CandidateIsShown' /\ InstalledCandidate'
    BY <1>10, <2>1 DEF Install, Flow, CandidateIsShown, InstalledCandidate, PendingPack
  <2>3. EvidenceChain'
    BY <1>10, <2>1 DEF Install, Flow, EvidenceChain, PendingPack
  <2>4. PendingPack'
    BY <1>10, <2>1 DEF Install, Flow, EvidenceChain, CandidateIsShown, PendingPack, Await, Settle, Idle, Admitted
  <2>5. NodeBacksEvidence'
    BY <1>10, <2>1, NodeMonotone DEF Install, Flow, NodeBacksEvidence, Verified, Installed, FormIsPinned, Await, Settle, Idle, Admitted
  <2>6. NodeAskedInOrder' /\ RecordsFollowProjection'
    BY <1>10, <2>1, <2>5, NodeMonotone DEF Install, Flow, NodeBacksEvidence, EvidenceChain, InstalledCandidate, NodeAskedInOrder, RecordsFollowProjection, PendingRecord, Verified, Installed, FormIsPinned, Await, Settle, Idle, Admitted
  <2>7. EvidenceIsCurrent' /\ PendingRecord'
    BY <1>10, <2>1 DEF Install, Flow, EvidenceIsCurrent, PendingRecord, FormIsPinned, Current, InvalidateRecord, BusyWhileAwaiting, Await, Settle, Idle, Admitted
  <2>8. QED
    BY <2>2, <2>3, <2>4, <2>5, <2>6, <2>7 DEF IInv
<1>11. CASE FinishInstall
  <2>1. \/ workflow' = workflow
       \/ \E installed \in BOOLEAN :
            /\ workflow' = Flow(workflow.candidate, workflow.artifact, workflow.verification,
                                [of |-> request.subject, installed |-> installed], None, None)
            /\ installed => request.subject \in node'.installed
    <3>1. CASE UNCHANGED workflow
      BY <3>1
    <3>2. CASE \E installed \in BOOLEAN :
                 /\ workflow' = [WithoutActivation(workflow) EXCEPT
                                   !.installation = [of |-> request.subject, installed |-> installed]]
                 /\ node' = IF installed
                              THEN [node EXCEPT !.installed = @ \cup {request.subject}]
                              ELSE node
      <4>1. PICK installed \in BOOLEAN :
                 /\ workflow' = [WithoutActivation(workflow) EXCEPT
                                   !.installation = [of |-> request.subject, installed |-> installed]]
                 /\ node' = IF installed
                              THEN [node EXCEPT !.installed = @ \cup {request.subject}]
                              ELSE node
        BY <3>2
      <4>2. workflow' = Flow(workflow.candidate, workflow.artifact, workflow.verification,
                             [of |-> request.subject, installed |-> installed], None, None)
        BY <4>1, Additions
      <4>3. installed => request.subject \in node'.installed
        BY <4>1 DEF Node
      <4>4. QED
        BY <4>2, <4>3
    <3>3. QED
      BY <1>11, <3>1, <3>2 DEF FinishInstall
  <2>2. CandidateIsShown' /\ InstalledCandidate'
    BY <1>11, <2>1 DEF FinishInstall, Flow, CandidateIsShown, InstalledCandidate, PendingPack
  <2>3. EvidenceChain'
    BY <1>11, <2>1 DEF FinishInstall, Flow, EvidenceChain, PendingPack
  <2>4. PendingPack'
    BY <1>11, <2>1 DEF FinishInstall, Flow, EvidenceChain, CandidateIsShown, PendingPack, Await, Settle, Idle, Admitted
  <2>5. NodeBacksEvidence'
    BY <1>11, <2>1, NodeMonotone DEF FinishInstall, Flow, NodeBacksEvidence, Verified, Installed, FormIsPinned, Await, Settle, Idle, Admitted
  <2>6. NodeAskedInOrder' /\ RecordsFollowProjection'
    BY <1>11, <2>1, <2>5, NodeMonotone DEF FinishInstall, Flow, NodeBacksEvidence, EvidenceChain, InstalledCandidate, NodeAskedInOrder, RecordsFollowProjection, PendingRecord, Verified, Installed, FormIsPinned, Await, Settle, Idle, Admitted
  <2>7. EvidenceIsCurrent' /\ PendingRecord'
    BY <1>11, <2>1 DEF FinishInstall, Flow, EvidenceIsCurrent, PendingRecord, FormIsPinned, Current, InvalidateRecord, BusyWhileAwaiting, Await, Settle, Idle, Admitted
  <2>8. QED
    BY <2>2, <2>3, <2>4, <2>5, <2>6, <2>7 DEF IInv
<1>12. CASE Activate
  <2>1. workflow' =
         Flow(workflow.candidate, workflow.artifact, workflow.verification,
              workflow.installation, None, None)
    BY <1>12, Updates DEF Activate
  <2>2. CandidateIsShown' /\ InstalledCandidate'
    BY <1>12, <2>1 DEF Activate, Flow, CandidateIsShown, InstalledCandidate, PendingPack
  <2>3. EvidenceChain'
    BY <1>12, <2>1 DEF Activate, Flow, EvidenceChain, PendingPack
  <2>4. PendingPack'
    BY <1>12, <2>1 DEF Activate, Flow, EvidenceChain, CandidateIsShown, PendingPack, Await, Settle, Idle, Admitted
  <2>5. NodeBacksEvidence'
    BY <1>12, <2>1, NodeMonotone DEF Activate, Flow, NodeBacksEvidence, Verified, Installed, FormIsPinned, Await, Settle, Idle, Admitted
  <2>6. NodeAskedInOrder' /\ RecordsFollowProjection'
    BY <1>12, <2>1, <2>5, NodeMonotone DEF Activate, Flow, NodeBacksEvidence, EvidenceChain, InstalledCandidate, NodeAskedInOrder, RecordsFollowProjection, PendingRecord, Verified, Installed, FormIsPinned, Await, Settle, Idle, Admitted
  <2>7. EvidenceIsCurrent' /\ PendingRecord'
    BY <1>12, <2>1 DEF Activate, Flow, EvidenceIsCurrent, PendingRecord, FormIsPinned, Current, InvalidateRecord, BusyWhileAwaiting, Await, Settle, Idle, Admitted
  <2>8. QED
    BY <2>2, <2>3, <2>4, <2>5, <2>6, <2>7 DEF IInv
<1>13. CASE FinishActivate
  <2>1. /\ workflow' = workflow
       /\ request'.op = "type.read" => request'.subject \in node'.projected
    BY <1>13, Updates DEF FinishActivate, Node, Await, Settle, Idle
  <2>2. CandidateIsShown' /\ InstalledCandidate'
    BY <1>13, <2>1 DEF FinishActivate, Flow, CandidateIsShown, InstalledCandidate, PendingPack
  <2>3. EvidenceChain'
    BY <1>13, <2>1 DEF FinishActivate, Flow, EvidenceChain, PendingPack
  <2>4. PendingPack'
    BY <1>13, <2>1 DEF FinishActivate, Flow, EvidenceChain, CandidateIsShown, PendingPack, Await, Settle, Idle, Admitted
  <2>5. NodeBacksEvidence'
    BY <1>13, <2>1, NodeMonotone DEF FinishActivate, Flow, NodeBacksEvidence, Verified, Installed, FormIsPinned, Await, Settle, Idle, Admitted
  <2>6. NodeAskedInOrder' /\ RecordsFollowProjection'
    BY <1>13, <2>1, <2>5, NodeMonotone DEF FinishActivate, Flow, NodeBacksEvidence, EvidenceChain, InstalledCandidate, NodeAskedInOrder, RecordsFollowProjection, PendingRecord, Verified, Installed, FormIsPinned, Await, Settle, Idle, Admitted
  <2>7. EvidenceIsCurrent' /\ PendingRecord'
    BY <1>13, <2>1 DEF FinishActivate, Flow, EvidenceIsCurrent, PendingRecord, FormIsPinned, Current, InvalidateRecord, BusyWhileAwaiting, Await, Settle, Idle, Admitted
  <2>8. QED
    BY <2>2, <2>3, <2>4, <2>5, <2>6, <2>7 DEF IInv
<1>14. CASE FinishTypeRead
  <2>1. workflow' = workflow
    BY <1>14 DEF FinishTypeRead
  <2>2. CandidateIsShown' /\ InstalledCandidate'
    BY <1>14, <2>1 DEF FinishTypeRead, Flow, CandidateIsShown, InstalledCandidate, PendingPack
  <2>3. EvidenceChain'
    BY <1>14, <2>1 DEF FinishTypeRead, Flow, EvidenceChain, PendingPack
  <2>4. PendingPack'
    BY <1>14, <2>1 DEF FinishTypeRead, Flow, EvidenceChain, CandidateIsShown, PendingPack, Await, Settle, Idle, Admitted
  <2>5. NodeBacksEvidence'
    BY <1>14, <2>1, NodeMonotone DEF FinishTypeRead, Flow, NodeBacksEvidence, Verified, Installed, FormIsPinned, Await, Settle, Idle, Admitted
  <2>6. NodeAskedInOrder' /\ RecordsFollowProjection'
    BY <1>14, <2>1, <2>5, NodeMonotone DEF FinishTypeRead, Flow, NodeBacksEvidence, EvidenceChain, InstalledCandidate, NodeAskedInOrder, RecordsFollowProjection, PendingRecord, Verified, Installed, FormIsPinned, Await, Settle, Idle, Admitted
  <2>7. EvidenceIsCurrent' /\ PendingRecord'
    BY <1>14, <2>1 DEF FinishTypeRead, Flow, EvidenceIsCurrent, PendingRecord, FormIsPinned, Current, InvalidateRecord, BusyWhileAwaiting, Await, Settle, Idle, Admitted
  <2>8. QED
    BY <2>2, <2>3, <2>4, <2>5, <2>6, <2>7 DEF IInv
<1>15. CASE FinishFormRead
  <2>1. \/ workflow' = workflow
       \/ workflow' = Flow(workflow.candidate, workflow.artifact, workflow.verification,
                           workflow.installation, request.subject, workflow.receipt)
    BY <1>15, Updates DEF FinishFormRead
  <2>2. CandidateIsShown' /\ InstalledCandidate'
    BY <1>15, <2>1 DEF FinishFormRead, Flow, CandidateIsShown, InstalledCandidate, PendingPack
  <2>3. EvidenceChain'
    BY <1>15, <2>1 DEF FinishFormRead, Flow, EvidenceChain, PendingPack
  <2>4. PendingPack'
    BY <1>15, <2>1 DEF FinishFormRead, Flow, EvidenceChain, CandidateIsShown, PendingPack, Await, Settle, Idle, Admitted
  <2>5. NodeBacksEvidence'
    BY <1>15, <2>1, NodeMonotone DEF FinishFormRead, Flow, NodeBacksEvidence, Verified, Installed, FormIsPinned, Await, Settle, Idle, Admitted
  <2>6. NodeAskedInOrder' /\ RecordsFollowProjection'
    BY <1>15, <2>1, <2>5, NodeMonotone DEF FinishFormRead, Flow, NodeBacksEvidence, EvidenceChain, InstalledCandidate, NodeAskedInOrder, RecordsFollowProjection, PendingRecord, Verified, Installed, FormIsPinned, Await, Settle, Idle, Admitted
  <2>7. EvidenceIsCurrent' /\ PendingRecord'
    BY <1>15, <2>1 DEF FinishFormRead, Flow, EvidenceIsCurrent, PendingRecord, FormIsPinned, Current, InvalidateRecord, BusyWhileAwaiting, Await, Settle, Idle, Admitted
  <2>8. QED
    BY <2>2, <2>3, <2>4, <2>5, <2>6, <2>7 DEF IInv
<1>16. CASE FinishRefresh
  <2>1. workflow' = workflow
    BY <1>16 DEF FinishRefresh
  <2>2. CandidateIsShown' /\ InstalledCandidate'
    BY <1>16, <2>1 DEF FinishRefresh, Flow, CandidateIsShown, InstalledCandidate, PendingPack
  <2>3. EvidenceChain'
    BY <1>16, <2>1 DEF FinishRefresh, Flow, EvidenceChain, PendingPack
  <2>4. PendingPack'
    BY <1>16, <2>1 DEF FinishRefresh, Flow, EvidenceChain, CandidateIsShown, PendingPack, Await, Settle, Idle, Admitted
  <2>5. NodeBacksEvidence'
    BY <1>16, <2>1, NodeMonotone DEF FinishRefresh, Flow, NodeBacksEvidence, Verified, Installed, FormIsPinned, Await, Settle, Idle, Admitted
  <2>6. NodeAskedInOrder' /\ RecordsFollowProjection'
    BY <1>16, <2>1, <2>5, NodeMonotone DEF FinishRefresh, Flow, NodeBacksEvidence, EvidenceChain, InstalledCandidate, NodeAskedInOrder, RecordsFollowProjection, PendingRecord, Verified, Installed, FormIsPinned, Await, Settle, Idle, Admitted
  <2>7. EvidenceIsCurrent' /\ PendingRecord'
    BY <1>16, <2>1 DEF FinishRefresh, Flow, EvidenceIsCurrent, PendingRecord, FormIsPinned, Current, InvalidateRecord, BusyWhileAwaiting, Await, Settle, Idle, Admitted
  <2>8. QED
    BY <2>2, <2>3, <2>4, <2>5, <2>6, <2>7 DEF IInv
<1>17. CASE OpenRecordForm
  <2>1. workflow' =
         Flow(workflow.candidate, workflow.artifact, workflow.verification,
              workflow.installation, workflow.active, None)
    BY <1>17, Updates DEF OpenRecordForm
  <2>2. CandidateIsShown' /\ InstalledCandidate'
    BY <1>17, <2>1 DEF OpenRecordForm, Flow, CandidateIsShown, InstalledCandidate, PendingPack
  <2>3. EvidenceChain'
    BY <1>17, <2>1 DEF OpenRecordForm, Flow, EvidenceChain, PendingPack
  <2>4. PendingPack'
    BY <1>17, <2>1 DEF OpenRecordForm, Flow, EvidenceChain, CandidateIsShown, PendingPack, Await, Settle, Idle, Admitted
  <2>5. NodeBacksEvidence'
    BY <1>17, <2>1, NodeMonotone DEF OpenRecordForm, Flow, NodeBacksEvidence, Verified, Installed, FormIsPinned, Await, Settle, Idle, Admitted
  <2>6. NodeAskedInOrder' /\ RecordsFollowProjection'
    BY <1>17, <2>1, <2>5, NodeMonotone DEF OpenRecordForm, Flow, NodeBacksEvidence, EvidenceChain, InstalledCandidate, NodeAskedInOrder, RecordsFollowProjection, PendingRecord, Verified, Installed, FormIsPinned, Await, Settle, Idle, Admitted
  <2>7. EvidenceIsCurrent' /\ PendingRecord'
    BY <1>17, <2>1 DEF OpenRecordForm, Flow, EvidenceIsCurrent, PendingRecord, FormIsPinned, Current, InvalidateRecord, BusyWhileAwaiting, Await, Settle, Idle, Admitted
  <2>8. QED
    BY <2>2, <2>3, <2>4, <2>5, <2>6, <2>7 DEF IInv
<1>18. CASE OpenUnsupportedRecordForm
  <2>1. workflow' =
         Flow(workflow.candidate, workflow.artifact, workflow.verification,
              workflow.installation, workflow.active, None)
    BY <1>18, Updates DEF OpenUnsupportedRecordForm
  <2>2. CandidateIsShown' /\ InstalledCandidate'
    BY <1>18, <2>1 DEF OpenUnsupportedRecordForm, Flow, CandidateIsShown, InstalledCandidate, PendingPack
  <2>3. EvidenceChain'
    BY <1>18, <2>1 DEF OpenUnsupportedRecordForm, Flow, EvidenceChain, PendingPack
  <2>4. PendingPack'
    BY <1>18, <2>1 DEF OpenUnsupportedRecordForm, Flow, EvidenceChain, CandidateIsShown, PendingPack, Await, Settle, Idle, Admitted
  <2>5. NodeBacksEvidence'
    BY <1>18, <2>1, NodeMonotone DEF OpenUnsupportedRecordForm, Flow, NodeBacksEvidence, Verified, Installed, FormIsPinned, Await, Settle, Idle, Admitted
  <2>6. NodeAskedInOrder' /\ RecordsFollowProjection'
    BY <1>18, <2>1, <2>5, NodeMonotone DEF OpenUnsupportedRecordForm, Flow, NodeBacksEvidence, EvidenceChain, InstalledCandidate, NodeAskedInOrder, RecordsFollowProjection, PendingRecord, Verified, Installed, FormIsPinned, Await, Settle, Idle, Admitted
  <2>7. EvidenceIsCurrent' /\ PendingRecord'
    BY <1>18, <2>1 DEF OpenUnsupportedRecordForm, Flow, EvidenceIsCurrent, PendingRecord, FormIsPinned, Current, InvalidateRecord, BusyWhileAwaiting, Await, Settle, Idle, Admitted
  <2>8. QED
    BY <2>2, <2>3, <2>4, <2>5, <2>6, <2>7 DEF IInv
<1>19. CASE SubmitRecord
  <2>1. workflow' =
         Flow(workflow.candidate, workflow.artifact, workflow.verification,
              workflow.installation, workflow.active, None)
    BY <1>19, Updates DEF SubmitRecord
  <2>2. CandidateIsShown' /\ InstalledCandidate'
    BY <1>19, <2>1 DEF SubmitRecord, Flow, CandidateIsShown, InstalledCandidate, PendingPack
  <2>3. EvidenceChain'
    BY <1>19, <2>1 DEF SubmitRecord, Flow, EvidenceChain, PendingPack
  <2>4. PendingPack'
    BY <1>19, <2>1 DEF SubmitRecord, Flow, EvidenceChain, CandidateIsShown, PendingPack, Await, Settle, Idle, Admitted
  <2>5. NodeBacksEvidence'
    BY <1>19, <2>1, NodeMonotone DEF SubmitRecord, Flow, NodeBacksEvidence, Verified, Installed, FormIsPinned, Await, Settle, Idle, Admitted
  <2>6. NodeAskedInOrder' /\ RecordsFollowProjection'
    <3>1. workflow.active \in Activation
      BY <1>19, FieldTypes DEF SubmitRecord, FormIsPinned
    <3>2. [pack |-> workflow.active.pack, form |-> form.entry] = workflow.active
      BY <1>19, <3>1 DEF SubmitRecord, FormIsPinned, Activation
    <3>3. /\ request'.op = "record.create"
          /\ request'.subject = workflow'.active
      BY <1>19, <2>1, <3>2 DEF SubmitRecord, Await, Flow
    <3>4. request'.subject.pack \in node'.projected
      BY <2>5, <3>3 DEF NodeBacksEvidence
    <3>5. QED
      BY <3>3, <3>4 DEF NodeAskedInOrder, RecordsFollowProjection
  <2>7. EvidenceIsCurrent' /\ PendingRecord'
    <3>1. workflow'.receipt = None /\ results' = {}
      BY <1>19, <2>1 DEF SubmitRecord, InvalidateRecord, Flow
    <3>2. request'.op = "record.create" /\ form'.kind = "record"
      BY <1>19 DEF SubmitRecord, Await
    <3>3. QED
      BY <2>6, <3>1, <3>2 DEF EvidenceIsCurrent, PendingRecord, RecordsFollowProjection
  <2>8. QED
    BY <2>2, <2>3, <2>4, <2>5, <2>6, <2>7 DEF IInv
<1>20. CASE RefuseRecord
  <2>1. workflow' =
         Flow(workflow.candidate, workflow.artifact, workflow.verification,
              workflow.installation, workflow.active, None)
    BY <1>20, Updates DEF RefuseRecord
  <2>2. CandidateIsShown' /\ InstalledCandidate'
    BY <1>20, <2>1 DEF RefuseRecord, Flow, CandidateIsShown, InstalledCandidate, PendingPack
  <2>3. EvidenceChain'
    BY <1>20, <2>1 DEF RefuseRecord, Flow, EvidenceChain, PendingPack
  <2>4. PendingPack'
    BY <1>20, <2>1 DEF RefuseRecord, Flow, EvidenceChain, CandidateIsShown, PendingPack, Await, Settle, Idle, Admitted
  <2>5. NodeBacksEvidence'
    BY <1>20, <2>1, NodeMonotone DEF RefuseRecord, Flow, NodeBacksEvidence, Verified, Installed, FormIsPinned, Await, Settle, Idle, Admitted
  <2>6. NodeAskedInOrder' /\ RecordsFollowProjection'
    BY <1>20, <2>1, <2>5, NodeMonotone DEF RefuseRecord, Flow, NodeBacksEvidence, EvidenceChain, InstalledCandidate, NodeAskedInOrder, RecordsFollowProjection, PendingRecord, Verified, Installed, FormIsPinned, Await, Settle, Idle, Admitted
  <2>7. EvidenceIsCurrent' /\ PendingRecord'
    BY <1>20, <2>1 DEF RefuseRecord, Flow, EvidenceIsCurrent, PendingRecord, FormIsPinned, Current, InvalidateRecord, BusyWhileAwaiting, Await, Settle, Idle, Admitted
  <2>8. QED
    BY <2>2, <2>3, <2>4, <2>5, <2>6, <2>7 DEF IInv
<1>21. CASE FinishSubmitRecord
  <2>1. \/ /\ workflow' = workflow
          /\ \A shown \in results' \ results : shown.receipt = None
       \/ \E n : LET receipt == [id |-> n, of |-> request.subject] IN
                 /\ workflow' = Flow(workflow.candidate, workflow.artifact, workflow.verification,
                                     workflow.installation, workflow.active, receipt)
                 /\ results' = results \cup {[op |-> "record.create", receipt |-> receipt]}
    <3>1. CASE /\ workflow' = workflow
               /\ \/ results' = results
                  \/ results' = results \cup {[op |-> "record.create", receipt |-> None]}
      BY <3>1
    <3>2. ASSUME NEW n,
                 workflow' = [workflow EXCEPT !.receipt = [id |-> n, of |-> request.subject]]
          PROVE  workflow' = Flow(workflow.candidate, workflow.artifact, workflow.verification,
                                  workflow.installation, workflow.active,
                                  [id |-> n, of |-> request.subject])
      BY <3>2, Updates
    <3>3. QED
      BY <1>21, <3>1, <3>2 DEF FinishSubmitRecord
  <2>2. CandidateIsShown' /\ InstalledCandidate'
    BY <1>21, <2>1 DEF FinishSubmitRecord, Flow, CandidateIsShown, InstalledCandidate, PendingPack
  <2>3. EvidenceChain'
    BY <1>21, <2>1 DEF FinishSubmitRecord, Flow, EvidenceChain, PendingPack
  <2>4. PendingPack'
    BY <1>21, <2>1 DEF FinishSubmitRecord, Flow, EvidenceChain, CandidateIsShown, PendingPack, Await, Settle, Idle, Admitted
  <2>5. NodeBacksEvidence'
    BY <1>21, <2>1, NodeMonotone DEF FinishSubmitRecord, Flow, NodeBacksEvidence, Verified, Installed, FormIsPinned, Await, Settle, Idle, Admitted
  <2>6. NodeAskedInOrder' /\ RecordsFollowProjection'
    BY <1>21, <2>1, <2>5, NodeMonotone DEF FinishSubmitRecord, Flow, NodeBacksEvidence, EvidenceChain, InstalledCandidate, NodeAskedInOrder, RecordsFollowProjection, PendingRecord, Verified, Installed, FormIsPinned, Await, Settle, Idle, Admitted
  <2>7. EvidenceIsCurrent' /\ PendingRecord'
    BY <1>21, <2>1 DEF FinishSubmitRecord, Flow, EvidenceIsCurrent, PendingRecord, FormIsPinned, Current, InvalidateRecord, BusyWhileAwaiting, Await, Settle, Idle, Admitted
  <2>8. QED
    BY <2>2, <2>3, <2>4, <2>5, <2>6, <2>7 DEF IInv
<1>22. CASE ReadRecord
  <2>1. workflow' = workflow
    BY <1>22 DEF ReadRecord
  <2>2. CandidateIsShown' /\ InstalledCandidate'
    BY <1>22, <2>1 DEF ReadRecord, Flow, CandidateIsShown, InstalledCandidate, PendingPack
  <2>3. EvidenceChain'
    BY <1>22, <2>1 DEF ReadRecord, Flow, EvidenceChain, PendingPack
  <2>4. PendingPack'
    BY <1>22, <2>1 DEF ReadRecord, Flow, EvidenceChain, CandidateIsShown, PendingPack, Await, Settle, Idle, Admitted
  <2>5. NodeBacksEvidence'
    BY <1>22, <2>1, NodeMonotone DEF ReadRecord, Flow, NodeBacksEvidence, Verified, Installed, FormIsPinned, Await, Settle, Idle, Admitted
  <2>6. NodeAskedInOrder' /\ RecordsFollowProjection'
    BY <1>22, <2>1, <2>5, NodeMonotone DEF ReadRecord, Flow, NodeBacksEvidence, EvidenceChain, InstalledCandidate, NodeAskedInOrder, RecordsFollowProjection, PendingRecord, Verified, Installed, FormIsPinned, Await, Settle, Idle, Admitted
  <2>7. EvidenceIsCurrent' /\ PendingRecord'
    BY <1>22, <2>1 DEF ReadRecord, Flow, EvidenceIsCurrent, PendingRecord, FormIsPinned, Current, InvalidateRecord, BusyWhileAwaiting, Await, Settle, Idle, Admitted
  <2>8. QED
    BY <2>2, <2>3, <2>4, <2>5, <2>6, <2>7 DEF IInv
<1>23. CASE FinishReadRecord
  <2>1. \/ workflow' = workflow
       \/ /\ results' = {}
          /\ workflow' = Flow(workflow.candidate, workflow.artifact, workflow.verification,
                              workflow.installation, workflow.active, None)
    BY <1>23, Updates DEF FinishReadRecord, InvalidateRecord
  <2>2. CandidateIsShown' /\ InstalledCandidate'
    BY <1>23, <2>1 DEF FinishReadRecord, Flow, CandidateIsShown, InstalledCandidate, PendingPack
  <2>3. EvidenceChain'
    BY <1>23, <2>1 DEF FinishReadRecord, Flow, EvidenceChain, PendingPack
  <2>4. PendingPack'
    BY <1>23, <2>1 DEF FinishReadRecord, Flow, EvidenceChain, CandidateIsShown, PendingPack, Await, Settle, Idle, Admitted
  <2>5. NodeBacksEvidence'
    BY <1>23, <2>1, NodeMonotone DEF FinishReadRecord, Flow, NodeBacksEvidence, Verified, Installed, FormIsPinned, Await, Settle, Idle, Admitted
  <2>6. NodeAskedInOrder' /\ RecordsFollowProjection'
    BY <1>23, <2>1, <2>5, NodeMonotone DEF FinishReadRecord, Flow, NodeBacksEvidence, EvidenceChain, InstalledCandidate, NodeAskedInOrder, RecordsFollowProjection, PendingRecord, Verified, Installed, FormIsPinned, Await, Settle, Idle, Admitted
  <2>7. EvidenceIsCurrent' /\ PendingRecord'
    BY <1>23, <2>1 DEF FinishReadRecord, Flow, EvidenceIsCurrent, PendingRecord, FormIsPinned, Current, InvalidateRecord, BusyWhileAwaiting, Await, Settle, Idle, Admitted
  <2>8. QED
    BY <2>2, <2>3, <2>4, <2>5, <2>6, <2>7 DEF IInv
<1>24. CASE EditRecord
  <2>1. workflow' =
         Flow(workflow.candidate, workflow.artifact, workflow.verification,
              workflow.installation, workflow.active, None)
    BY <1>24, Updates DEF EditRecord
  <2>2. CandidateIsShown' /\ InstalledCandidate'
    BY <1>24, <2>1 DEF EditRecord, Flow, CandidateIsShown, InstalledCandidate, PendingPack
  <2>3. EvidenceChain'
    BY <1>24, <2>1 DEF EditRecord, Flow, EvidenceChain, PendingPack
  <2>4. PendingPack'
    BY <1>24, <2>1 DEF EditRecord, Flow, EvidenceChain, CandidateIsShown, PendingPack, Await, Settle, Idle, Admitted
  <2>5. NodeBacksEvidence'
    BY <1>24, <2>1, NodeMonotone DEF EditRecord, Flow, NodeBacksEvidence, Verified, Installed, FormIsPinned, Await, Settle, Idle, Admitted
  <2>6. NodeAskedInOrder' /\ RecordsFollowProjection'
    BY <1>24, <2>1, <2>5, NodeMonotone DEF EditRecord, Flow, NodeBacksEvidence, EvidenceChain, InstalledCandidate, NodeAskedInOrder, RecordsFollowProjection, PendingRecord, Verified, Installed, FormIsPinned, Await, Settle, Idle, Admitted
  <2>7. EvidenceIsCurrent' /\ PendingRecord'
    <3>1. workflow'.receipt = None /\ results' = {}
      BY <1>24, <2>1 DEF EditRecord, InvalidateRecord, Flow
    <3>2. request'.op # "record.create"
      BY <1>24 DEF EditRecord
    <3>3. request'.op = "record.read" => request'.generation < recordGeneration'
      <4>1. request.generation \in Nat
        BY SubjectTypes DEF TypeOK
      <4>2. QED
        BY <1>24, <4>1 DEF EditRecord, InvalidateRecord, PendingRecord
    <3>4. request'.generation \in Nat /\ recordGeneration' \in Nat
      BY SubjectTypes DEF TypeOK
    <3>5. QED
      BY <3>1, <3>2, <3>3, <3>4 DEF EvidenceIsCurrent, PendingRecord
  <2>8. QED
    BY <2>2, <2>3, <2>4, <2>5, <2>6, <2>7 DEF IInv
<1>25. CASE Remount
  <2>1. workflow' = Flow(None, None, None, None, None, None)
    BY <1>25, Additions DEF Remount
  <2>2. CandidateIsShown' /\ InstalledCandidate'
    BY <1>25, <2>1 DEF Remount, Flow, CandidateIsShown, InstalledCandidate, PendingPack
  <2>3. EvidenceChain'
    BY <1>25, <2>1 DEF Remount, Flow, EvidenceChain, PendingPack
  <2>4. PendingPack'
    BY <1>25, <2>1 DEF Remount, Flow, EvidenceChain, CandidateIsShown, PendingPack, Await, Settle, Idle, Admitted
  <2>5. NodeBacksEvidence'
    BY <1>25, <2>1, NodeMonotone DEF Remount, Flow, NodeBacksEvidence, Verified, Installed, FormIsPinned, Await, Settle, Idle, Admitted
  <2>6. NodeAskedInOrder' /\ RecordsFollowProjection'
    BY <1>25, <2>1, <2>5, NodeMonotone DEF Remount, Flow, NodeBacksEvidence, EvidenceChain, InstalledCandidate, NodeAskedInOrder, RecordsFollowProjection, PendingRecord, Verified, Installed, FormIsPinned, Await, Settle, Idle, Admitted
  <2>7. EvidenceIsCurrent' /\ PendingRecord'
    BY <1>25, <2>1 DEF Remount, Flow, EvidenceIsCurrent, PendingRecord, FormIsPinned, Current, InvalidateRecord, BusyWhileAwaiting, Await, Settle, Idle, Admitted
  <2>8. QED
    BY <2>2, <2>3, <2>4, <2>5, <2>6, <2>7 DEF IInv
<1>26. CASE \E text \in Packs \cup {None, Malformed} : EditPack(text)
  <2>1. \/ /\ workflow' = Flow(None, None, None, None, None, None)
          /\ results' = {}
       \/ /\ workflow' = workflow
          /\ workflow.candidate = None
          /\ UNCHANGED <<results, recordGeneration>>
    BY <1>26, Additions DEF EditPack, InvalidateRecord
  <2>2. CandidateIsShown' /\ InstalledCandidate'
    BY <1>26, <2>1 DEF EditPack, Flow, CandidateIsShown, InstalledCandidate, PendingPack
  <2>3. EvidenceChain'
    BY <1>26, <2>1 DEF EditPack, Flow, EvidenceChain, PendingPack
  <2>4. PendingPack'
    BY <1>26, <2>1 DEF EditPack, Flow, EvidenceChain, CandidateIsShown, PendingPack, Await, Settle, Idle, Admitted
  <2>5. NodeBacksEvidence'
    BY <1>26, <2>1, NodeMonotone DEF EditPack, Flow, NodeBacksEvidence, Verified, Installed, FormIsPinned, Await, Settle, Idle, Admitted
  <2>6. NodeAskedInOrder' /\ RecordsFollowProjection'
    BY <1>26, <2>1, <2>5, NodeMonotone DEF EditPack, Flow, NodeBacksEvidence, EvidenceChain, InstalledCandidate, NodeAskedInOrder, RecordsFollowProjection, PendingRecord, Verified, Installed, FormIsPinned, Await, Settle, Idle, Admitted
  <2>7. EvidenceIsCurrent' /\ PendingRecord'
    <3>1. request'.op # "record.create" /\ request' = request
      BY <1>26 DEF EditPack, PendingRecord
    <3>2. CASE UNCHANGED <<workflow, results, recordGeneration>>
      BY <3>1, <3>2 DEF EvidenceIsCurrent, PendingRecord
    <3>3. CASE InvalidateRecord /\ workflow' = NoWorkflow
      <4>1. workflow'.receipt = None /\ results' = {}
        BY <3>3 DEF InvalidateRecord, NoWorkflow
      <4>2. request.generation \in Nat
        BY SubjectTypes DEF TypeOK
      <4>3. request'.op = "record.read" => request'.generation < recordGeneration'
        BY <3>1, <3>3, <4>2 DEF InvalidateRecord, PendingRecord
      <4>4. request'.generation \in Nat /\ recordGeneration' \in Nat
        BY SubjectTypes DEF TypeOK
      <4>5. QED
        BY <3>1, <4>1, <4>3, <4>4 DEF EvidenceIsCurrent, PendingRecord
    <3>4. QED
      BY <1>26, <3>2, <3>3 DEF EditPack
  <2>8. QED
    BY <2>2, <2>3, <2>4, <2>5, <2>6, <2>7 DEF IInv
<1>27. CASE UNCHANGED vars
  BY <1>27 DEF vars, IInv, TypeOK, BusyWhileAwaiting, CandidateIsShown, EvidenceChain,
     NodeAskedInOrder, RecordsFollowProjection, EvidenceIsCurrent, PendingPack,
     InstalledCandidate, NodeBacksEvidence, NodeKnows, PendingRecord, Verified, Installed
<1>28. QED
  BY <1>1, <1>2, <1>3, <1>4, <1>5, <1>6, <1>7, <1>8, <1>9, <1>10, <1>11, <1>12, <1>13, <1>14, <1>15, <1>16, <1>17, <1>18, <1>19, <1>20, <1>21, <1>22, <1>23, <1>24, <1>25, <1>26, <1>27 DEF Next, User, Finish

-----------------------------------------------------------------------------
(***************************************************************************)
(* The theorems.                                                           *)
(***************************************************************************)

\* A page just mounted holds no evidence and awaits nothing.
LEMMA IInvInit == Init => IInv
<1> SUFFICES ASSUME Init PROVE IInv
  OBVIOUS
<1>1. TypeOK
  BY TypeOKInit
<1>2. /\ workflow.candidate = None /\ workflow.artifact = None
      /\ workflow.verification = None /\ workflow.installation = None
      /\ workflow.active = None /\ workflow.receipt = None
  BY DEF Init, NoWorkflow
<1>3. request.op = "idle" /\ results = {} /\ request = Idle /\ busy = FALSE
  BY DEF Init, Idle
<1>4. BusyWhileAwaiting /\ CandidateIsShown /\ EvidenceChain
  BY <1>2, <1>3 DEF BusyWhileAwaiting, CandidateIsShown, EvidenceChain
<1>5. NodeAskedInOrder /\ RecordsFollowProjection /\ EvidenceIsCurrent
  BY <1>2, <1>3 DEF NodeAskedInOrder, RecordsFollowProjection, EvidenceIsCurrent
<1>6. PendingPack /\ InstalledCandidate /\ NodeBacksEvidence /\ NodeKnows /\ PendingRecord
  BY <1>2, <1>3 DEF PendingPack, InstalledCandidate, NodeBacksEvidence, NodeKnows, PendingRecord,
                    Verified, Installed
<1>7. QED
  BY <1>1, <1>4, <1>5, <1>6 DEF IInv

\* The inductive invariant holds in every state the page reaches.
THEOREM Invariance == Spec => []IInv
<1>1. Init => IInv
  BY IInvInit
<1>2. IInv /\ [Next]_vars => IInv'
  BY IInvStep
<1>3. QED
  BY <1>1, <1>2, PTL DEF Spec

\* The state the handlers read and write stays well typed, whatever the user
\* does while an answer is awaited.
THEOREM TypeCorrect == Spec => []TypeOK
<1>1. Init => TypeOK
  BY TypeOKInit
<1>2. TypeOK /\ [Next]_vars => TypeOK'
  BY TypeOKStep
<1>3. QED
  BY <1>1, <1>2, PTL DEF Spec

\* The node installs only what it verified and activates only what it installed
\* for this author, although edits and late answers take evidence apart: the
\* busy page outlives the answer, so no evidence of another pack slips in.
THEOREM NodeOrder == Spec => []NodeAskedInOrder
<1>1. IInv => NodeAskedInOrder
  BY DEF IInv
<1>2. QED
  BY <1>1, Invariance, PTL

\* Verification, installation and artifact on one page are about one export,
\* and the artifact is of the candidate beside it.
THEOREM Chain == Spec => []EvidenceChain
<1>1. IInv => EvidenceChain
  BY DEF IInv
<1>2. QED
  BY <1>1, Invariance, PTL

\* A validated candidate is always the text in the author form: submission
\* disables the form, and every later edit withdraws the candidate.
THEOREM Candidate == Spec => []CandidateIsShown
<1>1. IInv => CandidateIsShown
  BY DEF IInv
<1>2. QED
  BY <1>1, Invariance, PTL

\* The generation counter works: no late answer shows record evidence beside a
\* receipt or an activation it does not belong to.
THEOREM CurrentEvidence == Spec => []EvidenceIsCurrent
<1>1. IInv => EvidenceIsCurrent
  BY DEF IInv
<1>2. QED
  BY <1>1, Invariance, PTL

\* Records are created only under the activation the page holds, with the form
\* it pins, for a pack the node projected.
THEOREM RecordsUnderProjection == Spec => []RecordsFollowProjection
<1>1. IInv => RecordsFollowProjection
  BY DEF IInv
<1>2. QED
  BY <1>1, Invariance, PTL

-----------------------------------------------------------------------------
(***************************************************************************)
(* The workflow implements NodeSession: what a handler sends is a question *)
(* the node has grounds to answer, and what follows its await settles it.  *)
(***************************************************************************)

\* The question in progress, as NodeSession sees it.
Asked == [op |-> request.op, subject |-> request.subject]

\* A handler that starts asks the node something its answers so far allow.
LEMMA SenderAsks ==
    ASSUME IInv, ~busy, busy', UNCHANGED node,
           Session!Admissible(request'.op, request'.subject, node),
           request'.op # "idle"
    PROVE  Session!Ask
<1>1. request = Idle
  BY DEF IInv, TypeOK, BusyWhileAwaiting
<1>2. QED
  BY <1>1 DEF Session!Ask, Session!Quiet, Idle

\* Every handler that starts, and what it asks.
LEMMA Asks ==
    ASSUME IInv, IInv',
           \/ OpenPackForm \/ SubmitPack \/ Export \/ Verify \/ Install \/ Activate
           \/ SubmitRecord \/ ReadRecord
    PROVE  Session!Ask
<1> USE DEF Admitted, Await
<1> /\ TypeOK /\ NodeAskedInOrder' /\ NodeKnows /\ RecordsFollowProjection'
    /\ workflow \in Workflow /\ request' \in Request
  BY DEF IInv, TypeOK
<1>1. CASE OpenPackForm
  <2>1. Session!Admissible(request'.op, request'.subject, node)
    BY <1>1 DEF OpenPackForm, Session!Admissible
  <2>2. QED
    BY <1>1, <2>1, SenderAsks DEF OpenPackForm
<1>2. CASE SubmitPack
  <2>1. Session!Admissible(request'.op, request'.subject, node)
    BY <1>2 DEF SubmitPack, Session!Admissible
  <2>2. QED
    BY <1>2, <2>1, SenderAsks DEF SubmitPack
<1>3. CASE Export
  <2>1. Session!Admissible(request'.op, request'.subject, node)
    BY <1>3 DEF Export, NodeKnows, Session!Admissible
  <2>2. QED
    BY <1>3, <2>1, SenderAsks DEF Export
<1>4. CASE Verify
  <2>1. workflow.artifact \in Artifact /\ Signed(node, workflow.artifact)
    BY <1>4, FieldTypes DEF Verify, NodeKnows
  <2>2. Session!Admissible(request'.op, request'.subject, node)
    BY <1>4, <2>1 DEF Verify, Session!Admissible, Artifact, Session!Artifact, Signed,
       Session!Signed
  <2>3. QED
    BY <1>4, <2>2, SenderAsks DEF Verify
<1>5. CASE Install
  <2>1. Session!Admissible(request'.op, request'.subject, node)
    BY <1>5 DEF Install, NodeAskedInOrder, Session!Admissible
  <2>2. QED
    BY <1>5, <2>1, SenderAsks DEF Install
<1>6. CASE Activate
  <2>1. Session!Admissible(request'.op, request'.subject, node)
    BY <1>6 DEF Activate, NodeAskedInOrder, Session!Admissible
  <2>2. QED
    BY <1>6, <2>1, SenderAsks DEF Activate
<1>7. CASE SubmitRecord
  <2>1. request'.subject \in Activation /\ request'.op = "record.create"
    BY <1>7, SubjectTypes DEF SubmitRecord
  <2>2. request'.subject.pack \in node.projected
    BY <1>7, <2>1 DEF SubmitRecord, RecordsFollowProjection
  <2>3. Session!Admissible(request'.op, request'.subject, node)
    BY <2>1, <2>2 DEF Session!Admissible, Activation, Session!Activation
  <2>4. QED
    BY <1>7, <2>1, <2>3, SenderAsks DEF SubmitRecord
<1>8. CASE ReadRecord
  <2>1. workflow.receipt \in Receipt /\ Recorded(node, workflow.receipt)
    BY <1>8, FieldTypes DEF ReadRecord, NodeKnows
  <2>2. Session!Admissible(request'.op, request'.subject, node)
    BY <1>8, <2>1 DEF ReadRecord, Session!Admissible, Receipt, Session!Receipt,
       Activation, Session!Activation, Recorded, Session!Recorded
  <2>3. QED
    BY <1>8, <2>2, SenderAsks DEF ReadRecord
<1>9. QED
  BY <1>1, <1>2, <1>3, <1>4, <1>5, <1>6, <1>7, <1>8

\* A page that leaves lets go of its question, whatever the node made of it.
LEMMA Abandons ==
    ASSUME node' \in Unanswered(node, request), Settle, request.op # "idle"
    PROVE  Session!Settle
<1>1. Session!Serve(Asked)
  BY DEF Unanswered, Asked, Session!Serve
<1>2. QED
  BY <1>1 DEF Asked, Settle, Idle, Session!Settle, Session!Quiet

\* What follows an await settles the question, or goes on to the next read.
LEMMA Settles ==
    ASSUME IInv, IInv', Finish
    PROVE  Session!Settle
<1> USE DEF Settle, Idle, Session!Quiet
<1> node \in Node /\ request \in Request /\ request' \in Request /\ NodeBacksEvidence'
  BY DEF IInv, TypeOK
<1>1. request.op # "idle"
  BY DEF Finish, FinishOpenPackForm, FinishSubmitPack, FinishExport, FinishVerify,
         FinishInstall, FinishActivate, FinishTypeRead, FinishFormRead, FinishRefresh,
         FinishSubmitRecord, FinishReadRecord
<1>2. Session!Serve(Asked)
  <2> USE DEF Asked, Session!Serve
  <2>1. CASE FinishSubmitPack
    BY <2>1 DEF FinishSubmitPack
  <2>2. CASE FinishExport
    BY <2>2 DEF FinishExport
  <2>3. CASE FinishVerify
    BY <2>3 DEF FinishVerify
  <2>4. CASE FinishInstall
    BY <2>4 DEF FinishInstall, Unanswered
  <2>5. CASE FinishActivate
    BY <2>5 DEF FinishActivate
  <2>6. CASE FinishSubmitRecord
    BY <2>6 DEF FinishSubmitRecord, Unanswered
  <2>7. QED
    BY <2>1, <2>2, <2>3, <2>4, <2>5, <2>6
    DEF Finish, FinishOpenPackForm, FinishTypeRead, FinishFormRead, FinishRefresh,
        FinishReadRecord
<1>3. \/ request' = Idle
      \/ /\ <<request.op, request'.op>> \in Session!Continuation
         /\ Session!Admissible(request'.op, request'.subject, node')
  <2> USE DEF Await, Session!Continuation, Session!Admissible
  <2>1. CASE FinishActivate
    BY <2>1 DEF FinishActivate, NodeBacksEvidence
  <2>2. CASE FinishTypeRead
    <3>1. request' = Idle \/ (request.op = "type.read" /\ request'.op = "form.read")
      BY <2>2 DEF FinishTypeRead
    <3>2. CASE request'.op = "form.read"
      <4>1. request'.subject \in Activation /\ request'.subject.pack \in node'.projected
        BY <3>2, SubjectTypes DEF NodeBacksEvidence
      <4>2. QED
        BY <3>1, <3>2, <4>1 DEF Activation, Session!Activation
    <3>3. QED
      BY <3>1, <3>2
  <2>3. CASE FinishFormRead
    BY <2>3 DEF FinishFormRead
  <2>4. QED
    BY <2>1, <2>2, <2>3
    DEF Finish, FinishOpenPackForm, FinishSubmitPack, FinishExport, FinishVerify,
        FinishInstall, FinishRefresh, FinishSubmitRecord, FinishReadRecord
<1>4. QED
  BY <1>1, <1>2, <1>3 DEF Asked, Session!Settle, Session!Continues

\* The React workflow implements NodeSession: edits, refusals on the page and
\* late answers included, the node is only ever asked, one question at a time,
\* what its own answers allow, and no question is left behind.
THEOREM Refinement == Spec => NodeProtocol
<1>1. Init => Session!Init
  BY DEF Init, Idle, FreshNode, Session!Init, Session!Quiet, Session!FreshNode
<1>2. IInv /\ IInv' /\ [Next]_vars => [Session!Next]_(Session!vars)
  <2> SUFFICES ASSUME IInv, IInv', [Next]_vars
               PROVE  Session!Next \/ UNCHANGED Session!vars
    OBVIOUS
  <2>1. CASE \/ OpenPackForm \/ SubmitPack \/ Export \/ Verify \/ Install \/ Activate
             \/ SubmitRecord \/ ReadRecord
    BY <2>1, Asks DEF Session!Next
  <2>2. CASE Finish
    BY <2>2, Settles DEF Session!Next
  <2>3. CASE Remount
    <3>1. CASE request.op = "idle"
      <4>1. request.subject = None
        BY <3>1 DEF IInv, TypeOK, Request, RequestOf
      <4>2. node' = node
        BY <2>3, <3>1 DEF Remount, Unanswered
      <4>3. QED
        BY <2>3, <3>1, <4>1, <4>2 DEF Remount, Settle, Idle, Session!vars
    <3>2. CASE request.op # "idle"
      BY <2>3, <3>2, Abandons DEF Remount, Session!Next
    <3>3. QED
      BY <3>1, <3>2
  <2>4. CASE UNCHANGED <<request, node>>
    BY <2>4 DEF Session!vars
  <2>5. QED
    BY <2>1, <2>2, <2>3, <2>4
    DEF Next, User, vars, SubmitUnreadablePack, OpenRecordForm, OpenUnsupportedRecordForm,
        RefuseRecord, EditPack, EditRecord
<1>3. QED
  BY <1>1, <1>2, Invariance, PTL DEF Spec, NodeProtocol, Session!Spec

-----------------------------------------------------------------------------
(***************************************************************************)
(* What keeping that promise means for the node.                           *)
(***************************************************************************)

\* A step of the promise leaves a node that was led from verification to
\* records led so.
LEMMA PromiseLeads ==
    ASSUME node \in Node, Session!AskedWithGrounds, Session!NodeChain,
           [Session!Next]_(Session!vars)
    PROVE  Session!AskedWithGrounds' /\ Session!NodeChain'
<1> USE DEF Session!AskedWithGrounds, Session!NodeChain
<1>1. CASE UNCHANGED Session!vars
  BY <1>1 DEF Session!vars, Session!Admissible, Session!Quiet
<1>2. CASE Session!Ask
  BY <1>2 DEF Session!Ask, Session!Quiet
<1>3. CASE Session!Settle
  <2>1. Session!AskedWithGrounds'
    BY <1>3 DEF Session!Settle, Session!Continues, Session!Quiet
  <2>2. Session!NodeChain'
    <3> USE DEF Asked, Node, Session!Admissible, Signed, Session!Signed
    <3>1. /\ Session!Serve(Asked)
          /\ Session!Admissible(request.op, request.subject, node)
          /\ node.signed \in Seq(Packs) /\ node.records \in Seq(Packs)
      BY <1>3 DEF Session!Settle, Session!Quiet
    <3>2. CASE node' = node
      BY <3>2
    <3>3. CASE /\ request.op = "pack.submit"
               /\ node' = [node EXCEPT !.validated = @ \cup {request.subject}]
      BY <3>3
    <3>4. CASE /\ request.op = "pack.export"
               /\ node' = [node EXCEPT !.signed = Append(@, request.subject)]
      <4>1. request.subject \in Packs /\ request.subject \in node.validated
        BY <3>1, <3>4
      <4>2. node'.signed = Append(node.signed, request.subject)
        BY <3>4
      <4>3. /\ \A i \in DOMAIN node'.signed : node'.signed[i] \in node'.validated
            /\ \A artifact \in node'.verified : Session!Signed(node', artifact)
        BY <3>1, <3>4, <4>1, <4>2, Appended
      <4>4. QED
        BY <3>4, <4>3
    <3>5. CASE /\ request.op = "pack.verify"
               /\ node' = [node EXCEPT !.verified = @ \cup {request.subject}]
      BY <3>1, <3>5
    <3>6. CASE /\ request.op = "pack.install"
               /\ node' = [node EXCEPT !.installed = @ \cup {request.subject}]
      BY <3>1, <3>6
    <3>7. CASE /\ request.op = "pack.activate"
               /\ node' = [node EXCEPT !.projected = @ \cup {request.subject}]
      BY <3>1, <3>7
    <3>8. CASE /\ request.op = "record.create"
               /\ node' = [node EXCEPT !.records = Append(@, request.subject.pack)]
      <4>1. request.subject.pack \in Packs /\ request.subject.pack \in node.projected
        BY <3>1, <3>8
      <4>2. node'.records = Append(node.records, request.subject.pack)
        BY <3>8
      <4>3. \A i \in DOMAIN node'.records : node'.records[i] \in node'.projected
        BY <3>1, <3>8, <4>1, <4>2, Appended
      <4>4. QED
        BY <3>8, <4>3
    <3> QED
      BY <3>1, <3>2, <3>3, <3>4, <3>5, <3>6, <3>7, <3>8 DEF Session!Serve
  <2> QED
    BY <2>1, <2>2
<1> QED
  BY <1>1, <1>2, <1>3 DEF Session!Next

\* However answers are lost, pages left and forms edited, the node of a React
\* page signs only packs it reported valid, verifies only what it signed for the
\* pack it names, installs only what it reported verified, projects only packs of
\* which it installed an artifact, and each of its records is of a projected pack.
THEOREM NodeIsLed == Spec => []NodeChain
<1>1. Init => Session!AskedWithGrounds /\ Session!NodeChain
  <2> SUFFICES ASSUME Init PROVE Session!AskedWithGrounds /\ Session!NodeChain
    OBVIOUS
  <2>1. Session!AskedWithGrounds
    BY DEF Init, Idle, Session!AskedWithGrounds, Session!Quiet
  <2>2. /\ node.installed = {} /\ node.verified = {} /\ node.projected = {}
        /\ node.signed = <<>> /\ node.records = <<>>
    BY DEF Init, FreshNode
  <2> QED
    BY <2>1, <2>2 DEF Session!NodeChain
<1>2. IInv => node \in Node
  BY DEF IInv, TypeOK
<1>3. node \in Node /\ Session!AskedWithGrounds /\ Session!NodeChain
        /\ [Session!Next]_(Session!vars)
      => Session!AskedWithGrounds' /\ Session!NodeChain'
  BY PromiseLeads
<1> QED
  BY <1>1, <1>2, <1>3, Invariance, Refinement, PTL DEF Spec, NodeProtocol, NodeChain, Session!Spec

=============================================================================
