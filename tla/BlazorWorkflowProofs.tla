------------------------ MODULE BlazorWorkflowProofs ------------------------
(***************************************************************************)
(* Proofs about BlazorWorkflow, for every set of packs and forms and every *)
(* value of the bounds.                                                    *)
(***************************************************************************)
EXTENDS BlazorWorkflow, TLAPS

(***************************************************************************)
(* The inductive invariant.  The React lane's speaks of answers that edits *)
(* have outdated; here no edit passes while an operation runs, so what a   *)
(* request is about is what the page still shows.                          *)
(***************************************************************************)

\* The operation in progress works on what the page shows, with every flag
\* after its own step down.
Pending ==
    /\ busy <=> request.op # "idle"
    /\ request.op \notin {"idle", "record.read"} => created = None /\ shown = None
    /\ request.op = "pack.submit" => request.subject = authored /\ candidate = authored
    /\ request.op = "pack.export"
         => validated /\ request.subject = authored /\ ~verified /\ ~installed /\ ~active
    /\ request.op = "pack.verify" => request.subject = artifact /\ ~installed /\ ~active
    /\ request.op = "pack.install" => request.subject = artifact /\ verified /\ ~active
    /\ request.op \in {"pack.activate", "type.read"}
         => request.subject = authored /\ installed /\ ~active
    /\ request.op = "type.read" => request.subject \in node.projected
    /\ request.op = "form.read" => active /\ request.subject = type
    /\ request.op = "record.create"
         => active /\ request.subject.pack = type.pack /\ form.kind = "record"
    /\ request.op = "record.read" => created # None /\ request.subject = created

\* The author form is never open beside the evidence of a record: opening it
\* withdraws the record, and records come from the other form.
AuthorAlone == form.kind = "pack" => created = None /\ shown = None

\* The flag is raised only for a type that pins a form.
ActiveIsBound == active => type \in Activation

\* Candidate, artifact and record are ones the node knows.
NodeKnows ==
    /\ validated => candidate # None /\ candidate \in node.validated
    /\ artifact # None => Signed(node, artifact)
    /\ created # None => Recorded(node, created)

IInv ==
    /\ TypeOK
    /\ ArtifactIsAuthored
    /\ FlagsFollow
    /\ EvidenceIsCurrent
    /\ Pending
    /\ AuthorAlone
    /\ ActiveIsBound
    /\ NodeKnows

-----------------------------------------------------------------------------
(***************************************************************************)
(* Types.                                                                  *)
(***************************************************************************)

\* What a request of each operation is about.
LEMMA SubjectTypes ==
    ASSUME NEW r \in Request
    PROVE  /\ r.op \in {"pack.submit", "pack.export", "pack.activate", "type.read"}
                => r.subject \in Packs
           /\ r.op \in {"pack.verify", "pack.install"} => r.subject \in Artifact
           /\ r.op \in {"form.read", "record.create"} => r.subject \in Activation
           /\ r.op = "record.read" => r.subject \in Receipt
  BY DEF Request, RequestOf

\* Every request a command sends is a request.
LEMMA RequestTypes ==
    /\ Idle \in Request
    /\ [op |-> "form.load", subject |-> None] \in Request
    /\ \A p \in Packs :
          /\ [op |-> "pack.submit", subject |-> p] \in Request
          /\ [op |-> "pack.export", subject |-> p] \in Request
          /\ [op |-> "pack.activate", subject |-> p] \in Request
          /\ [op |-> "type.read", subject |-> p] \in Request
    /\ \A a \in Artifact :
          /\ [op |-> "pack.verify", subject |-> a] \in Request
          /\ [op |-> "pack.install", subject |-> a] \in Request
    /\ \A a \in Activation :
          /\ [op |-> "form.read", subject |-> a] \in Request
          /\ [op |-> "record.create", subject |-> a] \in Request
    /\ \A r \in Receipt : [op |-> "record.read", subject |-> r] \in Request
  BY DEF Request, RequestOf, Idle

\* What the node hands out next takes the next number, and leaves the others.
LEMMA Appended ==
    ASSUME NEW made \in Seq(Packs), NEW p \in Packs
    PROVE  /\ Append(made, p) \in Seq(Packs)
           /\ Len(made) + 1 \in DOMAIN Append(made, p)
           /\ Append(made, p)[Len(made) + 1] = p
           /\ \A i \in DOMAIN made : i \in DOMAIN Append(made, p) /\ Append(made, p)[i] = made[i]
           /\ \A i \in DOMAIN Append(made, p) : i \in DOMAIN made \/ i = Len(made) + 1
           /\ Len(made) + 1 \in Nat
  OBVIOUS

\* The node is well typed before it is asked anything.
LEMMA FreshNodeType == FreshNode \in Node
<1>1. <<>> \in Seq(Packs)
  OBVIOUS
<1>2. QED
  BY <1>1 DEF FreshNode, Node

\* The flags are Boolean.
LEMMA FlagTypes ==
    ASSUME TypeOK
    PROVE  /\ validated \in BOOLEAN /\ verified \in BOOLEAN /\ installed \in BOOLEAN
           /\ active \in BOOLEAN /\ busy \in BOOLEAN
  BY DEF TypeOK

\* The fields of a node that one more request was served on.
Longer(old, new) == new = old \/ \E p \in Packs : new = Append(old, p)

LEMMA LongerKeeps ==
    ASSUME NEW old \in Seq(Packs), NEW new, Longer(old, new)
    PROVE  /\ new \in Seq(Packs)
           /\ \A i \in DOMAIN old : i \in DOMAIN new /\ new[i] = old[i]
  BY Appended DEF Longer

\* Every step serves at most one request.
LEMMA NodeServes ==
    ASSUME node \in Node, request \in Request, left \in [Past -> Request], [Next]_vars
    PROVE  \/ node' = node
           \/ \E q \in Request :
                \/ node' = [node EXCEPT !.validated = @ \cup {q.subject}] /\ q.subject \in Packs
                \/ node' = [node EXCEPT !.signed = Append(@, q.subject)] /\ q.subject \in Packs
                \/ node' = [node EXCEPT !.verified = @ \cup {q.subject}] /\ q.subject \in Artifact
                \/ node' = [node EXCEPT !.installed = @ \cup {q.subject}] /\ q.subject \in Artifact
                \/ node' = [node EXCEPT !.projected = @ \cup {q.subject}] /\ q.subject \in Packs
                \/ /\ node' = [node EXCEPT !.records = Append(@, q.subject.pack)]
                   /\ q.subject.pack \in Packs
<1>1. CASE UNCHANGED node
  BY <1>1
<1>2. CASE FinishSubmitPack \/ FinishExport \/ FinishVerify \/ FinishActivate
  BY <1>2, SubjectTypes DEF FinishSubmitPack, FinishExport, FinishVerify, FinishActivate
<1>3. CASE FinishInstall
  BY <1>3, SubjectTypes DEF FinishInstall, Unanswered
<1>4. CASE FinishSubmitRecord
  BY <1>4, SubjectTypes DEF FinishSubmitRecord, Unanswered, Activation
<1>5. CASE \E w \in Past : FinishLeft(w)
  <2>1. PICK w \in Past : FinishLeft(w)
    BY <1>5
  <2>2. left[w] \in Request
    OBVIOUS
  <2>3. \/ node' \in Unanswered(node, left[w]) \/ node' \in LateAnswers(left[w])
        \/ /\ left[w].op = "pack.activate"
           /\ node' = [node EXCEPT !.projected = @ \cup {left[w].subject}]
    BY <2>1 DEF FinishLeft
  <2>4. CASE node' \in Unanswered(node, left[w])
    BY <2>2, <2>4, SubjectTypes DEF Unanswered, Activation
  <2>5. CASE node' \in LateAnswers(left[w])
    BY <2>2, <2>4, <2>5, SubjectTypes DEF LateAnswers
  <2>6. QED
    BY <2>2, <2>3, <2>4, <2>5, SubjectTypes
<1>6. QED
  BY <1>1, <1>2, <1>3, <1>4, <1>5
  DEF vars, Next, User, Finish, OpenPackForm, FinishOpenPackForm, SubmitPack,
      SubmitUnreadablePack, Export, Verify, Install, Activate, FinishTypeRead, OpenRecordForm,
      FinishOpenRecordForm, SubmitRecord, RefuseRecord, ReadRecord, FinishReadRecord,
      EditRecord, EditPack, Replace, Dispose

\* The node stays well typed and forgets nothing it did.
LEMMA NodeMonotone ==
    ASSUME node \in Node, request \in Request, left \in [Past -> Request], [Next]_vars
    PROVE  /\ node' \in Node
           /\ node.validated \subseteq node'.validated
           /\ node.verified \subseteq node'.verified
           /\ node.installed \subseteq node'.installed
           /\ node.projected \subseteq node'.projected
           /\ \A a : Signed(node, a) => Signed(node', a)
           /\ \A receipt : Recorded(node, receipt) => Recorded(node', receipt)
<1>1. node.signed \in Seq(Packs) /\ node.records \in Seq(Packs)
  BY DEF Node
<1>2. /\ node.validated \subseteq node'.validated
      /\ node.verified \subseteq node'.verified
      /\ node.installed \subseteq node'.installed
      /\ node.projected \subseteq node'.projected
      /\ Longer(node.signed, node'.signed)
      /\ Longer(node.records, node'.records)
  BY NodeServes DEF Node, Longer
<1>3. node'.signed \in Seq(Packs) /\ node'.records \in Seq(Packs)
  BY <1>1, <1>2, LongerKeeps
<1>4. node' \in Node
  <2>1. /\ node.validated \in SUBSET Packs /\ node.verified \in SUBSET Artifact
        /\ node.installed \in SUBSET Artifact /\ node.projected \in SUBSET Packs
    BY DEF Node
  <2>2. PICK q : \/ node' = node
                 \/ node' = [node EXCEPT !.validated = @ \cup {q.subject}] /\ q.subject \in Packs
                 \/ node' = [node EXCEPT !.signed = Append(@, q.subject)]
                 \/ node' = [node EXCEPT !.verified = @ \cup {q.subject}] /\ q.subject \in Artifact
                 \/ node' = [node EXCEPT !.installed = @ \cup {q.subject}] /\ q.subject \in Artifact
                 \/ node' = [node EXCEPT !.projected = @ \cup {q.subject}] /\ q.subject \in Packs
                 \/ node' = [node EXCEPT !.records = Append(@, q.subject.pack)]
    BY NodeServes
  <2>3. CASE node' = node
    BY <2>3
  <2>4. CASE node' = [node EXCEPT !.validated = @ \cup {q.subject}] /\ q.subject \in Packs
    BY <2>1, <2>4 DEF Node
  <2>5. CASE node' = [node EXCEPT !.signed = Append(@, q.subject)]
    BY <1>3, <2>5 DEF Node
  <2>6. CASE node' = [node EXCEPT !.verified = @ \cup {q.subject}] /\ q.subject \in Artifact
    BY <2>1, <2>6 DEF Node
  <2>7. CASE node' = [node EXCEPT !.installed = @ \cup {q.subject}] /\ q.subject \in Artifact
    BY <2>1, <2>7 DEF Node
  <2>8. CASE node' = [node EXCEPT !.projected = @ \cup {q.subject}] /\ q.subject \in Packs
    BY <2>1, <2>8 DEF Node
  <2>9. CASE node' = [node EXCEPT !.records = Append(@, q.subject.pack)]
    BY <1>3, <2>9 DEF Node
  <2>10. QED
    BY <2>2, <2>3, <2>4, <2>5, <2>6, <2>7, <2>8, <2>9
<1>5. QED
  BY <1>1, <1>2, <1>4, LongerKeeps DEF Signed, Recorded

\* What replaced workflows await stays well typed.
LEMMA PastTypes ==
    ASSUME TypeOK, [Next]_vars
    PROVE  left' \in [Past -> Request] /\ cancelled' \subseteq Past
<1> USE DEF TypeOK
<1>1. CASE UNCHANGED past
  BY <1>1 DEF past
<1>2. CASE Replace \/ Dispose
  BY <1>2, RequestTypes DEF Replace, Dispose, RunOn
<1>3. CASE \E w \in Past : FinishLeft(w)
  <2>1. PICK w \in Past : FinishLeft(w)
    BY <1>3
  <2>2. left[w].op = "pack.activate" => left[w].subject \in Packs
    BY SubjectTypes
  <2>3. QED
    BY <2>1, <2>2, RequestTypes DEF FinishLeft
<1>4. QED
  BY <1>1, <1>2, <1>3 DEF Next, vars

\* Every command, answer and edit keeps the state well typed.  A flag that is
\* up vouches for the value the next command sends.
LEMMA TypeOKStep == IInv /\ [Next]_vars => TypeOK'
<1> SUFFICES ASSUME IInv, [Next]_vars PROVE TypeOK'
  OBVIOUS
<1> USE FlagTypes
    DEF IInv, TypeOK, pack, flags, record, past, WithdrawRecord, ResetAfterCandidate, Await, Settle
<1>0. node' \in Node /\ left' \in [Past -> Request] /\ cancelled' \subseteq Past
  BY NodeMonotone, PastTypes
<1> USE <1>0
<1>1. CASE OpenPackForm \/ FinishOpenPackForm \/ SubmitPack \/ SubmitUnreadablePack
  BY <1>1, RequestTypes DEF OpenPackForm, FinishOpenPackForm, SubmitPack, SubmitUnreadablePack,
              PackForm, Maybe
<1>2. CASE FinishSubmitPack
  BY <1>2, RequestTypes DEF FinishSubmitPack
<1>3. CASE Export
  BY <1>3, RequestTypes DEF Export, NodeKnows, ArtifactIsAuthored, Maybe, Node
<1>4. CASE FinishExport
  <2>1. request.subject \in Packs
    BY <1>4, SubjectTypes DEF FinishExport
  <2>2. artifact' \in Maybe(Artifact)
    BY <1>4, <2>1, Appended DEF FinishExport, Artifact, Maybe, Node
  <2>3. QED
    BY <1>4, <2>2, RequestTypes DEF FinishExport
<1>5. CASE Verify \/ Install
  BY <1>5, RequestTypes DEF Verify, Install, Maybe
<1>6. CASE FinishVerify
  BY <1>6, RequestTypes DEF FinishVerify
<1>7. CASE FinishInstall
  BY <1>7, RequestTypes DEF FinishInstall
<1>8. CASE Activate
  <2>1. candidate \in Packs
    BY <1>8 DEF Activate, FlagsFollow, ArtifactIsAuthored, NodeKnows, Node
  <2>2. request' \in Request
    BY <1>8, <2>1, RequestTypes DEF Activate
  <2>3. QED
    BY <1>8, <2>2 DEF Activate, Maybe
<1>9. CASE FinishActivate
  <2>1. request.subject \in Packs
    BY <1>9, SubjectTypes DEF FinishActivate
  <2>2. request' \in Request
    BY <1>9, <2>1, RequestTypes DEF FinishActivate
  <2>3. QED
    BY <1>9, <2>2, RequestTypes DEF FinishActivate
<1>10. CASE FinishTypeRead
  <2>1. request.subject \in Packs
    BY <1>10, SubjectTypes DEF FinishTypeRead
  <2>2. type' \in Maybe(BoundType)
    BY <1>10, <2>1 DEF FinishTypeRead, BoundType, Maybe
  <2>3. QED
    BY <1>10, <2>2, RequestTypes DEF FinishTypeRead
<1>11. CASE OpenRecordForm
  <2>1. request' \in Request
    BY <1>11, RequestTypes DEF OpenRecordForm, ActiveIsBound
  <2>2. QED
    BY <1>11, <2>1 DEF OpenRecordForm, Maybe
<1>12. CASE FinishOpenRecordForm
  BY <1>12, SubjectTypes, RequestTypes DEF FinishOpenRecordForm, RecordForm, Activation
<1>13. CASE SubmitRecord
  <2>1. form.entry \in Forms
    BY <1>13 DEF SubmitRecord, NoForm, PackForm, RecordForm
  <2>2. [pack |-> type.pack, form |-> form.entry] \in Activation
    BY <1>13, <2>1 DEF SubmitRecord, ActiveIsBound, Activation
  <2>3. request' \in Request
    BY <1>13, <2>2, RequestTypes DEF SubmitRecord
  <2>4. QED
    BY <1>13, <2>3 DEF SubmitRecord, Maybe
<1>14. CASE FinishSubmitRecord
  <2>1. request.subject \in Activation
    BY <1>14, SubjectTypes DEF FinishSubmitRecord
  <2>2. created' \in Maybe(Receipt) /\ shown' \in Maybe(Receipt)
    BY <1>14, <2>1, Appended DEF FinishSubmitRecord, Receipt, Activation, Maybe, Node
  <2>3. QED
    BY <1>14, <2>2, RequestTypes DEF FinishSubmitRecord
<1>15. CASE ReadRecord \/ FinishReadRecord
  BY <1>15, SubjectTypes, RequestTypes DEF ReadRecord, FinishReadRecord, Maybe
<1>16. CASE RefuseRecord \/ EditRecord \/ \E text \in Packs \cup {None, Malformed} : EditPack(text)
  BY <1>16 DEF RefuseRecord, EditRecord, EditPack, Maybe
<1>17. CASE Fresh
  BY <1>17, RequestTypes DEF Fresh, NoForm, Maybe
<1>18. CASE UNCHANGED vars
  BY <1>18 DEF vars
<1>19. CASE \E w \in Past : FinishLeft(w)
  BY <1>19 DEF FinishLeft
<1>20. QED
  BY <1>1, <1>2, <1>3, <1>4, <1>5, <1>6, <1>7, <1>8, <1>9, <1>10, <1>11, <1>12, <1>13,
     <1>14, <1>15, <1>16, <1>17, <1>18, <1>19
  DEF Next, User, Finish, Replace, Dispose

-----------------------------------------------------------------------------
(***************************************************************************)
(* The invariant is kept.                                                  *)
(***************************************************************************)

\* Every command lowers the flags after its own, and every answer raises only
\* the flag of what the page still shows.
LEMMA IInvStep == IInv /\ [Next]_vars => IInv'
<1> SUFFICES ASSUME IInv, [Next]_vars PROVE IInv'
  OBVIOUS
<1>0. TypeOK'
  BY TypeOKStep
<1>a. /\ node.validated \subseteq node'.validated
      /\ node.verified \subseteq node'.verified
      /\ node.installed \subseteq node'.installed
      /\ node.projected \subseteq node'.projected
      /\ \A a : Signed(node, a) => Signed(node', a)
      /\ \A receipt : Recorded(node, receipt) => Recorded(node', receipt)
  BY NodeMonotone DEF IInv, TypeOK
<1> USE <1>0, <1>a, FlagTypes
    DEF IInv, TypeOK, pack, flags, record, ArtifactIsAuthored, FlagsFollow, EvidenceIsCurrent,
        Pending, AuthorAlone, ActiveIsBound, NodeKnows, WithdrawRecord, ResetAfterCandidate,
        Await, Settle, Idle
<1>1. CASE OpenPackForm \/ FinishOpenPackForm
  BY <1>1 DEF OpenPackForm, FinishOpenPackForm, PackForm
<1>2. CASE SubmitPack \/ SubmitUnreadablePack
  BY <1>2 DEF SubmitPack, SubmitUnreadablePack
<1>3. CASE FinishSubmitPack
  <2>1. request.subject \in Packs
    BY <1>3, SubjectTypes DEF FinishSubmitPack
  <2>2. NodeKnows'
    BY <1>3, <2>1, ConstantsOK DEF FinishSubmitPack, Node
  <2>3. QED
    BY <1>3, <2>1, <2>2 DEF FinishSubmitPack, Node
<1>4. CASE Export
  BY <1>4 DEF Export
<1>5. CASE FinishExport
  <2>1. request.subject \in Packs
    BY <1>5, SubjectTypes DEF FinishExport
  <2>2. CASE UNCHANGED <<artifact, node>>
    BY <1>5, <2>2 DEF FinishExport
  <2>3. CASE /\ artifact' = [pack |-> request.subject, serial |-> Len(node.signed) + 1]
             /\ node' = [node EXCEPT !.signed = Append(@, request.subject)]
    <3>1. node'.signed = Append(node.signed, request.subject)
      BY <2>3 DEF Node
    <3>2. Signed(node', artifact') /\ artifact'.pack = request.subject
      BY <2>1, <2>3, <3>1, Appended DEF Signed, Node
    <3>3. QED
      BY <1>5, <2>3, <3>2 DEF FinishExport
  <2>4. QED
    BY <1>5, <2>2, <2>3 DEF FinishExport
<1>6. CASE Verify
  BY <1>6 DEF Verify
<1>7. CASE FinishVerify
  <2>1. request.subject \in Artifact /\ request.subject = artifact
    BY <1>7, SubjectTypes DEF FinishVerify
  <2>2. FlagsFollow'
    BY <1>7, <2>1, ConstantsOK DEF FinishVerify, Node
  <2>3. QED
    BY <1>7, <2>1, <2>2 DEF FinishVerify, Node
<1>8. CASE Install
  BY <1>8 DEF Install
<1>9. CASE FinishInstall
  BY <1>9, SubjectTypes DEF FinishInstall, Unanswered, Node
<1>10. CASE Activate
  BY <1>10 DEF Activate
<1>11. CASE FinishActivate
  BY <1>11, SubjectTypes DEF FinishActivate, Node
<1>12. CASE FinishTypeRead
  <2>1. request.subject \in Packs
    BY <1>12, SubjectTypes DEF FinishTypeRead
  <2>2. ActiveIsBound'
    <3>1. CASE UNCHANGED active
      BY <1>12, <3>1 DEF FinishTypeRead
    <3>2. CASE \E pinned \in Forms : type' = [pack |-> request.subject, form |-> pinned]
      BY <2>1, <3>2 DEF Activation
    <3>3. QED
      BY <1>12, <3>1, <3>2 DEF FinishTypeRead
  <2>3. FlagsFollow'
    <3>1. CASE UNCHANGED active
      BY <1>12, <3>1 DEF FinishTypeRead
    <3>2. CASE \E pinned \in Forms : type' = [pack |-> request.subject, form |-> pinned]
      <4>1. type' # None /\ type'.pack = request.subject
        BY <2>1, <3>2, ConstantsOK DEF BoundType, Maybe
      <4>2. QED
        BY <1>12, <4>1 DEF FinishTypeRead
    <3>3. QED
      BY <1>12, <3>1, <3>2 DEF FinishTypeRead
  <2>4. QED
    BY <1>12, <2>2, <2>3 DEF FinishTypeRead
<1>13. CASE OpenRecordForm \/ FinishOpenRecordForm
  BY <1>13 DEF OpenRecordForm, FinishOpenRecordForm, RecordForm
<1>14. CASE SubmitRecord
  BY <1>14 DEF SubmitRecord
<1>15. CASE FinishSubmitRecord
  <2>1. request.subject \in Activation /\ request.subject.pack \in Packs
    BY <1>15, SubjectTypes DEF FinishSubmitRecord, Activation
  <2> DEFINE receipt == [id |-> Len(node.records) + 1, of |-> request.subject]
  <2>2. CASE created' = None /\ shown' = None
    BY <1>15, <2>2 DEF FinishSubmitRecord
  <2>3. CASE /\ created' = receipt /\ shown' = receipt
             /\ node' = [node EXCEPT !.records = Append(@, request.subject.pack)]
    <3>1. node'.records = Append(node.records, request.subject.pack)
      BY <2>3 DEF Node
    <3>2. Recorded(node', created') /\ created'.of = request.subject
      BY <2>1, <2>3, <3>1, Appended DEF Recorded, Node
    <3>3. QED
      BY <1>15, <2>3, <3>2 DEF FinishSubmitRecord
  <2>4. QED
    BY <1>15, <2>2, <2>3 DEF FinishSubmitRecord
<1>16. CASE ReadRecord \/ FinishReadRecord
  BY <1>16 DEF ReadRecord, FinishReadRecord
<1>17. CASE RefuseRecord \/ EditRecord \/ \E text \in Packs \cup {None, Malformed} : EditPack(text)
  BY <1>17 DEF RefuseRecord, EditRecord, EditPack
<1>18. CASE Fresh
  BY <1>18 DEF Fresh, NoForm
<1>19. CASE UNCHANGED vars
  BY <1>19 DEF vars
<1>20. CASE \E w \in Past : FinishLeft(w)
  BY <1>20 DEF FinishLeft
<1>21. QED
  BY <1>1, <1>2, <1>3, <1>4, <1>5, <1>6, <1>7, <1>8, <1>9, <1>10, <1>11, <1>12, <1>13,
     <1>14, <1>15, <1>16, <1>17, <1>18, <1>19, <1>20
  DEF Next, User, Finish, Replace, Dispose

\* A new workflow shows nothing and has asked nothing.
LEMMA IInvInit == Init => IInv
<1> SUFFICES ASSUME Init PROVE IInv
  OBVIOUS
<1>1. TypeOK
  BY RequestTypes, FreshNodeType DEF Init, TypeOK, Maybe
<1>2. Pending
  BY DEF Init, Pending, Idle
<1>3. QED
  BY <1>1, <1>2
  DEF Init, IInv, ArtifactIsAuthored, FlagsFollow, EvidenceIsCurrent, AuthorAlone,
      ActiveIsBound, NodeKnows, NoForm

\* The inductive invariant holds of every behaviour.
THEOREM Invariance == Spec => []IInv
  BY IInvInit, IInvStep, PTL DEF Spec

\* The state of the workflow stays well typed, a type without a form and a
\* record posted under it included.
THEOREM TypeCorrect == Spec => []TypeOK
<1>1. IInv => TypeOK
  BY DEF IInv
<1>2. QED
  BY <1>1, Invariance, PTL

\* Everything on the page is about the text on the page, because an edit
\* resets it all and is ignored while an answer is awaited.
THEOREM AuthoredArtifact == Spec => []ArtifactIsAuthored
<1>1. IInv => ArtifactIsAuthored
  BY DEF IInv
<1>2. QED
  BY <1>1, Invariance, PTL

\* The flags form a chain about the one artifact the page holds.
THEOREM FlagChain == Spec => []FlagsFollow
<1>1. IInv => FlagsFollow
  BY DEF IInv
<1>2. QED
  BY <1>1, Invariance, PTL

\* Record evidence is of the record the page would read, under the active pack,
\* although a submission of a pack does not clear what is shown.
THEOREM CurrentEvidence == Spec => []EvidenceIsCurrent
<1>1. IInv => EvidenceIsCurrent
  BY DEF IInv
<1>2. QED
  BY <1>1, Invariance, PTL

-----------------------------------------------------------------------------
(***************************************************************************)
(* The workflow implements NodeSession, like the React lane's.             *)
(***************************************************************************)

\* A command that starts asks something the node's answers so far allow.
LEMMA Asks ==
    ASSUME IInv,
           \/ OpenPackForm \/ SubmitPack \/ Export \/ Verify \/ Install \/ Activate
           \/ OpenRecordForm \/ SubmitRecord \/ ReadRecord,
           UNCHANGED past
    PROVE  Session!Ask
<1> USE DEF IInv, Await, Session!Admissible
<1>1. request = Idle /\ ~busy /\ request' # Idle /\ node' = node
  BY FlagTypes DEF TypeOK, Pending, Request, RequestOf, Idle, OpenPackForm, SubmitPack, Export,
     Verify, Install, Activate, OpenRecordForm, SubmitRecord, ReadRecord
<1>2. Session!Admissible(request'.op, request'.subject, node)
  <2>1. CASE OpenPackForm \/ SubmitPack \/ Export
    BY <2>1 DEF OpenPackForm, SubmitPack, Export, NodeKnows
  <2>2. CASE Verify
    BY <2>2 DEF Verify, NodeKnows, TypeOK, Maybe, Artifact, Session!Artifact, Signed,
       Session!Signed
  <2>3. CASE Install
    BY <2>3 DEF Install, FlagsFollow
  <2>4. CASE Activate
    BY <2>4 DEF Activate, FlagsFollow, ArtifactIsAuthored
  <2>5. CASE OpenRecordForm
    BY <2>5 DEF OpenRecordForm, FlagsFollow, ActiveIsBound, Activation, Session!Activation
  <2>6. CASE SubmitRecord
    <3>1. form.entry \in Forms
      BY <2>6 DEF SubmitRecord, TypeOK, NoForm, PackForm, RecordForm
    <3>2. QED
      BY <2>6, <3>1 DEF SubmitRecord, FlagsFollow, ActiveIsBound, Activation,
         Session!Activation
  <2>7. CASE ReadRecord
    BY <2>7 DEF ReadRecord, NodeKnows, TypeOK, Maybe, Receipt, Session!Receipt,
       Activation, Session!Activation, Recorded, Session!Recorded
  <2>8. QED
    BY <2>1, <2>2, <2>3, <2>4, <2>5, <2>6, <2>7
<1>3. QED
  BY <1>1, <1>2 DEF Session!Ask, Session!Quiet, Idle, past

\* What follows an await settles the question, or goes on to read the type.
LEMMA Settles ==
    ASSUME IInv, IInv', Finish, UNCHANGED past
    PROVE  Session!Settle
<1> USE DEF Settle, Idle, Session!Quiet
<1>1. request.op # "idle"
  BY DEF Finish, FinishOpenPackForm, FinishSubmitPack, FinishExport, FinishVerify,
         FinishInstall, FinishActivate, FinishTypeRead, FinishOpenRecordForm,
         FinishSubmitRecord, FinishReadRecord
<1>2. Session!Serve(request)
  BY DEF Session!Serve, Unanswered, Finish, FinishOpenPackForm, FinishSubmitPack,
         FinishExport, FinishVerify, FinishInstall, FinishActivate, FinishTypeRead,
         FinishOpenRecordForm, FinishSubmitRecord, FinishReadRecord
<1>3. \/ request' = Idle
      \/ /\ <<request.op, request'.op>> \in Session!Continuation
         /\ Session!Admissible(request'.op, request'.subject, node')
  BY DEF IInv, Pending, Await, Session!Continuation, Session!Admissible, Finish,
         FinishOpenPackForm, FinishSubmitPack, FinishExport, FinishVerify, FinishInstall,
         FinishActivate, FinishTypeRead, FinishOpenRecordForm, FinishSubmitRecord,
         FinishReadRecord
<1>4. QED
  BY <1>1, <1>2, <1>3 DEF Session!Settle, Session!Continues, past

\* A page that takes a new workflow, or is disposed, leaves the question of the
\* old one behind, if there is any.
LEMMA Leaves ==
    ASSUME IInv, Fresh, RunOn, UNCHANGED node
    PROVE  Session!Next \/ UNCHANGED Session!vars
<1> USE DEF Fresh, Settle, Idle, RunOn, Session!Quiet
<1>1. CASE request = Idle
  BY <1>1 DEF Session!vars
<1>2. CASE request # Idle
  BY <1>2 DEF Session!Leave, Session!Next
<1>3. QED
  BY <1>1, <1>2

\* A replaced workflow whose request is served only finishes what it began.
LEMMA SettlesLeft ==
    ASSUME IInv, IInv', NEW w \in Past, FinishLeft(w)
    PROVE  Session!SettleLeft(w)
<1> USE DEF Idle, Session!Quiet
<1>1. left \in [Past -> Request] /\ node \in Node /\ left[w] # Idle /\ request' = request
  BY DEF IInv, TypeOK, FinishLeft
<1>2. CASE /\ left' = [left EXCEPT ![w] = Idle]
           /\ node' \in Unanswered(node, left[w]) \cup LateAnswers(left[w])
  <2>1. Session!Serve(left[w])
    BY <1>2 DEF LateAnswers, Unanswered, Session!Serve
  <2>2. QED
    BY <1>1, <1>2, <2>1 DEF Session!SettleLeft
<1>3. CASE /\ left[w].op = "pack.activate"
           /\ left' = [left EXCEPT ![w] = [op |-> "type.read", subject |-> left[w].subject]]
           /\ node' = [node EXCEPT !.projected = @ \cup {left[w].subject}]
  <2>1. Session!Serve(left[w])
    BY <1>3 DEF Session!Serve
  <2>2. left'[w] = [op |-> "type.read", subject |-> left[w].subject]
    BY <1>1, <1>3
  <2>3. left[w].subject \in node'.projected
    BY <1>1, <1>3 DEF Node
  <2>4. Session!Continues(left[w], left'[w])
    BY <1>3, <2>2, <2>3 DEF Session!Continues, Session!Continuation, Session!Admissible
  <2>5. QED
    BY <1>1, <1>3, <2>1, <2>2, <2>4 DEF Session!SettleLeft
<1>4. QED
  BY <1>2, <1>3 DEF FinishLeft, LateAnswers

\* The safety half of FairNodeProtocol: the workflow on a Blazor page, too, asks
\* the node one thing at a time and only what its answers allow; one the page
\* replaced asks nothing new, but for the read an activation ends with.
THEOREM Refinement == Spec => Session!Spec
<1>1. Init => Session!Init
  BY DEF Init, Idle, FreshNode, Session!Init, Session!Quiet, Session!FreshNode
<1>2. IInv /\ IInv' /\ [Next]_vars => [Session!Next]_(Session!vars)
  <2> SUFFICES ASSUME IInv, IInv', [Next]_vars
               PROVE  Session!Next \/ UNCHANGED Session!vars
    OBVIOUS
  <2>1. CASE /\ \/ OpenPackForm \/ SubmitPack \/ Export \/ Verify \/ Install \/ Activate
                \/ OpenRecordForm \/ SubmitRecord \/ ReadRecord
             /\ UNCHANGED past
    BY <2>1, Asks DEF Session!Next
  <2>2. CASE Finish /\ UNCHANGED past
    BY <2>2, Settles DEF Session!Next
  <2>3. CASE Replace \/ Dispose
    BY <2>3, Leaves DEF Replace, Dispose
  <2>4. CASE \E w \in Past : FinishLeft(w)
    BY <2>4, SettlesLeft DEF Session!Next
  <2>5. CASE UNCHANGED <<request, past, node>>
    BY <2>5 DEF Session!vars, past
  <2>6. QED
    BY <2>1, <2>2, <2>3, <2>4, <2>5
    DEF Next, User, vars, SubmitUnreadablePack, RefuseRecord, EditPack, EditRecord
<1>3. QED
  BY <1>1, <1>2, Invariance, PTL DEF Spec, Session!Spec

-----------------------------------------------------------------------------
(***************************************************************************)
(* What keeping that promise means for the node.                           *)
(***************************************************************************)

\* What a question may rest on stays true while others are served.
LEMMA GroundsStay ==
    ASSUME node \in Node, NEW q \in Request, NEW op, NEW subject, Session!Serve(q),
           Session!Admissible(op, subject, node)
    PROVE  Session!Admissible(op, subject, node')
<1> USE SubjectTypes DEF Node, Session!Serve
<1>1. q.op = "record.create" => q.subject.pack \in Packs
  BY DEF Activation
<1>2. /\ node.validated \subseteq node'.validated
      /\ node.verified \subseteq node'.verified
      /\ node.installed \subseteq node'.installed
      /\ node.projected \subseteq node'.projected
      /\ Longer(node.signed, node'.signed)
      /\ Longer(node.records, node'.records)
  BY <1>1 DEF Longer
<1>3. /\ \A a : Session!Signed(node, a) => Session!Signed(node', a)
      /\ \A receipt : Session!Recorded(node, receipt) => Session!Recorded(node', receipt)
  BY <1>2, LongerKeeps DEF Session!Signed, Session!Recorded
<1>4. QED
  BY <1>2, <1>3 DEF Session!Admissible

\* A question served on good grounds leaves the chain without a gap.
LEMMA ServeLeads ==
    ASSUME node \in Node, NEW q \in Request, Session!Serve(q),
           Session!Admissible(q.op, q.subject, node), Session!NodeChain
    PROVE  Session!NodeChain'
<1> USE SubjectTypes DEF Node, Session!NodeChain, Session!Admissible, Session!Signed
<1>1. node.signed \in Seq(Packs) /\ node.records \in Seq(Packs)
  OBVIOUS
<1>2. CASE node' = node
  BY <1>2
<1>3. CASE q.op = "pack.submit" /\ node' = [node EXCEPT !.validated = @ \cup {q.subject}]
  BY <1>3
<1>4. CASE q.op = "pack.export" /\ node' = [node EXCEPT !.signed = Append(@, q.subject)]
  <2>1. q.subject \in Packs /\ q.subject \in node.validated
    BY <1>4
  <2>2. node'.signed = Append(node.signed, q.subject)
    BY <1>4
  <2>3. /\ \A i \in DOMAIN node'.signed : node'.signed[i] \in node'.validated
        /\ \A a \in node'.verified : Session!Signed(node', a)
    BY <1>1, <1>4, <2>1, <2>2, Appended
  <2>4. QED
    BY <1>4, <2>3
<1>5. CASE q.op = "pack.verify" /\ node' = [node EXCEPT !.verified = @ \cup {q.subject}]
  BY <1>5
<1>6. CASE q.op = "pack.install" /\ node' = [node EXCEPT !.installed = @ \cup {q.subject}]
  BY <1>6
<1>7. CASE q.op = "pack.activate" /\ node' = [node EXCEPT !.projected = @ \cup {q.subject}]
  BY <1>7
<1>8. CASE /\ q.op = "record.create"
           /\ node' = [node EXCEPT !.records = Append(@, q.subject.pack)]
  <2>1. q.subject.pack \in Packs /\ q.subject.pack \in node.projected
    BY <1>8 DEF Activation
  <2>2. node'.records = Append(node.records, q.subject.pack)
    BY <1>8
  <2>3. \A i \in DOMAIN node'.records : node'.records[i] \in node'.projected
    BY <1>1, <1>8, <2>1, <2>2, Appended
  <2>4. QED
    BY <1>8, <2>3
<1> QED
  BY <1>2, <1>3, <1>4, <1>5, <1>6, <1>7, <1>8 DEF Session!Serve

\* A step of the promise leaves the chain without a gap, and every question in
\* progress with its grounds.
LEMMA PromiseLeads ==
    ASSUME TypeOK, Session!AskedWithGrounds, Session!NodeChain, [Session!Next]_(Session!vars)
    PROVE  Session!AskedWithGrounds' /\ Session!NodeChain'
<1> USE DEF TypeOK, Session!AskedWithGrounds
<1>1. CASE UNCHANGED Session!vars
  BY <1>1 DEF Session!vars, Session!NodeChain, Session!Admissible, Session!Quiet
<1>2. CASE Session!Ask
  BY <1>2 DEF Session!Ask, Session!Quiet, Session!NodeChain
<1>3. CASE Session!Settle
  <2>1. Session!NodeChain'
    BY <1>3, ServeLeads DEF Session!Settle
  <2>2. Session!AskedWithGrounds'
    BY <1>3, GroundsStay DEF Session!Settle, Session!Continues, Session!Quiet
  <2> QED
    BY <2>1, <2>2
<1>4. CASE \E w \in Past : Session!Leave(w)
  BY <1>4 DEF Session!Leave, Session!Quiet, Session!NodeChain
<1>5. CASE \E w \in Past : Session!SettleLeft(w)
  <2>1. PICK w \in Past : Session!SettleLeft(w)
    BY <1>5
  <2>2. /\ left[w] \in Request /\ left[w] # Session!Quiet /\ Session!Serve(left[w])
        /\ Session!Admissible(left[w].op, left[w].subject, node)
    BY <2>1 DEF Session!SettleLeft
  <2>3. Session!NodeChain'
    BY <2>2, ServeLeads
  <2>4. request # Session!Quiet
                       => Session!Admissible(request'.op, request'.subject, node')
    BY <2>1, <2>2, GroundsStay DEF Session!SettleLeft
  <2>5. ASSUME NEW v \in Past, left'[v] # Session!Quiet
        PROVE  Session!Admissible(left'[v].op, left'[v].subject, node')
    <3>1. CASE v = w
      BY <2>1, <2>5, <3>1 DEF Session!SettleLeft, Session!Continues, Session!Quiet
    <3>2. CASE v # w
      BY <2>1, <2>2, <2>5, <3>2, GroundsStay DEF Session!SettleLeft
    <3>3. QED
      BY <3>1, <3>2
  <2> QED
    BY <2>1, <2>3, <2>4, <2>5 DEF Session!SettleLeft
<1> QED
  BY <1>1, <1>2, <1>3, <1>4, <1>5 DEF Session!Next

\* The same of the node of a Blazor page, whose replaced workflows go on with
\* what they began beside the requests of the new one.
THEOREM NodeIsLed == Spec => []Session!NodeChain
<1>1. Init => Session!AskedWithGrounds /\ Session!NodeChain
  <2> SUFFICES ASSUME Init PROVE Session!AskedWithGrounds /\ Session!NodeChain
    OBVIOUS
  <2>1. Session!AskedWithGrounds
    BY DEF Init, Idle, Session!AskedWithGrounds, Session!Quiet
  <2>2. /\ node.installed = {} /\ node.verified = {} /\ node.projected = {}
        /\ node.signed = <<>> /\ node.records = <<>>
    BY DEF Init, FreshNode
  <2> QED
    BY <2>1, <2>2 DEF Session!NodeChain
<1>2. IInv => TypeOK
  BY DEF IInv
<1>3. TypeOK /\ Session!AskedWithGrounds /\ Session!NodeChain
        /\ [Session!Next]_(Session!vars)
      => Session!AskedWithGrounds' /\ Session!NodeChain'
  BY PromiseLeads
<1> QED
  BY <1>1, <1>2, <1>3, Invariance, Refinement, PTL DEF Spec, Session!Spec

=============================================================================
