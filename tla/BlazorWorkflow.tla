---------------------------- MODULE BlazorWorkflow ----------------------------
(***************************************************************************)
(* The Workshop command workflow of the Blazor lane                        *)
(* (apps/blazor/Workshop/WorkshopWorkflow.cs), bound to the page that      *)
(* shows it.  It serves the same commands as the React lane; what differs  *)
(* is how it guards against late answers.  The React lane lets the user    *)
(* edit while an answer is awaited and outdates the answer with a counter; *)
(* here an edit made while Busy is ignored, so no answer is ever late,     *)
(* and the evidence is a row of flags that each command resets.            *)
(*                                                                         *)
(* The page (SeededListPage.razor) replaces the workflow whenever it is    *)
(* handed parameters and cancels only when it is disposed, so an operation *)
(* of a replaced workflow runs on beside its successor's.  Nothing shows   *)
(* it any more: of such a workflow only the request remains, in `left`.    *)
(*                                                                         *)
(* `shown` keeps of ResultText only the evidence of a record the page      *)
(* holds; the bare id of an incomplete receipt is wording.  A JSON text    *)
(* that is not an object is Malformed, like a text that does not parse.    *)
(***************************************************************************)
EXTENDS LocalNode

CONSTANTS
    Malformed,      \* a text that is not a pack document
    Past,           \* names for replaced workflows that still run; as many at a time
    MaxExports,     \* bound on the artifacts the node signs
    MaxRecords      \* bound on the records the node creates

VARIABLES
    authored,       \* the author form's pack text (authorValues)
    form,           \* the open form (Form, formAction)
    candidate,      \* the pack document last parsed
    artifact,       \* the signed pack last received
    validated, verified, installed, active,     \* the flags of the same names
    type,           \* the activated record type and its form (typeId, type)
    created,        \* the receipt of the record last created
    shown,          \* the record whose evidence ResultText shows
    busy,           \* Busy
    request,        \* what the operation in progress awaits
    left,           \* what the operations of the workflows in Past await
    cancelled,      \* those of Past whose page was disposed
    node            \* what the local node has done (external)

pack   == <<authored, candidate, artifact>>
flags  == <<validated, verified, installed, active>>
record == <<created, shown>>
past   == <<left, cancelled>>
vars   == <<pack, form, flags, type, record, busy, request, past, node>>

\* A type read from the node may turn out to pin no form.
BoundType == [pack : Packs, form : Maybe(Forms)]

ASSUME ConstantsOK ==
    /\ MaxExports \in Nat /\ MaxRecords \in Nat
    /\ Malformed \notin Packs /\ Malformed # None
    /\ None \notin Packs /\ None \notin Forms
    /\ None \notin Artifact /\ None \notin BoundType /\ None \notin Receipt

NoForm        == [kind |-> "none", entry |-> None]
PackForm      == [kind |-> "pack", entry |-> None]
RecordForm(f) == [kind |-> "record", entry |-> f]

RequestOf(ops, subjects) == [op : ops, subject : subjects]

Request ==
    RequestOf({"idle", "form.load"}, {None})
    \cup RequestOf({"pack.submit", "pack.export", "pack.activate", "type.read"}, Packs)
    \cup RequestOf({"pack.verify", "pack.install"}, Artifact)
    \cup RequestOf({"form.read", "record.create"}, Activation)
    \cup RequestOf({"record.read"}, Receipt)

Idle == [op |-> "idle", subject |-> None]

TypeOK ==
    /\ authored \in Packs \cup {None, Malformed}
    /\ form \in {NoForm, PackForm} \cup {RecordForm(f) : f \in Forms}
    /\ candidate \in Packs \cup {None, Malformed}
    /\ artifact \in Maybe(Artifact)
    /\ {validated, verified, installed, active, busy} \subseteq BOOLEAN
    /\ type \in Maybe(BoundType)
    /\ created \in Maybe(Receipt) /\ shown \in Maybe(Receipt)
    /\ request \in Request
    /\ left \in [Past -> Request]
    /\ cancelled \subseteq Past
    /\ node \in Node

Init ==
    /\ authored = None /\ candidate = None /\ artifact = None
    /\ form = NoForm
    /\ validated = FALSE /\ verified = FALSE /\ installed = FALSE /\ active = FALSE
    /\ type = None
    /\ created = None /\ shown = None
    /\ busy = FALSE
    /\ request = Idle
    /\ left = [w \in Past |-> Idle]
    /\ cancelled = {}
    /\ node = FreshNode

-----------------------------------------------------------------------------
(***************************************************************************)
(* Parts shared by the operations.  A definition whose name ends in Mutant *)
(* is a plausible slip in the definition after it; no action uses one.     *)
(***************************************************************************)

Await(op, subject) ==
    /\ busy' = TRUE
    /\ request' = [op |-> op, subject |-> subject]

\* The finally block.
Settle ==
    /\ busy' = FALSE
    /\ request' = Idle

WithdrawRecordMutant == shown' = None /\ UNCHANGED created

\* What every command does first: created and ResultText become null.
WithdrawRecord == created' = None /\ shown' = None

ResetAfterCandidateMutant ==
    /\ validated' = FALSE /\ verified' = FALSE /\ installed' = FALSE /\ active' = FALSE
    /\ UNCHANGED artifact
    /\ type' = None
    /\ created' = None

ResetAfterCandidate ==
    /\ validated' = FALSE /\ verified' = FALSE /\ installed' = FALSE /\ active' = FALSE
    /\ artifact' = None
    /\ type' = None
    /\ created' = None

-----------------------------------------------------------------------------
(***************************************************************************)
(* Pack commands.                                                          *)
(***************************************************************************)

OpenPackForm ==
    /\ ~busy
    /\ WithdrawRecord
    /\ Await("form.load", None)
    /\ UNCHANGED <<pack, form, flags, type, node>>

FinishOpenPackForm ==
    /\ request.op = "form.load"
    /\ form' \in {PackForm, form}       \* loaded, or refused
    /\ Settle
    /\ UNCHANGED <<pack, flags, type, record, node>>

SubmitPack ==
    /\ form.kind = "pack"
    /\ ~busy
    /\ authored \in Packs
    /\ ResetAfterCandidate
    /\ candidate' = authored
    /\ Await("pack.submit", authored)
    /\ UNCHANGED <<authored, form, shown, node>>

\* A text that does not parse leaves the previous candidate in its place,
\* no longer validated; one that parses to no object replaces it.
SubmitUnreadablePack ==
    /\ form.kind = "pack"
    /\ ~busy
    /\ authored \notin Packs
    /\ ResetAfterCandidate
    /\ candidate' \in IF authored = Malformed THEN {candidate, Malformed} ELSE {candidate}
    /\ UNCHANGED <<authored, form, shown, busy, request, node>>

FinishSubmitPack ==
    /\ request.op = "pack.submit"
    /\ \/ /\ validated' = TRUE
          /\ node' = [node EXCEPT !.validated = @ \cup {request.subject}]
       \/ UNCHANGED <<validated, node>>
    /\ Settle
    /\ UNCHANGED <<pack, form, verified, installed, active, type, record>>

ExportKeepsFlagsMutant ==
    /\ ~busy
    /\ validated /\ candidate # None
    /\ Len(node.signed) < MaxExports
    /\ WithdrawRecord
    /\ Await("pack.export", candidate)
    /\ UNCHANGED <<pack, form, flags, type, node>>

Export ==
    /\ ~busy
    /\ validated /\ candidate # None
    /\ Len(node.signed) < MaxExports
    /\ verified' = FALSE /\ installed' = FALSE /\ active' = FALSE
    /\ type' = None
    /\ WithdrawRecord
    /\ Await("pack.export", candidate)
    /\ UNCHANGED <<pack, form, validated, node>>

FinishExport ==
    /\ request.op = "pack.export"
    /\ \/ /\ artifact' = [pack |-> request.subject, serial |-> Len(node.signed) + 1]
          /\ node' = [node EXCEPT !.signed = Append(@, request.subject)]
       \/ UNCHANGED <<artifact, node>>
    /\ Settle
    /\ UNCHANGED <<authored, candidate, form, flags, type, record>>

Verify ==
    /\ ~busy
    /\ artifact # None
    /\ verified' = FALSE /\ installed' = FALSE /\ active' = FALSE
    /\ WithdrawRecord
    /\ Await("pack.verify", artifact)
    /\ UNCHANGED <<pack, form, validated, type, node>>

FinishVerify ==
    /\ request.op = "pack.verify"
    /\ \/ /\ verified' = TRUE
          /\ node' = [node EXCEPT !.verified = @ \cup {request.subject}]
       \/ UNCHANGED <<verified, node>>
    /\ Settle
    /\ UNCHANGED <<pack, form, validated, installed, active, type, record>>

InstallMutant ==
    /\ ~busy
    /\ artifact # None
    /\ installed' = FALSE /\ active' = FALSE
    /\ WithdrawRecord
    /\ Await("pack.install", artifact)
    /\ UNCHANGED <<pack, form, validated, verified, type, node>>

Install ==
    /\ ~busy
    /\ verified /\ artifact # None
    /\ installed' = FALSE /\ active' = FALSE
    /\ WithdrawRecord
    /\ Await("pack.install", artifact)
    /\ UNCHANGED <<pack, form, validated, verified, type, node>>

FinishInstall ==
    /\ request.op = "pack.install"
    /\ \/ /\ installed' = TRUE
          /\ node' = [node EXCEPT !.installed = @ \cup {request.subject}]
       \/ /\ node' \in Unanswered(node, request)
          /\ UNCHANGED installed
    /\ Settle
    /\ UNCHANGED <<pack, form, validated, verified, active, type, record>>

Activate ==
    /\ ~busy
    /\ installed /\ candidate # None
    /\ active' = FALSE
    /\ WithdrawRecord
    /\ Await("pack.activate", candidate)
    /\ UNCHANGED <<pack, form, validated, verified, installed, type, node>>

\* Only an activation without refusals, of a pack with exactly one record
\* type, goes on to read that type.
FinishActivate ==
    /\ request.op = "pack.activate"
    /\ \/ /\ node' = [node EXCEPT !.projected = @ \cup {request.subject}]
          /\ Await("type.read", request.subject)
       \/ /\ Settle
          /\ UNCHANGED node
    /\ UNCHANGED <<pack, form, flags, type, record>>

FinishTypeRead ==
    /\ request.op = "type.read"
    /\ \/ /\ \E pinned \in Forms : type' = [pack |-> request.subject, form |-> pinned]
          /\ active' = TRUE
       \/ \* the read failed, or the type pins no form
          /\ type' \in {type, [pack |-> request.subject, form |-> None]}
          /\ UNCHANGED active
    /\ Settle
    /\ UNCHANGED <<pack, form, validated, verified, installed, record, node>>

-----------------------------------------------------------------------------
(***************************************************************************)
(* Record commands.                                                        *)
(***************************************************************************)

OpenRecordForm ==
    /\ ~busy
    /\ WithdrawRecord
    /\ active /\ type # None
    /\ Await("form.read", type)
    /\ UNCHANGED <<pack, form, flags, type, node>>

FinishOpenRecordForm ==
    /\ request.op = "form.read"
    /\ form' \in {RecordForm(request.subject.form), form}
    /\ Settle
    /\ UNCHANGED <<pack, flags, type, record, node>>

\* The values submitted were entered in the form on the page.
SubmitRecord ==
    /\ form.kind = "record"
    /\ ~busy
    /\ active /\ type # None
    /\ Len(node.records) < MaxRecords
    /\ WithdrawRecord
    /\ Await("record.create", [pack |-> type.pack, form |-> form.entry])
    /\ UNCHANGED <<pack, form, flags, type, node>>

\* A record command is refused on the page: no type is active, the declared
\* input is not supported, or no display name is found.
RefuseRecord ==
    /\ ~busy
    /\ WithdrawRecord
    /\ UNCHANGED <<pack, form, flags, type, busy, request, node>>

FinishSubmitRecord ==
    /\ request.op = "record.create"
    /\ \/ LET receipt == [id |-> Len(node.records) + 1, of |-> request.subject] IN
          /\ created' = receipt
          /\ shown' = receipt
          /\ node' = [node EXCEPT !.records = Append(@, request.subject.pack)]
       \/ \* refused, failed, or answered with an incomplete receipt
          /\ node' \in Unanswered(node, request)
          /\ WithdrawRecord
    /\ Settle
    /\ UNCHANGED <<pack, form, flags, type>>

ReadRecord ==
    /\ ~busy
    /\ created # None
    /\ shown' = None
    /\ Await("record.read", created)
    /\ UNCHANGED <<pack, form, flags, type, created, node>>

FinishReadRecord ==
    /\ request.op = "record.read"
    /\ \/ /\ shown' = request.subject
          /\ UNCHANGED created
       \/ WithdrawRecord                \* the record or its trace was refused
       \/ UNCHANGED record              \* the call was cancelled
    /\ Settle
    /\ UNCHANGED <<pack, form, flags, type, node>>

-----------------------------------------------------------------------------
(***************************************************************************)
(* The user edits a form.                                                  *)
(***************************************************************************)

\* ChangeValues on the author form; ignored while Busy.
EditPack(text) ==
    /\ form.kind = "pack"
    /\ ~busy
    /\ text # authored
    /\ authored' = text
    /\ candidate' = None
    /\ ResetAfterCandidate
    /\ shown' = None
    /\ UNCHANGED <<form, busy, request, node>>

EditRecord ==
    /\ form.kind = "record"
    /\ ~busy
    /\ WithdrawRecord
    /\ UNCHANGED <<pack, form, flags, type, busy, request, node>>

-----------------------------------------------------------------------------
(***************************************************************************)
(* The page replaces the workflow, or is disposed.                         *)
(***************************************************************************)

\* A workflow as it is made: nothing typed, nothing shown, nothing asked.
Fresh ==
    /\ authored' = None /\ candidate' = None /\ artifact' = None
    /\ form' = NoForm
    /\ validated' = FALSE /\ verified' = FALSE /\ installed' = FALSE /\ active' = FALSE
    /\ type' = None
    /\ created' = None /\ shown' = None
    /\ Settle

\* The page keeps no hold of the operation in progress, which runs on.
RunOn ==
    IF request = Idle THEN UNCHANGED left
    ELSE \E w \in Past : left[w] = Idle /\ left' = [left EXCEPT ![w] = request]

\* The page is handed parameters, another list's or the same again.
Replace ==
    /\ Fresh
    /\ RunOn
    /\ UNCHANGED <<cancelled, node>>

\* The user leaves the page, and whatever its workflows await is cancelled; the
\* node may serve it all the same.  The next page starts afresh.
Dispose ==
    /\ Fresh
    /\ RunOn
    /\ cancelled' = {w \in Past : left'[w] # Idle}
    /\ UNCHANGED node

\* The node after serving request q of a replaced workflow; its answer changes
\* nothing else, but an accepted activation reads the type next.
LateAnswers(q) ==
    Unanswered(node, q) \cup
    CASE q.op = "pack.submit"   -> {[node EXCEPT !.validated = @ \cup {q.subject}]}
      [] q.op = "pack.export"   -> {[node EXCEPT !.signed = Append(@, q.subject)]}
      [] q.op = "pack.verify"   -> {[node EXCEPT !.verified = @ \cup {q.subject}]}
      [] OTHER                  -> {}

FinishLeft(w) ==
    /\ left[w] # Idle
    /\ \/ /\ left' = [left EXCEPT ![w] = Idle]
          /\ cancelled' = cancelled \ {w}
          /\ node' \in IF w \in cancelled THEN Unanswered(node, left[w])
                                          ELSE LateAnswers(left[w])
       \/ /\ left[w].op = "pack.activate"
          /\ w \notin cancelled
          /\ left' = [left EXCEPT ![w] = [op |-> "type.read", subject |-> left[w].subject]]
          /\ node' = [node EXCEPT !.projected = @ \cup {left[w].subject}]
          /\ UNCHANGED cancelled
    /\ UNCHANGED <<pack, form, flags, type, record, busy, request>>

User ==
    \/ OpenPackForm \/ SubmitPack \/ SubmitUnreadablePack
    \/ Export \/ Verify \/ Install \/ Activate
    \/ OpenRecordForm \/ SubmitRecord \/ RefuseRecord \/ ReadRecord
    \/ \E text \in Packs \cup {None, Malformed} : EditPack(text)
    \/ EditRecord

Finish ==
    \/ FinishOpenPackForm \/ FinishSubmitPack \/ FinishExport
    \/ FinishVerify \/ FinishInstall
    \/ FinishActivate \/ FinishTypeRead
    \/ FinishOpenRecordForm \/ FinishSubmitRecord \/ FinishReadRecord

\* A command, an edit or an answer is this workflow's own affair.
Next ==
    \/ (User \/ Finish) /\ UNCHANGED past
    \/ Replace \/ Dispose
    \/ \E w \in Past : FinishLeft(w)

Spec == Init /\ [][Next]_vars

\* The HTTP client answers, times out or is cancelled.
FairSpec ==
    /\ Spec
    /\ WF_vars(Finish /\ UNCHANGED past)
    /\ \A w \in Past : WF_vars(FinishLeft(w))

-----------------------------------------------------------------------------
(***************************************************************************)
(* Properties.                                                             *)
(***************************************************************************)

\* Everything on the page is about the text on the page: the artifact was
\* signed for the candidate, and the candidate is the author's text.  (The
\* React lane only keeps the weaker EvidenceChain.)
ArtifactIsAuthored ==
    /\ validated => candidate = authored
    /\ artifact # None => validated /\ artifact.pack = authored

\* The flags form a chain, and each speaks of the artifact the page holds.
FlagsFollow ==
    /\ verified => artifact # None /\ artifact \in node.verified
    /\ installed => verified /\ artifact \in node.installed
    /\ active => /\ installed
                 /\ type # None /\ type.pack = authored /\ type.pack \in node.projected

\* Record evidence on the page is of the record the page would read next, and
\* that record belongs to the active pack.
EvidenceIsCurrent ==
    /\ shown # None => shown = created
    /\ created # None => active /\ created.of.pack = type.pack

\* The page keeps the promise both lanes make to the node: the workflow on the
\* page asks one thing at a time, a replaced one only finishes what it began,
\* and every question is settled, those of replaced workflows included.
Session == INSTANCE NodeSession WITH asked <- request

FairNodeProtocol == Session!FairSpec

\* What the React lane checks and the documentation says of both: a record is
\* created from the form the active package binds.
RecordUsesBoundForm ==
    request.op = "record.create" => request.subject.form = type.form

=============================================================================
