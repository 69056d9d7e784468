# A TLA+ model of the Harborline app

Harborline is one application built twice: a React client (`src/apps/react`) and
a Blazor client (`src/apps/blazor`). Both read a *local node* (which signs,
verifies, installs and activates packs and keeps records) and a catalogue of
compiled views, and both promise the same sequence of accepted actions
(`docs/getting-started.md`, `docs/workshop-view-host.md`; the comment at the top
of `App.tsx` says of the two shells "when they disagree, one of them is wrong").
The node and the catalogue are not in the repository.

The program is therefore a set of pages that wait: every command awaits one or
several answers while the user keeps editing, navigating and selecting. What is
hard is what a late answer does to a page that has moved on, and whether two
implementations written in different styles end up in the same place.

Beside it stand the scripts that decide what may be merged and published
(`eng`, the feed scripts of the two clients, `.github/workloads`). They are
processes on one checkout and one machine that others use at the same time, may
be killed at any point, and leave files behind that a later run believes. What is
hard is whether what they vouch for is what they saw. That is what these modules
are about.

## 1. Inventory

### Workshop command workflow (React: `workshop/WorkshopWorkflow.tsx`; Blazor: `Workshop/WorkshopWorkflow.cs`)

* **State.** The author form and the document typed in it; the evidence the node
  gave (candidate, artifact, verification, installation, projection); the
  record form, the receipt of a created record and the record read back; a busy
  flag. React also counts a *record generation*, and keeps everything in one
  `workflow` value that an edit replaces. Blazor keeps `Verified`, `Installed`,
  `Active` flags beside the objects.
* **Operations.** Open the author form, submit, export, verify, install,
  activate (which goes on to read the type, the form and the rows), open the
  record form, submit a record, read it; edit either form; lose the page.
* **Interactions.** Asks the node one question at a time; an activation makes the
  list page refresh; the list page keys or recreates the workflow. A workflow that the Blazor
  page has replaced is not cancelled and finishes what it began beside its successor.
* **Hard.** Edits between a question and its answer, answers about evidence that
  has been withdrawn, failures half way through the four reads of an activation,
  a create or an install that happened on the node although its answer was lost, a replaced
  workflow whose activation reads on.
* **Correct when** all evidence shown is about one pack, a command is sent only on
  the strength of what the node itself said, withdrawn evidence stays withdrawn,
  and every command unlocks the page again.

### Workshop list page (`workshop/SeededListPage.tsx`, `Workshop/SeededListPage.razor`)

* **State.** The list shown or its error, the load in progress, which selection has
  been restored. React aborts a load by its controller; Blazor compares a
  `requestVersion` counter and cancels nothing.
* **Operations.** Load when the target changes, refresh after an activation,
  select, restore the selection an address names, leave.
* **Interactions.** Reports the selected and inspected row to its shell, which
  renders it again; is told by the workflow that an activation completed.
* **Hard.** Leaving a list and returning while its first load is pending; two
  refreshes pending at once; rows that appear only on a refresh; restoration that
  starts the page again.
* **Correct when** only the list asked for last is shown, a page that waits has an answer on
  its way, rows do not go back in time, and the inspector shows the selected row.

### Application shell (`App.tsx` with `navigation/packNavigation.ts`; `Shell.razor`)

* **State.** Item, selected row, open panels, inspected row, navigation (awaited, failed,
  or declared by a pack), and the address.
* **Operations.** Start at an address, reload, read and retry the navigation,
  navigate, toggle a panel, open the inspector, select a row.
* **Interactions.** The address is the only state that survives a reload. React
  writes it in an effect after every render, Blazor in each handler.
* **Hard.** The navigation arrives after the user has acted; the declaration
  overrides what the address asked for; effects of the same render run in order and
  read values of that render.
* **Correct when** both lanes show the same place after the same steps, and each lane's
  address leads back to the place it was written at.

### Administration (`admin/authorization`, `admin/configuration`, `authorization`)

* **State.** At the authorization service: of each capability binding, the roles still effective
  and a revision. On the page: the bindings read, one editor per definition
  (roles selected, a confirmation open, submitting), the refusal under the page
  and under each editor, and the trace read for it. At the configuration service:
  whether the proposed change is edited, how many versions were saved, whether
  they are checked, which are released. On the page: the change as last answered,
  and a busy flag.
* **Operations.** Load, retry, select roles, review, confirm, dismiss; open a trace; save and release
  a version; leave one page for another.
* **Interactions.** The shell shows one page at a time; a page that is left aborts its reads,
  but neither a narrowing nor a save nor a release.
* **Hard.** Other administrators narrow the same binding between the read, the
  selection and the confirmation; a call whose answer is lost has taken effect, or will, after the
  page was left and mounted again; a second refusal arrives while the trace of the first is read.
* **Correct when** a page shows only what its service has or had, does not go back
  while it stays, asks for no role its row does not show, puts a trace
  under its own refusal, and unlocks after every call.

### Engineering scripts (`eng`, `apps/*/scripts`, `.github/workloads`)

* **State.** HEAD and the working directory; a receipt; staged packages with their
  proof and manifest; two package feeds and the recorded version; the reports of Stryker; one lock per machine.
* **Operations.** Run the verification and record or check its receipt
  (`verify.sh`, `verify-receipt.mjs`); consume, seal and verify packages (`package-proof.py`); build the
  feeds (`build-local-feed.mjs`, twice); mutate the suites of a language (`stryker.mjs`,
  `strykerjs.mjs`); wait for the machine (`host-workload-lock.py`).
* **Interactions.** A verification quotes the feeds; a full .NET session runs as
  the command of the lock's wrapper; all read a checkout that is edited and committed meanwhile.
* **Hard.** Every script reads files it did not write a moment ago: HEAD after the steps have
  run, archives that another pack replaces, a feed whose script was killed, a report of an earlier
  session, a Stryker that goes on without the lock its session held.
* **Correct when** what a script vouches for (a commit, a set of archives, a version, a score)
  is what was read, run or measured.

### Review gate (`.github/review-gate.sh`, `review-gate-arm.sh`, `workflows/review-gate.yml`, `review.yml`)

* **State.** On GitHub: the pull request's head and base, when its base last changed
  and when each head was first pushed, what Claude, Codex and CodeRabbit say, one
  status for each head, the head auto-merge is on for. In a run: what it has read.
* **Operations.** Read the pull request, its last change of base, the three
  reviewers and the files; judge; post the status; then, in a job of its own, arm.
* **Interactions.** Runs for one pull request follow each other (a concurrency group); commits,
  new bases and reviews do not wait for them.
* **Hard.** Every read is a request of its own. A review that began for an
  earlier base completes late, and only Claude's says which base it read; the files are
  listed for whatever head the pull request has by then.
* **Correct when** a success on a head rests on a review of that head against a base it had
  while it was judged, or on files that need no review, and only a
  head that passed is armed.

### The other parts

| Part | State and operations | Hard because | Status |
|---|---|---|---|
| First-run states and error envelopes | none (pure) | two classifications that must agree | planned |
| Application composition (`AppContracts.cs`) | contributions of extensions | revision and route conflicts | planned |
| Blazor administration pages | as in React; one unsynchronised fixture serves every circuit | two circuits on two threads | planned |
| Standing catalogue, auditor panels, view authoring, host entry points, shell component | rendering and wiring only | – | no state of their own |
| Compiled form adapter (Blazor) | none (pure) | a layout of JSON, which the models abstract | not modelled |
| Coverage summary, dependency ledger | none: one process reads files and writes a report | formats and sums | not modelled |

`PROJECT.json` lists every component with its sources, and every hazard at its
line with the properties that watch over it.

## 2. Modules

```
LocalNode ------ NodeSession                 what a page may ask the node (abstract)
    |                 ^   ^
    |      implements |   | implements
    +-- WorkshopWorkflow  BlazorWorkflow     the two command workflows
            |
            +-- MCWorkshopWorkflow, WorkshopWorkflowProofs, BlazorWorkflowProofs

                CatalogueReader              what a page shows of a list (abstract)
                 ^    ^
      implements |    | implements
Catalogue --- SeededListPage --- MCSeededListPage, SeededListPageProofs
        \---- BlazorListPage --- MCBlazorListPage, BlazorListPageProofs

ShellNavigation --- ReactShell  \
                \-- BlazorShell -+- ShellLanes --- MCShellLanes, ShellLanesProofs

AuthorizationService --- AuthorizationPages \
                         ConfigurationPages -+- Administration --- MCAdministration,
                                                                   AdministrationProofs

Optional --- Checkout -+- VerificationRun \
                       +- PackageProof     \
                       +- MutationRun ------+- HostTooling --- MCHostTooling,
             LocalFeed --------------------/                   HostToolingProofs
             WorkloadLock ----------------/
Optional --- ReviewGate ------------------/     (ReviewGateProofs)
```

### How an action corresponds to the code

An event handler runs without interruption up to its first `await`, and again from each answer
to the next `await`. Each such stretch is one action: `Export` is the part of the
handler that checks, sets busy and sends; `FinishExport` is the answer, the code
after the `await`, and the `finally`. An answer has its outcomes as disjuncts: it
is accepted, it is refused by the node, or the call fails (and then the node may or may not have done what
was asked: `Unanswered`). Between the two any user action may happen that the
code admits at that time.

| Module | Definition | Code |
|---|---|---|
| `WorkshopWorkflow` | `workflow`, `generation`, `awaiting` (with the ref and the closure's values) | the `useState` and `useRef` values of the component, the variables a handler carries over its `await` |
| | `Admitted`, `Await`, `Settle` | the `busyRef` test, the start of a command, its `finally` |
| | `InvalidateRecord`, `EditPack`, `EditRecord` | the functions that withdraw evidence |
| | `Activate` … `FinishTypeRead`, `FinishFormRead`, `FinishRefresh` | the four awaits of an activation |
| | `Current` | the comparison of generations after a record answer |
| | `Remount` | the page's key changes: the state is gone, an open call settles for nobody |
| `BlazorWorkflow` | one action per method and answer; `ResetAfterCandidate`, `WithdrawRecord` | the properties of the class and the methods that clear them |
| | `Replace`, `Dispose`, `left`, `cancelled` | the list page makes a new workflow, or is disposed; what the workflows it let go of still await, and whether that was cancelled |
| | `FinishLeft` | the answers to those: an accepted activation goes on to read its type |
| `Catalogue` | `RowsAt`, `Read` | external: rows of a revision, reads that were sent |
| `CatalogueReader` | `Ask`, `Answer`, `Activate` | abstract: rows appear only as answers to a question for the present place, and as the catalogue had them between the question and the answer; an activation is followed by a question |
| `SeededListPage` | `Load`, `FinishLoad`, `FinishRefresh`, `DropRead` | the loading effect, its answers, an aborted read that settles |
| | `Restore` | the effect that restores a selection |
| | `Begin`, `Activated`, `Ended` | the workflow, as far as the page sees it |
| | `Publish` | external: someone else changes the catalogue |
| `BlazorListPage` | `Start`, `SetParameters`, `Rerender` | `OnParametersSetAsync` whenever the shell renders the page |
| | `Current`, `Loaded`, `TimeOut` | the `requestVersion` test, what follows an accepted load, a client timeout: no `catch` takes it and the renderer passes over it, so the page stays as it is |
| `ShellNavigation` | `Shown`, `WorkshopItemIds`, `Written` | `packNavigation.ts` and its Blazor twin; writing the address |
| `ReactShell` | `Cleared`, `Opened`, `Corrected`, `Render` | the effects of a render in their order |
| `BlazorShell` | `Restore`, `ReplaceAddress`, the handlers | the methods of `Shell.razor` |
| `ShellLanes` | one step of both shells | the same user, node answer and reload in both lanes |
| `AuthorizationService` | `Binding`, `Narrows`, `Narrowed` | the answers of the service; what a narrowing does, by `fixtureClient.ts` |
| `AuthorizationPages` | `reads`, `narrowings` | the calls a page awaits; `live` says that somebody still does |
| | `Mount`, `FinishLists`, `FinishBinding`, `FailLoad` | the loading effect, its cleanup, and its two rounds of reads |
| | `Toggle`, `Review`, `Confirm`, `Dismiss` | the buttons of an editor and of its dialog |
| | `Serve`; `FinishNarrowing`, `FailNarrowing`, `LoseNarrowing` | the call takes effect; its answer arrives, refuses, or never comes |
| | `OpenTrace`, `FinishTrace` | the trace below a refusal; its key is the refusal |
| `ConfigurationPages` | `Visit`, `Save`, `Release`, `Serve`, `Finish`, `Fail` | both pages' effect, the two buttons, and `send` of the client |
| `Administration` | `Navigate` | the body of `App`: one page at a time |
| `Checkout` | `Edit`, `MakeCommit` | external: what is done to the checkout meanwhile |
| `VerificationRun` | `PassStep`, `FailStep`; `NameHead`, `Record`; `BeginCheck`, `EndCheck` | a step of `verify.sh`; the git calls of `verify-receipt.mjs` and what follows them |
| `PackageProof` | `BeginConsume`, `Restore`, `Compare`, `RunConsumer`, `EndConsume`; `BeginVerify`, `EndVerify` | `consume` between its reads of the staged directory; `seal` and `verify` between their two inventories |
| `LocalFeed` | `RemoveDefinitions`, `RemovePackage`, `RemoveVersion`, `RemoveTarball`, `RemoveUnpacked`, `RemoveDirectory`, `MakeDirectory` | the recursive removal of the old feed, one file after another in any order, and the new directory |
| | `PackBlazor`, `RecordVersion`, `CheckReactFeed`, `StartUnpacking`, `Unpack`, `CopyDefinitions`, `AbortFeed` | one project packed, the checks, a package half and wholly unpacked, the copying, an end anywhere |
| `MutationRun` | `BeginSession`, `BeginSuite`, `StrykerEnds`, `Judge`, `EndSession`; `Kill`, `OrphanEnds` | `main` and one turn of its loop; a process that is killed, and its Stryker that is not |
| `WorkloadLock` | `Acquire`, `TimeOut`, `Leave`, `ChildrenEnd` | the wrapper, and the descriptor, which keeps the lock in whatever process has it |
| `ReviewGate` | `BeginGate`, `ReadPull` … `ReadFiles`, `Post`, `FailGate` | the requests of `review-gate.sh` in their order, the status, and the trap |
| | `ArmRead`, `ArmStatus`, `Arm`, `ArmEnds` | the three requests of `review-gate-arm.sh` |
| | `Push`, `Retarget`, `Complete`, `Withdraw`, `Tick` | external: what happens to the pull request, and GitHub's clock |
| `HostTooling` | `Benches` | where the scripts meet: a checkout, or the reserved machine |
| | `LeaveReserved`, `LeftEnds`, `SessionOver` | the shell of the full session ends or is killed, alone or with the Node process of the session, which has the descriptor too; the Stryker that Node started has not |

In the scripts an action is what happens between two points at which something else can have
changed what the script reads next: a git call, an inventory, a child process.

A *bench* is one family of scripts with the checkout it works on, or the review gate with
its pull request. A behaviour is of one bench, chosen at the start. That loses nothing, because two families share
only the checkout, which the actions `Edit` and `MakeCommit` already change in every way a script of another family
could, and the places where they do meet are inside one bench:
the feeds a verification quotes, and the lock a full session runs under.

A React handler, the render it causes and the effects of that render are one
action where the next event cannot come in between. JavaScript runs one task at a
time and Blazor runs a circuit's handlers on one synchronisation context, so
between awaits no step of the same page interleaves.

## 3. What each run checks

| Run | Shows |
|---|---|
| `workflow` | For the React workflow: evidence is about one pack (`EvidenceChain`), the candidate is the text on the page (`CandidateIsShown`), no late answer revives record evidence that an edit or a newer record withdrew (`EvidenceIsCurrent`), records are submitted only under the projection they were opened for (`RecordsFollowProjection`), every command settles (`CommandsSettle`), the workflow implements `NodeSession` with its liveness (`FairNodeProtocol`), and so, whatever is lost, the node verifies only artifacts it signed for the pack they name, installs only what it verified, projects a pack only after installing one of its artifacts and stores records of projected packs alone (`NodeChain`) |
| `blazor` | The Blazor workflow implements the same `NodeSession`, its flags never outlive the objects they speak of (`FlagsFollow`), and its evidence is about the text on the page (`ArtifactIsAuthored`, `EvidenceIsCurrent`). The page replaces the workflow at any time and an operation of the replaced one runs on: the workflow on the page asks one question at a time, a replaced one only finishes what it began, and neither disturbs the other |
| `list` | The React list page answers only the latest load, always ends its waiting, shows what its own activation brought, never goes back to older rows, inspects the selected row as soon as it is listed, and implements `CatalogueReader` (`ReaderProtocol`) |
| `blazor_list` | The Blazor page answers only its latest request, restarts itself at most once to restore a selection (`EchoEnds`), never waits without a read on its way unless the client has timed out that very read (`WaitingIsAnswered`), ends its waiting otherwise (`LoadingEnds`), and implements the same `CatalogueReader`, with questions that may lapse unnoticed |
| `shells` | Both lanes show the same item, row and panels after the same steps (`LanesAgree`), each address leads back to its place (`AddressesKeepPlace`), and the inspector follows the selection (`InspectorsFollow`) |
| `administration` | Whatever other administrators and authors do, whatever is lost, and whichever page is left and mounted again: a page shows a past or present state of its service (`AppShowsPast`), an answer does not take it back (`AppNeverGoesBack`), a narrowing stays within its row (`AsksWithinShown`), a trace belongs to its refusal (`TraceIsOfRefusal`), nothing stays locked (`AppSettles`) |
| `tooling` | A receipt names the tree its steps read (`ReceiptIsHonest`), promoted packages are the ones a consumer ran (`PromotedWasConsumed`), a restore quotes no package of another version or producer wherever a feed script stopped, and a feed that no script is amid, and none stopped amid, is whole (`FeedIsWhole`), a full session that passed held every suite to a tested score not below its baseline, by its own report or that of a Stryker left running from before (`HeldIsMeasured`), no other workload has the lock while the full session runs, though its shell be killed (`SessionIsReserved`), a review status that passed rests on a review of its head, or on files that need none (`PassIsEarned`), on a risky head whose own files were listed it rests on a security review of that head (`RiskyIsSecured`), and auto-merge is turned on only for a head that was reviewed, or that needed no review, when it was granted (`ArmedWasReviewed`) |
| `workflow_edit` | finding 1 |
| `blazor_form` | finding 2 |
| `blazor_list_select` | finding 3 |
| `shells_early` | finding 4 |
| `shells_fourteenth` | finding 5 |

### Findings

The last five runs each violate one property, a sentence the repository says of
itself and the code does not keep.

1. **An edit does not always withdraw the artifact** (`WorkshopWorkflow.tsx:424`).
   The React author form stays enabled while an export is pending. The edit empties
   the workflow; the answer then stores the artifact of the earlier text in it.
   Verify and install are offered for a text that is no longer shown. The
   consequence stays bounded, and `EvidenceChain` and `FairNodeProtocol` show how: the
   artifact has no candidate beside it, so it cannot be activated.
2. **A record form survives re-activation** (`WorkshopWorkflow.cs:188`). The Blazor
   lane submits the values of a form the type no longer pins; the React lane
   refuses.
3. **Selecting a row discards the workflow** (`SeededListPage.razor:74`), because the
   row is a parameter of the page; the React lane keeps it.
4. **Acting before the navigation is known** leads the two shells to different
   places (`Shell.razor:324`, `App.tsx:187`).
5. **A row of an item only the pack declares** is removed from a React address on
   reload (`App.tsx:202`), restored in Blazor.

Other behaviours were met while modelling, and no run is about them; of the first ones no text
of the repository says that they should be otherwise. A client that times out a read of a Blazor
list raises a cancelled task. `SeededListPage.razor:90` catches only the page's own cancellation,
and the renderer passes over it: the page shows that it is loading, with no read on its way, until
something hands it its parameters again (`WaitingIsAnswered` and `LoadingEnds` except exactly
this, by `lapsed`). After an action that timed out (not a submission, which renders in its `finally`, `159`) `Busy` is released but nothing
renders, so the controls stay disabled until the next rendering; the model lets the user
act at once. Two refreshes of a Blazor list pending together
may be shown in the wrong order (`RowsNeverGoBack` of `BlazorListPage` fails;
nothing says the rows must not go back in that lane). A Blazor shell whose pack
declares no inspector does not write a selected row to the address
(`AddressesKeepPlace` fails with `MCBarePack`). Closing all panels removes the
parameter, and a reload opens the declared defaults again, in both lanes.

Of the scripts, three sentences do not hold to the letter, and the properties say how far they do.
The recorded version lies in the feed so that "a restore can never quote a version no local package
carries" (`build-local-feed.mjs:132-133`); a stop inside the recursive removal (`53`) can leave it beside
missing packages, until the script is run again (`FeedIsWhole`, `Settled`). A React feed stopped amid an
extraction (`101-121`) holds part of a package. The lock is for "the complete command tree"
(`host-workload-lock.py:2`); the shell and the Node process of a session do keep the descriptor, but
Node does not hand it to what it spawns (`stryker.mjs:170`), so a Stryker left behind runs without the lock and its
report may be judged by a later session (`HeldIsMeasured`, `strays`). And a risky head needs a
clean security review (`review-gate.sh:4`), but the files are listed by the number of the pull
request (`161-163`): a push after the first read has the head judged by another head's
files, and only the exemption compares them with the head (`228-236`). `RiskyIsSecured` is about the
heads whose own files were listed, and what `ArmedWasReviewed` calls "not risky" is what the run believed.

The rest is again what no text denies. A commit made while the steps of a verification run
is attested, which is honest only as long as no file was edited; one made between the two git calls
of the recording (`verify-receipt.mjs:42`, `49`) can be attested for another tree.
`seal` and `verify` inventory the staged directory twice (`package-proof.py:118`,
`122`), and the second may differ from what was compared with the proof.
`strykerjs.mjs` does not delete the report of an earlier run (`199`), so a run that ends
well without writing one is judged by it. `verify.sh` (`43`-`49`) checks only that the feed
directories exist. `ReceiptIsHonest`, `PromotedWasConsumed` and `HeldIsMeasured` say in
their conditions exactly where these cases are excepted. On the
pages, the error that replaces a proposal offers no retry, and a narrowing
carries no revision, so the service cannot tell that its row was out of date unless
it would widen the binding.

### Bounds, and why they are enough

* **Workflows.** `Past = {w1}` in `blazor`: one replaced workflow runs on beside the present one, which
  shows both orders of any two of their requests (the proofs take any number). Two packs distinguish a stale answer from a current one; two forms a
  pin that moved; `MaxExports = 2` an artifact that replaces another; `MaxRecords = 2`
  a receipt that replaces another. `MaxGeneration = 14` bounds how often the record
  generation is raised; the code only compares it for equality with a captured value, and a
  handler captures one value at a time, so what matters is that an edit, a
  record and a re-activation can all fall within one behaviour.
* **Lists.** Two declared lists and one the platform does not know; a row present
  from the start and one that appears at a later revision; `MaxRevision = 2`, so that of
  two pending refreshes either can be the older; `MaxLoads = 3`: leave a list and come
  back while its first load is pending.
* **Shells.** An item of each kind (default, Workshop, foreign, undeclared), two
  panels (one open by default) and one no pack declares, two rows. The declaration
  a pack will serve is chosen once per behaviour. `Patient` restricts the user to
  acting once the navigation is known; finding 4 is the same instance without it.

* **Administration.** One definition with two roles, so that a selection can be everything,
  something or nothing; two audit entries, so that the trace of a first refusal differs from that of
  a second; `MaxRevision = 2`, one narrowing of this page and one of
  another administrator; `MaxSent = 2`, a retry of a narrowing that was lost; `MaxVersions = 1`,
  `MaxActs = 1`, a save or a release that is lost or answered late; `MaxVisits = 1`,
  one change of page with calls under way. Rows of different definitions share nothing but the
  page's loading; the theorems hold for any number of them.
* **Tooling.** Two trees, and `MaxCommits = 2`, so that a commit can move HEAD away from what was read and back;
  three steps, one that needs the feed, one that only a run with coverage has;
  two packages with two contents and `MaxPacks = 4`, two to stage and two to
  disturb; two projects, versions and assemblies; two workloads; one suite of each
  language, scores 0 and 1 around a baseline of 1, and `MaxSessions = 2`, a session and
  what an earlier one left. For the gate: a head whose files need no review, one whose do and a risky one,
  two branches, `MaxTime = 1`, two seconds, so that two events fall into one second or
  into two, and `MaxEvents = 4` pushes, new bases, reviews and runs: a run needs one, and a
  review that counts for the wrong base needs a new base and a review beside it. Trees, contents, packages and versions are symmetric: nothing
  orders or names one of them.

Deadlock checking is off where the system may rightly stop: at a bound, or when the user
has left the page.

### Fairness

Only answers are fair, never the user: `WF(Finish)` for a workflow, `WF(FinishLeft(w))` for one that
was replaced, and `WF(Settle(n))` for each load of a list. Every call of the two clients is an HTTP
request or a `fetch`, which answers, fails, is aborted or times out, and both
languages resume the awaiting code in each of these cases. Nothing is assumed about *which*
outcome occurs, nor that a failing read ever succeeds. A timeout settles a read of a Blazor list without
any effect on the page, and the liveness properties do not claim that it has one. The administration assumes the same
(`AppFairness`): every awaited call ends, in an answer or an error, and nothing else is fair; the
service need not ever serve a call. The shells and the scripts claim no liveness.

## 4. What is proved

The theorems hold for every set of packs, forms, items, rows, panels, heads and branches, and
without the bounds' values; TLC checked each invariant on the instances above before it was proved.

### `WorkshopWorkflowProofs`

`Invariance` proves `Spec => []IInv`. The properties are not inductive by
themselves, because what a late answer does depends on what was true when its
question was asked. `IInv` therefore adds to them what each pending
request knows:

* `PendingPack`: a pending submission is about the text on the page (the form is
  disabled meanwhile), so `FinishSubmitPack` cannot validate another;
* `InstalledCandidate`: an installation beside a candidate is of that candidate's pack, so `Activate`,
  which tests the one and sends the other, sends the right one;
* `PendingRecord`: a record call whose generation is still current was made under
  the projection still on the page;
* `NodeBacksEvidence` and `NodeKnows`: every piece of evidence, and every pending
  question, is one the node has answered for, whether or not the page still shows it.

From it follow `TypeCorrect`, `Chain`, `Candidate`, `CurrentEvidence`,
`RecordsUnderProjection` and `NodeOrder`. `Refinement` proves that
the workflow implements `NodeSession!Spec`: every question the page asks is
admissible for the node's history, every answer is a `Settle` of the session, and
every edit stutters. `NodeIsLed` draws the conclusion: `PromiseLeads` proves that every behaviour
of `NodeSession` keeps `NodeChain`, from the fact that a question in progress is one the node
has grounds to answer (`AskedWithGrounds`), and the refinement carries it to the page.

### `ShellLanesProofs`

`LanesInvariant` proves that two very differently written shells agree: React
computes its place by effects that run after each render, Blazor in handlers that
write the address themselves. `LInv` says, for each lane, how place, navigation and address are related
between steps (the address *is* the written place, or the
navigation is still awaited and nothing has moved), and across the lanes that all
shared components are equal; `LanesAgree` alone is not inductive, since equal
places with unequal addresses diverge at the next reload. `LanesAlwaysAgree` follows from
it, under the assumption `Mirrored`, which is exactly what the findings take away:
the user waits for the navigation (finding 4), the pack's Workshop items are among the
seeded ones (finding 5), the inspector is a declared panel, the default item is not a Workshop
item, and the fallback navigation has none.

What each lane owes its own user needs less, and has invariants of its own (`EachLaneKeeps`).
`LanesTypeCorrect` and `InspectorsAlwaysFollow` hold for every user and every
declaration, from `ReactOK` and `BlazorOK`, which are inductive lane by lane. `AddressesAlwaysKeepPlace` needs of React that the user
waits and the pack adds no Workshop item (`ReactReopens`), and of Blazor that the inspector is
declared wherever a row can be selected (`BlazorReopens`); `ReactPlaced` and `BlazorPlaced` say
how place and address are related, before and after the navigation has arrived.

### `AdministrationProofs`

`AppInvariance` proves `AppSpec => []AppInv`, the conjunction of `AInv` for the
authorization pages and `CInv` for the configuration pages; the two meet
only in `Navigate`. What the properties lack is, again, what is pending:

* `ReadsOK`: a read of rows belongs to the page that loads, there is one
  per row, the row is still empty, and a binding that was read is one the service had (`IsPast`, which every narrowing preserves:
  `PastNarrowed`);
* `Awaited`, `AskingOK`: an editor awaits one narrowing, whose answer is newer than
  its row, under no refusal and no trace that is read;
* `TracesOK`: a trace that is being read is that of the refusal above it;
* `CallsOK`: one call of a configuration page is awaited at a time, and
  its answer is no older than the page.

From it follow `AppTruth`, `AsksWithin`, `TracesFollow`, `AppForward` and `AppTypes`.

`WaitsAreAwaited` is the safety core of `AppSettles`. A page that loads, an editor that submits, a
trace that is read and a busy configuration page each have a call on its way that
somebody awaits (`AppAwaits`): a page whose awaited calls have all ended is locked nowhere. What the
liveness adds is that calls end, which is what the fairness says.

### `HostToolingProofs`

`ToolingInvariance` proves `Spec => []HInv`: one inductive invariant per script, each
preserved by the steps of the others because they change nothing it speaks of, except the
checkout (`VerificationRests`) and, on the reserved machine, the lock. `CalmRun` says what a run of
`verify.sh` may rely on as long as nobody interferes; `Proven` follows the bytes from
the consumer's cache to the promotion; `Building` says what a feed script has behind it at each
stage: once the directory is made anew nothing of the old feed is in it (`Cleared`), which a script that begins on a
feed torn by its predecessor relies on. Strykers left behind hold no lock, so nothing keeps them out of a
later session; `OwnReport` says that those at work in a session were all running when it began (`strays`), and
that the report a full .NET session is about to judge is its own or of one of them, which is what `HeldIsMeasured`
rests on. `OneHolder` (the lock has one holder, and who runs left nothing behind) and `Reserved` (a session on the reserved
machine is under our descriptor, the shell's or its own) give `SessionIsReserved`. From the invariant follow
`ReceiptsAreHonest`, `PromotedWereConsumed`, `FeedsAreWhole`, `HeldAreMeasured`, `SessionsAreReserved`,
`PassesAreEarned`, `RiskyAreSecured`, `ArmedWereReviewed` and `ToolingTypes`.

### `ReviewGateProofs`

The lemmas about the gate that `ToolingInvariance` cites: `ReviewBegins`, `ReviewSteps`
and `ReviewRests` establish and preserve `RInv`. The reviews of Codex and CodeRabbit do not
say against which base they read a head. The gate counts one only if it and the
head's first push are later than the last change of base, and `SameBase` is why that is
enough: a head pushed after the last change of base has been combined with one base only.
`KnowsBases` carries it through a run: every base such a head can have been reviewed
against is one the pull request had since the run read it. Times are whole
seconds and `SameBase` needs the comparison to be strict. `Secures` does the same for the
security reviews: a clean one that a run has read is of a base it knows, and a run that listed
the head's own files knows whether the head is risky.

### `BlazorWorkflowProofs`

`Invariance` proves `Spec => []IInv`. The invariant is simpler than the React lane's, because
an edit is ignored while an answer is awaited: `Pending` says that the operation in
progress is about what the page still shows, with the flags after its own step down.
`AuthorAlone` is what makes `EvidenceIsCurrent` inductive although `SubmitPack` leaves
`ResultText` alone: the author form is never open beside record evidence. From it follow
`TypeCorrect`, `AuthoredArtifact`, `FlagChain`, `CurrentEvidence` and `Refinement`,
which proves `Spec => Session!Spec`, and from it `NodeIsLed` for this lane. The session has a `Leave` for a
workflow that is replaced while it awaits: `Replace` and `Dispose` map to it, `FinishLeft` to `SettleLeft`, for any
set `Past` of replaced workflows, and `GroundsStay` shows that their pending questions keep their grounds whatever the
present one makes the node do. With the React lane's `Refinement` the two lanes are
two implementations of one protocol.

### `SeededListPageProofs` and `BlazorListPageProofs`

The React page: `OneRead` (a load has one read on its way), `Awaited` (the read of the active
load finds an empty page, its refresh finds the activation waiting and was sent
after the rows on the page were read) and `Working` give `TypeCorrect`, `CurrentList`,
`AnsweredWaiting`, `ShownActivation`, `FollowingInspector` and the action property `RowsMoveOn`.
The Blazor page: no read is ahead of `requestVersion`, a refresh of the present one has a list, and a page
that started itself over counts its selection as restored (`OneEcho`); from which `TypeCorrect`,
`CurrentList`, `AnsweredWaiting` (which excepts a load that the client timed out, and nothing else), `EndedEcho` and `FollowingInspector`. There is no `OneRead` for this page:
its refreshes do overlap, which is why `RowsNeverGoBack` fails there.

Both pages implement `CatalogueReader` (`Refinement` in each module), which keeps of a page
only its target, the reads on their way and what it shows of the target: React through an
aborted controller, Blazor through a counter, drop every answer that is not of the present
target. A read of the Blazor page that times out is a `Lapse`, which `CatalogueReader` allows only
where `MayLapse` says so; the React page is shown to do without. The mapping needs `OwnError` of the React page (its error is about the place it
is for), and `Asked` of the Blazor page (a request loads once, into an empty page, and nothing is read from
a catalogue to come).

### Only model-checked

Liveness (`CommandsSettle`, `LoadingEnds`, `FairNodeProtocol`, `AppSettles`) is beyond the
prover. What is proved of it is its safety half: that the workflows only take steps of `NodeSession`
(`Refinement`, twice), and that whoever waits, waits for a call that is still on its way
(`WaitingIsAnswered` in both list pages, `AppAwaits`; that the React page is busy exactly while it awaits is a
part of its `IInv`). That
such calls end is an assumption, that their end unlocks the page is checked by TLC. Every other
property of the passing runs is stated by a theorem. The type invariants of the workflows, the
shells, the administration and the scripts are proved, and not checked by a run as well.

## 5. What is left out

* **Wording, labels, layout, the texts of errors and results** of pack commands: the
  models keep whether something succeeded, not what is said about it.
* **The node and the catalogue** are external: any answer the client code
  distinguishes may come, in any order it can come.
* **React's double effects in development, Blazor's prerendering**, and a circuit
  that is lost and resumed: a page starts once with empty state.
* **Which error a failed catalogue read is classified as** (in both list pages).
* **The `surface` and `proposal` parts of the address**, and role vocabulary.
* **The Blazor administration pages.** Their fixture is one object without a lock
  that all circuits call on their own threads; it is listed as a hazard.
* **What a step, a pack, a consumer or Stryker does inside**: it passes or fails, and
  leaves what it leaves. Formats of receipts, reports and archives, the selection of lines to
  mutate, digests (equal exactly when the contents are).
* **The rendering that a timed-out action of the Blazor lane misses**: `Busy` is what counts in the model.
* **The Windows branch of the lock**, which releases it with the wrapper, and
  the platform pin.
* **Of the review gate**: the status the merge queue gets (`review-gate-queue.sh`), the commits of
  Dependabot, the lists of paths (a head's files are exempt, plain or risky), the watch mode, which changes
  nothing, and a status request whose answer is lost. Drafts and closed pull requests are
  left alone at any time (`LeaveAlone`).
* **Pure classifications** (first-run states, error envelopes) and the computations of
  the coverage summary and the dependency ledger.

## 6. Plan

In this order:

1. The Blazor administration pages: the check and the write of a narrowing are one
   step in React and two in the shared fixture.
2. `AppComposition` and the refusal and first-run classifications, as operators compared with a
   reference definition, and between the lanes, over bounded inputs.
