------------------------------ MODULE ReviewGate ------------------------------
(***************************************************************************)
(* .github/review-gate.sh and review-gate-arm.sh, with the workflow that   *)
(* runs them: one pull request is read in several requests, judged, given  *)
(* a status on its head, and perhaps armed to merge.  Meanwhile commits    *)
(* are pushed, the base changes and reviews complete, the Claude review of *)
(* review.yml and those of two external reviewers.  One run at a time is   *)
(* in the concurrency group of the pull request; a run that is cancelled   *)
(* ends like one that failed.                                              *)
(*                                                                         *)
(* A definition whose name ends in Mutant is a plausible slip in the one   *)
(* after it; no action uses one.                                           *)
(***************************************************************************)
EXTENDS Naturals, Optional

CONSTANTS
    Heads,          \* the commits the pull request may have as its head
    FirstHead,
    Branches,       \* what it may be merged into
    Main,           \* the default branch
    Changes,        \* of each head: "exempt", "plain" or "risky" files
    MaxTime,        \* bound: seconds
    MaxEvents       \* bound: pushes, new bases, reviews and runs

ASSUME HeadsAssumption == FirstHead \in Heads /\ Main \in Branches
ASSUME ChangesAssumption == Changes \in [Heads -> {"exempt", "plain", "risky"}]
ASSUME AbsentHeadAssumption == None \notin Heads \cup Nat

VARIABLES
    pull,       \* the pull request's head and base
    rebasedAt,  \* when its base last changed, or None
    firstPush,  \* when each head was first pushed, or None
    time,       \* GitHub's clock, in whole seconds
    had,        \* the heads and bases it has had, as pairs
    reports,    \* what the reviewers say
    cleared,    \* the pairs some review has passed (history)
    secured,    \* the pairs a security review has passed (history)
    gate,       \* the run under way
    standing,   \* the review-gate status of each head, or None
    granted,    \* the heads a run has passed as not risky
    armed,      \* the head auto-merge was turned on for, or None
    events      \* the pushes, new bases, reviews and runs so far

review == <<pull, rebasedAt, firstPush, time, had, reports, cleared, secured,
            gate, standing, granted, armed, events>>

Codex == {"code", "security"}
Reviewers == Codex \cup {"Claude", "CodeRabbit"}

\* base: of a Claude review only, the others do not record theirs.
Review == [who : Reviewers, head : Heads, base : Branches, clean : BOOLEAN, at : Nat]

\* bases: those the pull request had since the run read its base.  passes: the
\* reviewers that pass it.  secure: the security review is clean.  listed: the head
\* whose files were listed.
Gate == [at : {"idle", "pull", "rebased", "Claude", "Codex", "CodeRabbit", "files",
               "post", "arm", "status", "merge"},
         head : Maybe(Heads), base : Branches, bases : SUBSET Branches,
         rebased : Maybe(Nat), passes : SUBSET {"Claude", "Codex", "CodeRabbit"},
         blocked : BOOLEAN, secure : BOOLEAN, risky : BOOLEAN, exempt : BOOLEAN,
         listed : Maybe(Heads)]

\* passes: what the description names; none for a change that needs no review.
\* bases, listed: those of the run (history).
Status == [state : {"success", "pending", "failure", "error"},
           passes : SUBSET {"Claude", "Codex", "CodeRabbit"}, bases : SUBSET Branches,
           listed : Maybe(Heads)]

ASSUME AbsentStatusAssumption == None \notin Status

ReviewTypeOK ==
    /\ pull \in [head : Heads, base : Branches]
    /\ rebasedAt \in Maybe(Nat)
    /\ firstPush \in [Heads -> Maybe(Nat)]
    /\ time \in Nat
    /\ had \subseteq Heads \X Branches
    /\ reports \subseteq Review
    /\ cleared \subseteq Heads \X Branches
    /\ secured \subseteq Heads \X Branches
    /\ gate \in Gate
    /\ standing \in [Heads -> Maybe(Status)]
    /\ granted \subseteq Heads
    /\ armed \in Maybe(Heads)
    /\ events \in Nat

NoGate == [at |-> "idle", head |-> None, base |-> Main, bases |-> {}, rebased |-> None,
           passes |-> {}, blocked |-> FALSE, secure |-> FALSE, risky |-> FALSE,
           exempt |-> FALSE, listed |-> None]

ReviewInit(base) ==
    /\ pull = [head |-> FirstHead, base |-> base]
    /\ had = {<<FirstHead, base>>}
    /\ rebasedAt = None
    /\ firstPush = [h \in Heads |-> IF h = FirstHead THEN 0 ELSE None]
    /\ time = 0
    /\ reports = {}
    /\ cleared = {}
    /\ secured = {}
    /\ gate = NoGate
    /\ standing = [h \in Heads |-> None]
    /\ granted = {}
    /\ armed = None
    /\ events = 0

-----------------------------------------------------------------------------
(***************************************************************************)
(* GitHub and the reviewers.                                               *)
(***************************************************************************)

Tick ==
    /\ time < MaxTime
    /\ time' = time + 1
    /\ UNCHANGED <<pull, rebasedAt, firstPush, had, reports, cleared, secured, gate, standing,
                   granted, armed, events>>

Happens == events < MaxEvents /\ events' = events + 1

\* A run that has read the base sees the pull request take others.
Moved(head, base) ==
    /\ Happens
    /\ had' = had \cup {<<head, base>>}
    /\ pull' = [head |-> head, base |-> base]
    /\ gate' = IF gate.at \in {"idle", "pull"} THEN gate
               ELSE [gate EXCEPT !.bases = @ \cup {base}]
    /\ UNCHANGED <<time, reports, cleared, secured, standing, granted, armed>>

\* The first check suite of a commit is from its first push.
Push(h) ==
    /\ h # pull.head
    /\ Moved(h, pull.base)
    /\ firstPush' = IF firstPush[h] = None THEN [firstPush EXCEPT ![h] = time] ELSE firstPush
    /\ UNCHANGED rebasedAt

Retarget(b) ==
    /\ b # pull.base
    /\ Moved(pull.head, b)
    /\ rebasedAt' = time
    /\ UNCHANGED firstPush

\* A review began when the pull request had this head and base, and completes
\* now.  A reviewer's verdict on a head replaces its earlier one; the summary of
\* Codex holds the last verdict of each of its two reviews only.
Complete(who, h, b, clean) ==
    /\ Happens
    /\ <<h, b>> \in had
    /\ reports' = {r \in reports : r.who = who => who \notin Codex /\ r.head # h}
                    \cup {[who |-> who, head |-> h, base |-> b, clean |-> clean, at |-> time]}
    /\ cleared' = IF clean THEN cleared \cup {<<h, b>>} ELSE cleared
    /\ secured' = IF clean /\ who = "security" THEN secured \cup {<<h, b>>} ELSE secured
    /\ UNCHANGED <<pull, rebasedAt, firstPush, time, had, gate, standing, granted, armed>>

\* A review is dismissed or its findings are resolved: it neither passes nor
\* blocks.
Withdraw(r) ==
    /\ Happens
    /\ reports' = reports \ {r}
    /\ UNCHANGED <<pull, rebasedAt, firstPush, time, had, cleared, secured, gate, standing,
                   granted, armed>>

-----------------------------------------------------------------------------
(***************************************************************************)
(* A run of the gate.                                                      *)
(***************************************************************************)

RestOfGitHub == UNCHANGED <<pull, rebasedAt, firstPush, time, had, reports, cleared, secured>>
OnlyGate == RestOfGitHub /\ UNCHANGED <<standing, granted, armed, events>>

\* An event of the pull request names its head; the sweep and a dispatch do not.
BeginGate(h) ==
    /\ gate.at = "idle"
    /\ Happens
    /\ h \in {pull.head, None}
    /\ gate' = [NoGate EXCEPT !.at = "pull", !.head = h]
    /\ RestOfGitHub
    /\ UNCHANGED <<standing, granted, armed>>

\* The pull request is a draft or closed; or it is not one to arm.
LeaveAlone ==
    /\ gate.at \in {"pull", "arm"}
    /\ gate' = NoGate
    /\ OnlyGate

ReadPull ==
    /\ gate.at = "pull"
    /\ gate' = [gate EXCEPT !.at = "rebased", !.head = pull.head, !.base = pull.base,
                            !.bases = {pull.base}]
    /\ OnlyGate

ReadRebased ==
    /\ gate.at = "rebased"
    /\ gate' = [gate EXCEPT !.at = "Claude", !.rebased = rebasedAt]
    /\ OnlyGate

\* Both times are in whole seconds: one in the same second is not later.
FreshMutant(t) == gate.rebased # None => t >= gate.rebased

Fresh(t) == gate.rebased # None => t > gate.rebased

Says(who, clean) == {r \in reports : r.who = who /\ r.head = gate.head /\ r.clean = clean}

Read(who, next, passes, blocked) ==
    gate' = [gate EXCEPT !.at = next,
                         !.passes = IF passes THEN @ \cup {who} ELSE @,
                         !.blocked = @ \/ blocked]

\* A Claude review names the base it read.
ReadClaude ==
    /\ gate.at = "Claude"
    /\ Read("Claude", "Codex",
            \E r \in Says("Claude", TRUE) : Fresh(r.at) /\ r.base = gate.base,
            Says("Claude", FALSE) # {})
    /\ OnlyGate

\* After a change of base, only reviews of a head that was pushed later count.
HeadAfterRebase == Fresh(firstPush[gate.head])

CodexClean(who) == \E r \in Says(who, TRUE) : Fresh(r.at) /\ HeadAfterRebase

\* The comment holds both reviews and is read once.
ReadCodex ==
    /\ gate.at = "Codex"
    /\ gate' = [gate EXCEPT !.at = "CodeRabbit",
                            !.passes = IF \A who \in Codex : CodexClean(who)
                                       THEN @ \cup {"Codex"} ELSE @,
                            !.secure = CodexClean("security"),
                            !.blocked = @ \/ \E who \in Codex : Says(who, FALSE) # {}]
    /\ OnlyGate

ReadCodeRabbit ==
    /\ gate.at = "CodeRabbit"
    /\ Read("CodeRabbit", "files",
            \E r \in Says("CodeRabbit", TRUE) : Fresh(r.at) /\ HeadAfterRebase,
            Says("CodeRabbit", FALSE) # {})
    /\ OnlyGate

\* The files are listed by the number of the pull request, so they are those of
\* the head it has now; an exemption needs the comparison of the base and the head
\* that were read to list the same.
ExemptMutant(listed) == gate.base = Main /\ listed = "exempt"

Exempt(listed) ==
    /\ gate.base = Main
    /\ listed = "exempt"
    /\ listed = Changes[gate.head]

\* open: a thread is open or another pull request has this head.  unsure: a list
\* of paths cannot be read, or lists nothing, or the change is too large to list.
ReadFiles ==
    /\ gate.at = "files"
    /\ \E open, unsure \in BOOLEAN :
          LET listed == Changes[pull.head] IN
          gate' = [gate EXCEPT !.at = "post",
                               !.blocked = @ \/ open,
                               !.risky = unsure \/ listed = "risky",
                               !.exempt = ~unsure /\ Exempt(listed),
                               !.listed = pull.head]
    /\ OnlyGate

JudgementMutant ==
    IF gate.blocked THEN "failure"
    ELSE IF gate.exempt \/ gate.passes # {} THEN "success"
    ELSE "pending"

Judgement ==
    IF gate.blocked THEN "failure"
    ELSE IF gate.exempt THEN "success"
    ELSE IF gate.passes = {} \/ (gate.risky /\ ~gate.secure) THEN "pending"
    ELSE "success"

\* A status that says the same is left as it stands.  The job that arms follows a
\* success that is not risky.
Post ==
    /\ gate.at = "post"
    /\ LET says == [state |-> Judgement, passes |-> IF gate.exempt THEN {} ELSE gate.passes,
                    bases |-> gate.bases, listed |-> gate.listed]
           old == standing[gate.head]
           passed == Judgement = "success" /\ ~gate.risky IN
       /\ standing' = IF old # None /\ old.state = says.state /\ old.passes = says.passes
                      THEN standing ELSE [standing EXCEPT ![gate.head] = says]
       /\ granted' = IF passed THEN granted \cup {gate.head} ELSE granted
       /\ gate' = IF passed THEN [NoGate EXCEPT !.at = "arm", !.head = gate.head] ELSE NoGate
    /\ RestOfGitHub
    /\ UNCHANGED <<armed, events>>

\* A request fails or the run is cancelled, before its status stands; the trap
\* marks the head errored, if it is known and that request succeeds.
FailGate(marked) ==
    /\ gate.at \in {"pull", "rebased", "Claude", "Codex", "CodeRabbit", "files", "post"}
    /\ marked => gate.head # None
    /\ standing' = IF marked
                   THEN [standing EXCEPT ![gate.head] =
                           [state |-> "error", passes |-> {}, bases |-> {}, listed |-> None]]
                   ELSE standing
    /\ gate' = NoGate
    /\ RestOfGitHub
    /\ UNCHANGED <<granted, armed, events>>

-----------------------------------------------------------------------------
(***************************************************************************)
(* The job that arms the head a run has passed.                            *)
(***************************************************************************)

ArmRead ==
    /\ gate.at = "arm"
    /\ pull = [head |-> gate.head, base |-> Main]
    /\ armed = None
    /\ gate' = [gate EXCEPT !.at = "status"]
    /\ OnlyGate

ArmStatus ==
    /\ gate.at = "status"
    /\ standing[gate.head].state = "success"
    /\ gate' = [gate EXCEPT !.at = "merge"]
    /\ OnlyGate

\* The request fails, or the job is cancelled.
ArmEnds ==
    /\ gate.at \in {"status", "merge"}
    /\ gate' = NoGate
    /\ OnlyGate

ArmMutant ==
    /\ gate.at = "merge"
    /\ armed' = pull.head
    /\ gate' = NoGate
    /\ RestOfGitHub
    /\ UNCHANGED <<standing, granted, events>>

\* gh pr merge --match-head-commit
Arm ==
    /\ gate.at = "merge"
    /\ pull.head = gate.head
    /\ armed' = pull.head
    /\ gate' = NoGate
    /\ RestOfGitHub
    /\ UNCHANGED <<standing, granted, events>>

GateStep ==
    \/ \E h \in Maybe(Heads) : BeginGate(h)
    \/ LeaveAlone \/ ReadPull \/ ReadRebased \/ ReadClaude \/ ReadCodex \/ ReadCodeRabbit
    \/ ReadFiles \/ Post
    \/ \E marked \in BOOLEAN : FailGate(marked)
    \/ ArmRead \/ ArmStatus \/ ArmEnds \/ Arm

ReviewStep ==
    \/ Tick
    \/ \E h \in Heads : Push(h)
    \/ \E b \in Branches : Retarget(b)
    \/ \E who \in Reviewers, h \in Heads, b \in Branches, clean \in BOOLEAN :
          Complete(who, h, b, clean)
    \/ \E r \in reports : Withdraw(r)
    \/ GateStep

-----------------------------------------------------------------------------
\* A success that stands on a head is about that head: either it needs no review,
\* or it names reviewers and one review passed this very head against a base the
\* pull request had while the run read it.  Reviews complete late, of an earlier
\* base too, and pushes and new bases come between the requests of a run (the
\* time of the last change of base, the base a Claude review names, the first push
\* of the head, and the comparison an exemption needs).
PassIsEarned ==
    \A h \in Heads :
       standing[h] # None /\ standing[h].state = "success" =>
          \/ standing[h].passes = {} /\ Changes[h] = "exempt"
          \/ /\ standing[h].passes # {}
             /\ \E b \in standing[h].bases : <<h, b>> \in cleared

\* A success that stands on a head with risky files has a security review of this
\* very head behind it, clean against a base the pull request had while the run
\* read it, if it was that head's files the run listed (the security verdict, which
\* is read from the summary's one copy and told apart from the code review's).  The
\* condition is real: the files are listed by the number of the pull request, and a
\* push after the head was read has the head judged by another head's files.
RiskyIsSecured ==
    \A h \in Heads :
       /\ standing[h] # None
       /\ standing[h].state = "success"
       /\ standing[h].listed = h
       /\ Changes[h] = "risky"
       => \E b \in standing[h].bases : <<h, b>> \in secured

\* Auto-merge is turned on only for a head that a run has passed as not risky, by
\* the files the run listed, and that needs no review or has passed one, whatever
\* is pushed, retargeted or withdrawn between that run and the request
\* (--match-head-commit).
ArmedWasReviewed ==
    armed # None =>
       /\ armed \in granted
       /\ Changes[armed] = "exempt" \/ \E b \in Branches : <<armed, b>> \in cleared

=============================================================================
