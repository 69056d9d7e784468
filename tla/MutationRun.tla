------------------------------ MODULE MutationRun ------------------------------
(***************************************************************************)
(* eng/stryker.mjs and eng/strykerjs.mjs: a session mutates the suites of  *)
(* its language one after the other, reads the report Stryker wrote for    *)
(* each, and passes or fails it; Stryker's exit code is not evidence.  A   *)
(* full session holds suites to their break, and a break may not be below  *)
(* the suite's recorded baseline.  A session may be killed while Stryker   *)
(* goes on.                                                                *)
(*                                                                         *)
(* A definition whose name ends in Mutant is a plausible slip in the one   *)
(* after it; no action uses one.                                           *)
(***************************************************************************)
EXTENDS Checkout

CONSTANTS
    Suites,         \* the test projects and packages
    Script,         \* of each, the session that mutates it: "net" or "js"
    Baseline,       \* of each, its recorded score; 0 while that is pending
    MaxScore,       \* bound: the highest score (100 in the source)
    MaxSessions     \* bound

ASSUME ScriptAssumption == Script \in [Suites -> {"net", "js"}]
ASSUME BaselineAssumption == Baseline \in [Suites -> Nat] /\ MaxScore \in Nat

VARIABLES
    session,    \* the session under way, or None
    sessions,   \* the sessions so far
    orphans,    \* the Strykers whose session was killed
    strays,     \* those that ran when the last session began (history)
    report,     \* the report of each suite in the directory, or None
    verdict,    \* of each suite in the last session, with the report it rests on
    outcome     \* of the last session, when it was not killed, or None

mutation == <<session, sessions, orphans, strays, report, verdict, outcome>>

\* held: the suites whose break is compared.  ok: nothing has failed so far.
\* before: the working directory before Stryker.
Session == [script : {"net", "js"}, full : BOOLEAN, breaks : [Suites -> Nat],
            held : SUBSET Suites, left : SUBSET Suites, suite : Maybe(Suites),
            exit : Maybe(BOOLEAN), before : Trees, ok : BOOLEAN]

\* tested: it has tested mutants, and none that was tested by no test.
Report == [by : Nat, tested : BOOLEAN, score : Nat]

ASSUME AbsentReportAssumption == None \notin Report /\ None \notin Session

Verdict == [is : {"none", "skipped", "passed", "held", "failed"}, of : Maybe(Report)]

MutationTypeOK ==
    /\ session \in Maybe(Session)
    /\ sessions \in Nat
    /\ orphans \subseteq [suite : Suites, by : Nat]
    /\ strays \subseteq [suite : Suites, by : Nat]
    /\ report \in [Suites -> Maybe(Report)]
    /\ verdict \in [Suites -> Verdict]
    /\ outcome \in Maybe([script : {"net", "js"}, full : BOOLEAN, ok : BOOLEAN])

NoVerdicts == [s \in Suites |-> [is |-> "none", of |-> None]]

MutationInit ==
    /\ session = None
    /\ sessions = 0
    /\ orphans = {}
    /\ strays = {}
    /\ report = [s \in Suites |-> None]
    /\ verdict = NoVerdicts
    /\ outcome = None

-----------------------------------------------------------------------------
Of(script) == {s \in Suites : Script[s] = script}

\* What the check of the configuration demands.
Configured(script, breaks) == \A s \in Of(script) : breaks[s] >= Baseline[s]

\* The suites a session takes and those it holds: a full .NET session takes and
\* holds all, a full StrykerJS session holds those whose baseline is measured and
\* may be given some packages only; one for a pull request holds none.
Planned(script, full, left, held) ==
    /\ left \subseteq Of(script)
    /\ held \subseteq left
    /\ script = "net" /\ full => held = Of(script)
    /\ ~full => held = {}

\* stryker.mjs ends at once on a problem of the configuration; strykerjs.mjs
\* goes on and will end in failure.
BeginSession(script, full) ==
    /\ session = None
    /\ sessions < MaxSessions
    /\ sessions' = sessions + 1
    /\ \E breaks \in [Suites -> 0 .. MaxScore], left, held \in SUBSET Suites :
          /\ Planned(script, full, left, held)
          /\ script = "net" => Configured(script, breaks)
          /\ session' = [script |-> script, full |-> full, breaks |-> breaks,
                         held |-> held, left |-> left, suite |-> None,
                         exit |-> None, before |-> work,
                         ok |-> Configured(script, breaks)]
    /\ strays' = orphans
    /\ verdict' = NoVerdicts
    /\ outcome' = None
    /\ UNCHANGED <<orphans, report>>

Between == session # None /\ session.suite = None
StrykerRuns == session # None /\ session.suite # None /\ session.exit = None
StrykerEnded == session # None /\ session.suite # None /\ session.exit # None

BeginSuiteMutant(s) ==
    /\ Between
    /\ s \in session.left
    /\ session' = [session EXCEPT !.suite = s, !.before = work]
    /\ UNCHANGED <<sessions, orphans, strays, report, verdict, outcome>>

\* Stryker.NET's output directory is removed before it runs; the report of
\* StrykerJS stays where it is.
BeginSuite(s) ==
    /\ Between
    /\ s \in session.left
    /\ session' = [session EXCEPT !.suite = s, !.before = work]
    /\ report' = IF Script[s] = "net" THEN [report EXCEPT ![s] = None] ELSE report
    /\ UNCHANGED <<sessions, orphans, strays, verdict, outcome>>

\* Stryker writes a report of suite s or none; StrykerJS mutates in place and may
\* leave the directory other than it was.
Writes(s, by) ==
    /\ \/ UNCHANGED report
       \/ \E tested \in BOOLEAN, score \in 0 .. MaxScore :
             report' = [report EXCEPT ![s] = [by |-> by, tested |-> tested, score |-> score]]
    /\ work' \in IF Script[s] = "js" THEN Trees ELSE {work}
    /\ UNCHANGED head

StrykerEnds ==
    /\ StrykerRuns
    /\ \E clean \in BOOLEAN : session' = [session EXCEPT !.exit = clean]
    /\ Writes(session.suite, sessions)
    /\ UNCHANGED <<sessions, orphans, strays, verdict, outcome>>

\* verdict: a report with tested mutants, a clean exit, the break if it is held.
Passes(s) ==
    /\ session.exit
    /\ report[s] # None
    /\ report[s].tested
    /\ s \in session.held => report[s].score >= session.breaks[s]
    /\ session.script = "js" => work = session.before

Judged(is, of) ==
    /\ verdict' = [verdict EXCEPT ![session.suite] = [is |-> is, of |-> of]]
    /\ session' = [session EXCEPT !.suite = None, !.exit = None,
                                  !.left = @ \ {session.suite},
                                  !.ok = @ /\ is # "failed"]
    /\ UNCHANGED <<sessions, orphans, strays, report, outcome>>

Judge ==
    /\ StrykerEnded
    /\ LET s == session.suite IN
         IF Passes(s) THEN Judged(IF s \in session.held THEN "held" ELSE "passed", report[s])
         ELSE Judged("failed", None)

\* StrykerJS says that it generated no mutants.
JudgeEmpty ==
    /\ StrykerEnded
    /\ session.script = "js"
    /\ work = session.before
    /\ Judged("skipped", None)

EndSession ==
    /\ Between
    /\ session.left = {}
    /\ outcome' = [script |-> session.script, full |-> session.full, ok |-> session.ok]
    /\ session' = None
    /\ UNCHANGED <<sessions, orphans, strays, report, verdict>>

\* The process is killed; orphaned: its Stryker goes on.
Kill(orphaned) ==
    /\ session # None
    /\ orphaned => StrykerRuns
    /\ orphans' = IF orphaned THEN orphans \cup {[suite |-> session.suite, by |-> sessions]}
                  ELSE orphans
    /\ session' = None
    /\ outcome' = None
    /\ UNCHANGED <<sessions, strays, report, verdict>>

OrphanEnds(o) ==
    /\ o \in orphans
    /\ orphans' = orphans \ {o}
    /\ Writes(o.suite, o.by)
    /\ UNCHANGED <<session, sessions, strays, verdict, outcome>>

SessionStep ==
    \/ (\E s \in Suites : BeginSuite(s)) /\ UNCHANGED checkout
    \/ (Judge \/ JudgeEmpty) /\ UNCHANGED checkout
    \/ StrykerEnds

-----------------------------------------------------------------------------
\* A full .NET session that passed has held every suite, and a suite that was
\* held by a session that passed rests on a report with tested mutants and a
\* score not below its baseline.  For a .NET suite this very session wrote that
\* report, unless a Stryker of an earlier session was still running for the suite
\* when this one began, and wrote it: no exit code, no lowered break and no report
\* that was there before lets a regression pass (the removal before each run, the
\* verdict and the check of the configuration).
HeldIsMeasured ==
    outcome # None /\ outcome.ok =>
        /\ outcome.full /\ outcome.script = "net" =>
              \A s \in Of("net") : verdict[s].is = "held"
        /\ outcome.full => \A s \in Suites :
              verdict[s].is = "held" =>
                  /\ verdict[s].of # None
                  /\ verdict[s].of.tested
                  /\ verdict[s].of.score >= Baseline[s]
                  /\ Script[s] = "net" =>
                        \/ verdict[s].of.by = sessions
                        \/ [suite |-> s, by |-> verdict[s].of.by] \in strays

=============================================================================
