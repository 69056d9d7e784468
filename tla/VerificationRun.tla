--------------------------- MODULE VerificationRun ---------------------------
(***************************************************************************)
(* eng/verify.sh runs its steps one after the other on the working         *)
(* directory and, when all have passed, has eng/verify-receipt.mjs record  *)
(* a receipt for HEAD.  Later the same script, without --record, accepts   *)
(* or refuses the receipt for what HEAD is then.  The checkout may change  *)
(* between any two of these.                                               *)
(*                                                                         *)
(* A definition whose name ends in Mutant is a plausible slip in the one   *)
(* after it; no action uses one.                                           *)
(***************************************************************************)
EXTENDS Checkout, Sequences

CONSTANTS
    Order,          \* the steps of verify.sh in their order
    Required,       \* requiredStepIds
    Coverage        \* the step that only a run with coverage has

Steps == {Order[i] : i \in DOMAIN Order}

ASSUME OrderAssumption == Order \in Seq(Steps) /\ None \notin Steps

VARIABLES
    run,        \* the run of verify.sh
    receipt,    \* the recorded receipt, or None
    check,      \* what a check of the receipt has read of HEAD, or None
    accepted    \* the receipt that was last accepted, or None

verification == <<run, receipt, check, accepted>>

\* seen and calm are history: the trees the steps have read, and whether nothing
\* was edited since the run began, and nothing committed since it asked for HEAD.
Run == [state : {"idle", "steps", "recording"}, at : Nat, coverage : BOOLEAN,
        passed : SUBSET Steps, named : Maybe(Commit), seen : SUBSET Trees,
        calm : BOOLEAN]

Receipt == [of : Commit, steps : SUBSET Steps, coverage : BOOLEAN,
            seen : SUBSET Trees, calm : BOOLEAN]

VerificationTypeOK ==
    /\ run \in Run
    /\ receipt \in Maybe(Receipt)
    /\ check \in Maybe([of : Commit, coverage : BOOLEAN])
    /\ accepted \in Maybe(Receipt)

NoRun == [state |-> "idle", at |-> 1, coverage |-> FALSE, passed |-> {},
          named |-> None, seen |-> {}, calm |-> TRUE]

VerificationInit ==
    /\ run = NoRun
    /\ receipt = None
    /\ check = None
    /\ accepted = None

-----------------------------------------------------------------------------
\* feeds: the two feed directories exist.
StartRun(feeds) ==
    /\ run.state = "idle"
    /\ feeds
    /\ \E coverage \in BOOLEAN :
          run' = [NoRun EXCEPT !.state = "steps", !.coverage = coverage]
    /\ UNCHANGED <<receipt, check, accepted>>

Skipped(step) == step = Coverage /\ ~run.coverage

AtStep(step) ==
    /\ run.state = "steps"
    /\ run.at <= Len(Order)
    /\ step = Order[run.at]

\* A step that passes read the working directory; without coverage its step is
\* not there.
PassStep ==
    /\ \E step \in Steps :
          /\ AtStep(step)
          /\ run' = IF Skipped(step) THEN [run EXCEPT !.at = @ + 1]
                    ELSE [run EXCEPT !.at = @ + 1, !.passed = @ \cup {step},
                                     !.seen = @ \cup {work}]
    /\ UNCHANGED <<receipt, check, accepted>>

\* The first step that fails ends the run; no receipt is written.
FailStep ==
    /\ \E step \in Steps : AtStep(step) /\ ~Skipped(step)
    /\ run' = NoRun
    /\ UNCHANGED <<receipt, check, accepted>>

\* The recording begins by asking git what HEAD is.
NameHead ==
    /\ run.state = "steps"
    /\ run.at > Len(Order)
    /\ run' = [run EXCEPT !.state = "recording", !.named = head]
    /\ UNCHANGED <<receipt, check, accepted>>

Needed(coverage) == {step \in Required : coverage \/ step # Coverage}

Recordable == run.state = "recording" /\ Needed(run.coverage) \subseteq run.passed

RecordMutant ==
    /\ Recordable
    /\ receipt' = [of |-> run.named, steps |-> run.passed, coverage |-> run.coverage,
                   seen |-> run.seen, calm |-> run.calm]
    /\ run' = NoRun
    /\ UNCHANGED <<check, accepted>>

\* On a clean working directory the receipt is written.
Record ==
    /\ Recordable
    /\ Clean
    /\ receipt' = [of |-> run.named, steps |-> run.passed, coverage |-> run.coverage,
                   seen |-> run.seen, calm |-> run.calm]
    /\ run' = NoRun
    /\ UNCHANGED <<check, accepted>>

\* A dirty directory, a missing step or an unusable coverage summary: the last
\* receipt stays.
RefuseRecord ==
    /\ run.state = "recording"
    /\ Recordable /\ Clean => run.coverage
    /\ run' = NoRun
    /\ UNCHANGED <<receipt, check, accepted>>

-----------------------------------------------------------------------------
\* A check asks git what HEAD is before it reads the receipt.
BeginCheck ==
    /\ check = None
    /\ \E coverage \in BOOLEAN : check' = [of |-> head, coverage |-> coverage]
    /\ UNCHANGED <<run, receipt, accepted>>

Attests(r, c) ==
    /\ r.of = c.of
    /\ Needed(c.coverage) \subseteq r.steps
    /\ c.coverage => r.coverage

EndCheck ==
    /\ check # None
    /\ accepted' = IF receipt # None /\ Attests(receipt, check) THEN receipt ELSE None
    /\ check' = None
    /\ UNCHANGED <<run, receipt>>

\* The checkout changes under whatever is running.
Disturb ==
    /\ CheckoutStep
    /\ run' = [run EXCEPT !.calm =
                 run.state = "idle" \/ (@ /\ run.state = "steps" /\ work' = work)]
    /\ UNCHANGED <<receipt, check, accepted>>

VerificationStep ==
    \/ PassStep \/ FailStep \/ NameHead \/ Record \/ RefuseRecord
    \/ BeginCheck \/ EndCheck

-----------------------------------------------------------------------------
\* The receipt that is accepted names a commit whose tree is what every step of
\* its run read, with every step that is required among them, unless files were
\* edited during the run, or committed while it was being recorded: neither what
\* was never committed, nor a commit made, amended or reset before, during or
\* after the steps, nor a failed or refused run makes a receipt vouch for code
\* its run did not see (the refusal of a dirty directory, and what a check
\* compares).
ReceiptIsHonest ==
    accepted # None =>
        /\ {step \in Required : step # Coverage} \subseteq accepted.steps
        /\ accepted.calm => accepted.seen \subseteq {accepted.of.tree}

=============================================================================
