------------------------------ MODULE HostTooling ------------------------------
(***************************************************************************)
(* The engineering scripts on the checkouts they run in.  A bench is one   *)
(* checkout and what is done there: the feeds are filled; the repository   *)
(* is verified, with the feeds as their scripts left them; packages are    *)
(* proved and promoted; sessions mutate the suites; or the machine is      *)
(* reserved for the full .NET session, which runs under the lock of all    *)
(* repositories.  workload-route.mjs sends a session to one of the last    *)
(* two.  The developer edits and commits wherever scripts read the         *)
(* checkout, but on the reserved machine.  The last bench is on GitHub:    *)
(* what was committed is a pull request that the review gate judges.       *)
(***************************************************************************)
EXTENDS VerificationRun, PackageProof, LocalFeed, WorkloadLock, MutationRun,
        ReviewGate

CONSTANTS
    Restoring,      \* the steps that restore what the Blazor feed carries
    Ours            \* the workload of this repository

ASSUME OursAssumption == Ours \in Jobs

VARIABLE bench

Benches == {"feeds", "verify", "package", "mutate", "reserved", "review"}

all == <<checkout, verification, proofs, feeds, lock, mutation, review, bench>>

Init ==
    /\ bench \in Benches
    /\ CheckoutInit
    /\ VerificationInit
    /\ PackageInit
    /\ \/ FeedInit
       \/ bench = "verify" /\ (FeedBuilt \/ FeedInterrupted)
    /\ LockInit
    /\ MutationInit
    /\ \/ ReviewInit(Main)
       \/ bench = "review" /\ \E b \in Branches : ReviewInit(b)

-----------------------------------------------------------------------------
FeedsBench ==
    /\ bench = "feeds"
    /\ (BeginBlazorFeed \/ BeginReactFeed \/ FeedStep)
    /\ UNCHANGED <<checkout, verification, proofs, lock, mutation, review, bench>>

\* The run begins when both feed directories are there; a step that restores from
\* the Blazor feed cannot pass without the version of its packages.
Verify ==
    /\ (StartRun(made = Lanes) \/ VerificationStep)
    /\ \A step \in Restoring :
          AtStep(step) /\ run'.at > run.at => props # None

VerifyBench ==
    /\ bench = "verify"
    /\ \/ Verify /\ UNCHANGED checkout
       \/ Disturb
    /\ UNCHANGED <<proofs, feeds, lock, mutation, review, bench>>

PackageBench ==
    /\ bench = "package"
    /\ \/ (Pack \/ PackageStep) /\ UNCHANGED checkout
       \/ CheckoutStep /\ UNCHANGED proofs
    /\ UNCHANGED <<verification, feeds, lock, mutation, review, bench>>

\* Review feedback, and the sessions of StrykerJS, need no reservation.
MutateBench ==
    /\ bench = "mutate"
    /\ \/ /\ \/ BeginSession("net", FALSE)
             \/ \E full \in BOOLEAN : BeginSession("js", full)
             \/ EndSession
             \/ \E orphaned \in BOOLEAN : Kill(orphaned)
          /\ UNCHANGED checkout
       \/ SessionStep
       \/ \E o \in orphans : OrphanEnds(o)
       \/ CheckoutStep /\ UNCHANGED mutation
    /\ UNCHANGED <<verification, proofs, feeds, lock, review, bench>>

-----------------------------------------------------------------------------
(***************************************************************************)
(* The reserved machine.  The wrapper becomes the shell that runs          *)
(* full-mutation.sh, and the shell starts the session.  The session is a   *)
(* Node process: it has the shell's descriptor and keeps the lock when the *)
(* shell alone is killed, but it closes the descriptor for what it starts, *)
(* so a Stryker it leaves behind goes on without the lock.                 *)
(***************************************************************************)

BeginReserved ==
    /\ job[Ours] = "running"
    /\ BeginSession("net", TRUE)
    /\ UNCHANGED <<lock, checkout>>

\* The session ends in order or is killed.
SessionOver == EndSession \/ \E orphaned \in BOOLEAN : Kill(orphaned)

\* The shell ends with the session, or is killed beside it, or before there is
\* one, with or without what it runs then; killed alone, it leaves the session.
LeaveReserved ==
    /\ \/ Leave(Ours, FALSE) /\ SessionOver
       \/ session # None /\ Leave(Ours, TRUE) /\ UNCHANGED mutation
       \/ session = None /\ (\E behind \in BOOLEAN : Leave(Ours, behind)) /\ UNCHANGED mutation
    /\ UNCHANGED checkout

\* What the shell left behind ends.
LeftEnds ==
    /\ ChildrenEnd(Ours)
    /\ SessionOver \/ (session = None /\ UNCHANGED mutation)
    /\ UNCHANGED checkout

Waits(j) == Arrive(j) \/ Acquire(j) \/ TimeOut(j)

ReservedBench ==
    /\ bench = "reserved"
    /\ \/ BeginReserved \/ LeaveReserved \/ LeftEnds
       \/ SessionStep /\ UNCHANGED lock
       \/ \E o \in orphans : OrphanEnds(o) /\ UNCHANGED lock
       \/ Waits(Ours) /\ UNCHANGED <<mutation, checkout>>
       \/ \E j \in Jobs \ {Ours} : LockStep(j) /\ UNCHANGED <<mutation, checkout>>
    /\ UNCHANGED <<verification, proofs, feeds, review, bench>>

-----------------------------------------------------------------------------
ReviewBench ==
    /\ bench = "review"
    /\ ReviewStep
    /\ UNCHANGED <<checkout, verification, proofs, feeds, lock, mutation, bench>>

-----------------------------------------------------------------------------
Next == FeedsBench \/ VerifyBench \/ PackageBench \/ MutateBench \/ ReservedBench
        \/ ReviewBench

Spec == Init /\ [][Next]_all

TypeOK ==
    /\ bench \in Benches
    /\ CheckoutTypeOK
    /\ VerificationTypeOK
    /\ PackageTypeOK
    /\ FeedTypeOK
    /\ LockTypeOK
    /\ MutationTypeOK
    /\ ReviewTypeOK

-----------------------------------------------------------------------------
\* While the full session runs, no other workload of the machine has the lock,
\* also when the shell the session was started from is gone (the descriptor
\* that is made inheritable before the wrapper becomes the command).
SessionIsReserved ==
    bench = "reserved" /\ session # None => \A j \in Jobs \ {Ours} : ~Holds(j)

=============================================================================
