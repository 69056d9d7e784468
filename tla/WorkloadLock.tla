----------------------------- MODULE WorkloadLock -----------------------------
(***************************************************************************)
(* .github/workloads/host-workload-lock.py: one lock for the heavy         *)
(* workloads of a machine, of every repository.  A wrapper waits for it    *)
(* until its deadline and becomes the command, which keeps the lock with   *)
(* every process that has the descriptor from it: not every process of the *)
(* command tree, since a program may close on exec what it inherited, as   *)
(* Node does.  The POSIX behaviour.                                        *)
(***************************************************************************)
CONSTANT Jobs       \* the workloads of the machine's runners

VARIABLES
    job,        \* whether a workload waits for the lock or runs
    children    \* the workloads that left processes with the descriptor behind

lock == <<job, children>>

LockTypeOK ==
    /\ job \in [Jobs -> {"absent", "waiting", "running"}]
    /\ children \subseteq Jobs

LockInit == job = [j \in Jobs |-> "absent"] /\ children = {}

\* An inherited descriptor is the lock as much as the first one.
Holds(j) == job[j] = "running" \/ j \in children

FreeMutant == \A j \in Jobs : job[j] # "running"

Free == \A j \in Jobs : ~Holds(j)

Arrive(j) ==
    /\ job[j] = "absent"
    /\ job' = [job EXCEPT ![j] = "waiting"]
    /\ UNCHANGED children

Acquire(j) ==
    /\ job[j] = "waiting"
    /\ Free
    /\ job' = [job EXCEPT ![j] = "running"]
    /\ UNCHANGED children

\* The deadline is looked at after an attempt that failed.
TimeOut(j) ==
    /\ job[j] = "waiting"
    /\ ~Free
    /\ job' = [job EXCEPT ![j] = "absent"]
    /\ UNCHANGED children

\* The command ends, or is killed; what it started may go on, and what of that
\* has the descriptor keeps the lock (behind).
Leave(j, behind) ==
    /\ job[j] = "running"
    /\ job' = [job EXCEPT ![j] = "absent"]
    /\ children' = IF behind THEN children \cup {j} ELSE children

ChildrenEnd(j) ==
    /\ children' = children \ {j}
    /\ j \in children
    /\ UNCHANGED job

LockStep(j) ==
    \/ Arrive(j) \/ Acquire(j) \/ TimeOut(j) \/ ChildrenEnd(j)
    \/ \E behind \in BOOLEAN : Leave(j, behind)

=============================================================================
