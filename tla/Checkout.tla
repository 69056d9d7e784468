------------------------------- MODULE Checkout -------------------------------
(***************************************************************************)
(* The git checkout the engineering scripts run in: the commit HEAD names, *)
(* with its tree, and the tree of the working directory, which is what     *)
(* every step of a script reads.  Commits are numbered in the order they   *)
(* are made; two commits may have one tree.                                *)
(***************************************************************************)
EXTENDS Naturals, Optional

CONSTANTS
    Trees,          \* the contents of the tracked and untracked files
    MaxCommits      \* bound

ASSUME TreesAssumption == None \notin Trees

VARIABLES head, work

checkout == <<head, work>>

Commit == [commit : Nat, tree : Trees]

CheckoutTypeOK == head \in Commit /\ work \in Trees

CheckoutInit == head \in [commit : {0}, tree : Trees] /\ work = head.tree

\* git status --porcelain prints nothing.
Clean == work = head.tree

Edit == work' \in Trees \ {work} /\ UNCHANGED head

\* Commit what the working directory holds, or write the last message anew.
MakeCommit ==
    /\ head.commit < MaxCommits
    /\ head' = [commit |-> head.commit + 1, tree |-> work]
    /\ UNCHANGED work

CheckoutStep == Edit \/ MakeCommit

=============================================================================
