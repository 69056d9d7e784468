------------------------------- MODULE Optional -------------------------------
(* What may be absent: a missing file, undefined, null or Python's None. *)
CONSTANT None

Maybe(S) == {None} \cup S

=============================================================================
