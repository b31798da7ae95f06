---------------------------- MODULE PagedResult ----------------------------
(***************************************************************************)
(* What the window is promised about the first page of a large result: it  *)
(* grows in order while the statement runs, and it is there in full when   *)
(* the run is reported as done.  A run may fail at any time.               *)
(***************************************************************************)
EXTENDS Naturals, SequencesExt

CONSTANT Pages

VARIABLES page, shown, reply

vars == <<page, shown, reply>>

Init == page \in Pages /\ shown = <<>> /\ reply = "none"

Grow ==
    /\ reply = "none"
    /\ \E n \in Len(shown) + 1 .. Len(page) : shown' = SubSeq(page, 1, n)
    /\ UNCHANGED <<page, reply>>

Done == reply = "none" /\ shown = page /\ reply' = "ok" /\ UNCHANGED <<page, shown>>

Fail == reply = "none" /\ reply' = "error" /\ UNCHANGED <<page, shown>>

Next == Grow \/ Done \/ Fail

Spec == Init /\ [][Next]_vars

=============================================================================
