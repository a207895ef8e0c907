--------------------------- MODULE MCScheduledLease ---------------------------
(* An instance of ScheduledLease for TLC. *)
EXTENDS ScheduledLease, TLC

CONSTANTS l1, l2, l3, p1, p2, p3

\* Two loops in one of two processes.
Shared == (l1 :> p1) @@ (l2 :> p1) @@ (l3 :> p2)

=============================================================================
