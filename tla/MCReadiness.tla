----------------------------- MODULE MCReadiness -----------------------------
(* Readiness for waits below, at and between whole seconds. *)
EXTENDS Readiness

MCRequests == {0, 1, 2, 3, 7}
MCIntervals == {0, 1, 3}
=============================================================================
