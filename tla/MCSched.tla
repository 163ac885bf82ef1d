------------------------------- MODULE MCSched -------------------------------
(***************************************************************************)
(* The scheduler alone, as the cfgs for safety, for liveness and for the   *)
(* findings have it.                                                       *)
(***************************************************************************)
EXTENDS Sched

\* A deadline that set_deadline_for_process() rejects and two it accepts.
GoodAndBadDeadlines == {-1, 5, 7}
=============================================================================
