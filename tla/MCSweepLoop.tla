----------------------------- MODULE MCSweepLoop -----------------------------
(***************************************************************************)
(* Model values and bounds for SweepLoop.                                  *)
(***************************************************************************)
EXTENDS SweepLoop

CONSTANT a1

\* four records: two erased and two skipped ones fit in a sweep
MCUID == 1 .. 4
MCAddr == {a1}
===============================================================================
