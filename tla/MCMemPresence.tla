---------------------------- MODULE MCMemPresence ----------------------------
(***************************************************************************)
(* Model values and bounds for MemPresence.                                *)
(***************************************************************************)
EXTENDS MemPresence

CONSTANTS a1, a2

\* three records: the least number with an erased, a skipped and a last one
MCUID == 1 .. 3
MCAddr == {a1, a2}
===============================================================================
