------------------------------ MODULE MCLifecycle ------------------------------
(***************************************************************************)
(* Two processes at a time, started again as they end.                     *)
(***************************************************************************)
EXTENDS Lifecycle
===============================================================================
