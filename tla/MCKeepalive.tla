----------------------------- MODULE MCKeepalive -----------------------------
(***************************************************************************)
(* Model values and bounds for Keepalive.                                  *)
(***************************************************************************)
EXTENDS Keepalive

CONSTANTS a1, a2

OneClient == {1}
TwoClients == {1, 2}
TwoAddrs == {a1, a2}
===============================================================================
