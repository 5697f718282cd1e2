----------------------------- MODULE MCListener ------------------------------
(***************************************************************************)
(* Model values and bounds for Listener.                                   *)
(***************************************************************************)
EXTENDS Listener

CONSTANTS c1, p1

MCUID == {1, 2}
MCConn == {c1}
MCPeer == {p1}
MCAddr == MCConn \cup MCPeer \cup {Unset}

MCOwner == [a \in MCAddr |-> IF a = c1 THEN 1 ELSE IF a = p1 THEN 2 ELSE 0]
===============================================================================
