------------------------------- MODULE Registry -------------------------------
(***************************************************************************)
(* What a presence object promises to the event handlers that call it.     *)
(* It is an ideal registry: it holds exactly the records that have not     *)
(* expired, and a record is gone in the very step in which the clock       *)
(* passes its expiration.  How and when the storage is swept cannot be     *)
(* told from its answers.  It has no storage to sweep and says by itself   *)
(* how long a record lives.                                                *)
(***************************************************************************)
EXTENDS PresenceStorage

CONSTANTS
  NoAddr,    \* nothing is sent back
  NoAnswer,  \* no query has been answered since the clock last moved
  MaxClock   \* bound of the clock

VARIABLES
  live,   \* the records that have not expired
  clock,  \* system_clock
  answer  \* the last answer of query()

vars == <<live, clock, answer>>

Init ==
  /\ live = EmptyStorage
  /\ clock = 0
  /\ answer = NoAnswer

\* u is registered at address a, by a record that is at most MaxLag ticks old
Register(u, a) ==
  \E lag \in 0 .. MaxLag :
    live' = Insert(live, u, [modified |-> clock - lag, addr |-> a])

Answer(u) ==
  answer' = [uid |-> u,
             addr |-> IF u \in DOMAIN live' THEN live'[u].addr ELSE NoAddr]

\* Register u and report the address it is seen at.
Ping(u, a) == Register(u, a) /\ Answer(u) /\ UNCHANGED clock

\* Register u and report where d is, if d is present.
Lookup(u, d, a) == Register(u, a) /\ Answer(d) /\ UNCHANGED clock

\* Register u, nothing is reported.
Learn(u, a) == Register(u, a) /\ answer' = NoAnswer /\ UNCHANGED clock

\* A request of another size is not answered.
Ignore == answer' = NoAnswer /\ UNCHANGED <<live, clock>>

\* A record lives until the second that follows its expiration is over.
Lifetime == TicksPerSec * (DEF_EXPIRATION_SEC + 1)

\* The clock moves, and what has lived that long is gone.
Tick ==
  /\ clock < MaxClock
  /\ clock' = clock + 1
  /\ live' = Erase(live, {k \in DOMAIN live : clock' - live[k].modified >= Lifetime})
  /\ answer' = NoAnswer

Next ==
  \/ \E u \in UID, a \in Addr : Ping(u, a) \/ Learn(u, a)
  \/ \E u, d \in UID, a \in Addr : Lookup(u, d, a)
  \/ Ignore
  \/ Tick

Spec == Init /\ [][Next]_vars
===============================================================================
