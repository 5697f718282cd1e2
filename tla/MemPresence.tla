----------------------------- MODULE MemPresence -----------------------------
(***************************************************************************)
(* One presence object: class MemPresence behind the query() and put() of  *)
(* class Presence.  Its callers are the read callbacks of the event loop,  *)
(* which run one at a time, so a whole call is one step.                   *)
(***************************************************************************)
EXTENDS PresenceStorage, FiniteSets

CONSTANTS
  NoAddr,    \* query() returned 0: nothing is sent back
  NoAnswer,  \* no query() since the clock last moved
  MaxClock   \* bound of the clock

ASSUME AnswerAssumption == NoAddr \notin Addr

VARIABLES
  storage,  \* MemPresence::storage
  clock,    \* system_clock
  answer    \* the reply buffer of the last query()

vars == <<storage, clock, answer>>

Init ==
  /\ storage = EmptyStorage
  /\ clock = 0
  /\ answer = NoAnswer

\* (mutant) the record is dated by its expiration
ItemByDeadline(a, lag) ==
  [modified |-> clock + DEF_EXPIRATION_SEC * TicksPerSec, addr |-> a]

\* PresenceItem(uid, addr): modified is the clock when the item is built
Item(a, lag) == [modified |-> clock - lag, addr |-> a]

(***************************************************************************)
(* put() of u at a, in a call that ends now: the item was built lag ticks  *)
(* ago and put() read the clock late ticks ago.                            *)
(***************************************************************************)
AfterCall(u, a) ==
  UNION {UNION {AfterPut(storage, u, Item(a, lag), clock - late) : late \in 0 .. lag}
           : lag \in 0 .. MaxLag}

\* query(), sixteen bytes: register the source, send back its own address
Ping(u, a) ==
  /\ storage' \in AfterCall(u, a)
  /\ answer' = [uid |-> u, addr |-> a]
  /\ UNCHANGED clock

\* query(), 32 bytes: register the source, then get() the destination
Lookup(u, d, a) ==
  /\ \E st \in AfterCall(u, a) :
       /\ storage' = AfterGet(st, d, clock)
       /\ answer' = [uid |-> d,
                     addr |-> IF Hit(st, d, clock) THEN st[d].addr ELSE NoAddr]
  /\ UNCHANGED clock

\* put() of a record received from outside
Learn(u, a) ==
  /\ storage' \in AfterCall(u, a)
  /\ answer' = NoAnswer
  /\ UNCHANGED clock

\* query() or put() of any other size returns at once
Ignore ==
  /\ answer' = NoAnswer
  /\ UNCHANGED <<storage, clock>>

Tick ==
  /\ clock < MaxClock
  /\ clock' = clock + 1
  /\ answer' = NoAnswer
  /\ UNCHANGED storage

Puts ==
  \/ \E u \in UID, a \in Addr : Ping(u, a) \/ Learn(u, a)
  \/ \E u, d \in UID, a \in Addr : Lookup(u, d, a)

Next == Puts \/ Ignore \/ Tick

Spec == Init /\ [][Next]_vars

-------------------------------------------------------------------------------
(***************************************************************************)
(* Type invariant: the storage maps UIDs to records none of which is dated *)
(* after the present.                                                      *)
(***************************************************************************)
TypeOK ==
  /\ Storage(storage)
  /\ clock \in Int
  /\ \A u \in DOMAIN storage : storage[u].modified <= clock
  /\ answer \in [uid : UID, addr : Addr \cup {NoAddr}] \cup {NoAnswer}

(***************************************************************************)
(* The callers of query() and put() see the ideal registry: although       *)
(* cleanExpired skips records and resumes after end(), no expired record   *)
(* is ever reported and no unexpired one is ever lost.                     *)
(***************************************************************************)
R == INSTANCE Registry WITH live <- Erase(storage, ExpiredKeys(storage, clock))

ImplementsRegistry == R!Spec

(***************************************************************************)
(* A sweep that skips the record behind every erased one still removes at  *)
(* least half of the expired records with every put(), those that expired  *)
(* during the call apart: the backlog of cleanExpired shrinks              *)
(* geometrically.                                                          *)
(***************************************************************************)
SweepHalves ==
  [][Puts => 2 * Cardinality(ExpiredKeys(storage', clock - MaxLag))
               <= Cardinality(ExpiredKeys(storage, clock))]_vars
===============================================================================
