--------------------------- MODULE PresenceStorage ---------------------------
(***************************************************************************)
(* The data of a presence store and the pure part of its operations:       *)
(* class PresenceItemRec and the std::map that class MemPresence keeps     *)
(* (mem-presence.h, mem-presence.cpp).                                     *)
(*                                                                         *)
(* A storage is a function from the UIDs present to their records.  A UID  *)
(* is the rank of its sixteen bytes in the order of UID::operator<, which  *)
(* is the order in which the map is iterated.                              *)
(***************************************************************************)
EXTENDS Integers, Functions

CONSTANTS
  UID,                 \* the UIDs, as ranks in the memcmp order
  Addr,                \* socket addresses
  DEF_EXPIRATION_SEC,  \* the expiration in seconds (180 in the code)
  TicksPerSec,         \* clock ticks in a second: system_clock is finer than that
  MaxLag               \* ticks between the clock reads of one call, at most

ASSUME UIDAssumption == UID \subseteq Nat

ASSUME ExpirationAssumption ==
  /\ DEF_EXPIRATION_SEC \in Nat
  /\ TicksPerSec \in Nat \ {0}

(***************************************************************************)
(* One call reads system_clock in the constructor of PresenceItem, in      *)
(* MemPresence::put and, for a lookup, in MemPresence::get.  The clock     *)
(* does not jump over a whole expiration between these reads.              *)
(***************************************************************************)
ASSUME LagAssumption ==
  /\ MaxLag \in Nat
  /\ MaxLag < TicksPerSec * (DEF_EXPIRATION_SEC + 1)

Rec == [modified : Int, addr : Addr]

Storage(st) == DOMAIN st \subseteq UID /\ st \in [DOMAIN st -> Rec]

EmptyStorage == [u \in {} |-> 0]

ExpiredEarly(r, now) ==  \* (mutant) >= for >
  (now - r.modified) \div TicksPerSec >= DEF_EXPIRATION_SEC

\* duration_cast<seconds> drops the fraction of a second before the comparison.
Expired(r, now) == (now - r.modified) \div TicksPerSec > DEF_EXPIRATION_SEC

ExpiredKeys(st, now) == {k \in DOMAIN st : Expired(st[k], now)}

InsertKeepsAddr(st, u, r) ==  \* (mutant) a known UID only gets a new date
  [k \in DOMAIN st \cup {u} |->
     IF k # u THEN st[k]
     ELSE IF u \in DOMAIN st THEN [st[u] EXCEPT !.modified = r.modified] ELSE r]

\* storage[u] = r
Insert(st, u, r) == [k \in DOMAIN st \cup {u} |-> IF k = u THEN r ELSE st[k]]

\* storage.erase of every key in E
Erase(st, E) == Restrict(st, DOMAIN st \ E)

(***************************************************************************)
(* MemPresence::get.  A record found but expired is erased and not         *)
(* returned.                                                               *)
(***************************************************************************)
HitAnyAge(st, u, now) == u \in DOMAIN st  \* (mutant) the age is not looked at

Hit(st, u, now) == u \in DOMAIN st /\ ~Expired(st[u], now)

AfterGet(st, u, now) == IF Hit(st, u, now) THEN st ELSE Erase(st, {u})

(***************************************************************************)
(* MemPresence::cleanExpired.  The loop advances its iterator after every  *)
(* turn, and also after erase() has already moved it to the next record:   *)
(* the record behind an erased one is not examined.  So the first pass     *)
(* erases an expired key exactly when it has not erased the key before it. *)
(***************************************************************************)
IsPred(K, j, k) == j \in K /\ j < k /\ \A m \in K : ~(j < m /\ m < k)

IsFirstPass(st, X, E) == E = {k \in X : \A j \in E : ~IsPred(DOMAIN st, j, k)}

(***************************************************************************)
(* When the last record is erased the loop increments end(), which is      *)
(* undefined: the tree iterators of libstdc++ and of MSVC go back to one   *)
(* of the last records, and the loop may then erase some of the expired    *)
(* records that it skipped.                                                *)
(***************************************************************************)
IncrementsEnd(st, E) == \E k \in E : \A j \in DOMAIN st : j <= k

ErasuresOff(st, now) == {{}}  \* (mutant) put() does not sweep

Erasures(st, now) ==
  LET X == ExpiredKeys(st, now)
  IN  {G \in SUBSET X : \E E \in SUBSET G :
         /\ IsFirstPass(st, X, E)
         /\ G = E \/ IncrementsEnd(st, E)}

CleanExpired(st, now) == {Erase(st, E) : E \in Erasures(st, now)}

\* MemPresence::put: the storages it may leave
AfterPut(st, u, r, now) == CleanExpired(Insert(st, u, r), now)
===============================================================================
