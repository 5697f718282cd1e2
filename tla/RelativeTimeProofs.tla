--------------------------- MODULE RelativeTimeProofs ---------------------------
(***************************************************************************)
(* Keepalive dates its records by their age, which stops growing once they *)
(* have expired; the store dates them by a clock that only moves forward.  *)
(* Both hold the same: nothing that put() or get() does tells them apart,  *)
(* however long the processes run.                                         *)
(***************************************************************************)
EXTENDS Keepalive, StorageLemmas

\* rel holds at age 0 what st holds when the clock shows now.
Agrees(st, now, rel) ==
  /\ DOMAIN rel = DOMAIN st
  /\ \A u \in DOMAIN st :
       /\ rel[u].addr = st[u].addr
       /\ Expired(rel[u], 0) <=> Expired(st[u], now)
       /\ ~Expired(st[u], now) => rel[u].modified = st[u].modified - now

\* PresenceItem(uid, addr), built when the clock shows now
Dated(a, now) == [modified |-> now, addr |-> a]

(***************************************************************************)
(* What a sweep may erase depends on the keys and on which have expired.   *)
(***************************************************************************)
LEMMA SameErasures ==
  ASSUME NEW st, NEW now, NEW rel, Agrees(st, now, rel)
  PROVE  Erasures(rel, 0) = Erasures(st, now)
<1>1. DOMAIN rel = DOMAIN st
  BY DEF Agrees
<1>2. ExpiredKeys(rel, 0) = ExpiredKeys(st, now)
  BY DEF Agrees, ExpiredKeys
<1>3. \A X, E : IsFirstPass(rel, X, E) <=> IsFirstPass(st, X, E)
  BY <1>1 DEF IsFirstPass
<1>4. \A E : IncrementsEnd(rel, E) <=> IncrementsEnd(st, E)
  BY <1>1 DEF IncrementsEnd
<1>. QED
  BY <1>2, <1>3, <1>4 DEF Erasures

LEMMA EraseAgrees ==
  ASSUME NEW st, NEW now, NEW rel, Agrees(st, now, rel), NEW E
  PROVE  Agrees(Erase(st, E), now, Erase(rel, E))
BY DEF Agrees, Erase, Restrict

LEMMA InsertAgrees ==
  ASSUME NEW st, NEW now \in Int, NEW rel, Agrees(st, now, rel), NEW u, NEW a
  PROVE  Agrees(Insert(st, u, Dated(a, now)), now, Insert(rel, u, Fresh(a)))
<1>. DEFINE s == Insert(st, u, Dated(a, now))
            r == Insert(rel, u, Fresh(a))
<1>1. /\ DOMAIN s = DOMAIN st \cup {u} /\ DOMAIN r = DOMAIN st \cup {u}
      /\ s[u] = Dated(a, now) /\ r[u] = Fresh(a)
      /\ \A k \in DOMAIN st \ {u} : s[k] = st[k] /\ r[k] = rel[k]
  BY DEF Insert, Agrees
<1>. HIDE DEF s, r
<1>2. /\ Dated(a, now).addr = a /\ Dated(a, now).modified = now
      /\ Fresh(a).addr = a /\ Fresh(a).modified = 0
  BY DEF Dated, Fresh
<1>3. now - now = 0 /\ 0 - 0 = 0
  OBVIOUS
<1>4. Expired(Fresh(a), 0) <=> Expired(Dated(a, now), now)
  BY <1>2, <1>3 DEF Expired
<1>5. Agrees(s, now, r)
  BY <1>1, <1>2, <1>3, <1>4 DEF Agrees
<1>. QED
  BY <1>5 DEF s, r

(***************************************************************************)
(* put() leaves one of the same storages, by the clock and by age.         *)
(***************************************************************************)
THEOREM PutByAge ==
  ASSUME NEW st, NEW now \in Int, NEW rel, Agrees(st, now, rel), NEW u, NEW a
  PROVE  /\ \A s \in AfterPut(st, u, Dated(a, now), now) :
              \E r \in AfterPut(rel, u, Fresh(a), 0) : Agrees(s, now, r)
         /\ \A r \in AfterPut(rel, u, Fresh(a), 0) :
              \E s \in AfterPut(st, u, Dated(a, now), now) : Agrees(s, now, r)
<1>. DEFINE in == Insert(st, u, Dated(a, now))
            by == Insert(rel, u, Fresh(a))
<1>1. Agrees(in, now, by)
  BY InsertAgrees
<1>. HIDE DEF in, by
<1>2. Erasures(by, 0) = Erasures(in, now)
  BY <1>1, SameErasures
<1>3. \A E : Agrees(Erase(in, E), now, Erase(by, E))
  BY <1>1, EraseAgrees
<1>4. /\ \A s \in CleanExpired(in, now) : \E r \in CleanExpired(by, 0) : Agrees(s, now, r)
      /\ \A r \in CleanExpired(by, 0) : \E s \in CleanExpired(in, now) : Agrees(s, now, r)
  BY <1>2, <1>3 DEF CleanExpired
<1>. QED
  BY <1>4 DEF AfterPut, in, by

(***************************************************************************)
(* get() finds the same records, at the same addresses, and leaves the     *)
(* same storages.                                                          *)
(***************************************************************************)
THEOREM GetByAge ==
  ASSUME NEW st, NEW now, NEW rel, Agrees(st, now, rel), NEW u
  PROVE  /\ Hit(rel, u, 0) <=> Hit(st, u, now)
         /\ Hit(st, u, now) => rel[u].addr = st[u].addr
         /\ Agrees(AfterGet(st, u, now), now, AfterGet(rel, u, 0))
<1>1. /\ Hit(rel, u, 0) <=> Hit(st, u, now)
      /\ Hit(st, u, now) => rel[u].addr = st[u].addr
  BY DEF Agrees, Hit
<1>2. CASE Hit(st, u, now)
  BY <1>1, <1>2 DEF AfterGet
<1>3. CASE ~Hit(st, u, now)
  BY <1>1, <1>3, EraseAgrees DEF AfterGet
<1>. QED
  BY <1>1, <1>2, <1>3

(***************************************************************************)
(* When the clock moves every record gets older by as much, but those that *)
(* have expired, which stay expired.                                       *)
(***************************************************************************)
THEOREM TickByAge ==
  ASSUME NEW st, Storage(st), NEW now \in Int, NEW rel, Storage(rel), Agrees(st, now, rel)
  PROVE  Agrees(st, now + 1, Aged(rel))
<1>1. DOMAIN rel = DOMAIN st /\ DOMAIN Aged(rel) = DOMAIN st
  BY DEF Agrees, Aged
<1>2. ASSUME NEW u \in DOMAIN st
      PROVE  /\ Aged(rel)[u].addr = st[u].addr
             /\ Expired(Aged(rel)[u], 0) <=> Expired(st[u], now + 1)
             /\ ~Expired(st[u], now + 1) => Aged(rel)[u].modified = st[u].modified - (now + 1)
  <2>1. /\ rel[u].addr = st[u].addr
        /\ Expired(rel[u], 0) <=> Expired(st[u], now)
        /\ ~Expired(st[u], now) => rel[u].modified = st[u].modified - now
    BY DEF Agrees
  <2>2. st[u] \in Rec /\ rel[u] \in Rec /\ st[u].modified \in Int
    BY <1>1 DEF Storage, Rec
  <2>3. CASE Expired(st[u], now)
    <3>1. Aged(rel)[u] = rel[u]
      BY <1>1, <2>1, <2>3 DEF Aged
    <3>2. Expired(st[u], now + 1)
      BY <2>2, <2>3, ExpiredStays
    <3>. QED
      BY <2>1, <2>3, <3>1, <3>2
  <2>4. CASE ~Expired(st[u], now)
    <3>1. Aged(rel)[u] = [rel[u] EXCEPT !.modified = @ - 1]
      BY <1>1, <2>1, <2>4 DEF Aged
    <3>2. /\ Aged(rel)[u].addr = rel[u].addr
          /\ Aged(rel)[u].modified = rel[u].modified - 1
      BY <2>2, <3>1 DEF Rec
    <3>3. Aged(rel)[u].modified = st[u].modified - (now + 1)
      BY <2>1, <2>2, <2>4, <3>2
    <3>4. 0 - Aged(rel)[u].modified = (now + 1) - st[u].modified
      BY <2>2, <3>3
    <3>. QED
      BY <2>1, <3>2, <3>3, <3>4 DEF Expired
  <2>. QED
    BY <2>3, <2>4
<1>. QED
  BY <1>1, <1>2 DEF Agrees
===============================================================================
