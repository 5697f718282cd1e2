----------------------------- MODULE StorageLemmas -----------------------------
(***************************************************************************)
(* Facts about the operators of PresenceStorage, for every value of its    *)
(* constants.  The proofs about the state machines cite them by name.      *)
(***************************************************************************)
EXTENDS PresenceStorage, FiniteSetTheorems, TLAPS

(***************************************************************************)
(* A quotient exceeds e only when the dividend reaches e + 1 divisors.     *)
(***************************************************************************)
LEMMA QuotientBelow ==
  ASSUME NEW a \in Int, NEW t \in Nat \ {0}, NEW e \in Nat, a < t * (e + 1)
  PROVE  ~(a \div t > e)
<1>. SUFFICES ASSUME a \div t > e PROVE FALSE
  OBVIOUS
<1>. DEFINE q == a \div t
<1>1. q \in Int
  BY SMT
<1>2. t * q <= a
  BY SMT
<1>3. q >= e + 1
  BY <1>1
<1>4. t * q >= t * (e + 1)
  BY <1>1, <1>3, SMT
<1>. QED
  BY <1>1, <1>2, <1>4, SMT

LEMMA QuotientAbove ==
  ASSUME NEW a \in Int, NEW t \in Nat \ {0}, NEW e \in Nat, a >= t * (e + 1)
  PROVE  a \div t > e
BY SMT

\* How many ticks a record lives, however they are counted as seconds.
LEMMA ExpiredByTicks ==
  ASSUME NEW r \in Rec, NEW now \in Int
  PROVE  Expired(r, now) <=> now - r.modified >= TicksPerSec * (DEF_EXPIRATION_SEC + 1)
<1>1. r.modified \in Int
  BY DEF Rec
<1>. DEFINE a == now - r.modified
<1>2. a \in Int
  BY <1>1
<1>3. CASE a >= TicksPerSec * (DEF_EXPIRATION_SEC + 1)
  BY <1>2, <1>3, QuotientAbove, ExpirationAssumption DEF Expired
<1>4. CASE ~(a >= TicksPerSec * (DEF_EXPIRATION_SEC + 1))
  <2>1. a < TicksPerSec * (DEF_EXPIRATION_SEC + 1)
    BY <1>2, <1>4, ExpirationAssumption, SMT
  <2>2. ~Expired(r, now)
    BY <1>2, <2>1, QuotientBelow, ExpirationAssumption DEF Expired
  <2>. QED
    BY <1>4, <2>2
<1>. QED
  BY <1>3, <1>4

(***************************************************************************)
(* A record built by the call that stores it has not expired, whatever the *)
(* delay of the call: this is what LagAssumption is for.                   *)
(***************************************************************************)
LEMMA NewRecordIsFresh ==
  ASSUME NEW now \in Int, NEW lag \in 0 .. MaxLag, NEW a
  PROVE  ~Expired([modified |-> now - lag, addr |-> a], now)
<1>1. lag \in Int /\ lag < TicksPerSec * (DEF_EXPIRATION_SEC + 1)
  BY LagAssumption, ExpirationAssumption, SMT
<1>2. now - (now - lag) = lag
  BY <1>1
<1>3. ~(lag \div TicksPerSec > DEF_EXPIRATION_SEC)
  BY <1>1, QuotientBelow, ExpirationAssumption
<1>. QED
  BY <1>2, <1>3 DEF Expired

(***************************************************************************)
(* Expiration is for good as long as the clock does not go back.           *)
(***************************************************************************)
LEMMA ExpiredStays ==
  ASSUME NEW r \in Rec, NEW s \in Int, NEW t \in Int, s <= t, Expired(r, s)
  PROVE  Expired(r, t)
<1>1. r.modified \in Int
  BY DEF Rec
<1>. DEFINE a == s - r.modified
            b == t - r.modified
<1>2. a \in Int /\ b \in Int /\ a <= b
  BY <1>1
<1>3. a >= TicksPerSec * (DEF_EXPIRATION_SEC + 1)
  BY ExpiredByTicks
<1>4. b >= TicksPerSec * (DEF_EXPIRATION_SEC + 1)
  BY <1>2, <1>3, ExpirationAssumption, SMT
<1>. QED
  BY <1>4, ExpiredByTicks

(***************************************************************************)
(* Insert and Erase keep a storage well formed.                            *)
(***************************************************************************)
LEMMA InsertType ==
  ASSUME NEW st, Storage(st), NEW u \in UID, NEW r \in Rec
  PROVE  Storage(Insert(st, u, r))
BY DEF Storage, Insert

LEMMA EraseType ==
  ASSUME NEW st, Storage(st), NEW E
  PROVE  Storage(Erase(st, E))
BY DEF Storage, Erase, Restrict

(***************************************************************************)
(* What cleanExpired leaves: expired records are removed, nothing else.    *)
(***************************************************************************)
LEMMA CleanErasesExpired ==
  ASSUME NEW st, NEW now, NEW left \in CleanExpired(st, now)
  PROVE  \E G \in SUBSET ExpiredKeys(st, now) : left = Erase(st, G)
BY DEF CleanExpired, Erasures

(***************************************************************************)
(* The live part of a storage is the same before and after a sweep, also   *)
(* when the sweep read the clock a while ago.                              *)
(***************************************************************************)
LEMMA CleanKeepsLive ==
  ASSUME NEW st, Storage(st), NEW s \in Int, NEW t \in Int, s <= t,
         NEW left \in CleanExpired(st, s)
  PROVE  Erase(left, ExpiredKeys(left, t)) = Erase(st, ExpiredKeys(st, t))
<1>1. PICK G \in SUBSET ExpiredKeys(st, s) : left = Erase(st, G)
  BY CleanErasesExpired
<1>2. DOMAIN left = DOMAIN st \ G /\ \A k \in DOMAIN left : left[k] = st[k]
  BY <1>1 DEF Erase, Restrict
<1>3. \A k \in G : k \in DOMAIN st /\ Expired(st[k], t)
  <2>. SUFFICES ASSUME NEW k \in G PROVE k \in DOMAIN st /\ Expired(st[k], t)
    OBVIOUS
  <2>1. k \in DOMAIN st /\ Expired(st[k], s) /\ st[k] \in Rec
    BY DEF ExpiredKeys, Storage
  <2>. QED
    BY <2>1, ExpiredStays
<1>4. DOMAIN left \ ExpiredKeys(left, t) = DOMAIN st \ ExpiredKeys(st, t)
  BY <1>2, <1>3 DEF ExpiredKeys
<1>. QED
  BY <1>2, <1>4 DEF Erase, Restrict

(***************************************************************************)
(* A sweep leaves a storage, of records that were there before.            *)
(***************************************************************************)
LEMMA CleanType ==
  ASSUME NEW st, Storage(st), NEW now, NEW left \in CleanExpired(st, now)
  PROVE  /\ Storage(left)
         /\ DOMAIN left \subseteq DOMAIN st
         /\ \A k \in DOMAIN left : left[k] = st[k]
<1>1. PICK G \in SUBSET ExpiredKeys(st, now) : left = Erase(st, G)
  BY CleanErasesExpired
<1>. QED
  BY <1>1, EraseType DEF Erase, Restrict

(***************************************************************************)
(* Storing a fresh record stores it in the live part.                      *)
(***************************************************************************)
LEMMA InsertLive ==
  ASSUME NEW st, NEW now, NEW u, NEW r, ~Expired(r, now)
  PROVE  LET ins == Insert(st, u, r)
         IN  Erase(ins, ExpiredKeys(ins, now))
               = Insert(Erase(st, ExpiredKeys(st, now)), u, r)
<1>. DEFINE ins  == Insert(st, u, r)
            live == Erase(st, ExpiredKeys(st, now))
<1>1. DOMAIN ins = DOMAIN st \cup {u} /\ ins[u] = r
  BY DEF Insert
<1>2. \A k \in DOMAIN st \ {u} : ins[k] = st[k]
  BY DEF Insert
<1>3. DOMAIN live = DOMAIN st \ ExpiredKeys(st, now)
      /\ \A k \in DOMAIN live : live[k] = st[k]
  BY DEF Erase, Restrict
<1>4. DOMAIN ins \ ExpiredKeys(ins, now) = DOMAIN live \cup {u}
  BY <1>1, <1>2, <1>3 DEF ExpiredKeys
<1>5. \A k \in DOMAIN live \cup {u} : ins[k] = IF k = u THEN r ELSE live[k]
  BY <1>1, <1>2, <1>3
<1>6. Erase(ins, ExpiredKeys(ins, now)) = [k \in DOMAIN live \cup {u} |-> ins[k]]
  BY <1>4 DEF Erase, Restrict
<1>7. Insert(live, u, r) = [k \in DOMAIN live \cup {u} |-> IF k = u THEN r ELSE live[k]]
  BY DEF Insert
<1>. QED
  BY <1>5, <1>6, <1>7

(***************************************************************************)
(* get() leaves the live part as it is and hits exactly what is in it.     *)
(***************************************************************************)
LEMMA GetLive ==
  ASSUME NEW st, NEW now, NEW u
  PROVE  LET live == Erase(st, ExpiredKeys(st, now))
             got  == AfterGet(st, u, now)
         IN  /\ Erase(got, ExpiredKeys(got, now)) = live
             /\ Hit(st, u, now) <=> u \in DOMAIN live
             /\ u \in DOMAIN live => live[u] = st[u]
<1>. DEFINE live == Erase(st, ExpiredKeys(st, now))
            got  == AfterGet(st, u, now)
<1>1. DOMAIN live = DOMAIN st \ ExpiredKeys(st, now)
      /\ \A k \in DOMAIN live : live[k] = st[k]
  BY DEF Erase, Restrict
<1>2. Hit(st, u, now) <=> u \in DOMAIN live
  BY <1>1 DEF Hit, ExpiredKeys
<1>3. CASE Hit(st, u, now)
  BY <1>1, <1>2, <1>3 DEF AfterGet
<1>4. CASE ~Hit(st, u, now)
  <2>1. got = Erase(st, {u})
    BY <1>4 DEF AfterGet
  <2>2. DOMAIN got = DOMAIN st \ {u} /\ \A k \in DOMAIN got : got[k] = st[k]
    BY <2>1 DEF Erase, Restrict
  <2>3. DOMAIN got \ ExpiredKeys(got, now) = DOMAIN st \ ExpiredKeys(st, now)
    BY <1>4, <2>2 DEF ExpiredKeys, Hit
  <2>4. Erase(got, ExpiredKeys(got, now)) = live
    BY <2>2, <2>3 DEF Erase, Restrict
  <2>. QED
    BY <1>1, <1>2, <2>4
<1>. QED
  BY <1>3, <1>4

(***************************************************************************)
(* The expired records that a sweep leaves are no more than half of them:  *)
(* each has an erased record right before it, and no two have the same.    *)
(***************************************************************************)
LEMMA SweepErasesHalf ==
  ASSUME NEW st, Storage(st), IsFiniteSet(DOMAIN st), NEW now,
         NEW G \in Erasures(st, now)
  PROVE  /\ IsFiniteSet(ExpiredKeys(st, now))
         /\ 2 * Cardinality(ExpiredKeys(st, now) \ G)
              <= Cardinality(ExpiredKeys(st, now))
<1>. DEFINE K == DOMAIN st
            X == ExpiredKeys(st, now)
            S == X \ G
<1>1. PICK E \in SUBSET G : IsFirstPass(st, X, E)
  BY DEF Erasures
<1>2. K \subseteq Int /\ X \subseteq K /\ G \subseteq X
  BY UIDAssumption DEF Storage, ExpiredKeys, Erasures
<1>3. IsFiniteSet(X) /\ IsFiniteSet(G) /\ IsFiniteSet(E)
  <2>1. IsFiniteSet(X)
    BY <1>2, FS_Subset
  <2>2. IsFiniteSet(G)
    BY <1>2, <2>1, FS_Subset
  <2>. QED
    BY <2>1, <2>2, FS_Subset
<1>4. \A k \in S : \E j \in E : IsPred(K, j, k)
  BY <1>1 DEF IsFirstPass
<1>5. \A j \in K, k, l \in S : IsPred(K, j, k) /\ IsPred(K, j, l) => k = l
  BY <1>2 DEF IsPred
<1>. DEFINE pred == [k \in S |-> CHOOSE j \in E : IsPred(K, j, k)]
<1>6. \A k \in S : pred[k] \in E /\ IsPred(K, pred[k], k)
  BY <1>4
<1>7. pred \in Injection(S, E)
  <2>1. pred \in [S -> E]
    BY <1>6
  <2>2. \A k, l \in S : pred[k] = pred[l] => k = l
    <3>. SUFFICES ASSUME NEW k \in S, NEW l \in S, pred[k] = pred[l] PROVE k = l
      OBVIOUS
    <3>1. IsPred(K, pred[k], k) /\ IsPred(K, pred[k], l)
      BY <1>6
    <3>2. pred[k] \in K
      BY <1>2, <1>6
    <3>. QED
      BY <1>5, <3>1, <3>2
  <2>. QED
    BY <2>1, <2>2 DEF Injection, IsInjective
<1>8. Cardinality(S) <= Cardinality(E) /\ Cardinality(E) <= Cardinality(G)
  <2>1. Cardinality(S) <= Cardinality(E)
    BY <1>3, <1>7, FS_Injection
  <2>2. Cardinality(E) <= Cardinality(G)
    BY <1>3, FS_Subset
  <2>. QED
    BY <2>1, <2>2
<1>9. Cardinality(S) = Cardinality(X) - Cardinality(G)
  <2>1. X \cap G = G
    BY <1>2
  <2>. QED
    BY <1>3, <2>1, FS_Difference
<1>10. /\ Cardinality(X) \in Nat /\ Cardinality(G) \in Nat
       /\ Cardinality(S) \in Nat /\ Cardinality(E) \in Nat
  <2>1. IsFiniteSet(S)
    BY <1>3, FS_Subset
  <2>. QED
    BY <1>3, <2>1, FS_CardinalityType
<1>11. 2 * Cardinality(S) <= Cardinality(X)
  BY <1>8, <1>9, <1>10
<1>. QED
  BY <1>3, <1>11
===============================================================================
