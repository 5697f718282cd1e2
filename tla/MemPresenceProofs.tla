--------------------------- MODULE MemPresenceProofs ---------------------------
(***************************************************************************)
(* Theorems about MemPresence, for every set of UIDs, every expiration and *)
(* every lag below it.                                                     *)
(***************************************************************************)
EXTENDS MemPresence, StorageLemmas

(***************************************************************************)
(* What a call of put() that ends now leaves in the storage: a storage     *)
(* without records from the future, whose live part is the old live part   *)
(* with the new record in it.                                              *)
(***************************************************************************)
Live(st) == Erase(st, ExpiredKeys(st, clock))

LEMMA AfterCallFacts ==
  ASSUME TypeOK, NEW u \in UID, NEW a \in Addr, NEW st \in AfterCall(u, a)
  PROVE  /\ Storage(st)
         /\ \A k \in DOMAIN st : st[k].modified <= clock
         /\ \E lag \in 0 .. MaxLag :
              Live(st) = Insert(Live(storage), u, [modified |-> clock - lag, addr |-> a])
<1>a. PICK lag \in 0 .. MaxLag :
        st \in UNION {AfterPut(storage, u, Item(a, lag), clock - late) : late \in 0 .. lag}
  BY DEF AfterCall
<1>1. PICK late \in 0 .. lag : st \in AfterPut(storage, u, Item(a, lag), clock - late)
  BY <1>a
<1>. DEFINE r   == Item(a, lag)
            ins == Insert(storage, u, r)
<1>2. /\ clock \in Int /\ lag \in Int /\ late \in Int
      /\ clock - late \in Int /\ clock - late <= clock /\ clock - lag <= clock
  BY LagAssumption, SMT DEF TypeOK
<1>3. r \in Rec /\ r.modified <= clock /\ ~Expired(r, clock)
  <2>1. r \in Rec /\ r.modified <= clock
    BY <1>2 DEF Item, Rec
  <2>2. ~Expired(r, clock)
    BY <1>2, NewRecordIsFresh DEF Item
  <2>. QED
    BY <2>1, <2>2
<1>4. Storage(ins)
  BY <1>3, InsertType DEF TypeOK
<1>5. st \in CleanExpired(ins, clock - late)
  BY <1>1 DEF AfterPut
<1>6. /\ Storage(st)
      /\ DOMAIN st \subseteq DOMAIN ins
      /\ \A k \in DOMAIN st : st[k] = ins[k]
  BY <1>4, <1>5, CleanType
<1>7. \A k \in DOMAIN ins : ins[k].modified <= clock
  BY <1>3 DEF Insert, TypeOK
<1>8. Live(st) = Live(ins)
  BY <1>2, <1>4, <1>5, CleanKeepsLive DEF Live
<1>9. Live(ins) = Insert(Live(storage), u, r)
  BY <1>3, InsertLive DEF Live
<1>. QED
  BY <1>6, <1>7, <1>8, <1>9 DEF Item

(***************************************************************************)
(* get() leaves a storage of records that were there before.               *)
(***************************************************************************)
LEMMA AfterGetType ==
  ASSUME NEW st, Storage(st), NEW d, NEW now
  PROVE  /\ Storage(AfterGet(st, d, now))
         /\ DOMAIN AfterGet(st, d, now) \subseteq DOMAIN st
         /\ \A k \in DOMAIN AfterGet(st, d, now) : AfterGet(st, d, now)[k] = st[k]
<1>1. CASE Hit(st, d, now)
  BY <1>1 DEF AfterGet
<1>2. CASE ~Hit(st, d, now)
  BY <1>2, EraseType DEF AfterGet, Erase, Restrict
<1>. QED
  BY <1>1, <1>2

-------------------------------------------------------------------------------
LEMMA TypeInit == Init => TypeOK
BY DEF Init, TypeOK, Storage, EmptyStorage, Rec

LEMMA TypeStep == TypeOK /\ [Next]_vars => TypeOK'
<1>. SUFFICES ASSUME TypeOK, [Next]_vars PROVE TypeOK'
  OBVIOUS
<1>1. ASSUME NEW u \in UID, NEW a \in Addr, Ping(u, a) PROVE TypeOK'
  <2>1. storage' \in AfterCall(u, a) /\ clock' = clock
        /\ answer' = [uid |-> u, addr |-> a]
    BY <1>1 DEF Ping
  <2>. QED
    BY <2>1, AfterCallFacts DEF TypeOK
<1>2. ASSUME NEW u \in UID, NEW a \in Addr, Learn(u, a) PROVE TypeOK'
  <2>1. storage' \in AfterCall(u, a) /\ clock' = clock /\ answer' = NoAnswer
    BY <1>2 DEF Learn
  <2>. QED
    BY <2>1, AfterCallFacts DEF TypeOK
<1>3. ASSUME NEW u \in UID, NEW d \in UID, NEW a \in Addr, Lookup(u, d, a)
      PROVE  TypeOK'
  <2>1. PICK st \in AfterCall(u, a) :
          /\ storage' = AfterGet(st, d, clock)
          /\ answer' = [uid |-> d,
                        addr |-> IF Hit(st, d, clock) THEN st[d].addr ELSE NoAddr]
    BY <1>3 DEF Lookup
  <2>2. clock' = clock
    BY <1>3 DEF Lookup
  <2>3. Storage(st) /\ \A k \in DOMAIN st : st[k].modified <= clock
    BY <2>1, AfterCallFacts
  <2>4. Storage(storage') /\ \A k \in DOMAIN storage' : storage'[k].modified <= clock
    BY <2>1, <2>3, AfterGetType
  <2>5. answer' \in [uid : UID, addr : Addr \cup {NoAddr}]
    BY <2>1, <2>3 DEF Hit, Storage, Rec
  <2>. QED
    BY <2>2, <2>4, <2>5 DEF TypeOK
<1>4. CASE Ignore
  BY <1>4 DEF Ignore, TypeOK
<1>5. CASE Tick
  <2>1. storage' = storage /\ clock' = clock + 1 /\ answer' = NoAnswer
    BY <1>5 DEF Tick
  <2>2. \A k \in DOMAIN storage : storage[k].modified <= clock + 1
    <3>. SUFFICES ASSUME NEW k \in DOMAIN storage
                  PROVE  storage[k].modified <= clock + 1
      OBVIOUS
    <3>1. storage[k].modified \in Int /\ storage[k].modified <= clock /\ clock \in Int
      BY DEF TypeOK, Storage, Rec
    <3>. QED
      BY <3>1
  <2>. QED
    BY <2>1, <2>2 DEF TypeOK
<1>6. CASE UNCHANGED vars
  BY <1>6 DEF vars, TypeOK
<1>. QED
  BY <1>1, <1>2, <1>3, <1>4, <1>5, <1>6 DEF Next, Puts

(***************************************************************************)
(* Type correctness of a presence object; in particular no record in the   *)
(* storage is ever dated after the present.                                *)
(***************************************************************************)
THEOREM TypeCorrect == Spec => []TypeOK
<1>. QED
  BY TypeInit, TypeStep, PTL DEF Spec

-------------------------------------------------------------------------------
(***************************************************************************)
(* The operators of PresenceStorage are the same in both specifications.   *)
(***************************************************************************)
LEMMA SameOperators ==
  /\ R!EmptyStorage = EmptyStorage
  /\ \A st, u, r : R!Insert(st, u, r) = Insert(st, u, r)
  /\ \A st, E : R!Erase(st, E) = Erase(st, E)
<1>1. R!EmptyStorage = EmptyStorage
  BY DEF R!EmptyStorage, EmptyStorage
<1>2. \A st, u, r : R!Insert(st, u, r) = Insert(st, u, r)
  BY DEF R!Insert, Insert
<1>3. \A st, E : R!Erase(st, E) = Erase(st, E)
  BY DEF R!Erase, Erase, R!Restrict, Restrict
<1>. QED
  BY <1>1, <1>2, <1>3

LEMMA RegistryInit == Init => R!Init
<1>. SUFFICES ASSUME Init PROVE R!Init
  OBVIOUS
<1>1. storage = EmptyStorage /\ clock = 0 /\ answer = NoAnswer
  BY DEF Init
<1>2. Erase(EmptyStorage, ExpiredKeys(EmptyStorage, 0)) = EmptyStorage
  BY DEF Erase, Restrict, EmptyStorage
<1>. QED
  BY <1>1, <1>2, SameOperators DEF R!Init

(***************************************************************************)
(* Every step of MemPresence is one of the ideal registry, whatever the    *)
(* sweep left behind.                                                      *)
(***************************************************************************)
LEMMA RegistryStep == TypeOK /\ [Next]_vars => [R!Next]_(R!vars)
<1>. SUFFICES ASSUME TypeOK, [Next]_vars PROVE [R!Next]_(R!vars)
  OBVIOUS
<1>. DEFINE live == Erase(storage, ExpiredKeys(storage, clock))
<1>1. ASSUME NEW u \in UID, NEW a \in Addr, Ping(u, a) PROVE R!Ping(u, a)
  <2>1. storage' \in AfterCall(u, a) /\ clock' = clock
        /\ answer' = [uid |-> u, addr |-> a]
    BY <1>1 DEF Ping
  <2>2. PICK lag \in 0 .. MaxLag :
          live' = Insert(live, u, [modified |-> clock - lag, addr |-> a])
    BY <2>1, AfterCallFacts DEF Live
  <2>3. u \in DOMAIN live' /\ live'[u].addr = a
    BY <2>2 DEF Insert
  <2>. QED
    BY <2>1, <2>2, <2>3, SameOperators DEF R!Ping, R!Register, R!Answer
<1>2. ASSUME NEW u \in UID, NEW a \in Addr, Learn(u, a) PROVE R!Learn(u, a)
  <2>1. storage' \in AfterCall(u, a) /\ clock' = clock /\ answer' = NoAnswer
    BY <1>2 DEF Learn
  <2>2. PICK lag \in 0 .. MaxLag :
          live' = Insert(live, u, [modified |-> clock - lag, addr |-> a])
    BY <2>1, AfterCallFacts DEF Live
  <2>. QED
    BY <2>1, <2>2, SameOperators DEF R!Learn, R!Register
<1>3. ASSUME NEW u \in UID, NEW d \in UID, NEW a \in Addr, Lookup(u, d, a)
      PROVE  R!Lookup(u, d, a)
  <2>1. PICK st \in AfterCall(u, a) :
          /\ storage' = AfterGet(st, d, clock)
          /\ answer' = [uid |-> d,
                        addr |-> IF Hit(st, d, clock) THEN st[d].addr ELSE NoAddr]
    BY <1>3 DEF Lookup
  <2>2. clock' = clock
    BY <1>3 DEF Lookup
  <2>3. PICK lag \in 0 .. MaxLag :
          Live(st) = Insert(live, u, [modified |-> clock - lag, addr |-> a])
    BY <2>1, AfterCallFacts DEF Live
  <2>4. /\ live' = Live(st)
        /\ Hit(st, d, clock) <=> d \in DOMAIN Live(st)
        /\ d \in DOMAIN Live(st) => Live(st)[d] = st[d]
    BY <2>1, <2>2, GetLive DEF Live
  <2>5. answer' = [uid |-> d, addr |-> IF d \in DOMAIN live' THEN live'[d].addr ELSE NoAddr]
    BY <2>1, <2>4
  <2>. QED
    BY <2>2, <2>3, <2>4, <2>5, SameOperators DEF R!Lookup, R!Register, R!Answer
<1>4. CASE Ignore
  <2>1. storage' = storage /\ clock' = clock /\ answer' = NoAnswer
    BY <1>4 DEF Ignore
  <2>. QED
    BY <2>1 DEF R!Ignore, R!Next
<1>5. CASE Tick
  <2>1. storage' = storage /\ clock' = clock + 1 /\ answer' = NoAnswer
        /\ clock < MaxClock
    BY <1>5 DEF Tick
  <2>2. clock \in Int /\ clock + 1 \in Int /\ clock <= clock + 1
    BY DEF TypeOK
  <2>3. \A k \in ExpiredKeys(storage, clock) : Expired(storage[k], clock + 1)
    <3>. SUFFICES ASSUME NEW k \in ExpiredKeys(storage, clock)
                  PROVE  Expired(storage[k], clock + 1)
      OBVIOUS
    <3>1. storage[k] \in Rec /\ Expired(storage[k], clock)
      BY DEF ExpiredKeys, TypeOK, Storage
    <3>. QED
      BY <3>1, <2>2, ExpiredStays
  <2>4. /\ DOMAIN live = DOMAIN storage \ ExpiredKeys(storage, clock)
        /\ \A k \in DOMAIN live : live[k] = storage[k]
    BY DEF Erase, Restrict
  <2>5. DOMAIN live \ ExpiredKeys(live, clock + 1)
          = DOMAIN storage \ ExpiredKeys(storage, clock + 1)
    BY <2>3, <2>4 DEF ExpiredKeys
  <2>6. Erase(live, ExpiredKeys(live, clock + 1))
          = Erase(storage, ExpiredKeys(storage, clock + 1))
    BY <2>4, <2>5 DEF Erase, Restrict
  <2>7. live' = Erase(live, ExpiredKeys(live, clock'))
    BY <2>1, <2>6
  <2>8. \A k \in DOMAIN live : live[k] \in Rec
    BY <2>4 DEF TypeOK, Storage
  <2>9. ExpiredKeys(live, clock')
          = {k \in DOMAIN live : clock' - live[k].modified >= R!Lifetime}
    BY <2>1, <2>2, <2>8, ExpiredByTicks DEF ExpiredKeys, R!Lifetime
  <2>. QED
    BY <2>1, <2>7, <2>9, SameOperators DEF R!Tick, R!Next
<1>6. CASE UNCHANGED vars
  <2>1. storage' = storage /\ clock' = clock /\ answer' = answer
    BY <1>6 DEF vars
  <2>. QED
    BY <2>1 DEF R!vars
<1>. QED
  BY <1>1, <1>2, <1>3, <1>4, <1>5, <1>6 DEF Next, Puts, R!Next

(***************************************************************************)
(* A presence object implements the ideal registry: the records that       *)
(* cleanExpired skips are never seen by a caller of query() or put().      *)
(***************************************************************************)
THEOREM MemPresenceImplementsRegistry == Spec => ImplementsRegistry
<1>. QED
  BY TypeInit, TypeStep, RegistryInit, RegistryStep, PTL
     DEF Spec, ImplementsRegistry, R!Spec

-------------------------------------------------------------------------------
(***************************************************************************)
(* The storage stays finite: a call adds one key at most.                  *)
(***************************************************************************)
Finite == IsFiniteSet(DOMAIN storage)

LEMMA AfterCallDomain ==
  ASSUME TypeOK, NEW u \in UID, NEW a \in Addr, NEW st \in AfterCall(u, a)
  PROVE  Storage(st) /\ DOMAIN st \subseteq DOMAIN storage \cup {u}
<1>1. PICK lag \in 0 .. MaxLag :
        st \in UNION {AfterPut(storage, u, Item(a, lag), clock - late) : late \in 0 .. lag}
  BY DEF AfterCall
<1>2. PICK late \in 0 .. lag : st \in AfterPut(storage, u, Item(a, lag), clock - late)
  BY <1>1
<1>3. lag \in Int /\ clock \in Int /\ Item(a, lag) \in Rec
  BY LagAssumption DEF TypeOK, Item, Rec
<1>4. /\ Storage(Insert(storage, u, Item(a, lag)))
      /\ st \in CleanExpired(Insert(storage, u, Item(a, lag)), clock - late)
  BY <1>2, <1>3, InsertType DEF AfterPut, TypeOK
<1>. QED
  BY <1>4, CleanType DEF Insert

LEMMA FiniteStep == TypeOK /\ Finite /\ [Next]_vars => Finite'
<1>. SUFFICES ASSUME TypeOK, Finite, [Next]_vars PROVE Finite'
  OBVIOUS
<1>1. ASSUME NEW u \in UID, DOMAIN storage' \subseteq DOMAIN storage \cup {u}
      PROVE  Finite'
  <2>1. IsFiniteSet(DOMAIN storage \cup {u})
    BY FS_AddElement DEF Finite
  <2>. QED
    BY <1>1, <2>1, FS_Subset DEF Finite
<1>2. ASSUME NEW u \in UID, NEW a \in Addr, Ping(u, a) \/ Learn(u, a) PROVE Finite'
  <2>1. storage' \in AfterCall(u, a)
    BY <1>2 DEF Ping, Learn
  <2>. QED
    BY <2>1, <1>1, AfterCallDomain
<1>3. ASSUME NEW u \in UID, NEW d \in UID, NEW a \in Addr, Lookup(u, d, a)
      PROVE  Finite'
  <2>1. PICK st \in AfterCall(u, a) : storage' = AfterGet(st, d, clock)
    BY <1>3 DEF Lookup
  <2>2. DOMAIN storage' \subseteq DOMAIN storage \cup {u}
    BY <2>1, AfterCallDomain, AfterGetType
  <2>. QED
    BY <2>2, <1>1
<1>4. CASE Ignore \/ Tick \/ UNCHANGED vars
  BY <1>4 DEF Ignore, Tick, vars, Finite
<1>. QED
  BY <1>2, <1>3, <1>4 DEF Next, Puts

(***************************************************************************)
(* The records in left that had expired MaxLag ticks ago are at most half  *)
(* of those that have expired before the call.                             *)
(***************************************************************************)
LEMMA CallHalves ==
  ASSUME TypeOK, Finite, NEW u \in UID, NEW a \in Addr, NEW st \in AfterCall(u, a),
         NEW left, DOMAIN left \subseteq DOMAIN st,
         \A k \in DOMAIN left : left[k] = st[k]
  PROVE  2 * Cardinality(ExpiredKeys(left, clock - MaxLag))
           <= Cardinality(ExpiredKeys(storage, clock))
<1>1. PICK lag \in 0 .. MaxLag :
        st \in UNION {AfterPut(storage, u, Item(a, lag), clock - late) : late \in 0 .. lag}
  BY DEF AfterCall
<1>2. PICK late \in 0 .. lag : st \in AfterPut(storage, u, Item(a, lag), clock - late)
  BY <1>1
<1>. DEFINE ins == Insert(storage, u, Item(a, lag))
            now == clock - late
            X   == ExpiredKeys(ins, now)
            Old == ExpiredKeys(storage, clock)
            Rest == ExpiredKeys(left, clock - MaxLag)
<1>3. /\ clock \in Int /\ now \in Int /\ clock - MaxLag \in Int
      /\ clock - MaxLag <= now /\ now <= clock
      /\ lag - late \in 0 .. MaxLag /\ now - (lag - late) = clock - lag
      /\ clock - lag \in Int
  BY LagAssumption, SMT DEF TypeOK
<1>4. Item(a, lag) \in Rec /\ ~Expired(Item(a, lag), now)
  <2>1. Item(a, lag) = [modified |-> now - (lag - late), addr |-> a]
    BY <1>3 DEF Item
  <2>2. Item(a, lag) \in Rec
    BY <1>3 DEF Item, Rec
  <2>. QED
    BY <1>3, <2>1, <2>2, NewRecordIsFresh
<1>5. Storage(ins) /\ DOMAIN ins = DOMAIN storage \cup {u} /\ IsFiniteSet(DOMAIN ins)
  <2>1. Storage(ins)
    BY <1>4, InsertType DEF TypeOK
  <2>2. DOMAIN ins = DOMAIN storage \cup {u}
    BY DEF Insert
  <2>. QED
    BY <2>1, <2>2, FS_AddElement DEF Finite
<1>6. PICK G \in Erasures(ins, now) : st = Erase(ins, G)
  BY <1>2 DEF AfterPut, CleanExpired
<1>7. IsFiniteSet(X) /\ 2 * Cardinality(X \ G) <= Cardinality(X)
  BY <1>5, <1>6, SweepErasesHalf
<1>8. X \subseteq Old
  <2>. SUFFICES ASSUME NEW k \in X PROVE k \in Old
    OBVIOUS
  <2>1. k \in DOMAIN ins /\ Expired(ins[k], now)
    BY DEF ExpiredKeys
  <2>2. ins[u] = Item(a, lag)
    BY <1>5 DEF Insert
  <2>3. k # u
    BY <1>4, <2>1, <2>2
  <2>4. k \in DOMAIN storage /\ ins[k] = storage[k]
    BY <1>5, <2>1, <2>3 DEF Insert
  <2>5. storage[k] \in Rec
    BY <2>4 DEF TypeOK, Storage
  <2>6. Expired(storage[k], clock)
    BY <1>3, <2>1, <2>4, <2>5, ExpiredStays
  <2>. QED
    BY <2>4, <2>6 DEF ExpiredKeys
<1>9. Rest \subseteq X \ G
  <2>. SUFFICES ASSUME NEW k \in Rest PROVE k \in X \ G
    OBVIOUS
  <2>1. k \in DOMAIN left /\ Expired(left[k], clock - MaxLag)
    BY DEF ExpiredKeys
  <2>2. k \in DOMAIN ins /\ k \notin G /\ left[k] = ins[k]
    BY <1>6, <2>1 DEF Erase, Restrict
  <2>3. ins[k] \in Rec
    BY <1>5, <2>2 DEF Storage
  <2>4. Expired(ins[k], now)
    BY <1>3, <2>1, <2>2, <2>3, ExpiredStays
  <2>. QED
    BY <2>2, <2>4 DEF ExpiredKeys
<1>10. IsFiniteSet(Old) /\ Cardinality(X) <= Cardinality(Old)
  <2>1. IsFiniteSet(Old)
    BY FS_Subset DEF Finite, ExpiredKeys
  <2>. QED
    BY <1>8, <2>1, FS_Subset
<1>11. /\ IsFiniteSet(X \ G) /\ IsFiniteSet(Rest)
       /\ Cardinality(Rest) <= Cardinality(X \ G)
  <2>1. IsFiniteSet(X \ G)
    BY <1>7, FS_Subset
  <2>. QED
    BY <1>9, <2>1, FS_Subset
<1>12. /\ Cardinality(X) \in Nat /\ Cardinality(Old) \in Nat
       /\ Cardinality(Rest) \in Nat /\ Cardinality(X \ G) \in Nat
  BY <1>7, <1>10, <1>11, FS_CardinalityType
<1>13. 2 * Cardinality(Rest) <= Cardinality(Old)
  <2>. HIDE DEF Rest, Old, X
  <2>. QED
    BY <1>7, <1>10, <1>11, <1>12, SMT
<1>. QED
  BY <1>13

(***************************************************************************)
(* However the expired records lie in the map, every put() removes at      *)
(* least half of them.                                                     *)
(***************************************************************************)
THEOREM EverySweepHalves == Spec => SweepHalves
<1>. DEFINE Half == 2 * Cardinality(ExpiredKeys(storage', clock - MaxLag))
                      <= Cardinality(ExpiredKeys(storage, clock))
<1>1. Init => Finite
  BY FS_EmptySet DEF Init, Finite, EmptyStorage
<1>2. TypeOK /\ Finite /\ [Next]_vars => [Puts => Half]_vars
  <2>. SUFFICES ASSUME TypeOK, Finite, Puts PROVE Half
    OBVIOUS
  <2>1. ASSUME NEW u \in UID, NEW a \in Addr, Ping(u, a) \/ Learn(u, a) PROVE Half
    <3>1. storage' \in AfterCall(u, a)
      BY <2>1 DEF Ping, Learn
    <3>. QED
      BY <3>1, CallHalves
  <2>2. ASSUME NEW u \in UID, NEW d \in UID, NEW a \in Addr, Lookup(u, d, a)
        PROVE  Half
    <3>1. PICK st \in AfterCall(u, a) : storage' = AfterGet(st, d, clock)
      BY <2>2 DEF Lookup
    <3>2. /\ DOMAIN storage' \subseteq DOMAIN st
          /\ \A k \in DOMAIN storage' : storage'[k] = st[k]
      BY <3>1, AfterCallDomain, AfterGetType
    <3>. QED
      BY <3>1, <3>2, CallHalves
  <2>. QED
    BY <2>1, <2>2 DEF Puts
<1>. QED
  BY <1>1, <1>2, TypeInit, TypeStep, FiniteStep, PTL DEF Spec, SweepHalves
===============================================================================
