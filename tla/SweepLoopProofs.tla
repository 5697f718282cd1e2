---------------------------- MODULE SweepLoopProofs ----------------------------
(***************************************************************************)
(* Theorems about the loop of cleanExpired, for every set of UIDs, every   *)
(* expiration and every lag below it.                                      *)
(***************************************************************************)
EXTENDS SweepLoop, StorageLemmas

(***************************************************************************)
(* The inductive invariant: besides a sound sweep, the clock reads of the  *)
(* running call lie within MaxLag of each other, so that the record it     *)
(* stores cannot expire under it.  That record keeps the tree from getting *)
(* empty.                                                                  *)
(***************************************************************************)
Reads ==
  /\ pc # "idle" => /\ call.item.modified <= clock
                    /\ clock <= call.item.modified + MaxLag
  /\ pc = "sweep" => call.item.modified <= now /\ now <= clock

Stored == pc = "put" => storage = before

IInv == SweepOK /\ Reads /\ Stored /\ NeverHangs

LEMMA IInvInit == Init => IInv
BY DEF Init, IInv, SweepOK, TypeOK, SweepSafe, Reads, Stored, NeverHangs,
       Storage, EmptyStorage, Rec

(***************************************************************************)
(* The record of the running call is fresh for the sweep.                  *)
(***************************************************************************)
LEMMA ItemIsFresh ==
  ASSUME IInv, pc = "sweep"
  PROVE  ~Expired(call.item, now)
<1>1. call.item \in Rec
  BY DEF IInv, SweepOK, TypeOK
<1>. DEFINE m == call.item.modified
            lag == now - m
<1>2. /\ m \in Int /\ now \in Int /\ clock \in Int
      /\ m <= now /\ now <= clock /\ clock <= m + MaxLag
  BY <1>1 DEF IInv, SweepOK, TypeOK, Reads, Rec
<1>3. lag \in 0 .. MaxLag
  BY <1>2, LagAssumption, SMT
<1>4. now - lag = m
  BY <1>2
<1>5. call.item = [modified |-> now - lag, addr |-> call.item.addr]
  BY <1>1, <1>4 DEF Rec
<1>. QED
  BY <1>2, <1>3, <1>5, NewRecordIsFresh

LEMMA IInvBegin ==
  ASSUME IInv, NEW op \in Ops, NEW u \in UID, NEW d \in UID, NEW a \in Addr,
         Begin(op, u, d, a)
  PROVE  IInv'
<1>1. /\ pc = "idle" /\ pc' = "put" /\ before' = storage
      /\ call' = [op |-> op, src |-> u, dest |-> d,
                  item |-> [modified |-> clock, addr |-> a]]
      /\ UNCHANGED <<storage, clock, answer, it, now>>
  BY DEF Begin
<1>2. clock \in Int /\ MaxLag \in Nat
  BY LagAssumption DEF IInv, SweepOK, TypeOK
<1>3. call' \in [op : Ops, src : UID, dest : UID, item : Rec]
  BY <1>1, <1>2 DEF Rec
<1>4. TypeOK'
  BY <1>1, <1>3 DEF IInv, SweepOK, TypeOK
<1>5. Reads'
  BY <1>1, <1>2 DEF Reads
<1>. QED
  BY <1>1, <1>4, <1>5 DEF IInv, SweepOK, SweepSafe, Stored, NeverHangs

LEMMA IInvStore ==
  ASSUME IInv, Store
  PROVE  IInv'
<1>1. /\ pc = "put" /\ pc' = "sweep" /\ now' = clock
      /\ storage' = Insert(storage, call.src, call.item)
      /\ UNCHANGED <<clock, answer, call, before>>
  BY DEF Store
<1>2. /\ call \in [op : Ops, src : UID, dest : UID, item : Rec]
      /\ Storage(storage) /\ storage = before
  BY <1>1 DEF IInv, SweepOK, TypeOK, Stored
<1>3. Storage(storage')
  BY <1>1, <1>2, InsertType
<1>4. it' \in DOMAIN storage' \cup {End}
  BY DEF Store, IsBegin
<1>5. TypeOK'
  BY <1>1, <1>2, <1>3, <1>4 DEF IInv, SweepOK, TypeOK, Storage
<1>6. SweepSafe'
  BY <1>1, <1>2, <1>4 DEF SweepSafe, Insert
<1>7. Reads'
  BY <1>1 DEF IInv, Reads, SweepOK, TypeOK
<1>. QED
  BY <1>1, <1>5, <1>6, <1>7 DEF IInv, SweepOK, Stored, NeverHangs

LEMMA IInvKeep ==
  ASSUME IInv, Keep
  PROVE  IInv'
<1>1. /\ pc = "sweep" /\ it # End /\ it' \in Increment(DOMAIN storage, it)
      /\ UNCHANGED <<storage, clock, answer, pc, now, call, before>>
  BY DEF Keep
<1>2. it' \in DOMAIN storage' \cup {End}
  BY <1>1 DEF Increment
<1>3. TypeOK'
  BY <1>1, <1>2 DEF IInv, SweepOK, TypeOK, Storage
<1>4. SweepSafe'
  BY <1>1, <1>2 DEF IInv, SweepOK, SweepSafe
<1>. QED
  BY <1>1, <1>3, <1>4 DEF IInv, SweepOK, Reads, Stored, NeverHangs

(***************************************************************************)
(* An expired record is not the one of the running call: that one stays,   *)
(* and the tree is not empty afterwards.                                   *)
(***************************************************************************)
LEMMA IInvErase ==
  ASSUME IInv, EraseAt
  PROVE  IInv'
<1>1. /\ pc = "sweep" /\ it # End /\ Expired(storage[it], now)
      /\ storage' = Erase(storage, {it})
      /\ UNCHANGED <<clock, answer, now, call, before>>
  BY DEF EraseAt
<1>2. /\ it \in DOMAIN storage
      /\ call.src \in DOMAIN storage /\ storage[call.src] = call.item
      /\ Storage(storage)
  BY <1>1 DEF IInv, SweepOK, SweepSafe, TypeOK
<1>3. it # call.src
  BY <1>1, <1>2, ItemIsFresh
<1>4. /\ DOMAIN storage' = DOMAIN storage \ {it}
      /\ \A k \in DOMAIN storage' : storage'[k] = storage[k]
  BY <1>1 DEF Erase, Restrict
<1>5. call.src \in DOMAIN storage'
  BY <1>2, <1>3, <1>4
<1>6. PICK n \in UID \cup {End} :
        pc' = pc /\ it' \in Increment(DOMAIN storage', n)
  BY <1>5 DEF EraseAt
<1>7. it' \in DOMAIN storage' \cup {End}
  BY <1>6 DEF Increment
<1>8. Storage(storage')
  BY <1>1, <1>2, EraseType
<1>9. TypeOK'
  BY <1>1, <1>6, <1>7, <1>8 DEF IInv, SweepOK, TypeOK, Storage
<1>10. SweepSafe'
  <2>. SUFFICES ASSUME NEW k \in DOMAIN before \ {call.src}
                PROVE  IF k \in DOMAIN storage' THEN storage'[k] = before[k]
                                                ELSE Expired(before[k], now)
    BY <1>1, <1>2, <1>4, <1>5, <1>6, <1>7 DEF SweepSafe
  <2>1. IF k \in DOMAIN storage THEN storage[k] = before[k]
                                ELSE Expired(before[k], now)
    BY <1>1 DEF IInv, SweepOK, SweepSafe
  <2>. QED
    BY <1>1, <1>4, <2>1
<1>. QED
  BY <1>1, <1>6, <1>9, <1>10 DEF IInv, SweepOK, Reads, Stored, NeverHangs

LEMMA IInvReturn ==
  ASSUME IInv, Return \/ Get
  PROVE  IInv'
<1>1. /\ pc' = "idle" /\ it' = End /\ now' = 0 /\ before' = EmptyStorage
      /\ clock' = clock
  BY DEF Return, Get, Leave
<1>2. Storage(storage')
  BY EraseType DEF IInv, SweepOK, TypeOK, Return, Get, AfterGet
<1>3. Storage(EmptyStorage)
  BY DEF Storage, EmptyStorage, Rec
<1>. QED
  BY <1>1, <1>2, <1>3
     DEF IInv, SweepOK, TypeOK, SweepSafe, Reads, Stored, NeverHangs

LEMMA IInvTick ==
  ASSUME IInv, Tick
  PROVE  IInv'
<1>1. /\ pc # "idle" => clock < call.item.modified + MaxLag
      /\ clock' = clock + 1
      /\ UNCHANGED <<storage, pc, it, now, call, before>>
  BY DEF Tick
<1>2. clock \in Int /\ now \in Int /\ MaxLag \in Nat
  BY LagAssumption DEF IInv, SweepOK, TypeOK
<1>3. pc # "idle" => call.item.modified \in Int
  BY DEF IInv, SweepOK, TypeOK, Rec
<1>4. Reads'
  BY <1>1, <1>2, <1>3 DEF IInv, Reads
<1>5. TypeOK'
  BY <1>1, <1>2 DEF IInv, SweepOK, TypeOK
<1>. QED
  BY <1>1, <1>4, <1>5 DEF IInv, SweepOK, SweepSafe, Stored, NeverHangs

LEMMA IInvStep == IInv /\ [Next]_vars => IInv'
<1>. SUFFICES ASSUME IInv, [Next]_vars PROVE IInv'
  OBVIOUS
<1>1. CASE \E op \in Ops, u, d \in UID, a \in Addr : Begin(op, u, d, a)
  BY <1>1, IInvBegin
<1>2. CASE Step
  BY <1>2, IInvStore, IInvKeep, IInvErase, IInvReturn DEF Step, Turn
<1>3. CASE Ignore \/ UNCHANGED vars
  BY <1>3 DEF Ignore, vars, IInv, SweepOK, TypeOK, SweepSafe, Reads, Stored, NeverHangs
<1>4. CASE Tick
  BY <1>4, IInvTick
<1>. QED
  BY <1>1, <1>2, <1>3, <1>4 DEF Next

(***************************************************************************)
(* At every turn of the loop the iterator is sound, the record just put is *)
(* in the storage and only expired records have gone.                      *)
(***************************************************************************)
THEOREM SweepIsSound == Spec => []SweepOK
<1>1. IInv => SweepOK
  BY DEF IInv
<1>. QED
  BY <1>1, IInvInit, IInvStep, PTL DEF Spec

(***************************************************************************)
(* The loop never increments the end() of an empty map.                    *)
(***************************************************************************)
THEOREM SweepNeverHangs == Spec => []NeverHangs
<1>1. IInv => NeverHangs
  BY DEF IInv
<1>. QED
  BY <1>1, IInvInit, IInvStep, PTL DEF Spec

-------------------------------------------------------------------------------
(***************************************************************************)
(* The loop against cleanExpired as MemPresence takes it.  Whole is what   *)
(* the sweep found, Gone what it has erased.                               *)
(***************************************************************************)
Whole == Insert(before, call.src, call.item)
Gone == DOMAIN Whole \ DOMAIN storage
Passed(k) == it = End \/ k < it

(***************************************************************************)
(* Until the loop erases the last record it has erased, of the keys it has *)
(* passed, those that IsFirstPass says, and it is not right behind one.    *)
(***************************************************************************)
FirstPass ==
  /\ \A k \in DOMAIN Whole : Passed(k) =>
       (k \in Gone <=> /\ Expired(Whole[k], now)
                      /\ \A j \in Gone : ~IsPred(DOMAIN Whole, j, k))
  /\ \A j \in Gone : Passed(j) /\ (it # End => ~IsPred(DOMAIN Whole, j, it))

\* After that the first pass is over, and any expired record may go.
LaterPass ==
  \E E \in SUBSET Gone : /\ IsFirstPass(Whole, ExpiredKeys(Whole, now), E)
                         /\ IncrementsEnd(Whole, E)

Swept ==
  pc = "sweep" =>
    /\ storage = Erase(Whole, Gone)
    /\ Gone \subseteq ExpiredKeys(Whole, now)
    /\ FirstPass \/ LaterPass

\* Only a lookup has a destination other than its source.
DestOK == pc # "idle" /\ call.op # "lookup" => call.dest = call.src

LEMMA SweptStore ==
  ASSUME IInv, Store
  PROVE  Swept'
<1>1. /\ pc = "put" /\ storage' = Insert(storage, call.src, call.item)
      /\ UNCHANGED <<call, before>>
  BY DEF Store
<1>2. storage' = Whole' /\ Storage(storage')
  BY <1>1, InsertType DEF IInv, SweepOK, TypeOK, Stored, Whole
<1>3. Gone' = {}
  BY <1>2 DEF Gone
<1>4. storage' = Erase(Whole', Gone')
  BY <1>2, <1>3 DEF Erase, Restrict, Whole, Insert
<1>5. IsBegin(DOMAIN Whole', it') /\ DOMAIN Whole' \subseteq UID
  BY <1>2 DEF Store, Storage
<1>6. \A k \in DOMAIN Whole' : ~Passed(k)'
  <2>1. call.src \in DOMAIN Whole'
    BY <1>1 DEF Whole, Insert
  <2>2. it' # End
    BY <1>5, <2>1 DEF IsBegin
  <2>3. \A k \in DOMAIN Whole' : it' <= k /\ it' \in Nat /\ k \in Nat
    BY <1>5, <2>2, UIDAssumption DEF IsBegin
  <2>. QED
    BY <2>2, <2>3 DEF Passed
<1>. QED
  BY <1>3, <1>4, <1>6 DEF Swept, FirstPass

(***************************************************************************)
(* The storage in a turn of the loop.                                      *)
(***************************************************************************)
LEMMA AtTurn ==
  ASSUME IInv, Swept, pc = "sweep", it # End
  PROVE  /\ it \in DOMAIN storage /\ DOMAIN storage = DOMAIN Whole \ Gone
         /\ DOMAIN Whole \subseteq Nat /\ Gone \subseteq DOMAIN Whole
         /\ \A k \in DOMAIN storage : storage[k] = Whole[k]
<1>1. call.src \in UID /\ call.item \in Rec /\ Storage(before)
  BY DEF IInv, SweepOK, TypeOK
<1>2. Storage(Whole)
  BY <1>1, InsertType DEF Whole
<1>3. it \in DOMAIN storage
  BY DEF IInv, SweepOK, SweepSafe
<1>4. DOMAIN storage = DOMAIN Whole \ Gone /\ \A k \in DOMAIN storage : storage[k] = Whole[k]
  BY DEF Swept, Erase, Restrict
<1>. QED
  BY <1>2, <1>3, <1>4, UIDAssumption DEF Storage, Gone

LEMMA SweptKeep ==
  ASSUME IInv, Swept, Keep
  PROVE  Swept'
<1>1. /\ pc = "sweep" /\ it # End /\ ~Expired(storage[it], now)
      /\ it' \in Increment(DOMAIN storage, it)
      /\ UNCHANGED <<storage, pc, now, call, before>>
  BY DEF Keep
<1>. DEFINE K == DOMAIN Whole
<1>2. /\ it \in DOMAIN storage /\ DOMAIN storage = K \ Gone /\ K \subseteq Nat
      /\ Gone \subseteq K /\ ~Expired(Whole[it], now)
  BY <1>1, AtTurn
<1>3. Whole' = Whole /\ Gone' = Gone
  BY <1>1 DEF Whole, Gone
<1>4. LaterPass => LaterPass'
  BY <1>1, <1>3 DEF LaterPass
<1>5. FirstPass => FirstPass'
  <2>. SUFFICES ASSUME FirstPass PROVE FirstPass'
    OBVIOUS
  <2>1. \A j \in Gone : j < it /\ ~IsPred(K, j, it)
    BY <1>1 DEF FirstPass, Passed
  <2>2. NextKey(K \ Gone, it, it') /\ it' \in (K \ Gone) \cup {End}
    BY <1>1, <1>2 DEF Increment
  <2>3. \A k \in K : Passed(k)' => k <= it
    BY <1>2, <2>1, <2>2 DEF NextKey, Passed
  <2>4. \A j \in Gone : Passed(j)' /\ (it' # End => ~IsPred(K, j, it'))
    BY <1>2, <2>1, <2>2 DEF NextKey, Passed, IsPred
  <2>5. ASSUME NEW k \in K, Passed(k)'
        PROVE  k \in Gone <=> /\ Expired(Whole[k], now)
                             /\ \A j \in Gone : ~IsPred(K, j, k)
    <3>1. CASE k = it
      BY <1>2, <3>1
    <3>2. CASE k # it
      <4>1. Passed(k)
        BY <1>2, <2>3, <2>5, <3>2 DEF Passed
      <4>. QED
        BY <4>1 DEF FirstPass
    <3>. QED
      BY <3>1, <3>2
  <2>. QED
    BY <1>1, <1>3, <2>4, <2>5 DEF FirstPass
<1>. QED
  BY <1>1, <1>3, <1>4, <1>5 DEF Swept

(***************************************************************************)
(* A turn that erases: the key behind the erased one is passed unexamined; *)
(* if there is none the first pass is over.                                *)
(***************************************************************************)
LEMMA SweptErase ==
  ASSUME IInv, Swept, EraseAt, IInv'
  PROVE  Swept'
<1>1. /\ pc = "sweep" /\ it # End /\ Expired(storage[it], now)
      /\ storage' = Erase(storage, {it})
      /\ UNCHANGED <<now, call, before>>
  BY DEF EraseAt
<1>. DEFINE K == DOMAIN Whole
            X == ExpiredKeys(Whole, now)
<1>2. /\ it \in DOMAIN storage /\ DOMAIN storage = K \ Gone /\ K \subseteq Nat
      /\ Gone \subseteq K /\ Expired(Whole[it], now) /\ it \in K /\ it \notin Gone
      /\ \A k \in DOMAIN storage : storage[k] = Whole[k]
  BY <1>1, AtTurn
<1>3. Whole' = Whole
  BY <1>1 DEF Whole
<1>4. DOMAIN storage' = (K \ Gone) \ {it} /\ Gone' = Gone \cup {it}
  BY <1>1, <1>2, <1>3 DEF Gone, Erase, Restrict
<1>5. storage' = Erase(Whole', Gone')
  BY <1>1, <1>2, <1>3, <1>4 DEF Erase, Restrict
<1>6. Gone' \subseteq X
  BY <1>1, <1>2, <1>4 DEF Swept, ExpiredKeys
<1>7. PICK n \in UID \cup {End} :
        /\ NextKey(DOMAIN storage', it, n)
        /\ it' \in Increment(DOMAIN storage', n)
  BY DEF EraseAt, IInv, NeverHangs
<1>8. LaterPass => LaterPass'
  BY <1>1, <1>3, <1>4 DEF LaterPass
<1>9. ASSUME FirstPass PROVE FirstPass' \/ LaterPass'
  <2>1. \A j \in Gone : j < it /\ ~IsPred(K, j, it)
    BY <1>1, <1>9 DEF FirstPass, Passed
  <2>2. ASSUME NEW k \in K, k <= it
        PROVE  k \in Gone' <=> k \in X /\ \A j \in Gone' : ~IsPred(K, j, k)
    <3>1. CASE k = it
      BY <1>2, <1>4, <2>1, <3>1 DEF ExpiredKeys, IsPred
    <3>2. CASE k # it
      <4>1. k < it /\ ~IsPred(K, it, k)
        BY <1>2, <2>2, <3>2 DEF IsPred
      <4>2. Passed(k)
        BY <4>1 DEF Passed
      <4>3. k \in Gone <=> /\ Expired(Whole[k], now)
                          /\ \A j \in Gone : ~IsPred(K, j, k)
        BY <1>9, <4>2 DEF FirstPass
      <4>. QED
        BY <1>4, <3>2, <4>1, <4>3 DEF ExpiredKeys
    <3>. QED
      BY <3>1, <3>2
  <2>3. CASE n = End
    <3>1. \A k \in K : k <= it
      BY <1>2, <1>4, <1>7, <2>1, <2>3 DEF NextKey
    <3>2. IsFirstPass(Whole, X, Gone')
      BY <1>6, <2>2, <3>1 DEF IsFirstPass, ExpiredKeys
    <3>3. IncrementsEnd(Whole, Gone')
      BY <1>4, <3>1 DEF IncrementsEnd
    <3>. QED
      BY <1>1, <1>3, <3>2, <3>3 DEF LaterPass
  <2>4. CASE n # End
    <3>1. /\ n \in K /\ n \notin Gone' /\ it < n
          /\ \A m \in K : m <= it \/ n <= m
      BY <1>2, <1>4, <1>7, <2>1, <2>4 DEF NextKey
    <3>2. /\ NextKey(DOMAIN storage', n, it')
          /\ it' \in DOMAIN storage' \cup {End}
      BY <1>7, <2>4 DEF Increment
    <3>3. \A k \in K : Passed(k)' => k <= n
      BY <1>2, <1>4, <2>1, <3>1, <3>2 DEF NextKey, Passed
    <3>4. \A j \in Gone' : Passed(j)' /\ (it' # End => ~IsPred(K, j, it'))
      BY <1>2, <1>4, <2>1, <3>1, <3>2 DEF NextKey, Passed, IsPred
    <3>5. IsPred(K, it, n)
      BY <1>2, <3>1 DEF IsPred
    <3>6. ASSUME NEW k \in K, Passed(k)'
          PROVE  k \in Gone' <=> /\ Expired(Whole[k], now)
                                /\ \A j \in Gone' : ~IsPred(K, j, k)
      <4>1. CASE k = n
        BY <1>4, <3>1, <3>5, <4>1
      <4>2. CASE k # n
        <5>1. k <= it
          BY <1>2, <3>1, <3>3, <3>6, <4>2
        <5>. QED
          BY <2>2, <5>1 DEF ExpiredKeys
      <4>. QED
        BY <4>1, <4>2
    <3>. QED
      BY <1>1, <1>3, <3>4, <3>6 DEF FirstPass
  <2>. QED
    BY <2>3, <2>4
<1>. QED
  BY <1>1, <1>3, <1>5, <1>6, <1>8, <1>9 DEF Swept

(***************************************************************************)
(* When the loop is over it has done what a single step of MemPresence may *)
(* do.                                                                     *)
(***************************************************************************)
LEMMA SweptIsClean ==
  ASSUME IInv, Swept, pc = "sweep", it = End
  PROVE  storage \in AfterPut(before, call.src, call.item, now)
<1>. DEFINE X == ExpiredKeys(Whole, now)
<1>1. storage = Erase(Whole, Gone) /\ Gone \in SUBSET X
  BY DEF Swept
<1>2. FirstPass => IsFirstPass(Whole, X, Gone)
  BY <1>1 DEF FirstPass, Passed, IsFirstPass, ExpiredKeys
<1>3. Gone \in Erasures(Whole, now)
  BY <1>1, <1>2 DEF Swept, LaterPass, Erasures
<1>. QED
  BY <1>1, <1>3 DEF AfterPut, CleanExpired, Whole

LEMMA SweptStep == IInv /\ IInv' /\ Swept /\ DestOK /\ [Next]_vars => (Swept /\ DestOK)'
<1>. SUFFICES ASSUME IInv, IInv', Swept, DestOK, [Next]_vars PROVE Swept' /\ DestOK'
  OBVIOUS
<1>1. CASE \E op \in Ops, u, d \in UID, a \in Addr : Begin(op, u, d, a)
  <2>1. PICK op \in Ops, u \in UID, d \in UID, a \in Addr : Begin(op, u, d, a)
    BY <1>1
  <2>. QED
    BY <2>1 DEF Begin, Swept, DestOK
<1>2. CASE Store
  BY <1>2, SweptStore DEF Store, DestOK
<1>3. CASE Keep
  BY <1>3, SweptKeep DEF Keep, DestOK
<1>4. CASE EraseAt
  BY <1>4, SweptErase DEF EraseAt, DestOK
<1>5. CASE Return \/ Get
  BY <1>5 DEF Return, Get, Leave, Swept, DestOK
<1>6. CASE Ignore \/ Tick \/ UNCHANGED vars
  <2>1. UNCHANGED <<storage, pc, it, now, call, before>>
    BY <1>6 DEF Ignore, Tick, vars
  <2>2. Whole' = Whole /\ Gone' = Gone
    BY <2>1 DEF Whole, Gone
  <2>. QED
    BY <2>1, <2>2 DEF Swept, FirstPass, LaterPass, Passed, DestOK
<1>. QED
  BY <1>1, <1>2, <1>3, <1>4, <1>5, <1>6 DEF Next, Step, Turn

(***************************************************************************)
(* The operators of PresenceStorage are the same in both specifications.   *)
(***************************************************************************)
LEMMA SameOperators ==
  /\ M!EmptyStorage = EmptyStorage
  /\ \A st, u, r, t : M!AfterPut(st, u, r, t) = AfterPut(st, u, r, t)
  /\ \A st, u, t : M!AfterGet(st, u, t) = AfterGet(st, u, t)
  /\ \A st, u, t : M!Hit(st, u, t) <=> Hit(st, u, t)
<1>1. M!EmptyStorage = EmptyStorage
  BY DEF M!EmptyStorage, EmptyStorage
<1>2. \A st, E : M!Erase(st, E) = Erase(st, E)
  BY DEF M!Erase, Erase, M!Restrict, Restrict
<1>3. \A st, t : M!ExpiredKeys(st, t) = ExpiredKeys(st, t)
  BY DEF M!ExpiredKeys, ExpiredKeys, M!Expired, Expired
<1>4. \A st, X, E : M!IsFirstPass(st, X, E) <=> IsFirstPass(st, X, E)
  BY DEF M!IsFirstPass, IsFirstPass, M!IsPred, IsPred
<1>5. \A st, E : M!IncrementsEnd(st, E) <=> IncrementsEnd(st, E)
  BY DEF M!IncrementsEnd, IncrementsEnd
<1>6. \A st, t : M!Erasures(st, t) = Erasures(st, t)
  BY <1>3, <1>4, <1>5 DEF M!Erasures, Erasures
<1>7. \A st, t : M!CleanExpired(st, t) = CleanExpired(st, t)
  BY <1>2, <1>6 DEF M!CleanExpired, CleanExpired
<1>8. \A st, u, r : M!Insert(st, u, r) = Insert(st, u, r)
  BY DEF M!Insert, Insert
<1>9. \A st, u, t : M!Hit(st, u, t) <=> Hit(st, u, t)
  BY DEF M!Hit, Hit, M!Expired, Expired
<1>10. \A st, u, t : M!AfterGet(st, u, t) = AfterGet(st, u, t)
  BY <1>2, <1>9 DEF M!AfterGet, AfterGet
<1>. QED
  BY <1>1, <1>7, <1>8, <1>9, <1>10 DEF M!AfterPut, AfterPut

(***************************************************************************)
(* The clock reads of the call are a lag and a delay that MemPresence has. *)
(***************************************************************************)
LEMMA SweptIsCall ==
  ASSUME IInv, Swept, pc = "sweep", it = End
  PROVE  storage \in M!AfterCall(call.src, call.item.addr)
<1>. DEFINE m == call.item.modified
            lag == clock - m
            late == clock - now
<1>1. /\ call.item \in Rec /\ clock \in Int /\ now \in Int /\ m \in Int
      /\ m <= now /\ now <= clock /\ clock <= m + MaxLag /\ MaxLag \in Nat
  BY LagAssumption DEF IInv, SweepOK, TypeOK, Reads, Rec
<1>2. lag \in 0 .. MaxLag /\ late \in 0 .. lag
  BY <1>1
<1>3. clock - lag = m /\ clock - late = now
  BY <1>1
<1>4. call.item = [modified |-> m, addr |-> call.item.addr]
  BY <1>1 DEF Rec
<1>5. M!Item(call.item.addr, lag) = call.item
  BY <1>3, <1>4 DEF M!Item
<1>6. storage \in M!AfterPut(before, call.src, M!Item(call.item.addr, lag), clock - late)
  BY <1>3, <1>5, SweptIsClean, SameOperators
<1>. QED
  BY <1>2, <1>6 DEF M!AfterCall

LEMMA MemPresenceInit == Init => M!Init
BY SameOperators DEF Init, M!Init

(***************************************************************************)
(* The call happens at its return, all other steps of it are stutters.     *)
(***************************************************************************)
LEMMA MemPresenceStep ==
  IInv /\ Swept /\ DestOK /\ [Next]_vars => [M!Next]_(M!vars)
<1>. SUFFICES ASSUME IInv, Swept, DestOK, [Next]_vars PROVE [M!Next]_(M!vars)
  OBVIOUS
<1>1. CASE \E op \in Ops, u, d \in UID, a \in Addr : Begin(op, u, d, a)
  <2>1. PICK op \in Ops, u \in UID, d \in UID, a \in Addr : Begin(op, u, d, a)
    BY <1>1
  <2>. QED
    BY <2>1 DEF Begin, M!vars
<1>2. CASE Store \/ Turn
  BY <1>2 DEF Store, Turn, Keep, EraseAt, M!vars
<1>3. CASE Return
  <2>1. /\ pc = "sweep" /\ it = End /\ pc' = "idle" /\ UNCHANGED <<storage, clock>>
        /\ call.op # "lookup"
        /\ answer' = IF call.op = "ping" THEN [uid |-> call.src, addr |-> call.item.addr]
                                         ELSE NoAnswer
    BY <1>3 DEF Return, Leave
  <2>2. storage' \in M!AfterCall(call.src, call.item.addr)
    BY <2>1, SweptIsCall
  <2>3. call.src \in UID /\ call.item.addr \in Addr
    BY <2>1 DEF IInv, SweepOK, TypeOK, Rec
  <2>4. M!Ping(call.src, call.item.addr) \/ M!Learn(call.src, call.item.addr)
    BY <2>1, <2>2 DEF M!Ping, M!Learn
  <2>. QED
    BY <2>3, <2>4 DEF M!Next, M!Puts
<1>4. CASE Get
  <2>1. /\ pc = "sweep" /\ it = End /\ pc' = "idle" /\ clock' = clock
        /\ storage' = AfterGet(storage, call.dest, clock)
        /\ answer' = [uid |-> call.dest,
                      addr |-> IF Hit(storage, call.dest, clock)
                                 THEN storage[call.dest].addr ELSE NoAddr]
    BY <1>4 DEF Get, Leave
  <2>2. storage \in M!AfterCall(call.src, call.item.addr)
    BY <2>1, SweptIsCall
  <2>3. call.src \in UID /\ call.dest \in UID /\ call.item.addr \in Addr
    BY <2>1 DEF IInv, SweepOK, TypeOK, Rec
  <2>4. M!Lookup(call.src, call.dest, call.item.addr)
    BY <2>1, <2>2, SameOperators DEF M!Lookup
  <2>. QED
    BY <2>3, <2>4 DEF M!Next, M!Puts
<1>5. CASE Ignore
  BY <1>5 DEF Ignore, M!Ignore, M!Next
<1>6. CASE Tick
  BY <1>6 DEF Tick, M!Tick, M!Next
<1>7. CASE UNCHANGED vars
  BY <1>7 DEF vars, M!vars
<1>. QED
  BY <1>1, <1>2, <1>3, <1>4, <1>5, <1>6, <1>7 DEF Next, Step

(***************************************************************************)
(* The loop of cleanExpired, turn by turn and with the clock moving under  *)
(* it, does what MemPresence says of a whole call of query() or put().     *)
(***************************************************************************)
THEOREM LoopImplementsMemPresence == Spec => ImplementsMemPresence
<1>1. Init => Swept /\ DestOK
  BY DEF Init, Swept, DestOK
<1>. QED
  BY <1>1, IInvInit, IInvStep, SweptStep, MemPresenceInit, MemPresenceStep, PTL
     DEF Spec, ImplementsMemPresence, M!Spec

-------------------------------------------------------------------------------
(***************************************************************************)
(* The variant of the loop.                                                *)
(***************************************************************************)
Finite == IsFiniteSet(DOMAIN storage)

LEMMA FiniteStep == Finite /\ [Next]_vars => Finite'
<1>. SUFFICES ASSUME Finite, [Next]_vars PROVE Finite'
  OBVIOUS
<1>1. CASE Store
  <2>1. DOMAIN storage' = DOMAIN storage \cup {call.src}
    BY <1>1 DEF Store, Insert
  <2>. QED
    BY <2>1, FS_AddElement DEF Finite
<1>2. CASE ~Store
  <2>1. DOMAIN storage' \subseteq DOMAIN storage
    BY <1>2 DEF Next, Begin, Step, Turn, Keep, EraseAt, Return, Get, Ignore, Tick, vars,
                AfterGet, Erase, Restrict
  <2>. QED
    BY <2>1, FS_Subset DEF Finite
<1>. QED
  BY <1>1, <1>2

(***************************************************************************)
(* Two sets suffice to see that a turn makes the measure smaller.          *)
(***************************************************************************)
LEMMA AtMostTwo ==
  \A S, m : (\A i, j \in S \ {m} : i = j) => (IsFiniteSet(S) /\ Cardinality(S) <= 2)
<1>. SUFFICES ASSUME NEW S, NEW m, \A i, j \in S \ {m} : i = j
              PROVE  IsFiniteSet(S) /\ Cardinality(S) <= 2
  OBVIOUS
<1>1. \E i : S \subseteq {m} \cup {i}
  OBVIOUS
<1>2. PICK i : S \subseteq {m} \cup {i}
  BY <1>1
<1>3. IsFiniteSet({m}) /\ Cardinality({m}) = 1
  BY FS_Singleton
<1>4. IsFiniteSet({m} \cup {i}) /\ Cardinality({m} \cup {i}) <= 2
  BY <1>3, FS_AddElement
<1>5. IsFiniteSet(S) /\ Cardinality(S) <= Cardinality({m} \cup {i})
  BY <1>2, <1>4, FS_Subset
<1>6. Cardinality(S) \in Nat /\ Cardinality({m} \cup {i}) \in Nat
  BY <1>4, <1>5, FS_CardinalityType
<1>. QED
  BY <1>4, <1>5, <1>6

LEMMA KeepRunsOut ==
  ASSUME IInv, Finite, Keep
  PROVE  TurnsLeft' < TurnsLeft
<1>1. /\ pc = "sweep" /\ it # End /\ storage' = storage
      /\ it' \in Increment(DOMAIN storage, it)
  BY DEF Keep
<1>2. it \in DOMAIN storage /\ DOMAIN storage \subseteq Nat
  BY <1>1, UIDAssumption DEF IInv, SweepOK, SweepSafe, TypeOK, Storage
<1>3. it \in Ahead /\ Ahead' \subseteq Ahead \ {it}
  BY <1>1, <1>2 DEF Ahead, Increment, NextKey
<1>4. IsFiniteSet(Ahead)
  BY FS_Subset DEF Finite, Ahead
<1>5. IsFiniteSet(Ahead \ {it}) /\ Cardinality(Ahead \ {it}) = Cardinality(Ahead) - 1
  BY <1>3, <1>4, FS_RemoveElement
<1>6. IsFiniteSet(Ahead') /\ Cardinality(Ahead') <= Cardinality(Ahead \ {it})
  BY <1>3, <1>5, FS_Subset
<1>7. /\ Cardinality(Ahead) \in Nat /\ Cardinality(Ahead') \in Nat
      /\ Cardinality(DOMAIN storage) \in Nat
  BY <1>4, <1>6, FS_CardinalityType DEF Finite
<1>8. Cardinality(DOMAIN storage)' = Cardinality(DOMAIN storage)
  BY <1>1
<1>. QED
  BY <1>5, <1>6, <1>7, <1>8 DEF TurnsLeft

(***************************************************************************)
(* Behind the last record the loop goes back, but to one of the last two.  *)
(***************************************************************************)
LEMMA EraseRunsOut ==
  ASSUME IInv, IInv', Finite, EraseAt
  PROVE  TurnsLeft' < TurnsLeft
<1>. DEFINE K == DOMAIN storage
<1>1. pc = "sweep" /\ it # End /\ storage' = Erase(storage, {it})
  BY DEF EraseAt
<1>2. it \in K /\ K \subseteq Nat
  BY <1>1, UIDAssumption DEF IInv, SweepOK, SweepSafe, TypeOK, Storage
<1>3. K' = K \ {it}
  BY <1>1 DEF Erase, Restrict
<1>4. PICK n \in UID \cup {End} : NextKey(K', it, n) /\ it' \in Increment(K', n)
  BY DEF EraseAt, IInv, NeverHangs
<1>5. IsFiniteSet(K) /\ IsFiniteSet(K') /\ Cardinality(K') = Cardinality(K) - 1
  BY <1>2, <1>3, FS_RemoveElement DEF Finite
<1>6. it \in Ahead /\ IsFiniteSet(Ahead) /\ IsFiniteSet(Ahead')
  <2>1. it \in Ahead /\ Ahead \subseteq K /\ Ahead' \subseteq K'
    BY <1>1, <1>2 DEF Ahead
  <2>. QED
    BY <1>5, <2>1, FS_Subset
<1>7. /\ Cardinality(K) \in Nat /\ Cardinality(K') \in Nat
      /\ Cardinality(Ahead) \in Nat /\ Cardinality(Ahead') \in Nat /\ Cardinality(Ahead) # 0
  BY <1>5, <1>6, FS_CardinalityType, FS_EmptySet
<1>8. CASE n # End
  <2>1. Ahead' \subseteq Ahead
    BY <1>1, <1>2, <1>3, <1>4, <1>8 DEF Ahead, Increment, NextKey
  <2>2. Cardinality(Ahead') <= Cardinality(Ahead)
    BY <1>6, <2>1, FS_Subset
  <2>. QED
    BY <1>5, <1>7, <2>2 DEF TurnsLeft
<1>9. CASE n = End
  <2>1. it' \in K' /\ \A i, j \in K' : it' < i /\ it' < j => i = j
    BY <1>4, <1>9 DEF Increment
  <2>2. \A i, j \in Ahead' \ {it'} : i = j
    BY <1>2, <1>3, <2>1 DEF Ahead
  <2>3. PICK S, m : S = Ahead' /\ m = it'
    OBVIOUS
  <2>4. \A i, j \in S \ {m} : i = j
    BY <2>2, <2>3
  <2>5. Cardinality(S) <= 2
    BY <2>4, AtMostTwo
  <2>6. Cardinality(Ahead') <= 2
    BY <2>3, <2>5
  <2>. QED
    BY <1>5, <1>7, <2>6 DEF TurnsLeft
<1>. QED
  BY <1>8, <1>9

(***************************************************************************)
(* Every turn of the loop takes from the turns that are left, which are no *)
(* more than three for each record: the loop ends, and it is linear.       *)
(***************************************************************************)
THEOREM LoopIsLinear == Spec => TurnsRunOut
<1>1. Init => Finite
  BY FS_EmptySet DEF Init, Finite, EmptyStorage
<1>2. IInv /\ IInv' /\ Finite /\ [Next]_vars => [Turn => TurnsLeft' < TurnsLeft]_vars
  BY KeepRunsOut, EraseRunsOut DEF Turn
<1>. QED
  BY <1>1, <1>2, IInvInit, IInvStep, FiniteStep, PTL DEF Spec, TurnsRunOut

(***************************************************************************)
(* The measure is a number, and bounds what a call has to do from the      *)
(* number of records that it finds.                                        *)
(***************************************************************************)
THEOREM LoopIsBounded ==
  Spec => [](/\ TurnsLeft \in Nat
             /\ TurnsLeft <= 3 * Cardinality(DOMAIN storage))
<1>1. Init => Finite
  BY FS_EmptySet DEF Init, Finite, EmptyStorage
<1>2. Finite => /\ TurnsLeft \in Nat
                /\ TurnsLeft <= 3 * Cardinality(DOMAIN storage)
  <2>. SUFFICES ASSUME Finite PROVE /\ TurnsLeft \in Nat
                                    /\ TurnsLeft <= 3 * Cardinality(DOMAIN storage)
    OBVIOUS
  <2>1. IsFiniteSet(Ahead) /\ Cardinality(Ahead) <= Cardinality(DOMAIN storage)
    BY FS_Subset DEF Finite, Ahead
  <2>2. Cardinality(Ahead) \in Nat /\ Cardinality(DOMAIN storage) \in Nat
    BY <2>1, FS_CardinalityType DEF Finite
  <2>. QED
    BY <2>1, <2>2 DEF TurnsLeft
<1>. QED
  BY <1>1, <1>2, FiniteStep, PTL DEF Spec
===============================================================================
