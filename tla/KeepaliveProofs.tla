---------------------------- MODULE KeepaliveProofs ----------------------------
(***************************************************************************)
(* The safety of Keepalive for every set of clients and addresses and      *)
(* every expiration, period and delay that PeriodAssumption allows.        *)
(***************************************************************************)
EXTENDS Keepalive, StorageLemmas

Age(r) == 0 - r.modified

PingOf(m, c) == m.kind = "ping" /\ m.uid = c

\* Ticks since the last ping was sent, if the client has sent one
Elapsed(c) == DEF_PING_TIMEOUT - timer[c]

\* The last ping is under way.
Pending(c) == \E m \in net : PingOf(m, c) /\ m.age = Elapsed(c)

\* Not longer ago than the last ping, or the one before while that is under way
Recent(c, x) ==
  x <= Elapsed(c) \/ (Pending(c) /\ x <= DEF_PING_TIMEOUT + Elapsed(c))

-------------------------------------------------------------------------------
(***************************************************************************)
(* The inductive invariant.                                                *)
(***************************************************************************)

\* No record is from the future.
Dates ==
  /\ \A u \in DOMAIN storage : Age(storage[u]) >= 0
  /\ \A c \in UID : \A u \in DOMAIN cache[c] : Age(cache[c][u]) >= 0

\* What a stopped client leaves behind is at least as old as its stop.
StoppedOK ==
  \A c \in UID \ up :
    /\ timer[c] = 0 /\ ~heard[c]
    /\ \A m \in net : PingOf(m, c) => m.age >= since[c]
    /\ Found(storage, c) => Age(storage[c]) + MaxDelay >= since[c]

(***************************************************************************)
(* The pings of a running client come from its address, or from before it  *)
(* moved; they are the last one sent, or older than its start.             *)
(***************************************************************************)
PingsOK ==
  \A c \in up : \A m \in net : PingOf(m, c) =>
    /\ m.addr = home[c] \/ m.age >= since[c]
    /\ \/ m.age = Elapsed(c)
       \/ since[c] <= Elapsed(c) /\ m.age >= Elapsed(c)
       \/ since[c] = 0 /\ timer[c] = 0

\* The record of a client that is heard is recent, and so is a move it does not show.
HeardOK ==
  \A c \in up : heard[c] =>
    /\ c \in DOMAIN storage
    /\ Recent(c, Age(storage[c]))
    /\ storage[c].addr = home[c] \/ Recent(c, since[c])

\* What a client has learned about itself is true, or older than its move.
CacheOK ==
  \A c \in up :
    Found(cache[c], c) => cache[c][c].addr = home[c] \/ Age(cache[c][c]) >= since[c]

IInv == TypeOK /\ Dates /\ StoppedOK /\ PingsOK /\ HeardOK /\ CacheOK

-------------------------------------------------------------------------------
(***************************************************************************)
(* The arithmetic of the constants, and what put() leaves.                 *)
(***************************************************************************)
LEMMA Constants ==
  /\ DEF_PING_TIMEOUT \in Nat \ {0} /\ MaxDelay \in Nat /\ MaxFaults \in Nat
  /\ DEF_EXPIRATION_SEC \in Nat
  /\ MaxDelay < DEF_PING_TIMEOUT /\ DEF_PING_TIMEOUT + MaxDelay <= DEF_EXPIRATION_SEC
  /\ Settled = DEF_EXPIRATION_SEC + 2 * MaxDelay + 1 /\ Settled \in Nat
  /\ Calm = DEF_PING_TIMEOUT + MaxDelay + 1 /\ Calm \in Nat
BY PeriodAssumption, ExpirationAssumption DEF Settled, Calm

LEMMA ExpiredByAge ==
  ASSUME NEW r \in Rec
  PROVE  Expired(r, 0) <=> Age(r) > DEF_EXPIRATION_SEC
<1>1. r.modified \in Int
  BY DEF Rec
<1>2. (0 - r.modified) \div 1 = 0 - r.modified
  BY <1>1
<1> QED
  BY <1>2, PeriodAssumption DEF Expired, Age

LEMMA FreshRecord ==
  ASSUME NEW a \in Addr
  PROVE  Fresh(a) \in Rec /\ Age(Fresh(a)) = 0 /\ Fresh(a).addr = a /\ ~Expired(Fresh(a), 0)
<1>1. Fresh(a) \in Rec /\ Fresh(a).modified = 0 /\ Fresh(a).addr = a
  BY DEF Fresh, Rec
<1>2. Age(Fresh(a)) = 0
  BY <1>1 DEF Age
<1> QED
  BY <1>1, <1>2, ExpiredByAge, Constants

LEMMA PutLeaves ==
  ASSUME NEW st, Storage(st), NEW u \in UID, NEW a \in Addr,
         NEW left \in AfterPut(st, u, Fresh(a), 0)
  PROVE  /\ Storage(left)
         /\ u \in DOMAIN left /\ left[u] = Fresh(a)
         /\ \A k \in DOMAIN left \ {u} : k \in DOMAIN st /\ left[k] = st[k]
         /\ \A k \in DOMAIN st : ~Expired(st[k], 0) => k \in DOMAIN left
<1> DEFINE in == Insert(st, u, Fresh(a))
<1>1. Storage(in)
  BY InsertType, FreshRecord
<1>2. /\ DOMAIN in = DOMAIN st \cup {u} /\ in[u] = Fresh(a)
      /\ \A k \in DOMAIN st \ {u} : in[k] = st[k]
  BY DEF Insert
<1> HIDE DEF in
<1>3. left \in CleanExpired(in, 0)
  BY DEF AfterPut, in
<1>4. PICK G \in SUBSET ExpiredKeys(in, 0) : left = Erase(in, G)
  BY <1>3, CleanErasesExpired
<1>5. DOMAIN left = DOMAIN in \ G /\ \A k \in DOMAIN left : left[k] = in[k]
  BY <1>4 DEF Erase, Restrict
<1>6. Storage(left)
  BY <1>1, <1>4, EraseType
<1>7. u \notin G /\ \A k \in G : k \in DOMAIN in /\ Expired(in[k], 0)
  BY <1>2, FreshRecord DEF ExpiredKeys
<1> QED
  BY <1>2, <1>5, <1>6, <1>7

\* A tick makes a record older, unless it has expired already.
LEMMA AgedRecords ==
  ASSUME NEW st, Storage(st)
  PROVE  /\ Storage(Aged(st)) /\ DOMAIN Aged(st) = DOMAIN st
         /\ \A u \in DOMAIN st :
              /\ Aged(st)[u].addr = st[u].addr
              /\ Age(Aged(st)[u]) >= Age(st[u])
              /\ Age(Aged(st)[u]) <= Age(st[u]) + 1
              /\ ~Expired(Aged(st)[u], 0) =>
                   ~Expired(st[u], 0) /\ Age(Aged(st)[u]) = Age(st[u]) + 1
<1>1. DOMAIN Aged(st) = DOMAIN st
  BY DEF Aged
<1>2. ASSUME NEW u \in DOMAIN st
      PROVE  /\ Aged(st)[u] \in Rec
             /\ Aged(st)[u].addr = st[u].addr
             /\ Age(Aged(st)[u]) >= Age(st[u])
             /\ Age(Aged(st)[u]) <= Age(st[u]) + 1
             /\ ~Expired(Aged(st)[u], 0) =>
                  ~Expired(st[u], 0) /\ Age(Aged(st)[u]) = Age(st[u]) + 1
  <2>1. st[u] \in Rec
    BY DEF Storage
  <2>2. CASE Expired(st[u], 0)
    <3>1. Aged(st)[u] = st[u]
      BY <2>2 DEF Aged
    <3>2. Age(st[u]) \in Int
      BY <2>1 DEF Rec, Age
    <3> QED
      BY <2>1, <2>2, <3>1, <3>2
  <2>3. CASE ~Expired(st[u], 0)
    <3>1. Aged(st)[u] = [st[u] EXCEPT !.modified = @ - 1]
      BY <2>3 DEF Aged
    <3>2. Aged(st)[u] \in Rec /\ Aged(st)[u].addr = st[u].addr
          /\ Aged(st)[u].modified = st[u].modified - 1 /\ st[u].modified \in Int
      BY <2>1, <3>1 DEF Rec
    <3> QED
      BY <2>3, <3>2 DEF Age
  <2> QED
    BY <2>2, <2>3
<1>3. Aged(st) \in [DOMAIN st -> Rec]
  <2>1. Aged(st) = [u \in DOMAIN st |-> Aged(st)[u]]
    BY DEF Aged
  <2> QED
    BY <1>2, <2>1
<1> QED
  BY <1>1, <1>2, <1>3 DEF Storage

\* The age of a record is an integer, and none that can be found is too old.
LEMMA FoundAge ==
  ASSUME NEW st, Storage(st), NEW u \in DOMAIN st
  PROVE  /\ Age(st[u]) \in Int
         /\ Found(st, u) <=> Age(st[u]) <= DEF_EXPIRATION_SEC
<1>1. st[u] \in Rec
  BY DEF Storage
<1>2. Age(st[u]) \in Int
  BY <1>1 DEF Rec, Age
<1> QED
  BY <1>1, <1>2, ExpiredByAge, Constants DEF Found, Hit

LEMMA DatagramType ==
  ASSUME NEW kind \in Kinds, NEW c \in UID, NEW a \in Addr
  PROVE  /\ Datagram(kind, c, a) \in [kind : Kinds, uid : UID, addr : Addr, age : 0 .. MaxDelay]
         /\ Datagram(kind, c, a).kind = kind /\ Datagram(kind, c, a).uid = c
         /\ Datagram(kind, c, a).addr = a /\ Datagram(kind, c, a).age = 0
BY Constants DEF Datagram

\* The record of a client that is heard can be found.
LEMMA RecentIsFound ==
  ASSUME TypeOK, NEW c \in UID, c \in DOMAIN storage, Recent(c, Age(storage[c]))
  PROVE  Found(storage, c)
<1>1. Elapsed(c) \in 0 .. DEF_PING_TIMEOUT
  BY Constants DEF TypeOK, Elapsed
<1>2. Pending(c) => Elapsed(c) <= MaxDelay
  BY <1>1, Constants DEF Pending, TypeOK
<1>3. Age(storage[c]) \in Int /\ Storage(storage)
  BY FoundAge DEF TypeOK
<1>4. Age(storage[c]) <= DEF_EXPIRATION_SEC
  BY <1>1, <1>2, <1>3, Constants DEF Recent
<1> QED
  BY <1>3, <1>4, FoundAge

-------------------------------------------------------------------------------
(***************************************************************************)
(* The invariant holds initially and is kept by every action.              *)
(***************************************************************************)
LEMMA EmptyStorageType == Storage(EmptyStorage) /\ DOMAIN EmptyStorage = {}
BY DEF Storage, EmptyStorage

LEMMA InitEstablishes == Init => IInv
<1> SUFFICES ASSUME Init PROVE IInv
  OBVIOUS
<1>1. TypeOK
  BY EmptyStorageType, Constants DEF Init, TypeOK
<1>2. Dates
  BY EmptyStorageType DEF Init, Dates
<1>3. StoppedOK /\ PingsOK /\ HeardOK
  BY DEF Init, StoppedOK, PingsOK, HeardOK
<1>4. CacheOK
  BY EmptyStorageType DEF Init, CacheOK, Found, Hit
<1> QED
  BY <1>1, <1>2, <1>3, <1>4 DEF IInv

LEMMA OnTimerKeeps ==
  ASSUME IInv, NEW c \in UID, OnTimer(c)
  PROVE  IInv'
<1> DEFINE p == Datagram("ping", c, home[c])
<1>1. /\ c \in up /\ timer[c] = 0 /\ net' = net \cup {p}
      /\ timer' = [timer EXCEPT ![c] = DEF_PING_TIMEOUT]
      /\ UNCHANGED <<storage, up, home, cache, faults, calm, heard, since>>
  BY DEF OnTimer
<1>2. /\ TypeOK /\ timer \in [UID -> 0 .. DEF_PING_TIMEOUT] /\ since \in [UID -> 0 .. Settled]
      /\ up \subseteq UID /\ \A m \in net : m.age \in 0 .. MaxDelay
  BY DEF IInv, TypeOK
<1>3. p.kind = "ping" /\ p.uid = c /\ p.addr = home[c] /\ p.age = 0
      /\ p \in [kind : Kinds, uid : UID, addr : Addr, age : 0 .. MaxDelay]
  BY <1>2, DatagramType DEF Kinds, TypeOK
<1> HIDE DEF p
<1>4. /\ timer'[c] = DEF_PING_TIMEOUT /\ Elapsed(c) = DEF_PING_TIMEOUT /\ Elapsed(c)' = 0
      /\ \A d \in UID \ {c} : timer'[d] = timer[d] /\ Elapsed(d)' = Elapsed(d)
  BY <1>1, <1>2, Constants DEF Elapsed
<1>5. TypeOK'
  BY <1>1, <1>2, <1>3, Constants DEF TypeOK
<1>6. Dates' /\ CacheOK'
  BY <1>1 DEF IInv, Dates, CacheOK
<1>7. StoppedOK'
  BY <1>1, <1>2, <1>3, <1>4 DEF IInv, StoppedOK, PingOf
<1>8. PingsOK'
  <2> SUFFICES ASSUME NEW d \in up, NEW m \in net', PingOf(m, d)
               PROVE  /\ m.addr = home[d] \/ m.age >= since[d]
                      /\ \/ m.age = Elapsed(d)'
                         \/ since[d] <= Elapsed(d)' /\ m.age >= Elapsed(d)'
                         \/ since[d] = 0 /\ timer'[d] = 0
    BY <1>1 DEF PingsOK, PingOf
  <2>1. CASE m = p
    BY <1>3, <1>4, <2>1 DEF PingOf
  <2>2. CASE m \in net /\ d # c
    BY <1>2, <1>4, <2>2 DEF IInv, PingsOK
  <2>3. CASE m \in net /\ d = c
    <3>1. m.age \in 0 .. MaxDelay /\ since[c] \in 0 .. Settled
      BY <1>1, <1>2, <2>3
    <3>2. m.age # Elapsed(c) /\ ~(m.age >= Elapsed(c))
      BY <1>4, <3>1, Constants
    <3>3. since[c] = 0
      BY <2>3, <3>2 DEF IInv, PingsOK
    <3> QED
      BY <1>4, <2>3, <3>1, <3>3 DEF IInv, PingsOK
  <2> QED
    BY <1>1, <2>1, <2>2, <2>3
<1>9. HeardOK'
  <2> SUFFICES ASSUME NEW d \in up, heard[d]
               PROVE  /\ d \in DOMAIN storage
                      /\ Recent(d, Age(storage[d]))'
                      /\ storage[d].addr = home[d] \/ Recent(d, since[d])'
    BY <1>1 DEF HeardOK, Age
  <2>1. /\ d \in DOMAIN storage /\ Recent(d, Age(storage[d]))
        /\ storage[d].addr = home[d] \/ Recent(d, since[d])
    BY DEF IInv, HeardOK
  <2>2. CASE d = c
    <3>1. ~Pending(c)
      BY <1>2, <1>4, Constants DEF Pending
    <3>2. Pending(c)'
      BY <1>1, <1>3, <1>4 DEF Pending, PingOf
    <3>3. \A x \in Int : Recent(c, x) => x <= DEF_PING_TIMEOUT
      BY <1>4, <3>1 DEF Recent
    <3>4. Age(storage[d]) \in Int /\ since[d] \in Int
      BY <1>2, <2>1, FoundAge DEF TypeOK
    <3>5. DEF_PING_TIMEOUT + Elapsed(c)' = DEF_PING_TIMEOUT
      BY <1>4, Constants
    <3>6. Age(storage[d]) <= DEF_PING_TIMEOUT => Recent(d, Age(storage[d]))'
      BY <1>1, <2>2, <3>2, <3>5 DEF Recent, Age
    <3>7. since[d] <= DEF_PING_TIMEOUT => Recent(d, since[d])'
      BY <1>1, <2>2, <3>2, <3>5 DEF Recent
    <3> QED
      BY <2>1, <2>2, <3>3, <3>4, <3>6, <3>7
  <2>3. CASE d # c
    <3>1. Elapsed(d)' = Elapsed(d) /\ (Pending(d) => Pending(d)')
      BY <1>1, <1>2, <1>4, <2>3 DEF Pending
    <3> QED
      BY <1>1, <2>1, <3>1 DEF Recent, Age
  <2> QED
    BY <2>2, <2>3
<1> QED
  BY <1>5, <1>6, <1>7, <1>8, <1>9 DEF IInv

LEMMA ServiceReadKeeps ==
  ASSUME IInv, NEW m, NEW again \in SUBSET {m}, ServiceRead(m, again),
         faults' \in 0 .. MaxFaults, calm' \in 0 .. Calm
  PROVE  IInv'
<1> DEFINE p == Datagram("pong", m.uid, m.addr)
<1>1. /\ m \in net /\ m.kind = "ping" /\ storage' \in AfterPut(storage, m.uid, Fresh(m.addr), 0)
      /\ net' = (net \ {m}) \cup again \cup {p}
      /\ heard' = [heard EXCEPT ![m.uid] = m.uid \in up]
      /\ UNCHANGED <<up, timer, home, cache, since>>
  BY DEF ServiceRead, client
<1>2. /\ TypeOK /\ timer \in [UID -> 0 .. DEF_PING_TIMEOUT] /\ since \in [UID -> 0 .. Settled]
      /\ up \subseteq UID /\ Storage(storage) /\ heard \in [UID -> BOOLEAN]
      /\ m.uid \in UID /\ m.addr \in Addr /\ m.age \in 0 .. MaxDelay
  BY <1>1 DEF IInv, TypeOK
<1>3. /\ p.kind = "pong"
      /\ p \in [kind : Kinds, uid : UID, addr : Addr, age : 0 .. MaxDelay]
  BY <1>2, DatagramType DEF Kinds
<1> HIDE DEF p
<1>4. /\ \A n \in net' : n.kind = "ping" => n \in net
      /\ \A n \in net : n # m => n \in net'
  BY <1>1, <1>3
<1>5. /\ Storage(storage') /\ m.uid \in DOMAIN storage' /\ storage'[m.uid] = Fresh(m.addr)
      /\ \A k \in DOMAIN storage' \ {m.uid} : k \in DOMAIN storage /\ storage'[k] = storage[k]
      /\ \A k \in DOMAIN storage : ~Expired(storage[k], 0) => k \in DOMAIN storage'
  BY <1>1, <1>2, PutLeaves
<1>6. Age(Fresh(m.addr)) = 0 /\ Fresh(m.addr).addr = m.addr
  BY <1>2, FreshRecord
<1>7. TypeOK'
  <2>1. net' \subseteq [kind : Kinds, uid : UID, addr : Addr, age : 0 .. MaxDelay]
    BY <1>1, <1>3 DEF IInv, TypeOK
  <2>2. heard' \in [UID -> BOOLEAN]
    BY <1>1, <1>2
  <2> QED
    BY <1>1, <1>5, <2>1, <2>2 DEF IInv, TypeOK
<1>8. Dates'
  <2>1. \A u \in DOMAIN storage' : Age(storage'[u]) >= 0
    BY <1>5, <1>6 DEF IInv, Dates
  <2> QED
    BY <1>1, <2>1 DEF IInv, Dates, Age
<1>9. StoppedOK'
  <2> SUFFICES ASSUME NEW c \in UID \ up
               PROVE  /\ timer[c] = 0 /\ ~heard'[c]
                      /\ \A n \in net' : PingOf(n, c) => n.age >= since[c]
                      /\ Found(storage', c) => Age(storage'[c]) + MaxDelay >= since[c]
    BY <1>1 DEF StoppedOK, Age, Found, Hit, Expired, PingOf
  <2>1. /\ timer[c] = 0 /\ ~heard[c]
        /\ \A n \in net : PingOf(n, c) => n.age >= since[c]
        /\ Found(storage, c) => Age(storage[c]) + MaxDelay >= since[c]
    BY DEF IInv, StoppedOK
  <2>2. ~heard'[c]
    BY <1>1, <1>2, <2>1
  <2>3. \A n \in net' : PingOf(n, c) => n.age >= since[c]
    BY <1>4, <2>1 DEF PingOf
  <2>4. CASE c = m.uid
    <3>1. m.age >= since[c]
      BY <1>1, <2>1, <2>4 DEF PingOf
    <3> QED
      BY <1>2, <1>5, <1>6, <2>1, <2>2, <2>3, <2>4, <3>1, Constants
  <2>5. CASE c # m.uid
    <3>1. Found(storage', c) => Found(storage, c) /\ storage'[c] = storage[c]
      BY <1>5, <2>5 DEF Found, Hit
    <3> QED
      BY <2>1, <2>2, <2>3, <3>1
  <2> QED
    BY <2>4, <2>5
<1>10. PingsOK'
  BY <1>1, <1>4 DEF IInv, PingsOK, PingOf, Elapsed
<1>11. HeardOK'
  <2> SUFFICES ASSUME NEW c \in up, heard'[c]
               PROVE  /\ c \in DOMAIN storage'
                      /\ Recent(c, Age(storage[c]))'
                      /\ storage'[c].addr = home[c] \/ Recent(c, since[c])'
    BY <1>1 DEF HeardOK, Age
  <2>1. Elapsed(c)' = Elapsed(c) /\ Elapsed(c) \in 0 .. DEF_PING_TIMEOUT
    BY <1>1, <1>2, Constants DEF Elapsed
  <2>2. CASE c = m.uid
    <3>1. Age(storage[c])' = 0 /\ storage'[c].addr = m.addr
      BY <1>5, <1>6, <2>2 DEF Age
    <3>2. m.addr = home[c] \/ since[c] <= Elapsed(c)
      <4>1. /\ m.addr = home[c] \/ m.age >= since[c]
            /\ \/ m.age = Elapsed(c)
               \/ since[c] <= Elapsed(c) /\ m.age >= Elapsed(c)
               \/ since[c] = 0 /\ timer[c] = 0
        BY <1>1, <2>2 DEF IInv, PingsOK, PingOf
      <4>2. since[c] \in Int
        BY <1>2
      <4> QED
        BY <1>2, <2>1, <4>1, <4>2
    <3> QED
      BY <1>1, <1>5, <2>1, <2>2, <3>1, <3>2 DEF Recent
  <2>3. CASE c # m.uid
    <3>1. /\ c \in DOMAIN storage /\ Recent(c, Age(storage[c]))
          /\ storage[c].addr = home[c] \/ Recent(c, since[c])
      BY <1>1, <1>2, <2>3 DEF IInv, HeardOK
    <3>2. Found(storage, c)
      BY <1>2, <3>1, RecentIsFound
    <3>3. c \in DOMAIN storage' /\ storage'[c] = storage[c]
      BY <1>5, <2>3, <3>2 DEF Found, Hit
    <3>4. Pending(c) => Pending(c)'
      BY <1>4, <2>1, <2>3 DEF Pending, PingOf
    <3> QED
      BY <1>1, <2>1, <3>1, <3>3, <3>4 DEF Recent, Age
  <2> QED
    BY <2>2, <2>3
<1>12. CacheOK'
  BY <1>1 DEF IInv, CacheOK, Age
<1> QED
  BY <1>7, <1>8, <1>9, <1>10, <1>11, <1>12 DEF IInv

(***************************************************************************)
(* A step that only takes responses out of the network, or pings of        *)
(* clients that are no longer heard, keeps what is said of the service.    *)
(***************************************************************************)
LEMMA NetShrinks ==
  ASSUME IInv, net' \subseteq net, UNCHANGED <<storage, up, timer, home, since>>,
         \A c \in UID : heard'[c] => heard[c],
         \A c \in UID : \A n \in net : heard'[c] /\ PingOf(n, c) => n \in net'
  PROVE  StoppedOK' /\ PingsOK' /\ HeardOK'
<1>1. up \subseteq UID
  BY DEF IInv, TypeOK
<1>2. StoppedOK'
  BY DEF IInv, StoppedOK, PingOf, Age, Found, Hit, Expired
<1>3. PingsOK'
  BY DEF IInv, PingsOK, PingOf, Elapsed
<1>4. HeardOK'
  <2> SUFFICES ASSUME NEW c \in up, heard'[c]
               PROVE  /\ c \in DOMAIN storage
                      /\ Recent(c, Age(storage[c]))'
                      /\ storage[c].addr = home[c] \/ Recent(c, since[c])'
    BY DEF HeardOK
  <2>1. Elapsed(c)' = Elapsed(c) /\ (Pending(c) => Pending(c)')
    BY <1>1 DEF Elapsed, Pending
  <2>2. /\ c \in DOMAIN storage /\ Recent(c, Age(storage[c]))
        /\ storage[c].addr = home[c] \/ Recent(c, since[c])
    BY <1>1 DEF IInv, HeardOK
  <2> QED
    BY <2>1, <2>2 DEF Recent, Age
<1> QED
  BY <1>2, <1>3, <1>4

LEMMA ClientReadKeeps ==
  ASSUME IInv, NEW d \in UID, NEW m, NEW again \in SUBSET {m}, ClientRead(d, m, again),
         faults' \in 0 .. MaxFaults, calm' \in 0 .. Calm
  PROVE  IInv'
<1>1. /\ m \in net /\ m.kind = "pong" /\ d \in up /\ home[d] = m.addr
      /\ net' = (net \ {m}) \cup again
      /\ UNCHANGED <<storage, up, timer, home, heard, since>>
  BY DEF ClientRead
<1>2. PICK st \in AfterPut(cache[d], m.uid, Fresh(m.addr), 0) : cache' = [cache EXCEPT ![d] = st]
  BY DEF ClientRead
<1>3. /\ \A c \in UID : Storage(cache[c])
      /\ m.uid \in UID /\ m.addr \in Addr /\ up \subseteq UID /\ since \in [UID -> 0 .. Settled]
  BY <1>1 DEF IInv, TypeOK
<1>4. /\ Storage(st) /\ m.uid \in DOMAIN st /\ st[m.uid] = Fresh(m.addr)
      /\ \A k \in DOMAIN st \ {m.uid} : k \in DOMAIN cache[d] /\ st[k] = cache[d][k]
  BY <1>2, <1>3, PutLeaves
<1>5. Age(Fresh(m.addr)) = 0 /\ Fresh(m.addr).addr = m.addr
  BY <1>3, FreshRecord
<1>6. ASSUME NEW c \in UID PROVE cache'[c] = IF c = d THEN st ELSE cache[c]
  BY <1>2 DEF IInv, TypeOK
<1>7. TypeOK'
  <2>1. DOMAIN cache' = UID /\ \A c \in UID : Storage(cache'[c])
    BY <1>2, <1>3, <1>4, <1>6 DEF IInv, TypeOK
  <2> QED
    BY <1>1, <1>3, <2>1 DEF IInv, TypeOK
<1>8. Dates'
  <2>1. \A u \in DOMAIN st : Age(st[u]) >= 0
    BY <1>4, <1>5 DEF IInv, Dates
  <2>2. \A c \in UID : \A u \in DOMAIN cache'[c] : Age(cache'[c][u]) >= 0
    BY <1>6, <2>1 DEF IInv, Dates
  <2> QED
    BY <1>1, <2>2 DEF IInv, Dates, Age
<1>9. StoppedOK' /\ PingsOK' /\ HeardOK'
  BY <1>1, NetShrinks DEF PingOf
<1>10. CacheOK'
  <2> SUFFICES ASSUME NEW c \in up, Found(cache'[c], c)
               PROVE  cache'[c][c].addr = home[c] \/ Age(cache'[c][c]) >= since[c]
    BY <1>1 DEF CacheOK, Age, Found, Hit, Expired
  <2>1. CASE c = d /\ c = m.uid
    BY <1>1, <1>3, <1>4, <1>5, <1>6, <2>1
  <2>2. CASE c = d /\ c # m.uid
    <3>1. cache'[c] = st /\ Found(cache[c], c) /\ st[c] = cache[c][c]
      BY <1>3, <1>4, <1>6, <2>2 DEF Found, Hit
    <3> QED
      BY <3>1 DEF IInv, CacheOK
  <2>3. CASE c # d
    <3>1. cache'[c] = cache[c]
      BY <1>3, <1>6, <2>3
    <3> QED
      BY <3>1 DEF IInv, CacheOK
  <2> QED
    BY <2>1, <2>2, <2>3
<1> QED
  BY <1>7, <1>8, <1>9, <1>10 DEF IInv

LEMMA UnreachableKeeps ==
  ASSUME IInv, NEW m, Unreachable(m)
  PROVE  IInv'
<1>1. /\ m.kind = "pong" /\ net' = net \ {m}
      /\ UNCHANGED <<storage, up, timer, home, cache, faults, calm, heard, since>>
  BY DEF Unreachable, client
<1>2. TypeOK' /\ Dates' /\ CacheOK'
  BY <1>1 DEF IInv, TypeOK, Dates, CacheOK, Age
<1>3. StoppedOK' /\ PingsOK' /\ HeardOK'
  BY <1>1, NetShrinks DEF PingOf
<1> QED
  BY <1>2, <1>3 DEF IInv

LEMMA LoseKeeps ==
  ASSUME IInv, NEW m, Lose(m)
  PROVE  IInv'
<1>1. /\ m \in net /\ net' = net \ {m} /\ faults < MaxFaults /\ faults' = faults + 1 /\ calm' = 0
      /\ heard' = IF m.kind = "ping" THEN [heard EXCEPT ![m.uid] = FALSE] ELSE heard
      /\ UNCHANGED <<storage, up, timer, home, cache, since>>
  BY DEF Lose, Fault, client
<1>2. faults' \in 0 .. MaxFaults /\ calm' \in 0 .. Calm /\ heard \in [UID -> BOOLEAN] /\ m.uid \in UID
  BY <1>1, Constants DEF IInv, TypeOK
<1>3. heard' \in [UID -> BOOLEAN]
  BY <1>1, <1>2
<1>4. TypeOK' /\ Dates' /\ CacheOK'
  BY <1>1, <1>2, <1>3 DEF IInv, TypeOK, Dates, CacheOK, Age
<1>5. StoppedOK' /\ PingsOK' /\ HeardOK'
  BY <1>1, <1>2, NetShrinks DEF PingOf
<1> QED
  BY <1>4, <1>5 DEF IInv

LEMMA RestartKeeps ==
  ASSUME IInv, Restart
  PROVE  IInv'
<1>1. /\ storage' = EmptyStorage /\ faults < MaxFaults /\ faults' = faults + 1 /\ calm' = 0
      /\ heard' = [c \in UID |-> FALSE]
      /\ UNCHANGED <<up, timer, home, cache, net, since>>
  BY DEF Restart, Fault, client
<1>2. faults' \in 0 .. MaxFaults /\ calm' \in 0 .. Calm
  BY <1>1, Constants DEF IInv, TypeOK
<1>3. TypeOK' /\ Dates' /\ CacheOK'
  BY <1>1, <1>2, EmptyStorageType DEF IInv, TypeOK, Dates, CacheOK, Age
<1>4. StoppedOK' /\ PingsOK' /\ HeardOK'
  BY <1>1, EmptyStorageType
  DEF IInv, TypeOK, StoppedOK, PingsOK, HeardOK, PingOf, Elapsed, Found, Hit
<1> QED
  BY <1>3, <1>4 DEF IInv

LEMMA MoveKeeps ==
  ASSUME IInv, NEW c \in UID, NEW a \in Addr, Move(c, a)
  PROVE  IInv'
<1>1. /\ c \in up /\ faults < MaxFaults /\ faults' = faults + 1 /\ calm' = 0
      /\ home' = [home EXCEPT ![c] = a] /\ since' = [since EXCEPT ![c] = 0]
      /\ UNCHANGED <<storage, up, timer, cache, net, heard>>
  BY DEF Move, Fault
<1>2. /\ faults' \in 0 .. MaxFaults /\ calm' \in 0 .. Calm /\ timer \in [UID -> 0 .. DEF_PING_TIMEOUT]
      /\ up \subseteq UID /\ \A m \in net : m.age \in 0 .. MaxDelay
      /\ \A d \in UID : Storage(cache[d])
  BY <1>1, Constants DEF IInv, TypeOK
<1>3. /\ since'[c] = 0
      /\ \A d \in UID \ {c} : home'[d] = home[d] /\ since'[d] = since[d]
  BY <1>1 DEF IInv, TypeOK
<1>4. \A d \in UID : Elapsed(d)' = Elapsed(d) /\ Elapsed(d) \in 0 .. DEF_PING_TIMEOUT
  BY <1>1, <1>2, Constants DEF Elapsed
<1>5. TypeOK'
  BY <1>1, <1>2, Constants DEF IInv, TypeOK
<1>6. Dates'
  BY <1>1 DEF IInv, Dates, Age
<1>7. StoppedOK'
  BY <1>1, <1>3 DEF IInv, StoppedOK, PingOf, Found, Hit, Expired, Age
<1>8. PingsOK'
  <2> SUFFICES ASSUME NEW d \in up, NEW m \in net, PingOf(m, d)
               PROVE  /\ m.addr = home'[d] \/ m.age >= since'[d]
                      /\ \/ m.age = Elapsed(d)
                         \/ since'[d] <= Elapsed(d) /\ m.age >= Elapsed(d)
                         \/ since'[d] = 0 /\ timer[d] = 0
    BY <1>1, <1>2, <1>4 DEF PingsOK, PingOf
  <2>1. /\ m.addr = home[d] \/ m.age >= since[d]
        /\ \/ m.age = Elapsed(d)
           \/ since[d] <= Elapsed(d) /\ m.age >= Elapsed(d)
           \/ since[d] = 0 /\ timer[d] = 0
    BY DEF IInv, PingsOK
  <2>2. m.age \in 0 .. MaxDelay /\ Elapsed(d) \in 0 .. DEF_PING_TIMEOUT
    BY <1>2, <1>4
  <2> QED
    BY <1>2, <1>3, <2>1, <2>2, Constants
<1>9. HeardOK'
  <2> SUFFICES ASSUME NEW d \in up, heard[d]
               PROVE  /\ d \in DOMAIN storage
                      /\ Recent(d, Age(storage[d]))'
                      /\ storage[d].addr = home'[d] \/ Recent(d, since[d])'
    BY <1>1 DEF HeardOK, Age
  <2>1. /\ d \in DOMAIN storage /\ Recent(d, Age(storage[d]))
        /\ storage[d].addr = home[d] \/ Recent(d, since[d])
    BY DEF IInv, HeardOK
  <2>2. d \in UID /\ Elapsed(d)' = Elapsed(d) /\ (Pending(d) => Pending(d)')
    BY <1>1, <1>2, <1>4 DEF Pending
  <2>3. Recent(d, Age(storage[d]))'
    BY <1>1, <2>1, <2>2 DEF Recent, Age
  <2>4. CASE d = c
    BY <1>3, <1>4, <2>1, <2>2, <2>3, <2>4, Constants DEF Recent
  <2>5. CASE d # c
    BY <1>3, <2>1, <2>2, <2>3, <2>5 DEF Recent
  <2> QED
    BY <2>4, <2>5
<1>10. CacheOK'
  <2> SUFFICES ASSUME NEW d \in up, Found(cache[d], d)
               PROVE  cache[d][d].addr = home'[d] \/ Age(cache[d][d]) >= since'[d]
    BY <1>1 DEF CacheOK, Age, Found, Hit, Expired
  <2>1. Age(cache[d][d]) >= 0 /\ d \in UID
    BY <1>2 DEF IInv, Dates, Found, Hit
  <2>2. cache[d][d].addr = home[d] \/ Age(cache[d][d]) >= since[d]
    BY DEF IInv, CacheOK
  <2> QED
    BY <1>3, <2>1, <2>2
<1> QED
  BY <1>5, <1>6, <1>7, <1>8, <1>9, <1>10 DEF IInv

LEMMA StopKeeps ==
  ASSUME IInv, NEW c \in UID, Stop(c)
  PROVE  IInv'
<1>1. /\ c \in up /\ faults < MaxFaults /\ faults' = faults + 1 /\ calm' = 0
      /\ up' = up \ {c}
      /\ cache' = [cache EXCEPT ![c] = EmptyStorage]
      /\ timer' = [timer EXCEPT ![c] = 0] /\ heard' = [heard EXCEPT ![c] = FALSE]
      /\ since' = [since EXCEPT ![c] = 0]
      /\ UNCHANGED <<storage, home, net>>
  BY DEF Stop, Fault
<1>2. /\ faults' \in 0 .. MaxFaults /\ calm' \in 0 .. Calm /\ Storage(storage)
      /\ \A m \in net : m.age \in 0 .. MaxDelay
  BY <1>1, Constants DEF IInv, TypeOK
<1>3. /\ cache'[c] = EmptyStorage /\ timer'[c] = 0 /\ ~heard'[c] /\ since'[c] = 0
      /\ \A d \in UID \ {c} : /\ cache'[d] = cache[d] /\ timer'[d] = timer[d]
                               /\ heard'[d] = heard[d] /\ since'[d] = since[d]
  BY <1>1 DEF IInv, TypeOK
<1>4. up \subseteq UID /\ up' \subseteq UID \ {c} /\ up' \subseteq up
  BY <1>1 DEF IInv, TypeOK
<1>5. TypeOK'
  <2>1. DOMAIN cache' = UID /\ \A d \in UID : Storage(cache'[d])
    BY <1>1, <1>3, EmptyStorageType DEF IInv, TypeOK
  <2>2. /\ timer' \in [UID -> 0 .. DEF_PING_TIMEOUT] /\ heard' \in [UID -> BOOLEAN]
        /\ since' \in [UID -> 0 .. Settled]
    BY <1>1, Constants DEF IInv, TypeOK
  <2> QED
    BY <1>1, <1>2, <1>4, <2>1, <2>2 DEF IInv, TypeOK
<1>6. Dates'
  <2>1. \A d \in UID : \A u \in DOMAIN cache'[d] : Age(cache'[d][u]) >= 0
    BY <1>3, EmptyStorageType DEF IInv, Dates
  <2> QED
    BY <1>1, <2>1 DEF IInv, Dates, Age
<1>7. StoppedOK'
  <2> SUFFICES ASSUME NEW d \in UID \ up'
               PROVE  /\ timer'[d] = 0 /\ ~heard'[d]
                      /\ \A m \in net : PingOf(m, d) => m.age >= since'[d]
                      /\ Found(storage, d) => Age(storage[d]) + MaxDelay >= since'[d]
    BY <1>1 DEF StoppedOK, Age, Found, Hit, Expired, PingOf
  <2>1. CASE d = c
    <3>1. Found(storage, c) => Age(storage[c]) >= 0 /\ Age(storage[c]) \in Int
      BY <1>2, FoundAge DEF IInv, Dates, Found, Hit
    <3> QED
      BY <1>2, <1>3, <2>1, <3>1, Constants
  <2>2. CASE d # c
    BY <1>1, <1>3, <2>2 DEF IInv, StoppedOK
  <2> QED
    BY <2>1, <2>2
<1>8. PingsOK'
  BY <1>1, <1>3, <1>4 DEF IInv, PingsOK, PingOf, Elapsed
<1>9. HeardOK'
  <2> SUFFICES ASSUME NEW d \in up', heard'[d]
               PROVE  /\ d \in DOMAIN storage
                      /\ Recent(d, Age(storage[d]))'
                      /\ storage[d].addr = home[d] \/ Recent(d, since[d])'
    BY <1>1 DEF HeardOK, Age
  <2>1. d \in UID \ {c} /\ d \in up /\ heard[d]
    BY <1>3, <1>4
  <2>2. /\ d \in DOMAIN storage /\ Recent(d, Age(storage[d]))
        /\ storage[d].addr = home[d] \/ Recent(d, since[d])
    BY <2>1 DEF IInv, HeardOK
  <2>3. Elapsed(d)' = Elapsed(d) /\ since'[d] = since[d]
    BY <1>3, <2>1 DEF Elapsed
  <2>4. Pending(d) => Pending(d)'
    BY <1>1, <2>3 DEF Pending
  <2> QED
    BY <1>1, <2>2, <2>3, <2>4 DEF Recent, Age
<1>10. CacheOK'
  BY <1>1, <1>3, <1>4 DEF IInv, CacheOK, Age, Found, Hit, Expired
<1> QED
  BY <1>5, <1>6, <1>7, <1>8, <1>9, <1>10 DEF IInv

LEMMA StartKeeps ==
  ASSUME IInv, NEW c \in UID, NEW a \in Addr, Start(c, a)
  PROVE  IInv'
<1>1. /\ c \notin up /\ up' = up \cup {c}
      /\ home' = [home EXCEPT ![c] = a] /\ since' = [since EXCEPT ![c] = 0]
      /\ UNCHANGED <<storage, timer, cache, net, faults, calm, heard>>
  BY DEF Start
<1>2. /\ up \subseteq UID /\ \A m \in net : m.age \in 0 .. MaxDelay
      /\ timer \in [UID -> 0 .. DEF_PING_TIMEOUT]
  BY DEF IInv, TypeOK
<1>3. /\ since'[c] = 0 /\ timer[c] = 0 /\ ~heard[c]
      /\ \A d \in UID \ {c} : home'[d] = home[d] /\ since'[d] = since[d]
  BY <1>1 DEF IInv, TypeOK, StoppedOK
<1>4. TypeOK' /\ Dates'
  BY <1>1, Constants DEF IInv, TypeOK, Dates, Age
<1>5. StoppedOK'
  BY <1>1, <1>3 DEF IInv, StoppedOK, PingOf, Found, Hit, Expired, Age
<1>6. PingsOK'
  <2> SUFFICES ASSUME NEW d \in up', NEW m \in net, PingOf(m, d)
               PROVE  /\ m.addr = home'[d] \/ m.age >= since'[d]
                      /\ \/ m.age = Elapsed(d)
                         \/ since'[d] <= Elapsed(d) /\ m.age >= Elapsed(d)
                         \/ since'[d] = 0 /\ timer[d] = 0
    BY <1>1 DEF PingsOK, PingOf, Elapsed
  <2>1. CASE d = c
    BY <1>2, <1>3, <2>1, Constants
  <2>2. CASE d # c
    BY <1>1, <1>2, <1>3, <2>2 DEF IInv, PingsOK
  <2> QED
    BY <2>1, <2>2
<1>7. HeardOK'
  <2> SUFFICES ASSUME NEW d \in up', heard[d]
               PROVE  /\ d \in DOMAIN storage
                      /\ Recent(d, Age(storage[d]))'
                      /\ storage[d].addr = home'[d] \/ Recent(d, since[d])'
    BY <1>1 DEF HeardOK, Age
  <2>1. d \in up /\ d \in UID \ {c}
    BY <1>1, <1>2, <1>3
  <2>2. /\ d \in DOMAIN storage /\ Recent(d, Age(storage[d]))
        /\ storage[d].addr = home[d] \/ Recent(d, since[d])
    BY <2>1 DEF IInv, HeardOK
  <2>3. Elapsed(d)' = Elapsed(d) /\ since'[d] = since[d] /\ home'[d] = home[d]
    BY <1>1, <1>3, <2>1 DEF Elapsed
  <2>4. Pending(d) => Pending(d)'
    BY <1>1, <2>3 DEF Pending
  <2> QED
    BY <1>1, <2>2, <2>3, <2>4 DEF Recent, Age
<1>8. CacheOK'
  <2> SUFFICES ASSUME NEW d \in up', Found(cache[d], d)
               PROVE  cache[d][d].addr = home'[d] \/ Age(cache[d][d]) >= since'[d]
    BY <1>1 DEF CacheOK, Age, Found, Hit, Expired
  <2>1. CASE d = c
    BY <1>3, <2>1 DEF IInv, Dates, Found, Hit
  <2>2. CASE d # c
    BY <1>1, <1>2, <1>3, <2>2 DEF IInv, CacheOK
  <2> QED
    BY <2>1, <2>2
<1> QED
  BY <1>4, <1>5, <1>6, <1>7, <1>8 DEF IInv

LEMMA TickKeeps ==
  ASSUME IInv, Tick
  PROVE  IInv'
<1>1. /\ \A c \in up : timer[c] > 0
      /\ \A m \in net : m.age < MaxDelay
      /\ timer' = [c \in UID |-> IF c \in up THEN timer[c] - 1 ELSE 0]
      /\ storage' = Aged(storage)
      /\ cache' = [c \in UID |-> Aged(cache[c])]
      /\ net' = {[m EXCEPT !.age = @ + 1] : m \in net}
      /\ since' = [c \in UID |-> IF since[c] < Settled THEN since[c] + 1 ELSE Settled]
      /\ faults' = 0
      /\ calm' = IF calm < Calm THEN calm + 1 ELSE Calm
      /\ UNCHANGED <<up, home, heard>>
  BY DEF Tick
<1>2. /\ TypeOK /\ Storage(storage) /\ up \subseteq UID
      /\ timer \in [UID -> 0 .. DEF_PING_TIMEOUT] /\ since \in [UID -> 0 .. Settled]
      /\ \A c \in UID : Storage(cache[c])
      /\ net \subseteq [kind : Kinds, uid : UID, addr : Addr, age : 0 .. MaxDelay]
  BY DEF IInv, TypeOK
<1>3. ASSUME NEW m \in net
      PROVE  LET n == [m EXCEPT !.age = @ + 1]
             IN  /\ n \in [kind : Kinds, uid : UID, addr : Addr, age : 0 .. MaxDelay]
                 /\ n.kind = m.kind /\ n.uid = m.uid /\ n.addr = m.addr /\ n.age = m.age + 1
                 /\ n \in net' /\ m.age \in 0 .. MaxDelay
  <2>1. m \in [kind : Kinds, uid : UID, addr : Addr, age : 0 .. MaxDelay] /\ m.age < MaxDelay
    BY <1>1, <1>2
  <2>2. m.kind \in Kinds /\ m.uid \in UID /\ m.addr \in Addr /\ m.age \in 0 .. MaxDelay
    BY <2>1
  <2>3. m.age + 1 \in 0 .. MaxDelay
    BY <2>1, <2>2, Constants
  <2>4. [m EXCEPT !.age = @ + 1]
          = [kind |-> m.kind, uid |-> m.uid, addr |-> m.addr, age |-> m.age + 1]
    BY <2>1
  <2>5. [m EXCEPT !.age = @ + 1] \in net'
    BY <1>1
  <2> QED
    BY <2>2, <2>3, <2>4, <2>5
<1>4. ASSUME NEW n \in net'
      PROVE  \E m \in net : /\ n.kind = m.kind /\ n.uid = m.uid /\ n.addr = m.addr
                            /\ n.age = m.age + 1 /\ m.age \in 0 .. MaxDelay
                            /\ n \in [kind : Kinds, uid : UID, addr : Addr, age : 0 .. MaxDelay]
  <2>1. PICK m \in net : n = [m EXCEPT !.age = @ + 1]
    BY <1>1
  <2> QED
    BY <1>3, <2>1
<1>5. \A c \in UID : /\ since[c] \in 0 .. Settled /\ since'[c] \in 0 .. Settled
                     /\ since'[c] <= since[c] + 1 /\ (since[c] = 0 => since'[c] = 1)
                     /\ timer'[c] = IF c \in up THEN timer[c] - 1 ELSE 0
  BY <1>1, <1>2, Constants
<1>6. \A c \in up : /\ Elapsed(c)' = Elapsed(c) + 1 /\ timer[c] > 0
                    /\ Elapsed(c) \in 0 .. DEF_PING_TIMEOUT
  BY <1>1, <1>2, <1>5, Constants DEF Elapsed
<1>7. ASSUME NEW u \in DOMAIN storage
      PROVE  /\ u \in DOMAIN storage' /\ storage'[u].addr = storage[u].addr
             /\ Age(storage[u]) \in Int /\ Age(storage'[u]) \in Int
             /\ Age(storage'[u]) >= Age(storage[u]) /\ Age(storage'[u]) <= Age(storage[u]) + 1
             /\ Found(storage', u) => Found(storage, u) /\ Age(storage'[u]) = Age(storage[u]) + 1
  <2>1. Storage(storage') /\ u \in DOMAIN storage'
    BY <1>1, <1>2, AgedRecords
  <2>2. Age(storage[u]) \in Int /\ Age(storage'[u]) \in Int
    BY <1>2, <2>1, FoundAge
  <2> QED
    BY <1>1, <1>2, <2>1, <2>2, AgedRecords DEF Found, Hit
<1>8. DOMAIN storage' = DOMAIN storage /\ Storage(storage')
  BY <1>1, <1>2, AgedRecords
<1>9. ASSUME NEW c \in UID
      PROVE  /\ Storage(cache'[c]) /\ DOMAIN cache'[c] = DOMAIN cache[c]
             /\ \A u \in DOMAIN cache[c] :
                  /\ cache'[c][u].addr = cache[c][u].addr
                  /\ Age(cache[c][u]) \in Int /\ Age(cache'[c][u]) \in Int
                  /\ Age(cache'[c][u]) >= Age(cache[c][u])
                  /\ Found(cache'[c], u) =>
                       Found(cache[c], u) /\ Age(cache'[c][u]) = Age(cache[c][u]) + 1
  <2>1. cache'[c] = Aged(cache[c]) /\ Storage(cache[c])
    BY <1>1, <1>2
  <2>2. Storage(cache'[c]) /\ DOMAIN cache'[c] = DOMAIN cache[c]
    BY <2>1, AgedRecords
  <2>3. \A u \in DOMAIN cache[c] : Age(cache[c][u]) \in Int /\ Age(cache'[c][u]) \in Int
    BY <2>1, <2>2, FoundAge
  <2> QED
    BY <2>1, <2>2, <2>3, AgedRecords DEF Found, Hit
<1>10. TypeOK'
  <2>1. net' \subseteq [kind : Kinds, uid : UID, addr : Addr, age : 0 .. MaxDelay]
    BY <1>4
  <2>2. timer' \in [UID -> 0 .. DEF_PING_TIMEOUT]
    BY <1>1, <1>2, Constants
  <2>3. since' \in [UID -> 0 .. Settled]
    BY <1>1, <1>5
  <2>4. DOMAIN cache' = UID
    BY <1>1
  <2> QED
    BY <1>1, <1>8, <1>9, <2>1, <2>2, <2>3, <2>4, Constants DEF IInv, TypeOK
<1>11. Dates'
  <2>1. ASSUME NEW u \in DOMAIN storage' PROVE Age(storage'[u]) >= 0
    <3>1. Age(storage[u]) >= 0
      BY <1>8 DEF IInv, Dates
    <3> QED
      BY <1>7, <1>8, <3>1
  <2>2. ASSUME NEW c \in UID, NEW u \in DOMAIN cache'[c] PROVE Age(cache'[c][u]) >= 0
    <3>1. Age(cache[c][u]) >= 0
      BY <1>9 DEF IInv, Dates
    <3> QED
      BY <1>9, <3>1
  <2> QED
    BY <2>1, <2>2 DEF Dates, Age
<1>12. StoppedOK'
  <2> SUFFICES ASSUME NEW c \in UID \ up
               PROVE  /\ timer'[c] = 0 /\ ~heard[c]
                      /\ \A n \in net' : PingOf(n, c) => n.age >= since'[c]
                      /\ Found(storage', c) => Age(storage'[c]) + MaxDelay >= since'[c]
    BY <1>1 DEF StoppedOK, Age, Found, Hit, Expired, PingOf
  <2>1. /\ ~heard[c]
        /\ \A m \in net : PingOf(m, c) => m.age >= since[c]
        /\ Found(storage, c) => Age(storage[c]) + MaxDelay >= since[c]
    BY DEF IInv, StoppedOK
  <2>2. \A n \in net' : PingOf(n, c) => n.age >= since'[c]
    BY <1>4, <1>5, <2>1 DEF PingOf
  <2>3. ASSUME Found(storage', c) PROVE Age(storage'[c]) + MaxDelay >= since'[c]
    <3>1. c \in DOMAIN storage
      BY <1>8, <2>3 DEF Found, Hit
    <3> QED
      BY <1>5, <1>7, <2>1, <2>3, <3>1, Constants
  <2> QED
    BY <1>5, <2>1, <2>2, <2>3
<1>13. PingsOK'
  <2> SUFFICES ASSUME NEW c \in up, NEW n \in net', PingOf(n, c)
               PROVE  /\ n.addr = home[c] \/ n.age >= since'[c]
                      /\ \/ n.age = Elapsed(c)'
                         \/ since'[c] <= Elapsed(c)' /\ n.age >= Elapsed(c)'
    BY <1>1 DEF PingsOK, PingOf
  <2>1. PICK m \in net : /\ n.kind = m.kind /\ n.uid = m.uid /\ n.addr = m.addr
                         /\ n.age = m.age + 1 /\ m.age \in 0 .. MaxDelay
    BY <1>4
  <2>2. /\ m.addr = home[c] \/ m.age >= since[c]
        /\ \/ m.age = Elapsed(c)
           \/ since[c] <= Elapsed(c) /\ m.age >= Elapsed(c)
    BY <1>6, <2>1 DEF IInv, PingsOK, PingOf
  <2>3. since[c] \in Int /\ since'[c] \in Int /\ since'[c] <= since[c] + 1
    BY <1>2, <1>5
  <2> QED
    BY <1>6, <2>1, <2>2, <2>3, Constants
<1>14. HeardOK'
  <2> SUFFICES ASSUME NEW c \in up, heard[c]
               PROVE  /\ c \in DOMAIN storage'
                      /\ Recent(c, Age(storage[c]))'
                      /\ storage'[c].addr = home[c] \/ Recent(c, since[c])'
    BY <1>1 DEF HeardOK, Age
  <2>1. /\ c \in DOMAIN storage /\ Recent(c, Age(storage[c]))
        /\ storage[c].addr = home[c] \/ Recent(c, since[c])
    BY DEF IInv, HeardOK
  <2>2. Pending(c) => Pending(c)'
    BY <1>3, <1>6 DEF Pending, PingOf
  <2>3. /\ Age(storage'[c]) \in Int /\ Age(storage[c]) \in Int
        /\ Age(storage'[c]) <= Age(storage[c]) + 1
        /\ storage'[c].addr = storage[c].addr /\ c \in DOMAIN storage'
    BY <1>7, <2>1
  <2>4. /\ since[c] \in Int /\ since'[c] \in Int /\ since'[c] <= since[c] + 1
        /\ Elapsed(c) \in Int /\ Elapsed(c)' = Elapsed(c) + 1
    BY <1>2, <1>5, <1>6, Constants
  <2>5. Recent(c, Age(storage[c]))'
    <3>1. \/ Age(storage'[c]) <= Elapsed(c) + 1
          \/ Pending(c)' /\ Age(storage'[c]) <= DEF_PING_TIMEOUT + (Elapsed(c) + 1)
      BY <2>1, <2>2, <2>3, <2>4, Constants DEF Recent
    <3> QED
      BY <2>4, <3>1 DEF Recent, Age
  <2>6. Recent(c, since[c]) => Recent(c, since[c])'
    <3> SUFFICES ASSUME Recent(c, since[c]) PROVE Recent(c, since[c])'
      OBVIOUS
    <3>1. \/ since'[c] <= Elapsed(c) + 1
          \/ Pending(c)' /\ since'[c] <= DEF_PING_TIMEOUT + (Elapsed(c) + 1)
      BY <2>2, <2>4, Constants DEF Recent
    <3> QED
      BY <2>4, <3>1 DEF Recent
  <2> QED
    BY <2>1, <2>3, <2>5, <2>6
<1>15. CacheOK'
  <2> SUFFICES ASSUME NEW c \in up, Found(cache'[c], c)
               PROVE  cache'[c][c].addr = home[c] \/ Age(cache'[c][c]) >= since'[c]
    BY <1>1 DEF CacheOK, Age, Found, Hit, Expired
  <2>1. c \in UID /\ c \in DOMAIN cache[c]
    BY <1>2, <1>9 DEF Found, Hit
  <2>2. cache[c][c].addr = home[c] \/ Age(cache[c][c]) >= since[c]
    BY <1>9, <2>1 DEF IInv, CacheOK
  <2> QED
    BY <1>5, <1>9, <2>1, <2>2
<1> QED
  BY <1>10, <1>11, <1>12, <1>13, <1>14, <1>15 DEF IInv

LEMMA StepKeeps == IInv /\ [Next]_vars => IInv'
<1> SUFFICES ASSUME IInv, [Next]_vars PROVE IInv'
  OBVIOUS
<1>1. faults \in 0 .. MaxFaults /\ calm \in 0 .. Calm
  BY DEF IInv, TypeOK
<1>2. NoFault \/ Fault => faults' \in 0 .. MaxFaults /\ calm' \in 0 .. Calm
  BY <1>1, Constants DEF Fault, NoFault
<1>3. CASE Read
  <2>1. PICK m \in net :
          \/ ServiceRead(m, {}) /\ NoFault
          \/ ServiceRead(m, {m}) /\ Fault
          \/ \E c \in UID : ClientRead(c, m, {}) /\ NoFault
          \/ \E c \in UID : ClientRead(c, m, {m}) /\ Fault
          \/ Unreachable(m)
    BY <1>3 DEF Read
  <2> QED
    BY <1>2, <2>1, ServiceReadKeeps, ClientReadKeeps, UnreachableKeeps
<1>4. CASE Faulty
  BY <1>4, LoseKeeps, RestartKeeps, StopKeeps, MoveKeeps, StartKeeps DEF Faulty
<1>5. CASE UNCHANGED vars
  BY <1>5
  DEF vars, client, IInv, TypeOK, Dates, StoppedOK, PingsOK, HeardOK, CacheOK, PingOf, Elapsed,
      Recent, Pending, Found, Hit, Expired, Age
<1> QED
  BY <1>3, <1>4, <1>5, OnTimerKeeps, TickKeeps DEF Next, Progress

LEMMA IInvInvariant == Spec => []IInv
BY InitEstablishes, StepKeeps, PTL DEF Spec

-------------------------------------------------------------------------------
(***************************************************************************)
(* Datagrams do not outlive MaxDelay, and timers not the period.           *)
(***************************************************************************)
THEOREM KeepaliveTypeCorrect == Spec => []TypeOK
<1>1. IInv => TypeOK
  BY DEF IInv
<1> QED
  BY <1>1, IInvInvariant, PTL

(***************************************************************************)
(* A client that is heard is present all the time.                         *)
(***************************************************************************)
THEOREM HeardClientsArePresent == Spec => []Available
<1>1. IInv => Available
  BY RecentIsFound DEF IInv, HeardOK, Available, TypeOK
<1> QED
  BY <1>1, IInvInvariant, PTL

(***************************************************************************)
(* A client that stopped is forgotten after the expiration and the delay.  *)
(***************************************************************************)
THEOREM StoppedClientsAreForgotten == Spec => []ForgetsStopped
<1>1. IInv => ForgetsStopped
  <2> SUFFICES ASSUME IInv, NEW c \in UID \ up, since[c] > DEF_EXPIRATION_SEC + MaxDelay,
                      Found(storage, c)
               PROVE  FALSE
    BY DEF ForgetsStopped
  <2>1. Storage(storage) /\ c \in DOMAIN storage /\ since[c] \in Int
    BY Constants DEF IInv, TypeOK, Found, Hit
  <2>2. Age(storage[c]) \in Int /\ Age(storage[c]) <= DEF_EXPIRATION_SEC
    BY <2>1, FoundAge
  <2>3. Age(storage[c]) + MaxDelay >= since[c]
    BY DEF IInv, StoppedOK
  <2> QED
    BY <2>1, <2>2, <2>3, Constants
<1> QED
  BY <1>1, IInvInvariant, PTL

(***************************************************************************)
(* A client that moved is at its new address after a period and a delay.   *)
(***************************************************************************)
THEOREM MovedClientsAreFollowed == Spec => []FollowsMove
<1>1. IInv => FollowsMove
  <2> SUFFICES ASSUME IInv, NEW c \in up, heard[c], since[c] > DEF_PING_TIMEOUT + MaxDelay,
                      Recent(c, since[c])
               PROVE  FALSE
    BY DEF FollowsMove, IInv, HeardOK
  <2>1. c \in UID /\ since[c] \in Int /\ Elapsed(c) \in 0 .. DEF_PING_TIMEOUT
    BY Constants DEF IInv, TypeOK, Elapsed
  <2>2. Pending(c) => Elapsed(c) <= MaxDelay
    BY <2>1, Constants DEF IInv, TypeOK, Pending
  <2> QED
    BY <2>1, <2>2, Constants DEF Recent
<1> QED
  BY <1>1, IInvInvariant, PTL

(***************************************************************************)
(* What a client finds out about its address was so within an expiration.  *)
(***************************************************************************)
THEOREM OwnAddressIsRecent == Spec => []OwnAddress
<1>1. IInv => OwnAddress
  <2> SUFFICES ASSUME IInv, NEW c \in up, Found(cache[c], c), since[c] > DEF_EXPIRATION_SEC,
                      Age(cache[c][c]) >= since[c]
               PROVE  FALSE
    BY DEF OwnAddress, IInv, CacheOK
  <2>1. c \in DOMAIN cache[c] /\ Storage(cache[c]) /\ since[c] \in Int
    BY Constants DEF IInv, TypeOK, Found, Hit
  <2> QED
    BY <2>1, FoundAge, Constants
<1> QED
  BY <1>1, IInvInvariant, PTL

-------------------------------------------------------------------------------
(***************************************************************************)
(* What clients hear of each other.                                        *)
(***************************************************************************)

\* The client c is at the address a, or was no less than x ticks ago.
SeenAt(c, a, x) == (c \in up /\ home[c] = a) \/ x >= since[c]

\* No two running clients have one address.
HomesOK == \A c, d \in up : home[c] = home[d] => c = d

\* A response is as late as itself and the ping it answers.
SendersOK ==
  \A m \in net : SeenAt(m.uid, m.addr, IF m.kind = "ping" THEN m.age ELSE m.age + MaxDelay)

\* What a client has learned of another is older than that one's leave.
OthersOK ==
  /\ \A d \in UID \ up : cache[d] = EmptyStorage
  /\ \A d \in up : \A c \in UID \ {d} :
       Found(cache[d], c) => Age(cache[d][c]) + 2 * MaxDelay >= since[c]

OInv == HomesOK /\ SendersOK /\ OthersOK

LEMMA InitOthers == Init => OInv
<1>1. Init => HomesOK /\ SendersOK
  BY DEF Init, HomesOK, SendersOK
<1>2. Init => OthersOK
  BY EmptyStorageType DEF Init, OthersOK, Found, Hit
<1>. QED
  BY <1>1, <1>2 DEF OInv

\* A datagram that is new has to be accounted for; one that is gone has not.
LEMMA NetOthers ==
  ASSUME OInv, UNCHANGED <<up, home, cache, since>>,
         \A m \in net' \ net :
           SeenAt(m.uid, m.addr, IF m.kind = "ping" THEN m.age ELSE m.age + MaxDelay)
  PROVE  OInv'
<1>1. HomesOK'
  BY DEF OInv, HomesOK
<1>2. SendersOK'
  BY DEF OInv, SendersOK, SeenAt
<1>3. OthersOK'
  BY DEF OInv, OthersOK, Found, Hit, Expired, Age
<1>. QED
  BY <1>1, <1>2, <1>3 DEF OInv

\* A response to a ping that is no older than MaxDelay
LEMMA ServiceReadOthers ==
  ASSUME TypeOK, OInv, NEW m, NEW again \in SUBSET {m}, ServiceRead(m, again)
  PROVE  OInv'
<1>0. PICK p : p = Datagram("pong", m.uid, m.addr)
  OBVIOUS
<1>1. /\ m \in net /\ m.kind = "ping" /\ net' = (net \ {m}) \cup again \cup {p}
      /\ UNCHANGED <<up, home, cache, since>>
  BY <1>0 DEF ServiceRead, client
<1>2. m.uid \in UID /\ m.age \in Int /\ m.age <= MaxDelay /\ since[m.uid] \in Int
  BY <1>1, Constants DEF TypeOK
<1>3. p.kind = "pong" /\ p.uid = m.uid /\ p.addr = m.addr /\ p.age + MaxDelay = MaxDelay
  BY <1>0, Constants DEF Datagram
<1>4. SeenAt(m.uid, m.addr, m.age)
  BY <1>1 DEF OInv, SendersOK
<1>5. SeenAt(p.uid, p.addr, p.age + MaxDelay)
  BY <1>2, <1>3, <1>4, Constants DEF SeenAt
<1>6. \A n \in net' \ net : n = p
  BY <1>1
<1>. QED
  BY <1>1, <1>3, <1>5, <1>6, NetOthers

(***************************************************************************)
(* Who reads a response for another client has its address, so that one    *)
(* has left it.                                                            *)
(***************************************************************************)
LEMMA ClientReadOthers ==
  ASSUME TypeOK, OInv, NEW d \in UID, NEW m, NEW again \in SUBSET {m}, ClientRead(d, m, again)
  PROVE  OInv'
<1>1. /\ m \in net /\ m.kind = "pong" /\ d \in up /\ home[d] = m.addr
      /\ net' \subseteq net /\ UNCHANGED <<up, home, since>>
  BY DEF ClientRead
<1>2. PICK st \in AfterPut(cache[d], m.uid, Fresh(m.addr), 0) : cache' = [cache EXCEPT ![d] = st]
  BY DEF ClientRead
<1>3. /\ DOMAIN cache = UID /\ Storage(cache[d]) /\ m.uid \in UID /\ m.addr \in Addr
      /\ m.age \in Int /\ m.age <= MaxDelay /\ up \subseteq UID
      /\ \A c \in UID : since[c] \in Int
  BY <1>1, Constants DEF TypeOK
<1>4. /\ st[m.uid] = Fresh(m.addr)
      /\ \A k \in DOMAIN st \ {m.uid} : k \in DOMAIN cache[d] /\ st[k] = cache[d][k]
  BY <1>2, <1>3, PutLeaves
<1>5. \A c \in UID : cache'[c] = IF c = d THEN st ELSE cache[c]
  BY <1>2, <1>3
<1>6. HomesOK' /\ SendersOK'
  BY <1>1 DEF OInv, HomesOK, SendersOK, SeenAt
<1>7. OthersOK'
  <2>1. \A e \in UID \ up : cache'[e] = EmptyStorage
    BY <1>1, <1>5 DEF OInv, OthersOK
  <2>2. ASSUME NEW e \in up, NEW c \in UID \ {e}, Found(cache'[e], c)
        PROVE  Age(cache'[e][c]) + 2 * MaxDelay >= since[c]
    <3>1. CASE e # d \/ c # m.uid
      <4>1. Found(cache[e], c) /\ cache'[e][c] = cache[e][c]
        BY <1>3, <1>4, <1>5, <2>2, <3>1 DEF Found, Hit
      <4>. QED
        BY <4>1 DEF OInv, OthersOK
    <3>2. CASE e = d /\ c = m.uid
      <4>1. SeenAt(c, m.addr, m.age + MaxDelay)
        BY <1>1, <3>2 DEF OInv, SendersOK
      <4>2. m.age + MaxDelay >= since[c]
        BY <1>1, <3>2, <4>1 DEF SeenAt, OInv, HomesOK
      <4>3. Age(cache'[e][c]) = 0
        BY <1>3, <1>4, <1>5, <3>2, FreshRecord
      <4>. QED
        BY <1>3, <4>2, <4>3, Constants
    <3>. QED
      BY <3>1, <3>2
  <2>. QED
    BY <1>1, <2>1, <2>2 DEF OthersOK, Found, Hit, Expired, Age
<1>. QED
  BY <1>6, <1>7 DEF OInv

\* One client moves, stops or starts: it has been so for no time.
LEMMA ResetOthers ==
  ASSUME TypeOK, Dates, OInv, NEW c \in UID, UNCHANGED net,
         up' \subseteq UID, since'[c] = 0,
         \A d \in UID \ {c} :
           /\ d \in up' <=> d \in up
           /\ home'[d] = home[d] /\ since'[d] = since[d] /\ cache'[d] = cache[d],
         c \in up' => \A d \in up \ {c} : home[d] # home'[c],
         cache'[c] = EmptyStorage \/ (c \in up' /\ c \in up /\ cache'[c] = cache[c])
  PROVE  OInv'
<1>1. /\ \A m \in net : m.uid \in UID /\ m.age \in Int /\ m.age >= 0
      /\ \A d \in UID : Storage(cache[d])
      /\ up \subseteq UID
  BY Constants DEF TypeOK
<1>2. HomesOK'
  BY <1>1 DEF OInv, HomesOK
<1>3. SendersOK'
  <2>. SUFFICES ASSUME NEW m \in net
                PROVE  SeenAt(m.uid, m.addr,
                              IF m.kind = "ping" THEN m.age ELSE m.age + MaxDelay)'
    BY DEF SendersOK, SeenAt
  <2>1. CASE m.uid = c
    BY <1>1, <2>1, Constants DEF SeenAt
  <2>2. CASE m.uid # c
    BY <1>1, <2>2 DEF SeenAt, OInv, SendersOK
  <2>. QED
    BY <2>1, <2>2
<1>4. OthersOK'
  <2>1. \A d \in UID \ up' : cache'[d] = EmptyStorage
    BY DEF OInv, OthersOK
  <2>2. ASSUME NEW d \in up', NEW e \in UID \ {d}, Found(cache'[d], e)
        PROVE  Age(cache'[d][e]) + 2 * MaxDelay >= since'[e]
    <3>1. d \in up /\ cache'[d] = cache[d]
      BY <2>2, EmptyStorageType DEF Found, Hit
    <3>2. Age(cache[d][e]) + 2 * MaxDelay >= since[e]
      BY <2>2, <3>1 DEF OInv, OthersOK
    <3>3. Age(cache[d][e]) \in Int /\ Age(cache[d][e]) >= 0
      BY <1>1, <2>2, <3>1, FoundAge DEF Dates, Found, Hit
    <3>. QED
      BY <3>1, <3>2, <3>3, Constants
  <2>. QED
    BY <2>1, <2>2 DEF OthersOK, Found, Hit, Expired, Age
<1>. QED
  BY <1>2, <1>3, <1>4 DEF OInv

LEMMA TickOthers ==
  ASSUME TypeOK, OInv, Tick
  PROVE  OInv'
<1>1. /\ net' = {[m EXCEPT !.age = @ + 1] : m \in net}
      /\ cache' = [c \in UID |-> Aged(cache[c])]
      /\ UNCHANGED <<up, home>> /\ up \subseteq UID
      /\ \A c \in UID : Storage(cache[c])
  BY DEF Tick, TypeOK
<1>2. \A c \in UID : since[c] \in Int /\ since'[c] \in Int /\ since'[c] <= since[c] + 1
  BY Constants DEF Tick, TypeOK
<1>3. HomesOK'
  BY <1>1 DEF OInv, HomesOK
<1>4. SendersOK'
  <2>. SUFFICES ASSUME NEW n \in net'
                PROVE  SeenAt(n.uid, n.addr,
                              IF n.kind = "ping" THEN n.age ELSE n.age + MaxDelay)'
    BY DEF SendersOK
  <2>1. PICK m \in net : n = [m EXCEPT !.age = @ + 1]
    BY <1>1
  <2>2. m \in [kind : Kinds, uid : UID, addr : Addr, age : 0 .. MaxDelay]
    BY DEF TypeOK
  <2>3. /\ n.kind = m.kind /\ n.uid = m.uid /\ n.addr = m.addr /\ n.age = m.age + 1
        /\ m.uid \in UID /\ m.age \in Int
    BY <2>1, <2>2, Constants
  <2>4. SeenAt(m.uid, m.addr, IF m.kind = "ping" THEN m.age ELSE m.age + MaxDelay)
    BY DEF OInv, SendersOK
  <2>5. CASE m.kind = "ping"
    BY <1>1, <1>2, <2>3, <2>4, <2>5 DEF SeenAt
  <2>6. CASE m.kind # "ping"
    BY <1>1, <1>2, <2>3, <2>4, <2>6, Constants DEF SeenAt
  <2>. QED
    BY <2>5, <2>6
<1>5. OthersOK'
  <2>1. \A d \in UID \ up' : cache'[d] = EmptyStorage
    <3>1. Aged(EmptyStorage) = EmptyStorage
      BY DEF Aged, EmptyStorage
    <3>. QED
      BY <1>1, <3>1 DEF OInv, OthersOK
  <2>2. ASSUME NEW d \in up, NEW c \in UID \ {d}, Found(cache'[d], c)
        PROVE  Age(cache'[d][c]) + 2 * MaxDelay >= since'[c]
    <3>1. Storage(cache[d]) /\ cache'[d] = Aged(cache[d])
      BY <1>1
    <3>2. c \in DOMAIN cache[d] /\ ~Expired(cache'[d][c], 0)
      BY <2>2, <3>1, AgedRecords DEF Found, Hit
    <3>3. Found(cache[d], c) /\ Age(cache'[d][c]) = Age(cache[d][c]) + 1
      BY <3>1, <3>2, AgedRecords DEF Found, Hit
    <3>4. Age(cache[d][c]) + 2 * MaxDelay >= since[c] /\ Age(cache[d][c]) \in Int
      BY <3>1, <3>2, <3>3, FoundAge DEF OInv, OthersOK
    <3>. QED
      BY <1>2, <3>3, <3>4, Constants
  <2>. QED
    BY <1>1, <2>1, <2>2 DEF OthersOK, Found, Hit, Expired, Age
<1>. QED
  BY <1>3, <1>4, <1>5 DEF OInv

LEMMA StepOthers == IInv /\ OInv /\ [Next]_vars => OInv'
<1>. SUFFICES ASSUME IInv, OInv, [Next]_vars PROVE OInv'
  OBVIOUS
<1>0. /\ TypeOK /\ Dates /\ up \subseteq UID /\ DOMAIN cache = UID
      /\ home \in [UID -> Addr] /\ since \in [UID -> 0 .. Settled]
  BY DEF IInv, TypeOK
<1>1. ASSUME NEW c \in UID, OnTimer(c) PROVE OInv'
  <2>0. PICK p : p = Datagram("ping", c, home[c])
    OBVIOUS
  <2>1. c \in up /\ net' = net \cup {p} /\ UNCHANGED <<up, home, cache, since>>
    BY <1>1, <2>0 DEF OnTimer
  <2>2. SeenAt(p.uid, p.addr, p.age) /\ p.kind = "ping"
    BY <2>0, <2>1 DEF Datagram, SeenAt
  <2>. QED
    BY <2>1, <2>2, NetOthers
<1>2. CASE Read
  <2>1. PICK m \in net :
          \/ \E again \in SUBSET {m} : ServiceRead(m, again)
          \/ \E c \in UID : \E again \in SUBSET {m} : ClientRead(c, m, again)
          \/ Unreachable(m)
    BY <1>2 DEF Read
  <2>2. CASE Unreachable(m)
    BY <2>2, NetOthers DEF Unreachable, client
  <2>. QED
    BY <1>0, <2>1, <2>2, ServiceReadOthers, ClientReadOthers
<1>3. ASSUME NEW m, Lose(m) PROVE OInv'
  BY <1>3, NetOthers DEF Lose, client
<1>4. CASE Restart
  BY <1>4, NetOthers DEF Restart, client
<1>5. ASSUME NEW c \in UID, Stop(c) PROVE OInv'
  BY <1>0, <1>5, ResetOthers DEF Stop
<1>6. ASSUME NEW c \in UID, NEW a \in Addr, Move(c, a) PROVE OInv'
  <2>1. \A d \in up \ {c} : home[d] # a
    BY <1>6 DEF Move, FreeAddr
  <2>. QED
    BY <1>0, <1>6, <2>1, ResetOthers DEF Move
<1>7. ASSUME NEW c \in UID, NEW a \in Addr, Start(c, a) PROVE OInv'
  <2>1. \A d \in up \ {c} : home[d] # a
    BY <1>7 DEF Start, FreeAddr
  <2>2. cache[c] = EmptyStorage
    BY <1>7 DEF Start, OInv, OthersOK
  <2>. QED
    BY <1>0, <1>7, <2>1, <2>2, ResetOthers DEF Start
<1>8. CASE UNCHANGED vars
  BY <1>8, NetOthers DEF vars, client
<1>. QED
  BY <1>0, <1>1, <1>2, <1>3, <1>4, <1>5, <1>6, <1>7, <1>8, TickOthers DEF Next, Progress, Faulty

(***************************************************************************)
(* A client that takes over an address answers lookups for its former      *)
(* owner no longer than an expiration and two delays after that one left.  *)
(***************************************************************************)
THEOREM OthersAreForgotten == Spec => []ForgetsOthers
<1>1. IInv /\ OInv => ForgetsOthers
  <2>. SUFFICES ASSUME IInv, OInv, NEW d \in up, NEW c \in UID \ {d}, Found(cache[d], c),
                       since[c] > DEF_EXPIRATION_SEC + 2 * MaxDelay
                PROVE  FALSE
    BY DEF ForgetsOthers
  <2>1. Storage(cache[d]) /\ c \in DOMAIN cache[d] /\ since[c] \in Int
    BY Constants DEF IInv, TypeOK, Found, Hit
  <2>2. Age(cache[d][c]) + 2 * MaxDelay >= since[c]
    BY DEF OInv, OthersOK
  <2>3. Age(cache[d][c]) \in Int /\ Age(cache[d][c]) <= DEF_EXPIRATION_SEC
    BY <2>1, FoundAge
  <2>. QED
    BY <2>1, <2>2, <2>3, Constants
<1>. QED
  BY <1>1, InitOthers, StepOthers, IInvInvariant, PTL DEF Spec

-------------------------------------------------------------------------------
(***************************************************************************)
(* Recovery.                                                               *)
(***************************************************************************)

\* The last fault, or the start of c, was no more than x ticks ago.
Troubled(c, x) == calm <= x \/ since[c] <= x

(***************************************************************************)
(* A client that is not heard has not sent a ping since the trouble, or    *)
(* the one it sent is under way.                                           *)
(***************************************************************************)
RepairOK ==
  \A c \in up : ~heard[c] =>
    \/ Troubled(c, Elapsed(c))
    \/ \E m \in net : PingOf(m, c) /\ Troubled(c, DEF_PING_TIMEOUT + m.age)

\* A fault is trouble of no ticks.
LEMMA FaultRepairs ==
  ASSUME TypeOK', Fault
  PROVE  RepairOK'
<1>1. \A c \in up' : Elapsed(c)' >= 0
  BY Constants DEF TypeOK, Elapsed
<1>. QED
  BY <1>1 DEF RepairOK, Troubled, Fault

\* Who stays as it was, with its pings, still is to be heard.
LEMMA QuietRepairs ==
  ASSUME RepairOK, UNCHANGED <<calm, timer, since>>,
         \A c \in up' : ~heard'[c] =>
           c \in up /\ ~heard[c] /\ \A m \in net : PingOf(m, c) => m \in net'
  PROVE  RepairOK'
<1>. SUFFICES ASSUME NEW c \in up', ~heard'[c]
              PROVE  (\/ Troubled(c, Elapsed(c))
                      \/ \E m \in net : PingOf(m, c) /\ Troubled(c, DEF_PING_TIMEOUT + m.age))'
  BY DEF RepairOK
<1>1. Elapsed(c)' = Elapsed(c) /\ \A x : Troubled(c, x)' <=> Troubled(c, x)
  BY DEF Elapsed, Troubled
<1>2. CASE Troubled(c, Elapsed(c))
  BY <1>1, <1>2 DEF Troubled
<1>3. CASE ~Troubled(c, Elapsed(c))
  <2>1. PICK m \in net : PingOf(m, c) /\ Troubled(c, DEF_PING_TIMEOUT + m.age)
    BY <1>3 DEF RepairOK
  <2>2. m \in net' /\ Troubled(c, DEF_PING_TIMEOUT + m.age)'
    BY <2>1 DEF Troubled
  <2>. QED
    BY <2>1, <2>2 DEF PingOf
<1>. QED
  BY <1>2, <1>3

LEMMA OnTimerRepairs ==
  ASSUME TypeOK, RepairOK, NEW c \in UID, OnTimer(c)
  PROVE  RepairOK'
<1>0. PICK p : p = Datagram("ping", c, home[c])
  OBVIOUS
<1>1. /\ c \in up /\ timer[c] = 0 /\ net' = net \cup {p}
      /\ timer' = [timer EXCEPT ![c] = DEF_PING_TIMEOUT]
      /\ UNCHANGED <<up, calm, heard, since>> /\ up \subseteq UID
  BY <1>0 DEF OnTimer, TypeOK
<1>2. PingOf(p, c) /\ p.age = 0
  BY <1>0 DEF Datagram, PingOf
<1>3. ASSUME NEW d \in up, ~heard[d]
      PROVE  (\/ Troubled(d, Elapsed(d))
              \/ \E m \in net : PingOf(m, d) /\ Troubled(d, DEF_PING_TIMEOUT + m.age))'
  <2>1. \A x : Troubled(d, x)' <=> Troubled(d, x)
    BY <1>1 DEF Troubled
  <2>2. CASE \E m \in net : PingOf(m, d) /\ Troubled(d, DEF_PING_TIMEOUT + m.age)
    <3>1. PICK m \in net : PingOf(m, d) /\ Troubled(d, DEF_PING_TIMEOUT + m.age)
      BY <2>2
    <3>2. m \in net' /\ Troubled(d, DEF_PING_TIMEOUT + m.age)'
      BY <1>1, <3>1 DEF Troubled
    <3>. QED
      BY <3>1, <3>2 DEF PingOf
  <2>3. CASE Troubled(d, Elapsed(d)) /\ d = c
    <3>1. Elapsed(c) = DEF_PING_TIMEOUT /\ DEF_PING_TIMEOUT + p.age = DEF_PING_TIMEOUT
      BY <1>1, <1>2, Constants DEF Elapsed
    <3>2. Troubled(c, DEF_PING_TIMEOUT + p.age)'
      BY <1>1, <2>3, <3>1 DEF Troubled
    <3>. QED
      BY <1>1, <1>2, <2>3, <3>2 DEF PingOf
  <2>4. CASE Troubled(d, Elapsed(d)) /\ d # c
    <3>1. Elapsed(d)' = Elapsed(d)
      BY <1>1, <2>4 DEF Elapsed, TypeOK
    <3>. QED
      BY <1>1, <2>4, <3>1 DEF Troubled
  <2>. QED
    BY <1>3, <2>2, <2>3, <2>4 DEF RepairOK
<1>. QED
  BY <1>1, <1>3 DEF RepairOK

LEMMA TickRepairs ==
  ASSUME TypeOK, RepairOK, Tick
  PROVE  RepairOK'
<1>1. /\ calm \in 0 .. Calm /\ calm' \in Int /\ calm' <= calm + 1 /\ up' = up /\ heard' = heard
      /\ up \subseteq UID
  BY Constants DEF Tick, TypeOK
<1>2. ASSUME NEW c \in up, ~heard[c]
      PROVE  (\/ Troubled(c, Elapsed(c))
              \/ \E m \in net : PingOf(m, c) /\ Troubled(c, DEF_PING_TIMEOUT + m.age))'
  <2>1. /\ since[c] \in Int /\ since'[c] \in Int /\ since'[c] <= since[c] + 1
        /\ timer[c] \in Int /\ timer'[c] = timer[c] - 1
    BY <1>1, Constants DEF Tick, TypeOK
  <2>2. Elapsed(c) \in Int /\ Elapsed(c)' = Elapsed(c) + 1
    BY <2>1, Constants DEF Elapsed
  <2>3. \A x, y \in Int : y = x + 1 /\ Troubled(c, x) => calm' <= y \/ since'[c] <= y
    BY <1>1, <2>1 DEF Troubled
  <2>4. CASE Troubled(c, Elapsed(c))
    BY <2>2, <2>3, <2>4 DEF Troubled
  <2>5. CASE ~Troubled(c, Elapsed(c))
    <3>1. PICK m \in net : PingOf(m, c) /\ Troubled(c, DEF_PING_TIMEOUT + m.age)
      BY <1>2, <2>5 DEF RepairOK
    <3>2. PICK n : n = [m EXCEPT !.age = @ + 1]
      OBVIOUS
    <3>3. n \in net'
      BY <3>1, <3>2 DEF Tick
    <3>4. m \in [kind : Kinds, uid : UID, addr : Addr, age : 0 .. MaxDelay]
      BY <3>1 DEF TypeOK
    <3>5. PingOf(n, c) /\ n.age = m.age + 1 /\ m.age \in Int
      BY <3>1, <3>2, <3>4, Constants DEF PingOf
    <3>6. calm' <= DEF_PING_TIMEOUT + n.age \/ since'[c] <= DEF_PING_TIMEOUT + n.age
      BY <2>3, <3>1, <3>5, Constants
    <3>. QED
      BY <3>3, <3>5, <3>6 DEF Troubled, PingOf
  <2>. QED
    BY <2>4, <2>5
<1>. QED
  BY <1>1, <1>2 DEF RepairOK

LEMMA StepRepairs == TypeOK /\ TypeOK' /\ RepairOK /\ [Next]_vars => RepairOK'
<1>. SUFFICES ASSUME TypeOK, TypeOK', RepairOK, [Next]_vars PROVE RepairOK'
  OBVIOUS
<1>1. CASE Fault
  BY <1>1, FaultRepairs
<1>2. ASSUME NEW m \in net, ServiceRead(m, {}), NoFault PROVE RepairOK'
  <2>1. /\ up' = up /\ m.uid \in UID /\ heard \in [UID -> BOOLEAN] /\ up \subseteq UID
        /\ heard' = [heard EXCEPT ![m.uid] = m.uid \in up]
        /\ \A n \in net : n # m => n \in net'
        /\ UNCHANGED <<calm, timer, since>>
    BY <1>2 DEF ServiceRead, client, TypeOK, NoFault
  <2>2. \A c \in up : ~heard'[c] => ~heard[c] /\ c # m.uid
    BY <2>1
  <2>. QED
    BY <2>1, <2>2, QuietRepairs DEF PingOf
<1>3. ASSUME NEW c \in UID, NEW m \in net, ClientRead(c, m, {}), NoFault PROVE RepairOK'
  BY <1>3, QuietRepairs DEF ClientRead, NoFault, PingOf
<1>4. ASSUME NEW m \in net, Unreachable(m) PROVE RepairOK'
  BY <1>4, QuietRepairs DEF Unreachable, client, PingOf
<1>5. ASSUME NEW c \in UID, NEW a \in Addr, Start(c, a) PROVE RepairOK'
  <2>1. /\ up' = up \cup {c} /\ since' = [since EXCEPT ![c] = 0]
        /\ UNCHANGED <<timer, net, calm, heard>>
        /\ timer \in [UID -> 0 .. DEF_PING_TIMEOUT] /\ since \in [UID -> 0 .. Settled]
        /\ up \subseteq UID
    BY <1>5 DEF Start, TypeOK
  <2>2. ASSUME NEW d \in up', ~heard'[d]
        PROVE  (\/ Troubled(d, Elapsed(d))
                \/ \E n \in net : PingOf(n, d) /\ Troubled(d, DEF_PING_TIMEOUT + n.age))'
    <3>1. Elapsed(d)' = Elapsed(d) /\ Elapsed(d) >= 0
      BY <2>1, Constants DEF Elapsed
    <3>2. CASE d = c
      BY <2>1, <3>1, <3>2 DEF Troubled
    <3>3. CASE d # c
      <4>1. d \in up /\ ~heard[d] /\ since'[d] = since[d]
        BY <2>1, <2>2, <3>3
      <4>2. CASE Troubled(d, Elapsed(d))
        BY <2>1, <3>1, <4>1, <4>2 DEF Troubled
      <4>3. CASE ~Troubled(d, Elapsed(d))
        <5>1. PICK m \in net : PingOf(m, d) /\ Troubled(d, DEF_PING_TIMEOUT + m.age)
          BY <4>1, <4>3 DEF RepairOK
        <5>2. m \in net' /\ Troubled(d, DEF_PING_TIMEOUT + m.age)'
          BY <2>1, <4>1, <5>1 DEF Troubled
        <5>. QED
          BY <5>1, <5>2 DEF PingOf
      <4>. QED
        BY <4>2, <4>3
    <3>. QED
      BY <3>2, <3>3
  <2>. QED
    BY <2>2 DEF RepairOK
<1>6. CASE UNCHANGED vars
  BY <1>6, QuietRepairs DEF vars, client
<1>. QED
  BY <1>1, <1>2, <1>3, <1>4, <1>5, <1>6, OnTimerRepairs, TickRepairs
  DEF Next, Progress, Read, Faulty, Lose, Restart, Stop, Move

(***************************************************************************)
(* A period and a delay after the last fault every client that has been    *)
(* there for as long is heard, hence present, and at its address.          *)
(***************************************************************************)
THEOREM RecoveryIsBounded == Spec => []RecoversInTime
<1>1. Init => RepairOK
  <2>. SUFFICES ASSUME Init, NEW c \in up PROVE Troubled(c, Elapsed(c))
    BY DEF RepairOK
  <2>1. calm = 0 /\ Elapsed(c) = DEF_PING_TIMEOUT
    BY Constants DEF Init, Elapsed
  <2>. QED
    BY <2>1, Constants DEF Troubled
<1>2. TypeOK /\ RepairOK /\ Available /\ FollowsMove => RecoversInTime
  <2>. SUFFICES ASSUME TypeOK, RepairOK, NEW c \in up, ~heard[c],
                       calm > DEF_PING_TIMEOUT + MaxDelay, since[c] > DEF_PING_TIMEOUT + MaxDelay
                PROVE  FALSE
    BY DEF RecoversInTime, Available, FollowsMove
  <2>1. /\ calm \in Int /\ since[c] \in Int /\ Elapsed(c) \in Int /\ Elapsed(c) <= DEF_PING_TIMEOUT
        /\ \A m \in net : m.age \in Int /\ m.age <= MaxDelay
    BY Constants DEF TypeOK, Elapsed
  <2>. QED
    BY <2>1, Constants DEF RepairOK, Troubled
<1>. QED
  BY <1>1, <1>2, StepRepairs, KeepaliveTypeCorrect, HeardClientsArePresent,
     MovedClientsAreFollowed, PTL DEF Spec
===============================================================================
