---------------------------- MODULE ListenerProofs ----------------------------
(***************************************************************************)
(* Theorems about Listener.                                                *)
(***************************************************************************)
EXTENDS Listener, StorageLemmas

(***************************************************************************)
(* The store that Listener composes is the store of PresenceStorage.       *)
(***************************************************************************)
LEMMA SameStore ==
  ASSUME NEW st, NEW u, NEW r, NEW now
  PROVE  /\ Store!AfterPut(st, u, r, now) = AfterPut(st, u, r, now)
         /\ Store!AfterGet(st, u, now) = AfterGet(st, u, now)
         /\ Store!Hit(st, u, now) = Hit(st, u, now)
         /\ Store!Storage(st) = Storage(st)
BY DEF Store!AfterPut, AfterPut, Store!CleanExpired, CleanExpired,
   Store!Erasures, Erasures, Store!IsFirstPass, IsFirstPass, Store!IsPred, IsPred,
   Store!IncrementsEnd, IncrementsEnd, Store!ExpiredKeys, ExpiredKeys,
   Store!Expired, Expired, Store!Insert, Insert, Store!Erase, Erase, Store!Restrict, Restrict,
   Store!AfterGet, AfterGet, Store!Hit, Hit, Store!Storage, Storage, Store!Rec, Rec

(***************************************************************************)
(* What a call of u from a leaves: u at a, and otherwise nothing new.  The *)
(* clock stands at 0, so no record is dated later.                         *)
(***************************************************************************)
LEMMA CallLeaves ==
  ASSUME Storage(storage), NEW u \in UID, NEW a \in Addr,
         NEW st \in Store!AfterCall(u, a)
  PROVE  /\ Storage(st)
         /\ \A k \in DOMAIN st : IF k = u THEN st[k].addr = a /\ st[k].modified <= 0
                                 ELSE k \in DOMAIN storage /\ st[k] = storage[k]
<1>1. PICK lag \in 0 .. MaxLag : \E late \in 0 .. lag :
        st \in Store!AfterPut(storage, u, Store!Item(a, lag), 0 - late)
  BY DEF Store!AfterCall
<1>2. PICK late \in 0 .. lag :
        st \in AfterPut(storage, u, Store!Item(a, lag), 0 - late)
  BY <1>1, SameStore
<1>. DEFINE r   == Store!Item(a, lag)
            ins == Insert(storage, u, r)
<1>3. r \in Rec /\ r.addr = a /\ r.modified <= 0
  BY LagAssumption DEF Store!Item, Rec
<1>4. Storage(ins)
  BY <1>3, InsertType
<1>5. \A k \in DOMAIN ins : IF k = u THEN ins[k] = r
                            ELSE k \in DOMAIN storage /\ ins[k] = storage[k]
  BY DEF Insert
<1>6. st \in CleanExpired(ins, 0 - late)
  BY <1>2 DEF AfterPut
<1>7. /\ Storage(st)
      /\ DOMAIN st \subseteq DOMAIN ins
      /\ \A k \in DOMAIN st : st[k] = ins[k]
  <2>. HIDE DEF ins
  <2>. QED
    BY <1>4, <1>6, CleanType
<1>. QED
  BY <1>3, <1>5, <1>7

\* The parts of a byte
LEMMA ByteParts ==
  ASSUME NEW b \in Byte
  PROVE  b.uid \in UID /\ b.at \in 1 .. SIZE_UID
BY DEF Byte

(***************************************************************************)
(* Bytes of UIDs make up a UID; the bytes of one UID make up that UID.     *)
(***************************************************************************)
LEMMA UidsAreUids ==
  ASSUME NEW bytes, \A i \in 1 .. SIZE_UID : bytes[i].uid \in UID
  PROVE  Uids(bytes) \subseteq UID
BY SizeAssumption DEF Uids

LEMMA WholeUid ==
  ASSUME NEW bytes, NEW u, \A i \in 1 .. SIZE_UID : bytes[i].uid = u /\ bytes[i].at = i
  PROVE  Uids(bytes) = {u}
BY SizeAssumption DEF Uids

(***************************************************************************)
(* The two halves of a chunk, and the UIDs that they are.                  *)
(***************************************************************************)
LEMMA Halves ==
  ASSUME NEW chunk \in Seq(Byte), IsRequest(chunk)
  PROVE  /\ SIZE_UID \in Nat /\ SIZE_UID >= 1 /\ SIZE_UID # 2 * SIZE_UID
         /\ \A i \in 1 .. SIZE_UID : SubSeq(chunk, 1, SIZE_UID)[i] = chunk[i]
                                     /\ chunk[i] \in Byte
         /\ FirstUids(chunk) \subseteq UID
         /\ Len(chunk) = 2 * SIZE_UID => SecondUids(chunk) \subseteq UID
<1>1. /\ SIZE_UID \in Nat /\ SIZE_UID >= 1 /\ SIZE_UID # 2 * SIZE_UID
      /\ Len(chunk) \in Nat /\ Len(chunk) >= SIZE_UID
      /\ 1 .. SIZE_UID \subseteq 1 .. Len(chunk)
  BY SizeAssumption DEF IsRequest
<1>2. \A i \in 1 .. SIZE_UID : chunk[i] \in Byte
  BY <1>1
<1>3. \A i \in 1 .. SIZE_UID : SubSeq(chunk, 1, SIZE_UID)[i] = chunk[i]
  BY <1>1
<1>4. FirstUids(chunk) \subseteq UID
  BY <1>2, <1>3, UidsAreUids DEF FirstUids, Byte
<1>5. ASSUME Len(chunk) = 2 * SIZE_UID PROVE SecondUids(chunk) \subseteq UID
  <2>1. \A i \in 1 .. SIZE_UID :
          /\ SIZE_UID + i \in 1 .. Len(chunk)
          /\ SubSeq(chunk, SIZE_UID + 1, 2 * SIZE_UID)[i] = chunk[SIZE_UID + i]
    BY <1>1, <1>5
  <2>2. \A i \in 1 .. SIZE_UID : SubSeq(chunk, SIZE_UID + 1, 2 * SIZE_UID)[i].uid \in UID
    <3>1. ASSUME NEW i \in 1 .. SIZE_UID PROVE chunk[SIZE_UID + i].uid \in UID
      BY <2>1, ByteParts
    <3>. QED
      BY <2>1, <3>1
  <2>. QED
    BY <2>2, UidsAreUids DEF SecondUids
<1>. QED
  BY <1>1, <1>2, <1>3, <1>4, <1>5

(***************************************************************************)
(* A chunk from a leaves its first UID at a, and otherwise nothing new.    *)
(***************************************************************************)
LEMMA QueryLeaves ==
  ASSUME Storage(storage), NEW chunk \in Seq(Byte), NEW a \in Addr,
         Query(chunk, a)
  PROVE  /\ Storage(storage')
         /\ \A k \in DOMAIN storage' :
              \/ /\ IsRequest(chunk) /\ k \in FirstUids(chunk)
                 /\ storage'[k].addr = a /\ storage'[k].modified <= 0
              \/ k \in DOMAIN storage /\ storage'[k] = storage[k]
<1>1. ASSUME NEW u \in FirstUids(chunk), Len(chunk) = SIZE_UID, Store!Ping(u, a)
      PROVE  /\ Storage(storage')
             /\ \A k \in DOMAIN storage' :
                  \/ k = u /\ storage'[k].addr = a /\ storage'[k].modified <= 0
                  \/ k \in DOMAIN storage /\ storage'[k] = storage[k]
  <2>1. u \in UID
    BY <1>1, Halves DEF IsRequest
  <2>. QED
    BY <1>1, <2>1, CallLeaves DEF Store!Ping
<1>2. ASSUME NEW u \in FirstUids(chunk), NEW d \in SecondUids(chunk),
             Len(chunk) = 2 * SIZE_UID, Store!Lookup(u, d, a)
      PROVE  /\ Storage(storage')
             /\ \A k \in DOMAIN storage' :
                  \/ k = u /\ storage'[k].addr = a /\ storage'[k].modified <= 0
                  \/ k \in DOMAIN storage /\ storage'[k] = storage[k]
  <2>1. u \in UID
    BY <1>2, Halves DEF IsRequest
  <2>2. PICK st \in Store!AfterCall(u, a) : storage' = AfterGet(st, d, 0)
    BY <1>2, SameStore DEF Store!Lookup
  <2>3. storage' = st \/ storage' = Erase(st, {d})
    BY <2>2 DEF AfterGet
  <2>4. /\ Storage(st)
        /\ \A k \in DOMAIN st : IF k = u THEN st[k].addr = a /\ st[k].modified <= 0
                                ELSE k \in DOMAIN storage /\ st[k] = storage[k]
    BY <2>1, <2>2, CallLeaves
  <2>5. CASE storage' = st
    BY <2>4, <2>5
  <2>6. CASE storage' = Erase(st, {d})
    <3>1. Storage(storage')
      BY <2>4, <2>6, EraseType
    <3>2. DOMAIN storage' \subseteq DOMAIN st /\ \A k \in DOMAIN storage' : storage'[k] = st[k]
      BY <2>6 DEF Erase, Restrict
    <3>. QED
      BY <2>4, <3>1, <3>2
  <2>. QED
    BY <2>3, <2>5, <2>6
<1>3. CASE ~IsRequest(chunk) /\ Store!Ignore
  BY <1>3 DEF Store!Ignore
<1>. QED
  BY <1>1, <1>2, <1>3 DEF Query, IsRequest

-------------------------------------------------------------------------------
(***************************************************************************)
(* Truthful is not inductive: a chunk that begins a request must hold the  *)
(* whole UID of its sender, which is a fact about what waits to be read.   *)
(* The bytes after any byte of a UID are the rest of that UID, the last    *)
(* byte ends one, and the sources are UIDs of the sender.                  *)
(***************************************************************************)
Runs(s) == \A i, j \in 1 .. Len(s) :
             (i <= j /\ s[i].at + (j - i) <= SIZE_UID)
               => (s[j].uid = s[i].uid /\ s[j].part = s[i].part /\ s[j].at = s[i].at + (j - i))

Ends(s) == s # <<>> => s[Len(s)].at = SIZE_UID

IsFrom(u, s) == \A i \in 1 .. Len(s) : s[i].part # "dest" => s[i].uid = u

IsStream(u, s) == Runs(s) /\ Ends(s) /\ IsFrom(u, s)

InOK == /\ in \in [Conn -> Seq(Byte)]
        /\ \A c \in Conn : IsStream(Owner[c], in[c])

IInv == /\ Storage(storage)
        /\ InOK
        /\ torn \in BOOLEAN /\ blind \in BOOLEAN
        /\ Truthful

(***************************************************************************)
(* The bytes of a UID, two streams and the rest of a stream are streams.   *)
(***************************************************************************)
LEMMA BytesStream ==
  ASSUME NEW u \in UID, NEW d \in UID, NEW part \in {"ping", "src", "dest"},
         part # "dest" => d = u
  PROVE  /\ Bytes(d, part) \in Seq(Byte) /\ Len(Bytes(d, part)) = SIZE_UID
         /\ \A i \in 1 .. SIZE_UID : Bytes(d, part)[i] = [uid |-> d, part |-> part, at |-> i]
         /\ IsStream(u, Bytes(d, part))
<1>. DEFINE s == Bytes(d, part)
<1>1. \A i \in 1 .. SIZE_UID : s[i] = [uid |-> d, part |-> part, at |-> i] /\ s[i] \in Byte
  BY DEF Bytes, Byte
<1>2. s \in Seq(Byte) /\ Len(s) = SIZE_UID
  BY <1>1, SizeAssumption DEF Bytes
<1>. HIDE DEF s
<1>3. Runs(s)
  BY <1>1, <1>2, SizeAssumption DEF Runs
<1>4. Ends(s) /\ IsFrom(u, s)
  BY <1>1, <1>2, SizeAssumption DEF Ends, IsFrom
<1>. QED
  BY <1>1, <1>2, <1>3, <1>4 DEF s, IsStream

LEMMA JoinedStream ==
  ASSUME NEW u, NEW s \in Seq(Byte), NEW t \in Seq(Byte), IsStream(u, s), IsStream(u, t)
  PROVE  s \o t \in Seq(Byte) /\ Len(s \o t) = Len(s) + Len(t) /\ IsStream(u, s \o t)
<1>. DEFINE st == s \o t
            m  == Len(s)
            n  == Len(t)
<1>1. /\ m \in Nat /\ n \in Nat /\ SIZE_UID \in Nat /\ SIZE_UID >= 1
      /\ st \in Seq(Byte) /\ Len(st) = m + n
      /\ \A i \in 1 .. m : st[i] = s[i]
      /\ \A i \in m + 1 .. m + n : st[i] = t[i - m] /\ i - m \in 1 .. n
  BY SizeAssumption
<1>2. \A i \in 1 .. m : s[i].at \in 1 .. SIZE_UID
  BY ByteParts
<1>3. \A i \in 1 .. n : t[i].at \in 1 .. SIZE_UID
  BY ByteParts
<1>. HIDE DEF st
<1>4. ASSUME NEW i \in 1 .. m, NEW j \in m + 1 .. m + n, st[i].at + (j - i) <= SIZE_UID PROVE FALSE
  <2>1. s # <<>> /\ m \in 1 .. m /\ s[m].at = SIZE_UID
    BY <1>1 DEF IsStream, Ends
  <2>2. i <= m /\ s[i].at + (m - i) <= SIZE_UID /\ st[i] = s[i]
    BY <1>1, <1>2, <1>4
  <2>3. s[m].at = s[i].at + (m - i)
    BY <2>1, <2>2 DEF IsStream, Runs
  <2>. QED
    BY <1>1, <1>2, <1>4, <2>1, <2>2, <2>3
<1>5. Runs(st)
  <2>. SUFFICES ASSUME NEW i \in 1 .. m + n, NEW j \in 1 .. m + n,
                       i <= j, st[i].at + (j - i) <= SIZE_UID
                PROVE  st[j].uid = st[i].uid /\ st[j].part = st[i].part
                       /\ st[j].at = st[i].at + (j - i)
    BY <1>1 DEF Runs
  <2>1. CASE j <= m
    <3>1. i \in 1 .. m /\ j \in 1 .. m
      BY <1>1, <2>1
    <3>. QED
      BY <1>1, <3>1 DEF IsStream, Runs
  <2>2. CASE i > m
    <3>1. i \in m + 1 .. m + n /\ j \in m + 1 .. m + n
      BY <1>1, <2>2
    <3>2. /\ st[i] = t[i - m] /\ st[j] = t[j - m] /\ i - m <= j - m
          /\ i - m \in 1 .. n /\ j - m \in 1 .. n /\ (j - m) - (i - m) = j - i
      BY <1>1, <3>1
    <3>3. t[i - m].at + ((j - m) - (i - m)) <= SIZE_UID
      BY <3>2
    <3>. QED
      BY <3>2, <3>3 DEF IsStream, Runs
  <2>3. CASE i <= m /\ j > m
    <3>1. i \in 1 .. m /\ j \in m + 1 .. m + n
      BY <1>1, <2>3
    <3>. QED
      BY <1>4, <3>1
  <2>. QED
    BY <1>1, <2>1, <2>2, <2>3
<1>6. Ends(st)
  <2>1. CASE n = 0
    <3>1. st = s
      BY <2>1 DEF st
    <3>. QED
      BY <3>1 DEF IsStream
  <2>2. CASE n > 0
    <3>1. m + n \in m + 1 .. m + n /\ (m + n) - m = n /\ t # <<>>
      BY <1>1, <2>2
    <3>. QED
      BY <1>1, <3>1 DEF IsStream, Ends
  <2>. QED
    BY <1>1, <2>1, <2>2
<1>7. IsFrom(u, st)
  <2>. SUFFICES ASSUME NEW i \in 1 .. m + n, st[i].part # "dest" PROVE st[i].uid = u
    BY <1>1 DEF IsFrom
  <2>1. CASE i <= m
    BY <1>1, <2>1 DEF IsStream, IsFrom
  <2>2. CASE i > m
    BY <1>1, <2>2 DEF IsStream, IsFrom
  <2>. QED
    BY <1>1, <2>1, <2>2
<1>. QED
  BY <1>1, <1>5, <1>6, <1>7 DEF st, IsStream

LEMMA RestStream ==
  ASSUME NEW u, NEW s \in Seq(Byte), NEW n \in 1 .. Len(s), IsStream(u, s)
  PROVE  /\ SubSeq(s, n + 1, Len(s)) \in Seq(Byte)
         /\ Len(SubSeq(s, n + 1, Len(s))) = Len(s) - n
         /\ IsStream(u, SubSeq(s, n + 1, Len(s)))
<1>. DEFINE t == SubSeq(s, n + 1, Len(s))
<1>1. /\ Len(s) \in Nat /\ n \in Nat /\ n <= Len(s)
      /\ t \in Seq(Byte) /\ Len(t) = Len(s) - n
      /\ \A i \in 1 .. Len(t) : t[i] = s[n + i] /\ n + i \in 1 .. Len(s)
  OBVIOUS
<1>. HIDE DEF t
<1>2. Runs(t)
  <2>. SUFFICES ASSUME NEW i \in 1 .. Len(t), NEW j \in 1 .. Len(t),
                       i <= j, t[i].at + (j - i) <= SIZE_UID
                PROVE  t[j].uid = t[i].uid /\ t[j].part = t[i].part
                       /\ t[j].at = t[i].at + (j - i)
    BY DEF Runs
  <2>1. n + i <= n + j /\ (n + j) - (n + i) = j - i
    BY <1>1
  <2>2. s[n + i].at + ((n + j) - (n + i)) <= SIZE_UID
    BY <1>1, <2>1
  <2>3. /\ n + i \in 1 .. Len(s) /\ n + j \in 1 .. Len(s)
        /\ t[i] = s[n + i] /\ t[j] = s[n + j]
    BY <1>1
  <2>4. /\ s[n + j].uid = s[n + i].uid /\ s[n + j].part = s[n + i].part
        /\ s[n + j].at = s[n + i].at + ((n + j) - (n + i))
    BY <2>1, <2>2, <2>3 DEF IsStream, Runs
  <2>. QED
    BY <2>1, <2>3, <2>4
<1>3. Ends(t)
  <2>. SUFFICES ASSUME t # <<>> PROVE t[Len(t)].at = SIZE_UID
    BY DEF Ends
  <2>1. Len(t) \in 1 .. Len(t) /\ n + Len(t) = Len(s) /\ s # <<>>
    BY <1>1
  <2>. QED
    BY <1>1, <2>1 DEF IsStream, Ends
<1>4. IsFrom(u, t)
  BY <1>1 DEF IsStream, IsFrom
<1>. QED
  BY <1>1, <1>2, <1>3, <1>4 DEF t, IsStream

(***************************************************************************)
(* A chunk of a stream that begins a request begins with its sender's UID. *)
(***************************************************************************)
LEMMA BeginsWithSender ==
  ASSUME NEW u, NEW s \in Seq(Byte), IsStream(u, s), NEW n \in 1 .. Len(s),
         NEW chunk \in Seq(Byte), chunk = SubSeq(s, 1, n),
         IsRequest(chunk), BeginsRequest(s[1])
  PROVE  FirstUids(chunk) = {u}
<1>1. /\ SIZE_UID \in Nat /\ SIZE_UID >= 1
      /\ \A i \in 1 .. SIZE_UID : SubSeq(chunk, 1, SIZE_UID)[i] = chunk[i]
  BY Halves
<1>2. Len(s) \in Nat /\ Len(chunk) = n /\ \A i \in 1 .. n : chunk[i] = s[i]
  OBVIOUS
<1>3. SIZE_UID <= n
  BY <1>1, <1>2 DEF IsRequest
<1>4. s[1].at = 1 /\ s[1].uid = u
  BY DEF BeginsRequest, IsStream, IsFrom
<1>5. ASSUME NEW i \in 1 .. SIZE_UID
      PROVE  SubSeq(chunk, 1, SIZE_UID)[i].uid = u /\ SubSeq(chunk, 1, SIZE_UID)[i].at = i
  <2>1. i \in 1 .. Len(s) /\ 1 \in 1 .. Len(s) /\ i \in 1 .. n /\ 1 <= i
        /\ 1 + (i - 1) = i /\ i <= SIZE_UID
    BY <1>1, <1>2, <1>3
  <2>2. s[i].uid = u /\ s[i].at = i
    BY <1>4, <2>1 DEF IsStream, Runs
  <2>. QED
    BY <1>1, <1>2, <2>1, <2>2
<1>. QED
  BY <1>5, WholeUid DEF FirstUids

(***************************************************************************)
(* Both requests are streams of their sender that begin with its UID.      *)
(***************************************************************************)
LEMMA RequestsStream ==
  ASSUME NEW u \in UID, NEW d \in UID
  PROVE  /\ PingOf(u) \in Seq(Byte) /\ Len(PingOf(u)) = SIZE_UID /\ IsStream(u, PingOf(u))
         /\ LookupOf(u, d) \in Seq(Byte) /\ Len(LookupOf(u, d)) = 2 * SIZE_UID
         /\ IsStream(u, LookupOf(u, d))
         /\ FirstUids(PingOf(u)) = {u} /\ FirstUids(LookupOf(u, d)) = {u}
<1>1. \A part \in {"ping", "src"} :
        /\ Bytes(u, part) \in Seq(Byte) /\ Len(Bytes(u, part)) = SIZE_UID
        /\ \A i \in 1 .. SIZE_UID : Bytes(u, part)[i] = [uid |-> u, part |-> part, at |-> i]
        /\ IsStream(u, Bytes(u, part))
  BY BytesStream
<1>2. /\ Bytes(d, "dest") \in Seq(Byte) /\ Len(Bytes(d, "dest")) = SIZE_UID
      /\ IsStream(u, Bytes(d, "dest"))
  BY BytesStream
<1>3. /\ LookupOf(u, d) \in Seq(Byte) /\ Len(LookupOf(u, d)) = 2 * SIZE_UID
      /\ IsStream(u, LookupOf(u, d))
  BY <1>1, <1>2, JoinedStream, SizeAssumption DEF LookupOf
<1>4. ASSUME NEW s \in Seq(Byte), IsStream(u, s), IsRequest(s), BeginsRequest(s[1])
      PROVE  FirstUids(s) = {u}
  <2>1. Len(s) \in 1 .. Len(s)
    BY <1>4, SizeAssumption DEF IsRequest
  <2>2. s = SubSeq(s, 1, Len(s))
    BY <1>4
  <2>. QED
    BY <1>4, <2>1, <2>2, BeginsWithSender
<1>5. BeginsRequest(PingOf(u)[1])
  <2>1. Bytes(u, "ping")[1] = [uid |-> u, part |-> "ping", at |-> 1]
    BY <1>1, SizeAssumption
  <2>. QED
    BY <2>1 DEF BeginsRequest, PingOf
<1>6. BeginsRequest(LookupOf(u, d)[1])
  <2>1. LookupOf(u, d)[1] = Bytes(u, "src")[1]
    <3>1. ASSUME NEW s \in Seq(Byte), NEW t \in Seq(Byte), Len(s) >= 1
          PROVE  (s \o t)[1] = s[1]
      BY <3>1
    <3>. QED
      BY <1>1, <1>2, <3>1, SizeAssumption DEF LookupOf
  <2>2. Bytes(u, "src")[1] = [uid |-> u, part |-> "src", at |-> 1]
    BY <1>1, SizeAssumption
  <2>. QED
    BY <2>1, <2>2 DEF BeginsRequest
<1>. QED
  BY <1>1, <1>3, <1>4, <1>5, <1>6 DEF PingOf, IsRequest

(***************************************************************************)
(* A registration by the owner of an address keeps every address true.     *)
(***************************************************************************)
LEMMA OwnersRegister ==
  ASSUME Storage(storage), AddressesTrue,
         NEW chunk \in Seq(Byte), NEW a \in Addr,
         IsRequest(chunk) => FirstUids(chunk) = {Owner[a]},
         Query(chunk, a)
  PROVE  AddressesTrue'
BY QueryLeaves DEF AddressesTrue

(***************************************************************************)
(* No request and no read leaves anything but a stream to be read.         *)
(***************************************************************************)
LEMMA RequestKeepsIn ==
  ASSUME InOK, NEW c \in Conn, NEW bytes \in Seq(Byte), IsStream(Owner[c], bytes),
         in' = [in EXCEPT ![c] = @ \o bytes]
  PROVE  InOK'
<1>1. in[c] \in Seq(Byte) /\ IsStream(Owner[c], in[c])
  BY DEF InOK
<1>2. in[c] \o bytes \in Seq(Byte) /\ IsStream(Owner[c], in[c] \o bytes)
  BY <1>1, JoinedStream
<1>. QED
  BY <1>2 DEF InOK

LEMMA ReadKeepsIn ==
  ASSUME InOK, NEW c \in Conn, NEW n \in 1 .. Len(in[c]),
         in' = [in EXCEPT ![c] = SubSeq(@, n + 1, Len(@))]
  PROVE  InOK'
<1>1. in[c] \in Seq(Byte) /\ IsStream(Owner[c], in[c])
  BY DEF InOK
<1>2. SubSeq(in[c], n + 1, Len(in[c])) \in Seq(Byte)
      /\ IsStream(Owner[c], SubSeq(in[c], n + 1, Len(in[c])))
  BY <1>1, RestStream
<1>. QED
  BY <1>2 DEF InOK

(***************************************************************************)
(* Nothing to be read is a stream of anyone.                               *)
(***************************************************************************)
LEMMA EmptyStream == \A u : IsStream(u, <<>>)
BY DEF IsStream, Runs, Ends, IsFrom

(***************************************************************************)
(* IInv is kept: a datagram begins with its sender's UID, and so does a    *)
(* chunk that begins a request, unless the address of its sender is not    *)
(* known.                                                                  *)
(***************************************************************************)
LEMMA StepKeepsIInv == IInv /\ [Next]_vars => IInv'
<1>. SUFFICES ASSUME IInv, [Next]_vars PROVE IInv'
  OBVIOUS
<1>. USE DEF IInv
<1>1. ASSUME storage' = storage, InOK', UNCHANGED <<torn, blind>> PROVE IInv'
  BY <1>1 DEF Truthful, AddressesTrue
<1>2. ASSUME NEW c \in Conn, NEW bytes \in Seq(Byte), NEW w, IsStream(Owner[c], bytes),
             Request(c, bytes, w)
      PROVE  IInv'
  BY <1>1, <1>2, RequestKeepsIn DEF Request, Outside, marks
<1>3. ASSUME NEW c \in Conn, SendPing(c) PROVE IInv'
  BY <1>2, <1>3, RequestsStream, AddrAssumption DEF SendPing
<1>4. ASSUME NEW c \in Conn, NEW d \in UID, SendLookup(c, d) PROVE IInv'
  BY <1>2, <1>4, RequestsStream, AddrAssumption DEF SendLookup
<1>5. ASSUME NEW c \in Conn,
             Connect(c) \/ Finish(c) \/ Reset(c) \/ OnConnect(c) \/ OnConnectError(c)
               \/ OnEndTCP(c) \/ OnNothingTCP(c) \/ OnWriteError(c)
      PROVE  IInv'
  BY <1>1, <1>5 DEF Connect, Finish, Reset, OnConnect, OnConnectError, OnEndTCP,
                    OnNothingTCP, OnWriteError, Outside, tcp, marks, InOK
<1>6. ASSUME NEW c \in Conn, OnCloseClient(c) PROVE IInv'
  BY <1>1, <1>6, EmptyStream DEF OnCloseClient, Outside, marks, InOK
<1>7. ASSUME NEW h, OnWritable(h) PROVE IInv'
  BY <1>1, <1>7 DEF OnWritable, Outside, InOK
<1>8. ASSUME NEW c \in Conn, NEW n \in 1 .. MaxIn, OnReadTCP(c, n) PROVE IInv'
  <2>1. /\ in[c] \in Seq(Byte) /\ IsStream(Owner[c], in[c]) /\ n \in 1 .. Len(in[c])
        /\ c \in Addr /\ Owner[c] \in UID
    BY <1>8, AddrAssumption DEF OnReadTCP, InOK
  <2>2. PICK chunk \in Seq(Byte) : chunk = SubSeq(in[c], 1, n)
    <3>1. SubSeq(in[c], 1, n) \in Seq(Byte)
      BY <2>1
    <3>. QED
      BY <3>1
  <2>3. PICK a \in IF remote[c] = "rst" THEN Addr ELSE {c} : Query(chunk, a)
    BY <1>8, <2>2 DEF OnReadTCP
  <2>4. /\ torn' = (torn \/ (IsRequest(chunk) /\ ~BeginsRequest(in[c][1])))
        /\ blind' = (blind \/ (IsRequest(chunk) /\ remote[c] = "rst"))
        /\ in' = [in EXCEPT ![c] = SubSeq(@, n + 1, Len(@))]
    BY <1>8, <2>2 DEF OnReadTCP
  <2>5. a \in Addr /\ (remote[c] # "rst" => a = c)
    BY <2>1, <2>3
  <2>6. Storage(storage')
    BY <2>3, <2>5, QueryLeaves
  <2>7. InOK'
    BY <2>1, <2>4, ReadKeepsIn
  <2>8. torn' \in BOOLEAN /\ blind' \in BOOLEAN
    BY <2>4, Zenon
  <2>9. ASSUME ~torn', ~blind' PROVE AddressesTrue'
    <3>1. AddressesTrue
      BY <2>4, <2>9 DEF Truthful
    <3>2. IsRequest(chunk) => BeginsRequest(in[c][1]) /\ a = c
      BY <2>4, <2>5, <2>9
    <3>3. IsRequest(chunk) => FirstUids(chunk) = {Owner[a]}
      BY <2>1, <2>2, <3>2, BeginsWithSender
    <3>. QED
      BY <2>3, <2>5, <3>1, <3>3, OwnersRegister
  <2>. QED
    BY <2>6, <2>7, <2>8, <2>9 DEF Truthful
<1>9. ASSUME NEW p \in Peer, OnUDPRead(p) PROVE IInv'
  <2>1. Owner[p] \in UID /\ p \in Addr
    BY AddrAssumption
  <2>2. PICK chunk \in {PingOf(Owner[p])} \cup {LookupOf(Owner[p], d) : d \in UID} :
          Query(chunk, p)
    BY <1>9 DEF OnUDPRead
  <2>3. chunk \in Seq(Byte) /\ FirstUids(chunk) = {Owner[p]}
    BY <2>1, <2>2, RequestsStream
  <2>4. Storage(storage') /\ (AddressesTrue => AddressesTrue')
    BY <2>1, <2>2, <2>3, QueryLeaves, OwnersRegister
  <2>5. UNCHANGED <<in, torn, blind>>
    BY <1>9 DEF OnUDPRead, marks
  <2>. QED
    BY <2>4, <2>5 DEF Truthful, InOK
<1>10. ASSUME NEW c \in Conn, BrokenPipe(c) PROVE IInv'
  <2>1. Storage(storage') /\ DOMAIN storage' = {} /\ UNCHANGED <<torn, blind>>
    BY <1>10 DEF BrokenPipe, EmptyStorage, Storage, marks
  <2>2. InOK'
    BY <1>10, EmptyStream DEF BrokenPipe, InOK
  <2>. QED
    BY <2>1, <2>2 DEF Truthful, AddressesTrue
<1>11. CASE UNCHANGED vars
  BY <1>1, <1>11 DEF vars, tcp, marks, InOK
<1>. QED
  BY <1>3, <1>4, <1>5, <1>6, <1>7, <1>8, <1>9, <1>10, <1>11
     DEF Next, RemoteEnd, Serve

(***************************************************************************)
(* For any number of connections and peers, any size of a UID and wherever *)
(* the reads end: as long as no chunk from within a request was taken for  *)
(* one and none was read after a reset, every UID is registered at an      *)
(* address of its owner.                                                   *)
(***************************************************************************)
THEOREM RegistrationsAreTrue == Spec => []Truthful
<1>1. Init => IInv
  <2>. SUFFICES ASSUME Init PROVE IInv
    OBVIOUS
  <2>1. Storage(storage) /\ DOMAIN storage = {}
    BY DEF Init, Store!Init, Store!EmptyStorage, Storage
  <2>2. InOK
    BY EmptyStream DEF Init, InOK
  <2>. QED
    BY <2>1, <2>2 DEF Init, IInv, Truthful, AddressesTrue
<1>2. IInv => Truthful
  BY DEF IInv
<1>. QED
  BY <1>1, <1>2, StepKeepsIInv, PTL DEF Spec

-------------------------------------------------------------------------------
(***************************************************************************)
(* Types.  TypeOK bounds the lengths of sequences; TInv says of what.      *)
(***************************************************************************)
Waiting == [to : Conn \cup Peer, reply : Replies]

TInv == /\ TypeOK
        /\ in \in [Conn -> Seq(Byte)]
        /\ queue \in [Conn \cup {UDP} -> Seq(Waiting)]

(***************************************************************************)
(* A query keeps the type of the store, and the reply is a reply or none.  *)
(***************************************************************************)
LEMMA QueryType ==
  ASSUME Store!TypeOK, NEW chunk \in Seq(Byte), NEW a \in Addr, Query(chunk, a)
  PROVE  Store!TypeOK'
<1>1. Storage(storage) /\ \A u \in DOMAIN storage : storage[u].modified <= 0
  BY SameStore DEF Store!TypeOK
<1>2. Storage(storage') /\ \A u \in DOMAIN storage' : storage'[u].modified <= 0
  BY <1>1, QueryLeaves
<1>4. answer' \in [uid : UID, addr : Addr \cup {NoAddr}] \cup {NoAnswer}
  <2>1. ASSUME NEW u \in FirstUids(chunk), Len(chunk) = SIZE_UID, Store!Ping(u, a)
        PROVE  answer' \in [uid : UID, addr : Addr \cup {NoAddr}] \cup {NoAnswer}
    BY <2>1, Halves DEF Store!Ping, IsRequest
  <2>2. ASSUME NEW u \in FirstUids(chunk), NEW d \in SecondUids(chunk),
               Len(chunk) = 2 * SIZE_UID, Store!Lookup(u, d, a)
        PROVE  answer' \in [uid : UID, addr : Addr \cup {NoAddr}] \cup {NoAnswer}
    <3>0. u \in UID /\ d \in UID
      BY <2>2, Halves DEF IsRequest
    <3>1. PICK st \in Store!AfterCall(u, a) :
            answer' = [uid  |-> d, addr |-> IF Hit(st, d, 0) THEN st[d].addr ELSE NoAddr]
      BY <2>2, SameStore DEF Store!Lookup
    <3>2. Storage(st)
      BY <1>1, <3>0, CallLeaves
    <3>3. Hit(st, d, 0) => st[d].addr \in Addr
      BY <3>2 DEF Hit, Storage, Rec
    <3>. QED
      BY <3>0, <3>1, <3>3
  <2>3. CASE ~IsRequest(chunk) /\ Store!Ignore
    BY <2>3 DEF Store!Ignore
  <2>. QED
    BY <2>1, <2>2, <2>3 DEF Query
<1>. QED
  BY <1>2, <1>4, SameStore DEF Store!TypeOK

(***************************************************************************)
(* The parts of TypeOK about the connections.                              *)
(***************************************************************************)
QueueOK == /\ queue \in [Conn \cup {UDP} -> Seq(Waiting)]
           /\ \A c \in Conn : /\ Len(queue[c]) <= MaxQueue
                              /\ conn[c] \in {"none", "backlog"} => queue[c] = <<>>

InTyped == /\ in \in [Conn -> Seq(Byte)]
           /\ \A c \in Conn : Len(in[c]) <= MaxIn

ConnOK == /\ conn \in [Conn -> {"none", "backlog", "open", "closing"}]
          /\ remote \in [Conn -> {"off", "on", "fin", "rst"}]

Flags == /\ waiting \in [Conn -> BOOLEAN] /\ cut \in [Conn -> BOOLEAN]
         /\ torn \in BOOLEAN /\ blind \in BOOLEAN /\ garbled \in BOOLEAN

LEMMA TInvParts ==
  /\ TInv <=> Store!TypeOK /\ QueueOK /\ InTyped /\ ConnOK /\ Flags
  /\ TInv' <=> Store!TypeOK' /\ QueueOK' /\ InTyped' /\ ConnOK' /\ Flags'
BY DEF TInv, TypeOK, QueueOK, InTyped, ConnOK, Flags

(***************************************************************************)
(* A reply waits only in a socket that is open.                            *)
(***************************************************************************)
LEMMA SendType ==
  ASSUME QueueOK, NEW h \in Conn \cup {UDP}, h \in Conn => conn[h] = "open",
         NEW to \in Conn \cup Peer, Send(h, to), UNCHANGED conn
  PROVE  QueueOK' /\ waiting' \in [Conn -> BOOLEAN] \cup {waiting}
<1>1. CASE Answered /\ SendNow(h, to)
  <2>1. waiting' \in [Conn -> BOOLEAN]
    BY <1>1, Zenon DEF SendNow
  <2>. QED
    BY <1>1, <2>1 DEF SendNow, QueueOK
<1>2. CASE Answered /\ SendLater(h, to)
  <2>. DEFINE w == [to |-> to, reply |-> answer']
  <2>1. w \in Waiting
    BY <1>2 DEF Answered, Waiting
  <2>2. Append(queue[h], w) \in Seq(Waiting) /\ Len(Append(queue[h], w)) = Len(queue[h]) + 1
    BY <2>1 DEF QueueOK
  <2>3. Len(queue[h]) < MaxQueue /\ queue' = [queue EXCEPT ![h] = Append(queue[h], w)]
        /\ waiting' = waiting
    BY <1>2 DEF SendLater
  <2>4. Len(queue[h]) \in Nat
    BY DEF QueueOK
  <2>. HIDE DEF w
  <2>. QED
    BY <2>2, <2>3, <2>4, BoundAssumption DEF QueueOK
<1>3. CASE ~Answered /\ NotSent
  BY <1>3 DEF NotSent, QueueOK
<1>. QED
  BY <1>1, <1>2, <1>3 DEF Send

LEMMA TypeInit == Init => TInv
<1>. SUFFICES ASSUME Init PROVE TInv
  OBVIOUS
<1>1. Store!TypeOK
  BY DEF Init, Store!Init, Store!EmptyStorage, Store!TypeOK, Store!Storage
<1>2. QueueOK /\ InTyped
  BY BoundAssumption DEF Init, QueueOK, InTyped
<1>. QED
  BY <1>1, <1>2, TInvParts DEF Init, ConnOK, Flags

(***************************************************************************)
(* Every step keeps TInv.                                                  *)
(***************************************************************************)
LEMMA TypeStep == TInv /\ [Next]_vars => TInv'
<1>. SUFFICES ASSUME TInv, [Next]_vars PROVE TInv'
  OBVIOUS
<1>. USE TInvParts
<1>1. Outside => Store!TypeOK'
  BY SameStore DEF Outside, Store!TypeOK, Store!Storage
<1>2. ASSUME NEW c \in Conn, NEW bytes \in Seq(Byte), NEW w \in BOOLEAN,
             Request(c, bytes, w)
      PROVE  TInv'
  <2>1. InTyped'
    <3>. DEFINE s == in[c] \o bytes
    <3>1. in[c] \in Seq(Byte)
      BY DEF InTyped
    <3>2. s \in Seq(Byte) /\ Len(s) = Len(in[c]) + Len(bytes)
      BY <3>1
    <3>3. in' = [in EXCEPT ![c] = s] /\ Len(s) <= MaxIn
      BY <1>2, <3>2 DEF Request
    <3>. HIDE DEF s
    <3>. QED
      BY <3>2, <3>3 DEF InTyped
  <2>2. QueueOK' /\ ConnOK'
    BY <1>2 DEF Request, QueueOK, ConnOK
  <2>3. Flags'
    <3>1. cut' \in [Conn -> BOOLEAN]
      BY <1>2, Zenon DEF Request, Flags
    <3>. QED
      BY <1>2, <3>1 DEF Request, Flags, marks
  <2>. QED
    BY <1>1, <1>2, <2>1, <2>2, <2>3 DEF Request
<1>3. ASSUME NEW c \in Conn, SendPing(c) PROVE TInv'
  <2>1. (in[c] = <<>> /\ ~waiting[c]) \in BOOLEAN
    OBVIOUS
  <2>. QED
    BY <1>2, <1>3, <2>1, RequestsStream, AddrAssumption DEF SendPing
<1>4. ASSUME NEW c \in Conn, NEW d \in UID, SendLookup(c, d) PROVE TInv'
  BY <1>2, <1>4, RequestsStream, AddrAssumption DEF SendLookup
<1>5. ASSUME NEW c \in Conn, Connect(c) \/ Finish(c) \/ OnConnect(c) \/ OnConnectError(c)
                               \/ OnEndTCP(c) \/ OnNothingTCP(c)
      PROVE  TInv'
  <2>1. Outside /\ UNCHANGED <<in, waiting, cut, queue, marks>>
    BY <1>5 DEF Connect, Finish, OnConnect, OnConnectError, OnEndTCP, OnNothingTCP, tcp
  <2>2. InTyped' /\ Flags'
    BY <2>1 DEF InTyped, Flags, marks
  <2>3. QueueOK' /\ ConnOK'
    BY <1>5 DEF Connect, Finish, OnConnect, OnConnectError, OnEndTCP, OnNothingTCP,
                tcp, QueueOK, ConnOK
  <2>. QED
    BY <1>1, <2>1, <2>2, <2>3
<1>6. ASSUME NEW c \in Conn, Reset(c) PROVE TInv'
  BY <1>1, <1>6 DEF Reset, InTyped, Flags, marks, QueueOK, ConnOK
<1>7. ASSUME NEW c \in Conn, OnCloseClient(c) PROVE TInv'
  <2>1. QueueOK' /\ ConnOK'
    BY <1>7, BoundAssumption DEF OnCloseClient, QueueOK, ConnOK
  <2>2. InTyped' /\ Flags'
    BY <1>7, BoundAssumption DEF OnCloseClient, InTyped, Flags, marks
  <2>. QED
    BY <1>1, <1>7, <2>1, <2>2 DEF OnCloseClient
<1>8. ASSUME NEW h \in Conn \cup {UDP}, OnWritable(h) PROVE TInv'
  <2>1. queue[h] \in Seq(Waiting) /\ queue[h] # <<>> /\ queue' = [queue EXCEPT ![h] = Tail(queue[h])]
        /\ UNCHANGED conn
    BY <1>8 DEF OnWritable, QueueOK
  <2>2. Tail(queue[h]) \in Seq(Waiting) /\ Len(Tail(queue[h])) = Len(queue[h]) - 1
    BY <2>1
  <2>3. QueueOK'
    <3>. SUFFICES ASSUME NEW c \in Conn
                  PROVE  /\ Len(queue'[c]) <= MaxQueue
                         /\ conn[c] \in {"none", "backlog"} => queue'[c] = <<>>
      BY <2>1, <2>2 DEF QueueOK
    <3>1. CASE c = h
      BY <1>8, <2>1, <2>2, <3>1, BoundAssumption DEF OnWritable, QueueOK
    <3>2. CASE c # h
      BY <2>1, <3>2 DEF QueueOK
    <3>. QED
      BY <3>1, <3>2
  <2>4. Flags'
    <3>1. waiting' \in [Conn -> BOOLEAN] /\ garbled' \in BOOLEAN
      BY <1>8, Zenon DEF OnWritable
    <3>. QED
      BY <1>8, <3>1 DEF OnWritable, Flags
  <2>5. InTyped' /\ ConnOK'
    BY <1>8 DEF OnWritable, InTyped, ConnOK
  <2>. QED
    BY <1>1, <1>8, <2>3, <2>4, <2>5 DEF OnWritable
<1>9. ASSUME NEW c \in Conn, NEW n \in 1 .. MaxIn, OnReadTCP(c, n) PROVE TInv'
  <2>. DEFINE rest == SubSeq(in[c], n + 1, Len(in[c]))
  <2>1. in[c] \in Seq(Byte) /\ n \in 1 .. Len(in[c]) /\ c \in Addr /\ Len(in[c]) \in Nat
    BY <1>9, AddrAssumption DEF OnReadTCP, InTyped
  <2>2. PICK chunk \in Seq(Byte) : chunk = SubSeq(in[c], 1, n)
    <3>1. SubSeq(in[c], 1, n) \in Seq(Byte)
      BY <2>1
    <3>. QED
      BY <3>1
  <2>3. PICK a \in IF remote[c] = "rst" THEN Addr ELSE {c} : Query(chunk, a)
    BY <1>9, <2>2 DEF OnReadTCP
  <2>4. Store!TypeOK'
    BY <2>1, <2>2, <2>3, QueryType
  <2>5. InTyped'
    <3>1. rest \in Seq(Byte) /\ Len(rest) <= Len(in[c])
      BY <2>1
    <3>2. in' = [in EXCEPT ![c] = rest]
      BY <1>9 DEF OnReadTCP
    <3>. HIDE DEF rest
    <3>. QED
      BY <2>1, <3>1, <3>2, BoundAssumption DEF InTyped
  <2>6. ConnOK' /\ UNCHANGED <<conn, garbled>>
    BY <1>9 DEF OnReadTCP, ConnOK
  <2>7. QueueOK' /\ waiting' \in [Conn -> BOOLEAN]
    <3>1. CASE remote[c] = "rst"
      BY <1>9, <2>6, <3>1 DEF OnReadTCP, NotSent, QueueOK, Flags
    <3>2. CASE remote[c] # "rst"
      BY <1>9, <2>6, <3>2, SendType DEF OnReadTCP, Flags
    <3>. QED
      BY <3>1, <3>2
  <2>8. torn' \in BOOLEAN /\ blind' \in BOOLEAN /\ cut' \in [Conn -> BOOLEAN]
    BY <1>9, Zenon DEF OnReadTCP, Flags
  <2>. QED
    BY <2>4, <2>5, <2>6, <2>7, <2>8 DEF Flags
<1>10. ASSUME NEW p \in Peer, OnUDPRead(p) PROVE TInv'
  <2>1. Owner[p] \in UID /\ p \in Addr
    BY AddrAssumption
  <2>2. PICK chunk \in {PingOf(Owner[p])} \cup {LookupOf(Owner[p], d) : d \in UID} :
          Query(chunk, p)
    BY <1>10 DEF OnUDPRead
  <2>3. Store!TypeOK'
    BY <2>1, <2>2, RequestsStream, QueryType
  <2>4. Send(UDP, p) /\ UNCHANGED <<conn, remote, in, cut, torn, blind, garbled>>
    BY <1>10 DEF OnUDPRead, marks
  <2>5. QueueOK' /\ waiting' \in [Conn -> BOOLEAN]
    <3>1. UDP \notin Conn
      BY AddrAssumption
    <3>. QED
      BY <2>4, <3>1, SendType DEF Flags
  <2>. QED
    BY <2>3, <2>4, <2>5 DEF InTyped, ConnOK, Flags
<1>11. ASSUME NEW c \in Conn, OnWriteError(c) PROVE TInv'
  <2>1. queue[c] \in Seq(Waiting) /\ queue[c] # <<>> /\ conn[c] = "open"
        /\ queue' = [queue EXCEPT ![c] = Tail(queue[c])] /\ Outside /\ UNCHANGED <<tcp, marks>>
    BY <1>11 DEF OnWriteError, QueueOK
  <2>2. Tail(queue[c]) \in Seq(Waiting) /\ Len(Tail(queue[c])) = Len(queue[c]) - 1
        /\ Len(queue[c]) \in Nat
    BY <2>1
  <2>3. QueueOK'
    BY <2>1, <2>2, BoundAssumption DEF QueueOK, tcp
  <2>. QED
    BY <1>1, <2>1, <2>3 DEF tcp, marks, InTyped, ConnOK, Flags
<1>12. ASSUME NEW c \in Conn, BrokenPipe(c) PROVE TInv'
  <2>1. Store!TypeOK'
    BY <1>12 DEF BrokenPipe, EmptyStorage, Store!TypeOK, Store!Storage
  <2>2. QueueOK' /\ InTyped'
    BY <1>12, BoundAssumption DEF BrokenPipe, QueueOK, InTyped
  <2>3. ConnOK' /\ Flags'
    BY <1>12 DEF BrokenPipe, ConnOK, Flags, marks
  <2>. QED
    BY <2>1, <2>2, <2>3
<1>13. CASE UNCHANGED vars
  <2>1. UNCHANGED <<storage, answer, conn, remote, in, waiting, cut, queue, torn, blind, garbled>>
    BY <1>13 DEF vars, tcp, marks
  <2>2. Store!TypeOK'
    BY <2>1 DEF Store!TypeOK
  <2>. QED
    BY <2>1, <2>2 DEF InTyped, Flags, QueueOK, ConnOK
<1>. QED
  BY <1>3, <1>4, <1>5, <1>6, <1>7, <1>8, <1>9, <1>10, <1>11,
     <1>12, <1>13
     DEF Next, RemoteEnd, Serve

(***************************************************************************)
(* For any number of connections and any length of their queues: types     *)
(* are kept, and no reply waits in the handle of a connection that is not  *)
(* there.                                                                  *)
(***************************************************************************)
THEOREM ListenerTypeCorrect == Spec => []TypeOK
<1>1. TInv => TypeOK
  BY DEF TInv
<1>. QED
  BY <1>1, TypeInit, TypeStep, PTL DEF Spec

-------------------------------------------------------------------------------
(***************************************************************************)
(* NoReplyLost is not inductive: what is sent when a socket is writable    *)
(* must be the response that its remote end waits for, and what is unread  *)
(* must be the whole ping itself, which no other request can follow.       *)
(***************************************************************************)
\* A remote end is there exactly when its connection is.
EndsMeet == \A c \in Conn : conn[c] = "none" <=> remote[c] = "off"

\* The replies in the socket of a connection are for its remote end.
RepliesToOwn == \A c \in Conn : \A i \in 1 .. Len(queue[c]) : queue[c][i].to = c

\* A remote end that waits is there; it is owed its response unless its ping was cut.
Owed == \A c \in Conn : waiting[c] =>
          /\ remote[c] \in {"on", "fin"}
          /\ \/ cut[c]
             \/ in[c] = PingOf(Owner[c])
             \/ in[c] = <<>> /\ queue[c] # <<>>

WInv == TInv /\ EndsMeet /\ RepliesToOwn /\ Owed

LEMMA WInit == Init => WInv
<1>. SUFFICES ASSUME Init PROVE WInv
  OBVIOUS
<1>1. EndsMeet /\ RepliesToOwn /\ Owed
  BY DEF Init, EndsMeet, RepliesToOwn, Owed
<1>. QED
  BY <1>1, TypeInit DEF WInv

LEMMA WInvIsSafe == WInv => NoReplyLost
<1>. SUFFICES ASSUME WInv, NEW c \in Conn, waiting[c], ~cut[c]
              PROVE  conn[c] # "none" /\ (Len(in[c]) >= SIZE_UID \/ queue[c] # <<>>)
  BY DEF NoReplyLost
<1>1. Len(PingOf(Owner[c])) >= SIZE_UID
  BY RequestsStream, AddrAssumption, SizeAssumption
<1>. QED
  BY <1>1 DEF WInv, EndsMeet, Owed

(***************************************************************************)
(* A response that is sent ends the waiting of its remote end, and one     *)
(* that is kept is in the socket; nobody else is affected.                 *)
(***************************************************************************)
LEMMA SendOwes ==
  ASSUME QueueOK, RepliesToOwn, NEW h \in Conn \cup {UDP}, NEW to,
         h \in Conn => to = h, Send(h, to)
  PROVE  /\ RepliesToOwn'
         /\ \A c \in Conn : waiting'[c] => waiting[c]
         /\ \A c \in Conn : c # h => queue'[c] = queue[c]
         /\ Len(queue'[h]) <= Len(queue[h]) + 1
         /\ queue[h] # <<>> => queue'[h] # <<>>
         /\ Answered /\ h \in Conn => ~waiting'[h] \/ queue'[h] # <<>>
<1>1. CASE Answered /\ SendNow(h, to)
  <2>1. queue' = queue /\ \A c \in Conn : waiting'[c] = (waiting[c] /\ c # to)
    BY <1>1, Zenon DEF SendNow
  <2>2. Len(queue[h]) \in Nat
    BY DEF QueueOK
  <2>3. RepliesToOwn'
    BY <2>1 DEF RepliesToOwn
  <2>4. /\ h \in Conn => ~waiting'[h]
        /\ \A c \in Conn : waiting'[c] => waiting[c]
    BY <2>1, Zenon
  <2>5. queue'[h] = queue[h] /\ \A c \in Conn : queue'[c] = queue[c]
    BY <2>1
  <2>. QED
    BY <2>2, <2>3, <2>4, <2>5
<1>2. CASE Answered /\ SendLater(h, to)
  <2>1. PICK w : w = [to |-> to, reply |-> answer']
    OBVIOUS
  <2>2. PICK q : q = Append(queue[h], w)
    OBVIOUS
  <2>3. queue' = [queue EXCEPT ![h] = q] /\ waiting' = waiting
    BY <1>2, <2>1, <2>2 DEF SendLater
  <2>4. queue[h] \in Seq(Waiting) /\ queue'[h] = q
    BY <2>3 DEF QueueOK
  <2>5. /\ Len(q) = Len(queue[h]) + 1 /\ Len(queue[h]) \in Nat
        /\ \A i \in 1 .. Len(queue[h]) : q[i] = queue[h][i]
        /\ q[Len(queue[h]) + 1] = w
        /\ q # <<>>
    BY <2>2, <2>4
  <2>6. RepliesToOwn'
    <3>. SUFFICES ASSUME NEW c \in Conn, NEW i \in 1 .. Len(queue'[c])
                  PROVE  queue'[c][i].to = c
      BY DEF RepliesToOwn
    <3>1. CASE c = h /\ i = Len(queue[h]) + 1
      BY <2>1, <2>4, <2>5, <3>1
    <3>2. CASE c = h /\ i # Len(queue[h]) + 1
      BY <2>4, <2>5, <3>2 DEF RepliesToOwn
    <3>3. CASE c # h
      BY <2>3, <3>3 DEF QueueOK, RepliesToOwn
    <3>. QED
      BY <3>1, <3>2, <3>3
  <2>7. \A c \in Conn : c # h => queue'[c] = queue[c]
    BY <2>3 DEF QueueOK
  <2>. QED
    BY <2>3, <2>4, <2>5, <2>6, <2>7
<1>3. CASE ~Answered /\ NotSent
  <2>1. Len(queue[h]) \in Nat
    BY DEF QueueOK
  <2>. QED
    BY <1>3, <2>1 DEF NotSent, RepliesToOwn
<1>. QED
  BY <1>1, <1>2, <1>3 DEF Send

(***************************************************************************)
(* A ping that is read is cut, or read alone and answered.                 *)
(***************************************************************************)
LEMMA PingHasResponse ==
  ASSUME TInv, NEW c \in Conn, in[c] = PingOf(Owner[c]), remote[c] # "rst",
         NEW n, OnReadTCP(c, n), ~cut'[c]
  PROVE  Answered /\ Send(c, c) /\ in'[c] = <<>>
<1>. DEFINE u == Owner[c]
            s == in[c]
<1>1. /\ u \in UID /\ s \in Seq(Byte) /\ Len(s) = SIZE_UID /\ FirstUids(s) = {u}
      /\ \A i \in 1 .. SIZE_UID : s[i].at = i
  <2>1. u \in UID
    BY AddrAssumption
  <2>2. s \in Seq(Byte) /\ Len(s) = SIZE_UID /\ FirstUids(s) = {u}
    BY <2>1, RequestsStream
  <2>3. \A i \in 1 .. SIZE_UID : s[i] = [uid |-> u, part |-> "ping", at |-> i]
    BY <2>1, BytesStream DEF PingOf
  <2>4. ASSUME NEW i \in 1 .. SIZE_UID PROVE s[i].at = i
    <3>1. s[i] = [uid |-> u, part |-> "ping", at |-> i]
      BY <2>3, Zenon
    <3>. HIDE DEF s
    <3>. QED
      BY <3>1
  <2>. QED
    BY <2>1, <2>2, <2>4
<1>2. n \in 1 .. SIZE_UID
  BY <1>1 DEF OnReadTCP
<1>3. EndsRequest(s[n])
  <2>1. cut'[c] = (cut[c] \/ ~EndsRequest(s[n]))
    BY Zenon, TInvParts DEF OnReadTCP, Flags
  <2>. QED
    BY <2>1, Zenon
<1>4. n = SIZE_UID
  BY <1>1, <1>2, <1>3 DEF EndsRequest
<1>5. SubSeq(s, 1, n) = s
  BY <1>1, <1>4
<1>6. Query(s, c) /\ Send(c, c) /\ in' = [in EXCEPT ![c] = SubSeq(s, n + 1, Len(s))]
  BY <1>5, Zenon DEF OnReadTCP
<1>7. IsRequest(s) /\ Len(s) # 2 * SIZE_UID
  BY <1>1, SizeAssumption DEF IsRequest
<1>8. answer' = [uid |-> u, addr |-> c]
  BY <1>1, <1>6, <1>7 DEF Query, Store!Ping
<1>9. Answered
  BY <1>1, <1>8, AddrAssumption DEF Answered, Replies
<1>10. in'[c] = <<>>
  BY <1>1, <1>4, <1>6, TInvParts DEF InTyped
<1>. QED
  BY <1>6, <1>9, <1>10

(***************************************************************************)
(* Every step keeps WInv: a request that follows a ping ends the wait for  *)
(* its response, and so do a reset and the end of the connection.          *)
(***************************************************************************)
LEMMA StepKeepsWInv == WInv /\ [Next]_vars => WInv'
<1>. SUFFICES ASSUME WInv, [Next]_vars PROVE (EndsMeet /\ RepliesToOwn /\ Owed)'
  BY TypeStep DEF WInv
<1>0. TInv /\ QueueOK /\ InTyped /\ ConnOK /\ Flags /\ EndsMeet /\ RepliesToOwn /\ Owed
  BY TInvParts DEF WInv
<1>1. ASSUME NEW c \in Conn, NEW bytes \in Seq(Byte), NEW w,
             w => (in[c] = <<>> /\ bytes = PingOf(Owner[c])),
             Request(c, bytes, w)
      PROVE  (EndsMeet /\ RepliesToOwn /\ Owed)'
  <2>1. (EndsMeet /\ RepliesToOwn)'
    BY <1>0, <1>1 DEF Request, EndsMeet, RepliesToOwn
  <2>2. ASSUME NEW d \in Conn, waiting'[d]
        PROVE  /\ remote'[d] \in {"on", "fin"}
               /\ \/ cut'[d]
                  \/ in'[d] = PingOf(Owner[d])
                  \/ in'[d] = <<>> /\ queue'[d] # <<>>
    <3>1. CASE d = c
      <4>1. w /\ in[c] = <<>> /\ bytes = PingOf(Owner[c])
        BY <1>0, <1>1, <2>2, <3>1 DEF Request, Flags
      <4>2. in[c] \o bytes = PingOf(Owner[c])
        BY <1>1, <4>1
      <4>3. in'[c] = in[c] \o bytes /\ remote'[c] = "on"
        BY <1>0, <1>1 DEF Request, InTyped
      <4>. QED
        BY <3>1, <4>2, <4>3
    <3>2. CASE d # c
      <4>1. waiting[d] /\ in'[d] = in[d] /\ UNCHANGED <<remote, queue>>
        BY <1>0, <1>1, <2>2, <3>2 DEF Request, Flags, InTyped
      <4>2. cut'[d] = cut[d]
        BY <1>0, <1>1, <3>2, Zenon DEF Request, Flags
      <4>. QED
        BY <1>0, <4>1, <4>2 DEF Owed
    <3>. QED
      BY <3>1, <3>2
  <2>. QED
    BY <2>1, <2>2 DEF Owed
<1>2. ASSUME NEW c \in Conn, SendPing(c) PROVE (EndsMeet /\ RepliesToOwn /\ Owed)'
  BY <1>1, <1>2, RequestsStream, AddrAssumption DEF SendPing
<1>3. ASSUME NEW c \in Conn, NEW d \in UID, SendLookup(c, d)
      PROVE  (EndsMeet /\ RepliesToOwn /\ Owed)'
  BY <1>1, <1>3, RequestsStream, AddrAssumption DEF SendLookup
<1>4. ASSUME NEW c \in Conn,
             Connect(c) \/ Finish(c) \/ OnConnect(c) \/ OnConnectError(c)
               \/ OnEndTCP(c) \/ OnNothingTCP(c)
      PROVE  (EndsMeet /\ RepliesToOwn /\ Owed)'
  <2>1. UNCHANGED <<in, waiting, cut, queue>>
    BY <1>4 DEF Connect, Finish, OnConnect, OnConnectError, OnEndTCP, OnNothingTCP, tcp
  <2>2. EndsMeet'
    BY <1>0, <1>4 DEF Connect, Finish, OnConnect, OnConnectError, OnEndTCP, OnNothingTCP,
                      tcp, EndsMeet, ConnOK
  <2>3. \A d \in Conn : remote[d] \in {"on", "fin"} => remote'[d] \in {"on", "fin"}
    BY <1>0, <1>4 DEF Connect, Finish, OnConnect, OnConnectError, OnEndTCP, OnNothingTCP,
                      tcp, ConnOK
  <2>. QED
    BY <1>0, <2>1, <2>2, <2>3 DEF RepliesToOwn, Owed
<1>5. ASSUME NEW c \in Conn, Reset(c) PROVE (EndsMeet /\ RepliesToOwn /\ Owed)'
  BY <1>0, <1>5 DEF Reset, EndsMeet, RepliesToOwn, Owed, ConnOK, Flags
<1>6. ASSUME NEW c \in Conn, OnCloseClient(c) PROVE (EndsMeet /\ RepliesToOwn /\ Owed)'
  <2>1. EndsMeet' /\ RepliesToOwn'
    BY <1>0, <1>6 DEF OnCloseClient, EndsMeet, RepliesToOwn, ConnOK, QueueOK
  <2>2. \A d \in Conn : waiting'[d] =>
          d # c /\ waiting[d] /\ in'[d] = in[d] /\ queue'[d] = queue[d] /\ remote'[d] = remote[d]
    BY <1>0, <1>6 DEF OnCloseClient, ConnOK, QueueOK, InTyped, Flags
  <2>3. \A d \in Conn : d # c => cut'[d] = cut[d]
    BY <1>0, <1>6, Zenon DEF OnCloseClient, Flags
  <2>4. Owed'
    BY <1>0, <2>2, <2>3 DEF Owed
  <2>. QED
    BY <2>1, <2>4
<1>7. ASSUME NEW h \in Conn \cup {UDP}, OnWritable(h)
      PROVE  (EndsMeet /\ RepliesToOwn /\ Owed)'
  <2>1. /\ queue[h] \in Seq(Waiting) /\ queue[h] # <<>>
        /\ queue' = [queue EXCEPT ![h] = Tail(queue[h])]
        /\ UNCHANGED <<conn, remote, in, cut>>
    BY <1>0, <1>7 DEF OnWritable, QueueOK
  <2>2. \A d \in Conn : waiting'[d] = (waiting[d] /\ d # Head(queue[h]).to)
    BY <1>7, Zenon DEF OnWritable
  <2>3. /\ Head(queue[h]) = queue[h][1] /\ 1 \in 1 .. Len(queue[h])
        /\ \A i \in 1 .. Len(Tail(queue[h])) :
             Tail(queue[h])[i] = queue[h][i + 1] /\ i + 1 \in 1 .. Len(queue[h])
    BY <2>1
  <2>4. RepliesToOwn'
    <3>. SUFFICES ASSUME NEW c \in Conn, NEW i \in 1 .. Len(queue'[c])
                  PROVE  queue'[c][i].to = c
      BY DEF RepliesToOwn
    <3>1. CASE c = h
      BY <1>0, <2>1, <2>3, <3>1 DEF RepliesToOwn, QueueOK
    <3>2. CASE c # h
      BY <1>0, <2>1, <3>2 DEF RepliesToOwn, QueueOK
    <3>. QED
      BY <3>1, <3>2
  <2>5. \A d \in Conn : waiting'[d] => waiting[d] /\ d # h
    <3>1. h \in Conn => Head(queue[h]).to = h
      BY <1>0, <2>3 DEF RepliesToOwn
    <3>. QED
      BY <2>2, <3>1, Zenon
  <2>6. Owed'
    BY <1>0, <2>1, <2>5 DEF Owed, QueueOK
  <2>. QED
    BY <1>0, <2>1, <2>4, <2>6 DEF EndsMeet
<1>8. ASSUME NEW c \in Conn, NEW n \in 1 .. MaxIn, OnReadTCP(c, n)
      PROVE  (EndsMeet /\ RepliesToOwn /\ Owed)'
  <2>1. /\ UNCHANGED <<conn, remote>> /\ conn[c] = "open"
        /\ \A d \in Conn : d # c => in'[d] = in[d]
    BY <1>0, <1>8 DEF OnReadTCP, InTyped
  <2>0. /\ \A d \in Conn : d # c => cut'[d] = cut[d]
        /\ cut[c] => cut'[c]
    BY <1>0, <1>8, Zenon DEF OnReadTCP, Flags
  <2>2. CASE remote[c] = "rst"
    <3>1. NotSent
      BY <1>8, <2>2 DEF OnReadTCP
    <3>2. ~waiting[c]
      BY <1>0, <2>2 DEF Owed
    <3>. QED
      BY <1>0, <2>0, <2>1, <3>1, <3>2 DEF NotSent, EndsMeet, RepliesToOwn, Owed
  <2>3. CASE remote[c] # "rst"
    <3>1. Send(c, c)
      BY <1>8, <2>3 DEF OnReadTCP
    <3>2. /\ RepliesToOwn'
          /\ \A d \in Conn : waiting'[d] => waiting[d]
          /\ \A d \in Conn : d # c => queue'[d] = queue[d]
          /\ Answered => ~waiting'[c] \/ queue'[c] # <<>>
      BY <1>0, <3>1, SendOwes
    <3>3. (waiting[c] /\ ~cut'[c]) => (Answered /\ in'[c] = <<>>)
      <4>. SUFFICES ASSUME waiting[c], ~cut'[c] PROVE Answered /\ in'[c] = <<>>
        OBVIOUS
      <4>1. in[c] = PingOf(Owner[c])
        BY <1>0, <1>8, <2>0 DEF Owed, OnReadTCP
      <4>. QED
        BY <1>0, <1>8, <2>3, <4>1, PingHasResponse
    <3>4. Owed'
      BY <1>0, <2>0, <2>1, <3>2, <3>3 DEF Owed
    <3>. QED
      BY <1>0, <2>1, <3>2, <3>4 DEF EndsMeet
  <2>. QED
    BY <2>2, <2>3
<1>9. ASSUME NEW p \in Peer, OnUDPRead(p) PROVE (EndsMeet /\ RepliesToOwn /\ Owed)'
  <2>1. Send(UDP, p) /\ UNCHANGED <<conn, remote, in, cut>> /\ UDP \notin Conn
    BY <1>9, AddrAssumption DEF OnUDPRead
  <2>2. /\ RepliesToOwn'
        /\ \A d \in Conn : waiting'[d] => waiting[d]
        /\ \A d \in Conn : queue'[d] = queue[d]
    BY <1>0, <2>1, SendOwes
  <2>. QED
    BY <1>0, <2>1, <2>2 DEF EndsMeet, Owed
<1>10. ASSUME NEW c \in Conn, OnWriteError(c) PROVE (EndsMeet /\ RepliesToOwn /\ Owed)'
  <2>1. /\ queue[c] \in Seq(Waiting) /\ queue[c] # <<>> /\ remote[c] = "rst"
        /\ queue' = [queue EXCEPT ![c] = Tail(queue[c])]
        /\ UNCHANGED <<conn, remote, in, waiting, cut>>
    BY <1>0, <1>10 DEF OnWriteError, QueueOK, tcp
  <2>2. \A i \in 1 .. Len(Tail(queue[c])) :
          Tail(queue[c])[i] = queue[c][i + 1] /\ i + 1 \in 1 .. Len(queue[c])
    BY <2>1
  <2>3. RepliesToOwn'
    BY <1>0, <2>1, <2>2 DEF RepliesToOwn, QueueOK
  <2>4. Owed'
    BY <1>0, <2>1 DEF Owed, QueueOK
  <2>. QED
    BY <1>0, <2>1, <2>3, <2>4 DEF EndsMeet
<1>11. ASSUME NEW c \in Conn, BrokenPipe(c) PROVE (EndsMeet /\ RepliesToOwn /\ Owed)'
  BY <1>11 DEF BrokenPipe, EndsMeet, RepliesToOwn, Owed
<1>12. CASE UNCHANGED vars
  BY <1>0, <1>12 DEF vars, tcp, EndsMeet, RepliesToOwn, Owed
<1>. QED
  BY <1>2, <1>3, <1>4, <1>5, <1>6, <1>7, <1>8, <1>9, <1>10, <1>11, <1>12
     DEF Next, RemoteEnd, Serve

(***************************************************************************)
(* For any number of connections and peers and any length of their queues: *)
(* who waits for a response has its whole ping unread or the response in   *)
(* its socket, unless a read has cut the ping.                             *)
(***************************************************************************)
THEOREM NoReplyIsLost == Spec => []NoReplyLost
BY WInit, StepKeepsWInv, WInvIsSafe, PTL DEF Spec

LEMMA Stages ==
  /\ StagesLeft["none"] = 0 /\ StagesLeft["closing"] = 1
  /\ StagesLeft["open"] = 2 /\ StagesLeft["backlog"] = 3
BY DEF StagesLeft

\* A measure is a number, and one with smaller parts is smaller.
LEMMA MeasureArithmetic ==
  ASSUME NEW s \in Nat, NEW i \in Nat, NEW q \in Nat
  PROVE  /\ s + 2 * i + q \in Nat
         /\ \A t \in Nat, j \in Nat, r \in Nat :
              /\ t < s /\ j = i /\ r = q => t + 2 * j + r < s + 2 * i + q
              /\ t = s /\ j < i /\ r <= q + 1 => t + 2 * j + r < s + 2 * i + q
              /\ t = s /\ j = i /\ r < q => t + 2 * j + r < s + 2 * i + q
OBVIOUS

LEMMA MeasureType ==
  ASSUME QueueOK, InTyped, ConnOK, NEW c \in Conn
  PROVE  /\ Len(in[c]) \in Nat /\ Len(queue[c]) \in Nat
         /\ StagesLeft[conn[c]] \in Nat /\ CallbacksLeft(c) \in Nat
<1>1. Len(in[c]) \in Nat /\ Len(queue[c]) \in Nat
  BY DEF InTyped, QueueOK
<1>2. StagesLeft[conn[c]] \in Nat
  BY Stages DEF ConnOK
<1>. QED
  BY <1>1, <1>2, MeasureArithmetic DEF CallbacksLeft

(***************************************************************************)
(* A callback takes from the measure: a read takes at least one byte,      *)
(* which counts twice, and adds one reply at most.                         *)
(***************************************************************************)
LEMMA ServeUsesUp ==
  ASSUME WInv, NEW c \in Conn, Unserved(c)', Serve(c)
  PROVE  CallbacksLeft(c)' < CallbacksLeft(c)
<1>0. TInv /\ QueueOK /\ InTyped /\ ConnOK /\ RepliesToOwn
  BY TInvParts DEF WInv
<1>1. Len(in[c]) \in Nat /\ Len(queue[c]) \in Nat /\ StagesLeft[conn[c]] \in Nat
  BY <1>0, MeasureType
<1>2. CASE OnConnect(c) \/ OnEndTCP(c)
  <2>1. in' = in /\ queue' = queue
    BY <1>2 DEF OnConnect, OnEndTCP
  <2>2. StagesLeft[conn'[c]] < StagesLeft[conn[c]] /\ StagesLeft[conn'[c]] \in Nat
    BY <1>0, <1>2, Stages DEF OnConnect, OnEndTCP, ConnOK
  <2>. QED
    BY <1>1, <2>1, <2>2, MeasureArithmetic DEF CallbacksLeft
<1>3. ASSUME NEW n \in 1 .. MaxIn, OnReadTCP(c, n)
      PROVE  CallbacksLeft(c)' < CallbacksLeft(c)
  <2>1. /\ conn[c] = "open" /\ conn' = conn /\ n \in 1 .. Len(in[c])
        /\ in'[c] = SubSeq(in[c], n + 1, Len(in[c])) /\ in[c] \in Seq(Byte)
    BY <1>0, <1>3 DEF OnReadTCP, InTyped
  <2>2. Len(in'[c]) \in Nat /\ Len(in'[c]) < Len(in[c])
    <3>1. Len(in'[c]) = Len(in[c]) - n /\ n \in Nat /\ n >= 1 /\ n <= Len(in[c])
      BY <1>1, <2>1
    <3>. QED
      BY <1>1, <3>1
  <2>3. Len(queue'[c]) <= Len(queue[c]) + 1 /\ Len(queue'[c]) \in Nat
    <3>1. Len(queue'[c]) \in Nat
      BY TInvParts, StepKeepsWInv, <1>3 DEF WInv, QueueOK, Next, Serve
    <3>2. CASE remote[c] = "rst"
      BY <1>1, <1>3, <3>1, <3>2 DEF OnReadTCP, NotSent
    <3>3. CASE remote[c] # "rst"
      BY <1>0, <1>3, <3>1, <3>3, SendOwes DEF OnReadTCP
    <3>. QED
      BY <3>2, <3>3, <3>1
  <2>. QED
    BY <1>1, <2>1, <2>2, <2>3, MeasureArithmetic DEF CallbacksLeft
<1>4. CASE OnCloseClient(c)
  BY <1>0, <1>4 DEF OnCloseClient, Unserved, ConnOK, Flags, TInv, TypeOK
<1>5. CASE OnWritable(c) \/ OnWriteError(c)
  <2>1. /\ conn[c] = "open" /\ conn' = conn /\ in' = in
        /\ queue'[c] = Tail(queue[c]) /\ queue[c] # <<>> /\ queue[c] \in Seq(Waiting)
    BY <1>0, <1>5 DEF OnWritable, OnWriteError, QueueOK, tcp
  <2>2. Len(queue'[c]) = Len(queue[c]) - 1
    BY <2>1
  <2>. QED
    BY <1>1, <2>1, <2>2, MeasureArithmetic DEF CallbacksLeft
<1>. QED
  BY <1>2, <1>3, <1>4, <1>5 DEF Serve

(***************************************************************************)
(* Nothing else adds to the measure: who waits for a response sends        *)
(* nothing more without giving up, and who has finished cannot.            *)
(***************************************************************************)
LEMMA OthersAddNothing ==
  ASSUME WInv, [Next]_vars, NEW c \in Conn, Unserved(c), Unserved(c)'
  PROVE  CallbacksLeft(c)' <= CallbacksLeft(c)
<1>0. TInv /\ QueueOK /\ InTyped /\ ConnOK /\ Flags /\ EndsMeet /\ RepliesToOwn /\ Owed
  BY TInvParts DEF WInv
<1>1. CallbacksLeft(c) \in Nat
  BY <1>0, MeasureType
<1>2. ASSUME UNCHANGED <<conn[c], in[c], queue[c]>>
      PROVE  CallbacksLeft(c)' <= CallbacksLeft(c)
  BY <1>1, <1>2 DEF CallbacksLeft
<1>3. CASE Serve(c)
  <2>1. WInv'
    BY StepKeepsWInv
  <2>2. CallbacksLeft(c)' \in Nat
    <3>1. (QueueOK /\ InTyped /\ ConnOK)'
      BY <2>1, TInvParts DEF WInv
    <3>2. Len(in'[c]) \in Nat /\ Len(queue'[c]) \in Nat /\ conn'[c] \in {"none", "backlog", "open", "closing"}
      BY <3>1 DEF InTyped, QueueOK, ConnOK
    <3>3. StagesLeft[conn'[c]] \in Nat
      BY <3>2, Stages
    <3>. QED
      BY <3>2, <3>3, MeasureArithmetic DEF CallbacksLeft
  <2>. QED
    BY <1>1, <1>3, <2>2, ServeUsesUp
<1>4. ASSUME NEW d \in Conn, NEW bytes, NEW w, w => ~waiting[d], Request(d, bytes, w)
      PROVE  CallbacksLeft(c)' <= CallbacksLeft(c)
  <2>1. d # c
    <3>. SUFFICES ASSUME d = c PROVE FALSE
      OBVIOUS
    <3>1. remote[c] = "on" /\ remote' = remote /\ waiting'[c] = w
      BY <1>0, <1>4 DEF Request, Flags
    <3>. QED
      BY <1>4, <3>1 DEF Unserved
  <2>. QED
    BY <1>0, <1>2, <1>4, <2>1 DEF Request, InTyped
<1>5. ASSUME NEW d \in Conn, RemoteEnd(d) PROVE CallbacksLeft(c)' <= CallbacksLeft(c)
  <2>1. CASE SendPing(d) \/ \E e \in UID : SendLookup(d, e)
    BY <1>4, <2>1 DEF SendPing, SendLookup
  <2>2. CASE Finish(d) \/ Reset(d)
    BY <1>2, <2>2 DEF Finish, Reset
  <2>3. CASE Connect(d)
    <3>1. d # c
      BY <1>0, <2>3 DEF Connect, Unserved, Owed
    <3>. QED
      BY <1>0, <1>2, <2>3, <3>1 DEF Connect, ConnOK
  <2>. QED
    BY <1>5, <2>1, <2>2, <2>3 DEF RemoteEnd
<1>6. ASSUME NEW d \in Conn, d # c, Serve(d) \/ OnNothingTCP(d)
      PROVE  CallbacksLeft(c)' <= CallbacksLeft(c)
  <2>1. CASE OnConnect(d) \/ OnEndTCP(d) \/ OnNothingTCP(d) \/ OnCloseClient(d)
             \/ OnWritable(d) \/ OnWriteError(d)
    BY <1>0, <1>2, <1>6, <2>1
       DEF OnConnect, OnEndTCP, OnNothingTCP, OnCloseClient, OnWritable, OnWriteError, tcp,
           ConnOK, InTyped, QueueOK
  <2>2. ASSUME NEW n \in 1 .. MaxIn, OnReadTCP(d, n)
        PROVE  CallbacksLeft(c)' <= CallbacksLeft(c)
    <3>1. conn' = conn /\ in'[c] = in[c]
      BY <1>0, <1>6, <2>2 DEF OnReadTCP, InTyped
    <3>2. queue'[c] = queue[c]
      <4>1. CASE NotSent
        BY <4>1 DEF NotSent
      <4>2. CASE Send(d, d)
        BY <1>0, <1>6, <4>2, SendOwes
      <4>. QED
        BY <2>2, <4>1, <4>2 DEF OnReadTCP
    <3>. QED
      BY <1>2, <3>1, <3>2
  <2>. QED
    BY <1>6, <2>1, <2>2 DEF Serve
<1>7. CASE OnNothingTCP(c)
  <2>1. in' = in /\ queue' = queue /\ conn[c] = "open" /\ conn'[c] = "closing"
    BY <1>0, <1>7 DEF OnNothingTCP, ConnOK
  <2>. QED
    BY <1>0, <2>1, MeasureType, Stages DEF CallbacksLeft
<1>8. ASSUME NEW p \in Peer, OnUDPRead(p) PROVE CallbacksLeft(c)' <= CallbacksLeft(c)
  <2>1. Send(UDP, p) /\ UNCHANGED <<conn, in>> /\ UDP \notin Conn
    BY <1>8, AddrAssumption DEF OnUDPRead
  <2>. QED
    BY <1>0, <1>2, <2>1, SendOwes
<1>9. CASE OnWritable(UDP)
  BY <1>0, <1>2, <1>9, AddrAssumption DEF OnWritable, QueueOK
<1>10. ASSUME NEW d \in Conn, OnConnectError(d) PROVE CallbacksLeft(c)' <= CallbacksLeft(c)
  BY <1>2, <1>10 DEF OnConnectError, tcp
<1>11. ASSUME NEW d \in Conn, BrokenPipe(d) PROVE CallbacksLeft(c)' <= CallbacksLeft(c)
  BY <1>11 DEF BrokenPipe, Unserved
<1>12. CASE UNCHANGED vars
  BY <1>2, <1>12 DEF vars, tcp
<1>. QED
  BY <1>3, <1>5, <1>6, <1>7, <1>8, <1>9, <1>10, <1>11, <1>12 DEF Next

(***************************************************************************)
(* For any number of connections and peers and any length of their queues: *)
(* a connection that somebody waits for has a bounded number of callbacks  *)
(* before it is answered or freed.                                         *)
(***************************************************************************)
THEOREM CallbacksAreUsedUp == Spec => CallbacksRunOut
<1>. DEFINE Uses == \A c \in Conn : Unserved(c) /\ Unserved(c)' =>
                      /\ CallbacksLeft(c)' <= CallbacksLeft(c)
                      /\ Serve(c) => CallbacksLeft(c)' < CallbacksLeft(c)
<1>1. WInv /\ [Next]_vars => [Uses]_vars
  BY ServeUsesUp, OthersAddNothing
<1>. QED
  BY <1>1, WInit, StepKeepsWInv, PTL DEF Spec, CallbacksRunOut
===============================================================================
