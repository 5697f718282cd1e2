------------------------------- MODULE SweepLoop -------------------------------
(***************************************************************************)
(* One call of query() or put() step by step: the clock reads and every    *)
(* turn of the loop of MemPresence::cleanExpired, with its iterator.       *)
(* MemPresence takes the same call as one step.                            *)
(***************************************************************************)
EXTENDS PresenceStorage, FiniteSets

CONSTANTS
  NoAddr, NoAnswer, MaxClock,  \* as in MemPresence
  End                          \* storage.end()

ASSUME EndAssumption == End \notin UID

VARIABLES
  storage,  \* MemPresence::storage
  clock,    \* system_clock
  answer,   \* the reply buffer of the last call
  pc,       \* where the thread of the event loop is
  it,       \* the iterator of cleanExpired
  now,      \* the clock as put() read it
  call,     \* the arguments of the call, and its PresenceItem
  before    \* the storage when the running call began (history)

vars == <<storage, clock, answer, pc, it, now, call, before>>

Ops == {"ping", "lookup", "learn"}

NoCall == [op |-> "none"]

Init ==
  /\ storage = EmptyStorage
  /\ clock = 0
  /\ answer = NoAnswer
  /\ pc = "idle"
  /\ it = End
  /\ now = 0
  /\ call = NoCall
  /\ before = EmptyStorage

\* the key that follows k in the order of the map
NextKey(K, k, n) ==
  IF n = End THEN \A m \in K : m <= k
             ELSE n \in K /\ k < n /\ \A m \in K : m <= k \/ n <= m

\* begin()
IsBegin(K, n) == IF n = End THEN K = {} ELSE n \in K /\ \A m \in K : n <= m

IncrementCircular(K, n) ==  \* (mutant) the header is linked to the first record
  IF n = End THEN {m \in K : IsBegin(K, m)}
             ELSE {m \in K \cup {End} : NextKey(K, n, m)}

(***************************************************************************)
(* it++ at n.  At end() it follows the right link of the header of the     *)
(* tree and then the left links: to the last record, or to the record      *)
(* before it when that is its left child.                                  *)
(***************************************************************************)
Increment(K, n) ==
  IF n = End
    THEN {m \in K : \A i, j \in K : m < i /\ m < j => i = j}
    ELSE {m \in K \cup {End} : NextKey(K, n, m)}

\* The constructor of PresenceItem reads the clock.
Begin(op, u, d, a) ==
  /\ pc = "idle"
  /\ op # "lookup" => d = u
  /\ call' = [op |-> op, src |-> u, dest |-> d,
              item |-> [modified |-> clock, addr |-> a]]
  /\ pc' = "put"
  /\ before' = storage
  /\ UNCHANGED <<storage, clock, answer, it, now>>

\* (mutant) map::insert, which leaves a record that is there as it is
StoreIfNew ==
  /\ pc = "put"
  /\ now' = clock
  /\ storage' = IF call.src \in DOMAIN storage
                  THEN storage ELSE Insert(storage, call.src, call.item)
  /\ \E n \in UID \cup {End} : IsBegin(DOMAIN storage', n) /\ it' = n
  /\ pc' = "sweep"
  /\ UNCHANGED <<clock, answer, call, before>>

\* MemPresence::put stores the item and starts the sweep.
Store ==
  /\ pc = "put"
  /\ now' = clock
  /\ storage' = Insert(storage, call.src, call.item)
  /\ \E n \in UID \cup {End} : IsBegin(DOMAIN storage', n) /\ it' = n
  /\ pc' = "sweep"
  /\ UNCHANGED <<clock, answer, call, before>>

\* (mutant) the iterator is advanced behind erased records only
KeepInPlace ==
  /\ pc = "sweep"
  /\ it # End
  /\ ~Expired(storage[it], now)
  /\ UNCHANGED vars

\* A turn of the loop at a record that has not expired.
Keep ==
  /\ pc = "sweep"
  /\ it # End
  /\ ~Expired(storage[it], now)
  /\ it' \in Increment(DOMAIN storage, it)
  /\ UNCHANGED <<storage, clock, answer, pc, now, call, before>>

\* (mutant) the iterator is not taken from erase()
EraseUnderIterator ==
  /\ pc = "sweep"
  /\ it # End
  /\ Expired(storage[it], now)
  /\ storage' = Erase(storage, {it})
  /\ UNCHANGED <<clock, answer, pc, it, now, call, before>>

(***************************************************************************)
(* A turn at an expired record: erase() returns the next one and the loop  *)
(* goes on behind that.  With the tree empty the links of its header lead  *)
(* to the header, and the increment of libstdc++ does not return.          *)
(***************************************************************************)
EraseAt ==
  /\ pc = "sweep"
  /\ it # End
  /\ Expired(storage[it], now)
  /\ storage' = Erase(storage, {it})
  /\ \E n \in UID \cup {End} :
       /\ NextKey(DOMAIN storage', it, n)
       /\ IF DOMAIN storage' = {}
            THEN pc' = "hung" /\ it' = End
            ELSE pc' = pc /\ it' \in Increment(DOMAIN storage', n)
  /\ UNCHANGED <<clock, answer, now, call, before>>

\* The locals of the call are gone.
Leave ==
  /\ pc' = "idle"
  /\ it' = End
  /\ now' = 0
  /\ call' = NoCall
  /\ before' = EmptyStorage

\* The loop is over: reply to a ping, or return from put().
Return ==
  /\ pc = "sweep"
  /\ it = End
  /\ call.op # "lookup"
  /\ answer' = IF call.op = "ping" THEN [uid |-> call.src, addr |-> call.item.addr]
                                   ELSE NoAnswer
  /\ Leave
  /\ UNCHANGED <<storage, clock>>

\* (mutant) get() judges the record by the clock that put() read
GetByOldClock ==
  /\ pc = "sweep"
  /\ it = End
  /\ call.op = "lookup"
  /\ storage' = AfterGet(storage, call.dest, now)
  /\ answer' = [uid |-> call.dest,
                addr |-> IF Hit(storage, call.dest, now)
                           THEN storage[call.dest].addr ELSE NoAddr]
  /\ Leave
  /\ UNCHANGED clock

\* The loop is over: MemPresence::get reads the clock once more.
Get ==
  /\ pc = "sweep"
  /\ it = End
  /\ call.op = "lookup"
  /\ storage' = AfterGet(storage, call.dest, clock)
  /\ answer' = [uid |-> call.dest,
                addr |-> IF Hit(storage, call.dest, clock)
                           THEN storage[call.dest].addr ELSE NoAddr]
  /\ Leave
  /\ UNCHANGED clock

Ignore ==
  /\ pc = "idle"
  /\ answer' = NoAnswer
  /\ UNCHANGED <<storage, clock, pc, it, now, call, before>>

\* Time passes, in a call no more than MaxLag.
Tick ==
  /\ clock < MaxClock
  /\ pc # "idle" => clock < call.item.modified + MaxLag
  /\ clock' = clock + 1
  /\ answer' = NoAnswer
  /\ UNCHANGED <<storage, pc, it, now, call, before>>

Turn == Keep \/ EraseAt

Step == Store \/ Turn \/ Return \/ Get

Next ==
  \/ \E op \in Ops, u, d \in UID, a \in Addr : Begin(op, u, d, a)
  \/ Step
  \/ Ignore
  \/ Tick

\* Nothing in a call blocks: its thread goes on.
Spec == Init /\ [][Next]_vars /\ WF_vars(Step)

-------------------------------------------------------------------------------
\* What the variables hold.
TypeOK ==
  /\ Storage(storage) /\ Storage(before)
  /\ clock \in Int /\ now \in Int
  /\ pc \in {"idle", "put", "sweep", "hung"}
  /\ it \in UID \cup {End}
  /\ pc # "idle" =>
       call \in [op : Ops, src : UID, dest : UID, item : Rec]

(***************************************************************************)
(* The iterator of cleanExpired is never left at an erased record, the     *)
(* record of the running call is not swept away, and the sweep takes       *)
(* nothing but records that have expired.                                  *)
(***************************************************************************)
SweepSafe ==
  pc = "sweep" =>
    /\ it \in DOMAIN storage \cup {End}
    /\ call.src \in DOMAIN storage /\ storage[call.src] = call.item
    /\ \A k \in DOMAIN before \ {call.src} :
         IF k \in DOMAIN storage THEN storage[k] = before[k]
                                 ELSE Expired(before[k], now)

(***************************************************************************)
(* Invariant of the sweep: the types, and a sound iterator and storage at  *)
(* every turn of the loop of cleanExpired.                                 *)
(***************************************************************************)
SweepOK == TypeOK /\ SweepSafe

(***************************************************************************)
(* cleanExpired never increments the end() of an empty map, which would    *)
(* not return: put() stores a fresh record first.                          *)
(***************************************************************************)
NeverHangs == pc # "hung"

(***************************************************************************)
(* Every call returns, although the loop goes back to the last records     *)
(* each time it erases the last one.                                       *)
(***************************************************************************)
EveryCallReturns == (pc # "idle") ~> (pc = "idle")

(***************************************************************************)
(* The loop is linear although it goes back: every turn takes from twice   *)
(* the records in the map and those from the iterator on, so that a call   *)
(* that finds n records has no more than 3n turns.                         *)
(***************************************************************************)
Ahead == {k \in DOMAIN storage : it # End /\ it <= k}

TurnsLeft == 2 * Cardinality(DOMAIN storage) + Cardinality(Ahead)

TurnsRunOut == [][Turn => TurnsLeft' < TurnsLeft]_vars

(***************************************************************************)
(* The loop does what MemPresence says of the whole call.                  *)
(***************************************************************************)
M == INSTANCE MemPresence WITH storage <- IF pc = "idle" THEN storage ELSE before

ImplementsMemPresence == M!Spec
===============================================================================
