------------------------------- MODULE Keepalive -------------------------------
(***************************************************************************)
(* The service and its clients over UDP: UVClient::run pings the service   *)
(* on a timer, UVListener registers the source of every ping and replies   *)
(* with the address it is seen at, and the client keeps that reply in a    *)
(* presence object of its own.                                             *)
(*                                                                         *)
(* Time is relative: now is always 0 and a record is dated by its age, as  *)
(* a negative number.  One tick stands for a minute, so that an expiration *)
(* is three ticks and a ping period two.                                   *)
(***************************************************************************)
EXTENDS PresenceStorage

CONSTANTS
  DEF_PING_TIMEOUT,  \* the ping period, in ticks
  MaxDelay,          \* ticks a datagram spends in the network, at most
  MaxFaults          \* bound of the faults between two ticks

(***************************************************************************)
(* A period and a delay fit into the expiration (120 s, 180 s), and a ping *)
(* does not stay in the network until the next one is due.                 *)
(***************************************************************************)
ASSUME PeriodAssumption ==
  /\ DEF_PING_TIMEOUT \in Nat \ {0}
  /\ MaxDelay \in Nat /\ MaxFaults \in Nat
  /\ MaxDelay < DEF_PING_TIMEOUT
  /\ DEF_PING_TIMEOUT + MaxDelay <= DEF_EXPIRATION_SEC
  /\ TicksPerSec = 1 /\ MaxLag = 0

VARIABLES
  storage,  \* the storage of the service
  up,       \* the clients that run
  timer,    \* ticks until onTimer of each client
  home,     \* the address datagrams of a client seem to come from
  cache,    \* the storage of each client
  net,      \* datagrams under way
  faults,   \* faults since the last tick
  calm,     \* ticks since the last fault, up to Calm (history)
  heard,    \* no ping of the client is missing since the service knows it (history)
  since     \* ticks since a client started, moved or stopped, up to Settled (history)

client == <<up, timer, home, cache>>
vars == <<storage, client, net, faults, calm, heard, since>>

Settled == DEF_EXPIRATION_SEC + 2 * MaxDelay + 1
Calm == DEF_PING_TIMEOUT + MaxDelay + 1

Kinds == {"ping", "pong"}

\* a ping <SRC-UID> sent from addr, or its response <UID><ADDR> sent to addr
Datagram(kind, c, a) == [kind |-> kind, uid |-> c, addr |-> a, age |-> 0]

Fresh(a) == [modified |-> 0, addr |-> a]

\* an address no other running client has
FreeAddr(c) == Addr \ {home[d] : d \in up \ {c}}

Init ==
  /\ storage = EmptyStorage
  /\ up = UID
  /\ timer = [c \in UID |-> 0]
  /\ home \in {h \in [UID -> Addr] : \A c, d \in UID : h[c] = h[d] => c = d}
  /\ cache = [c \in UID |-> EmptyStorage]
  /\ net = {}
  /\ faults = 0
  /\ calm = 0
  /\ heard = [c \in UID |-> FALSE]
  /\ since = [c \in UID |-> 0]

-------------------------------------------------------------------------------
(***************************************************************************)
(* What the processes do.                                                  *)
(***************************************************************************)

\* (mutant) the period is twice as long
OnTimerSlow(c) ==
  /\ c \in up
  /\ timer[c] = 0
  /\ net' = net \cup {Datagram("ping", c, home[c])}
  /\ timer' = [timer EXCEPT ![c] = 2 * DEF_PING_TIMEOUT]
  /\ UNCHANGED <<storage, up, home, cache, faults, calm, heard, since>>

\* onTimer: the first timeout is 0, the timer repeats by itself.
OnTimer(c) ==
  /\ c \in up
  /\ timer[c] = 0
  /\ net' = net \cup {Datagram("ping", c, home[c])}
  /\ timer' = [timer EXCEPT ![c] = DEF_PING_TIMEOUT]
  /\ UNCHANGED <<storage, up, home, cache, faults, calm, heard, since>>

\* (mutant) a client already in the storage is not put again
ServiceReadOnce(m, again) ==
  /\ m \in net /\ m.kind = "ping"
  /\ storage' \in IF m.uid \in DOMAIN storage
                    THEN {storage} ELSE AfterPut(storage, m.uid, Fresh(m.addr), 0)
  /\ net' = (net \ {m}) \cup again \cup {Datagram("pong", m.uid, m.addr)}
  /\ heard' = [heard EXCEPT ![m.uid] = m.uid \in up]
  /\ UNCHANGED <<client, since>>

(***************************************************************************)
(* onUDPRead of the service: sixteen bytes are a query, which registers    *)
(* the source and replies to it.  A datagram in again is delivered once    *)
(* more later.                                                             *)
(***************************************************************************)
ServiceRead(m, again) ==
  /\ m \in net /\ m.kind = "ping"
  /\ storage' \in AfterPut(storage, m.uid, Fresh(m.addr), 0)
  /\ net' = (net \ {m}) \cup again \cup {Datagram("pong", m.uid, m.addr)}
  /\ heard' = [heard EXCEPT ![m.uid] = m.uid \in up]
  /\ UNCHANGED <<client, since>>

(***************************************************************************)
(* onUDPRead of the client that has the address now: 32 bytes are put into *)
(* its own storage, whose they may be, with the time of their arrival.     *)
(***************************************************************************)
ClientRead(c, m, again) ==
  /\ m \in net /\ m.kind = "pong"
  /\ c \in up /\ home[c] = m.addr
  /\ \E st \in AfterPut(cache[c], m.uid, Fresh(m.addr), 0) :
       cache' = [cache EXCEPT ![c] = st]
  /\ net' = (net \ {m}) \cup again
  /\ UNCHANGED <<storage, up, timer, home, heard, since>>

\* Nobody listens at the address of a response.
Unreachable(m) ==
  /\ m \in net /\ m.kind = "pong"
  /\ \A c \in up : home[c] # m.addr
  /\ net' = net \ {m}
  /\ UNCHANGED <<storage, client, faults, calm, heard, since>>

\* Everything gets one tick older; nothing due is left behind.
Aged(st) ==
  [u \in DOMAIN st |->
     IF Expired(st[u], 0) THEN st[u] ELSE [st[u] EXCEPT !.modified = @ - 1]]

Tick ==
  /\ \A c \in up : timer[c] > 0
  /\ \A m \in net : m.age < MaxDelay
  /\ timer' = [c \in UID |-> IF c \in up THEN timer[c] - 1 ELSE 0]
  /\ storage' = Aged(storage)
  /\ cache' = [c \in UID |-> Aged(cache[c])]
  /\ net' = {[m EXCEPT !.age = @ + 1] : m \in net}
  /\ since' = [c \in UID |-> IF since[c] < Settled THEN since[c] + 1 ELSE Settled]
  /\ faults' = 0
  /\ calm' = IF calm < Calm THEN calm + 1 ELSE Calm
  /\ UNCHANGED <<up, home, heard>>

-------------------------------------------------------------------------------
(***************************************************************************)
(* Faults, at most MaxFaults of them between two ticks.                    *)
(***************************************************************************)
Fault == faults < MaxFaults /\ faults' = faults + 1 /\ calm' = 0
NoFault == UNCHANGED <<faults, calm>>

\* A datagram is lost; also what a service that is down would have read.
Lose(m) ==
  /\ Fault
  /\ m \in net
  /\ net' = net \ {m}
  /\ heard' = IF m.kind = "ping" THEN [heard EXCEPT ![m.uid] = FALSE] ELSE heard
  /\ UNCHANGED <<storage, client, since>>

\* The service is started again: its storage was in memory.
Restart ==
  /\ Fault
  /\ storage' = EmptyStorage
  /\ heard' = [c \in UID |-> FALSE]
  /\ UNCHANGED <<client, net, since>>

\* A client gets another address (DHCP, NAT).
Move(c, a) ==
  /\ Fault
  /\ c \in up
  /\ a \in FreeAddr(c) \ {home[c]}
  /\ home' = [home EXCEPT ![c] = a]
  /\ since' = [since EXCEPT ![c] = 0]
  /\ UNCHANGED <<storage, up, timer, cache, net, heard>>

Stop(c) ==
  /\ Fault
  /\ c \in up
  /\ up' = up \ {c}
  /\ cache' = [cache EXCEPT ![c] = EmptyStorage]
  /\ timer' = [timer EXCEPT ![c] = 0]
  /\ heard' = [heard EXCEPT ![c] = FALSE]
  /\ since' = [since EXCEPT ![c] = 0]
  /\ UNCHANGED <<storage, home, net>>

\* A stopped client starts again, with its UID and at any address.
Start(c, a) ==
  /\ c \notin up
  /\ a \in FreeAddr(c)
  /\ up' = up \cup {c}
  /\ home' = [home EXCEPT ![c] = a]
  /\ since' = [since EXCEPT ![c] = 0]
  /\ UNCHANGED <<storage, timer, cache, net, faults, calm, heard>>

Read ==
  \E m \in net :
    \/ ServiceRead(m, {}) /\ NoFault
    \/ ServiceRead(m, {m}) /\ Fault
    \/ \E c \in UID : ClientRead(c, m, {}) /\ NoFault
    \/ \E c \in UID : ClientRead(c, m, {m}) /\ Fault
    \/ Unreachable(m)

Progress == (\E c \in UID : OnTimer(c)) \/ Read \/ Tick

Faulty ==
  \/ \E m \in net : Lose(m)
  \/ Restart
  \/ \E c \in UID : Stop(c)
  \/ \E c \in UID, a \in Addr : Move(c, a) \/ Start(c, a)

Next == Progress \/ Faulty

\* Time goes on, due timers run, datagrams arrive within MaxDelay or are lost.
Spec == Init /\ [][Next]_vars /\ WF_vars(Progress)

-------------------------------------------------------------------------------
(***************************************************************************)
(* Type invariant: datagrams do not outlive MaxDelay, timers the period.   *)
(***************************************************************************)
TypeOK ==
  /\ Storage(storage)
  /\ up \in SUBSET UID
  /\ timer \in [UID -> 0 .. DEF_PING_TIMEOUT]
  /\ home \in [UID -> Addr]
  /\ DOMAIN cache = UID /\ \A c \in UID : Storage(cache[c])
  /\ net \subseteq [kind : Kinds, uid : UID, addr : Addr, age : 0 .. MaxDelay]
  /\ faults \in 0 .. MaxFaults
  /\ calm \in 0 .. Calm
  /\ heard \in [UID -> BOOLEAN]
  /\ since \in [UID -> 0 .. Settled]

Found(st, c) == Hit(st, c, 0)

(***************************************************************************)
(* A running client is present all the time, from the first ping that the  *)
(* service reads until a ping is lost: the period of onTimer and the delay *)
(* fit into the expiration.                                                *)
(***************************************************************************)
Available == \A c \in up : heard[c] => Found(storage, c)

(***************************************************************************)
(* A stopped client is not present for longer than the expiration and the  *)
(* delay of its last ping, even if that comes twice.                       *)
(***************************************************************************)
ForgetsStopped ==
  \A c \in UID \ up : since[c] > DEF_EXPIRATION_SEC + MaxDelay => ~Found(storage, c)

(***************************************************************************)
(* A client that moves is present at its new address one period and one    *)
(* delay later, although a ping from the old address may arrive after one  *)
(* from the new address and take the record back.                          *)
(***************************************************************************)
FollowsMove ==
  \A c \in up :
    heard[c] /\ since[c] > DEF_PING_TIMEOUT + MaxDelay => storage[c].addr = home[c]

(***************************************************************************)
(* A period and a delay after the last fault, a client that has run and    *)
(* stayed where it is for as long is present at its address: whatever was  *)
(* lost, late or forgotten, the next ping that onTimer sends repairs it.   *)
(***************************************************************************)
RecoversInTime ==
  \A c \in up :
    calm > DEF_PING_TIMEOUT + MaxDelay /\ since[c] > DEF_PING_TIMEOUT + MaxDelay =>
      Found(storage, c) /\ storage[c].addr = home[c]

(***************************************************************************)
(* A response goes to an address, and who has taken that over puts what it *)
(* says of the former owner into its own storage, from which it answers    *)
(* lookups over TCP.  It does so no longer than an expiration and the      *)
(* delays of a ping and its response after that owner left the address.    *)
(***************************************************************************)
ForgetsOthers ==
  \A d \in up : \A c \in UID \ {d} :
    since[c] > DEF_EXPIRATION_SEC + 2 * MaxDelay => ~Found(cache[d], c)

(***************************************************************************)
(* What a client believes to be its own address was so within the last     *)
(* expiration, whatever is lost, late or repeated.                         *)
(***************************************************************************)
OwnAddress ==
  \A c \in up :
    Found(cache[c], c) /\ since[c] > DEF_EXPIRATION_SEC => cache[c][c].addr = home[c]

(***************************************************************************)
(* Once there are no more faults, a client that runs is present at its     *)
(* address for good, and learns that address again and again.              *)
(***************************************************************************)
NoMoreFaults == <>[](faults = 0)

Recovers ==
  NoMoreFaults =>
    \A c \in UID :
      <>[](c \in up) =>
        /\ <>[](Found(storage, c) /\ storage[c].addr = home[c])
        /\ []<>(Found(cache[c], c) /\ cache[c][c].addr = home[c])

(***************************************************************************)
(* The record of a client that is gone leaves the memory of the service as *)
(* long as another one keeps pinging: the sweep gets to it.                *)
(***************************************************************************)
Reclaims ==
  NoMoreFaults =>
    \A c, d \in UID : <>[](c \notin up /\ d \in up) => <>[](c \notin DOMAIN storage)
===============================================================================
