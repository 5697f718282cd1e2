------------------------------- MODULE Listener -------------------------------
(***************************************************************************)
(* The sockets of the service: the read callbacks of UDP and TCP, accept   *)
(* and close of connections, and the replies that libuv sends later when a *)
(* socket is not writable.  The client has the same TCP callbacks.         *)
(*                                                                         *)
(* What libuv and the kernel do is modelled from how the callbacks use it: *)
(* a read of a stream returns any number of the bytes that have arrived, a *)
(* reset connection may still have data to read, a reply that cannot be    *)
(* sent at once keeps a pointer to its data, and a write to a reset        *)
(* connection fails or kills the process.  Nothing expires here: Keepalive *)
(* is about time.                                                          *)
(***************************************************************************)
EXTENDS PresenceStorage, Sequences

CONSTANTS
  Conn,      \* the remote ends of TCP connections
  Peer,      \* the remote ends of UDP
  UDP,       \* the UDP socket of the service
  Leftover,  \* what another call left on the stack
  Unset,     \* an address that was never written
  Owner,     \* whose address it is
  NoAddr, NoAnswer,
  SIZE_UID,  \* bytes of a UID (16 in the code)
  MaxIn,     \* bound of the bytes that wait to be read from a connection
  MaxQueue   \* bound of the replies that wait in a socket

ASSUME AddrAssumption ==
  /\ Addr = Conn \cup Peer \cup {Unset}
  /\ Unset \notin Conn \cup Peer /\ Conn \cap Peer = {} /\ UDP \notin Addr
  /\ \A a \in Conn \cup Peer : Owner[a] \in UID
  /\ Owner[Unset] \notin UID

ASSUME SizeAssumption == SIZE_UID \in Nat \ {0}

ASSUME BoundAssumption == MaxIn \in Nat /\ MaxQueue \in Nat

VARIABLES
  storage,  \* the storage of the service
  answer,   \* what the callback that just ran left in its writeBuffer
  conn,     \* the handle of each connection
  remote,   \* what its remote end has done
  in,       \* the bytes that have arrived and the service has not read
  queue,    \* the replies that wait in each socket
  waiting,  \* the remote end sent a ping and waits for the response (history)
  cut,      \* a read ended within a request, the ping waited for at least (history)
  torn,     \* a chunk that begins within a request was taken for one (history)
  blind,    \* a chunk was taken for a request of an unknown address (history)
  garbled   \* a reply was sent that is not what query() returned (history)

tcp == <<conn, remote, in, waiting, cut>>
marks == <<torn, blind, garbled>>
vars == <<storage, answer, tcp, queue, marks>>

Store == INSTANCE MemPresence WITH clock <- 0, MaxClock <- 0

\* No callback calls query().
Outside == answer' = NoAnswer /\ UNCHANGED storage

Replies == [uid : UID, addr : Addr]

\* A byte is known by the UID it is of, the part of the request and its place in it.
Byte == [uid : UID, part : {"ping", "src", "dest"}, at : 1 .. SIZE_UID]

Bytes(u, part) == [i \in 1 .. SIZE_UID |-> [uid |-> u, part |-> part, at |-> i]]

\* The requests of 16 and of 32 bytes
PingOf(u) == Bytes(u, "ping")

LookupOf(u, d) == Bytes(u, "src") \o Bytes(d, "dest")

Init ==
  /\ Store!Init
  /\ conn = [c \in Conn |-> "none"]
  /\ remote = [c \in Conn |-> "off"]
  /\ in = [c \in Conn |-> <<>>]
  /\ queue = [h \in Conn \cup {UDP} |-> <<>>]
  /\ waiting = [c \in Conn |-> FALSE]
  /\ cut = [c \in Conn |-> FALSE]
  /\ torn = FALSE
  /\ blind = FALSE
  /\ garbled = FALSE

-------------------------------------------------------------------------------
(***************************************************************************)
(* The remote ends.                                                        *)
(***************************************************************************)
Connect(c) ==
  /\ conn[c] = "none" /\ remote[c] = "off"
  /\ conn' = [conn EXCEPT ![c] = "backlog"]
  /\ remote' = [remote EXCEPT ![c] = "on"]
  /\ Outside /\ UNCHANGED <<in, waiting, cut, queue, marks>>

\* A request; a ping that is sent alone may be followed by waiting for the response.
Request(c, bytes, waits) ==
  /\ remote[c] = "on"
  /\ Len(in[c]) + Len(bytes) <= MaxIn
  /\ in' = [in EXCEPT ![c] = @ \o bytes]
  /\ waiting' = [waiting EXCEPT ![c] = waits]
  /\ cut' = [cut EXCEPT ![c] = @ /\ ~waits]
  /\ Outside /\ UNCHANGED <<conn, remote, queue, marks>>

SendPing(c) == Request(c, PingOf(Owner[c]), in[c] = <<>> /\ ~waiting[c])

SendLookup(c, d) == Request(c, LookupOf(Owner[c], d), FALSE)

\* The remote end sends no more; a response can still reach it.
Finish(c) ==
  /\ remote[c] = "on"
  /\ remote' = [remote EXCEPT ![c] = "fin"]
  /\ Outside /\ UNCHANGED <<conn, in, waiting, cut, queue, marks>>

\* The remote end is gone; what it sent before can still be read.
Reset(c) ==
  /\ remote[c] \in {"on", "fin"}
  /\ remote' = [remote EXCEPT ![c] = "rst"]
  /\ waiting' = [waiting EXCEPT ![c] = FALSE]
  /\ Outside /\ UNCHANGED <<conn, in, cut, queue, marks>>

-------------------------------------------------------------------------------
(***************************************************************************)
(* The callbacks.                                                          *)
(***************************************************************************)

\* (mutant) when accept fails the new handle is left open
OnConnectLeft(c) ==
  /\ conn[c] = "backlog"
  /\ \E to \in {"open", "backlog"} : conn' = [conn EXCEPT ![c] = to]
  /\ Outside /\ UNCHANGED <<remote, in, waiting, cut, queue, marks>>

\* onConnect: when accept fails the new handle is closed at once.
OnConnect(c) ==
  /\ conn[c] = "backlog"
  /\ \E to \in {"open", "closing"} : conn' = [conn EXCEPT ![c] = to]
  /\ Outside /\ UNCHANGED <<remote, in, waiting, cut, queue, marks>>

\* onConnect with an error returns: the connection stays in the backlog.
OnConnectError(c) ==
  /\ conn[c] = "backlog"
  /\ Outside /\ UNCHANGED <<tcp, queue, marks>>

\* query() tests no more than the size.
IsRequest(chunk) == Len(chunk) \in {SIZE_UID, 2 * SIZE_UID}

\* What the bytes are as a UID: parts of several UIDs make up any UID.
Uids(bytes) ==
  IF \A i \in 1 .. SIZE_UID : bytes[i].uid = bytes[1].uid /\ bytes[i].at = i
  THEN {bytes[1].uid} ELSE UID

FirstUids(chunk) == Uids(SubSeq(chunk, 1, SIZE_UID))

SecondUids(chunk) == Uids(SubSeq(chunk, SIZE_UID + 1, 2 * SIZE_UID))

QuerySwapped(chunk, a) ==  \* (mutant) a lookup registers its destination
  \/ /\ Len(chunk) = SIZE_UID
     /\ \E u \in FirstUids(chunk) : Store!Ping(u, a)
  \/ /\ Len(chunk) = 2 * SIZE_UID
     /\ \E u \in FirstUids(chunk), d \in SecondUids(chunk) : Store!Lookup(d, u, a)
  \/ ~IsRequest(chunk) /\ Store!Ignore

\* Presence::query for what a read returned, from the address a
Query(chunk, a) ==
  \/ /\ Len(chunk) = SIZE_UID
     /\ \E u \in FirstUids(chunk) : Store!Ping(u, a)
  \/ /\ Len(chunk) = 2 * SIZE_UID
     /\ \E u \in FirstUids(chunk), d \in SecondUids(chunk) : Store!Lookup(u, d, a)
  \/ ~IsRequest(chunk) /\ Store!Ignore

Answered == answer' \in Replies

\* The socket h takes the reply in answer' at once.
SendNow(h, to) ==
  /\ queue[h] = <<>>
  /\ waiting' = [c \in Conn |-> waiting[c] /\ c # to]
  /\ UNCHANGED queue

\* The request stays in the socket with a pointer to the callback's writeBuffer.
SendLater(h, to) ==
  /\ Len(queue[h]) < MaxQueue
  /\ queue' = [queue EXCEPT ![h] = Append(@, [to |-> to, reply |-> answer'])]
  /\ UNCHANGED waiting

NotSent == UNCHANGED <<queue, waiting>>

\* (mutant) a reply that the socket does not take at once is dropped
SendOrDrop(h, to) ==
  IF Answered THEN SendNow(h, to) \/ NotSent ELSE NotSent

Send(h, to) ==
  IF Answered THEN SendNow(h, to) \/ SendLater(h, to) ELSE NotSent

\* onUDPRead: a datagram is a whole request.
OnUDPRead(p) ==
  /\ \/ Query(PingOf(Owner[p]), p)
     \/ \E d \in UID : Query(LookupOf(Owner[p], d), p)
  /\ Send(UDP, p)
  /\ UNCHANGED <<conn, remote, in, cut, marks>>

BeginsRequest(byte) == byte.at = 1 /\ byte.part # "dest"

EndsRequest(byte) == byte.at = SIZE_UID /\ byte.part # "src"

(***************************************************************************)
(* onReadTCP with data: the chunk is taken for a request.  The result of   *)
(* uv_tcp_getpeername is not looked at: after a reset it writes nothing,   *)
(* and addr is what was on the stack.  A reply to a reset connection is    *)
(* lost.                                                                   *)
(***************************************************************************)
OnReadTCP(c, n) ==
  /\ conn[c] = "open"
  /\ n \in 1 .. Len(in[c])
  /\ LET chunk == SubSeq(in[c], 1, n)
     IN  /\ \E a \in IF remote[c] = "rst" THEN Addr ELSE {c} : Query(chunk, a)
         /\ cut' = [cut EXCEPT ![c] = @ \/ ~EndsRequest(in[c][n])]
         /\ torn' = (torn \/ (IsRequest(chunk) /\ ~BeginsRequest(in[c][1])))
         /\ blind' = (blind \/ (IsRequest(chunk) /\ remote[c] = "rst"))
  /\ in' = [in EXCEPT ![c] = SubSeq(@, n + 1, Len(@))]
  /\ IF remote[c] = "rst" THEN NotSent ELSE Send(c, c)
  /\ UNCHANGED <<conn, remote, garbled>>

\* (mutant) a read error does not close the connection
OnEndTCPOfStream(c) ==
  /\ conn[c] = "open" /\ in[c] = <<>>
  /\ remote[c] = "fin"
  /\ conn' = [conn EXCEPT ![c] = "closing"]
  /\ Outside /\ UNCHANGED <<remote, in, waiting, cut, queue, marks>>

\* onReadTCP with UV_EOF or an error closes the connection.
OnEndTCP(c) ==
  /\ conn[c] = "open" /\ in[c] = <<>>
  /\ remote[c] \in {"fin", "rst"}
  /\ conn' = [conn EXCEPT ![c] = "closing"]
  /\ Outside /\ UNCHANGED <<remote, in, waiting, cut, queue, marks>>

\* onReadTCP with 0, when there was nothing to read, closes it as well.
OnNothingTCP(c) ==
  /\ conn[c] = "open" /\ in[c] = <<>>
  /\ remote[c] = "on"
  /\ conn' = [conn EXCEPT ![c] = "closing"]
  /\ Outside /\ UNCHANGED <<remote, in, waiting, cut, queue, marks>>

\* (mutant) the handle is freed while replies wait in it
OnCloseClientOnly(c) ==
  /\ conn[c] = "closing"
  /\ conn' = [conn EXCEPT ![c] = "none"]
  /\ remote' = [remote EXCEPT ![c] = "off"]
  /\ in' = [in EXCEPT ![c] = <<>>]
  /\ waiting' = [waiting EXCEPT ![c] = FALSE]
  /\ cut' = [cut EXCEPT ![c] = FALSE]
  /\ Outside /\ UNCHANGED <<queue, marks>>

\* libuv cancels what waits in the handle, then onCloseClient frees it.
OnCloseClient(c) ==
  /\ conn[c] = "closing"
  /\ conn' = [conn EXCEPT ![c] = "none"]
  /\ remote' = [remote EXCEPT ![c] = "off"]
  /\ in' = [in EXCEPT ![c] = <<>>]
  /\ waiting' = [waiting EXCEPT ![c] = FALSE]
  /\ cut' = [cut EXCEPT ![c] = FALSE]
  /\ queue' = [queue EXCEPT ![c] = <<>>]
  /\ Outside /\ UNCHANGED marks

(***************************************************************************)
(* A socket is writable again and takes the reply that has waited longest. *)
(* The stack it was on has been used since: it holds that reply or         *)
(* anything else.                                                          *)
(***************************************************************************)
OnWritable(h) ==
  /\ queue[h] # <<>>
  /\ h \in Conn => conn[h] = "open" /\ remote[h] # "rst"
  /\ \E onStack \in {Head(queue[h]).reply, Leftover} :
       garbled' = (garbled \/ onStack # Head(queue[h]).reply)
  /\ waiting' = [c \in Conn |-> waiting[c] /\ c # Head(queue[h]).to]
  /\ queue' = [queue EXCEPT ![h] = Tail(@)]
  /\ Outside /\ UNCHANGED <<conn, remote, in, cut, torn, blind>>

\* A reply that waits for a connection that was reset fails and is freed.
OnWriteError(c) ==
  /\ conn[c] = "open" /\ remote[c] = "rst" /\ queue[c] # <<>>
  /\ queue' = [queue EXCEPT ![c] = Tail(@)]
  /\ Outside /\ UNCHANGED <<tcp, marks>>

(***************************************************************************)
(* Or it kills the process, which does not ignore SIGPIPE: a reply that    *)
(* waits, or one to a request that is read after the reset.  The service   *)
(* is started again with nothing.                                          *)
(***************************************************************************)
BrokenPipe(c) ==
  /\ conn[c] = "open" /\ remote[c] = "rst"
  /\ queue[c] # <<>> \/ Len(in[c]) >= SIZE_UID
  /\ storage' = EmptyStorage /\ answer' = NoAnswer
  /\ conn' = [d \in Conn |-> "none"]
  /\ remote' = [d \in Conn |-> "off"]
  /\ in' = [d \in Conn |-> <<>>]
  /\ queue' = [h \in Conn \cup {UDP} |-> <<>>]
  /\ waiting' = [d \in Conn |-> FALSE]
  /\ cut' = [d \in Conn |-> FALSE]
  /\ UNCHANGED marks

Serve(c) ==
  \/ OnConnect(c)
  \/ \E n \in 1 .. MaxIn : OnReadTCP(c, n)
  \/ OnEndTCP(c)
  \/ OnCloseClient(c)
  \/ OnWritable(c) \/ OnWriteError(c)

RemoteEnd(c) ==
  \/ Connect(c) \/ SendPing(c) \/ Finish(c) \/ Reset(c)
  \/ \E d \in UID : SendLookup(c, d)

Next ==
  \/ \E c \in Conn : RemoteEnd(c) \/ Serve(c)
  \/ \E c \in Conn : OnNothingTCP(c) \/ OnConnectError(c) \/ BrokenPipe(c)
  \/ \E p \in Peer : OnUDPRead(p)
  \/ OnWritable(UDP)

(***************************************************************************)
(* The loop serves every handle that is ready, a remote end that is there  *)
(* reads, and accept does not fail for ever.                               *)
(***************************************************************************)
Spec == Init /\ [][Next]_vars /\ \A c \in Conn : WF_vars(Serve(c))

-------------------------------------------------------------------------------
(***************************************************************************)
(* Type invariant; no reply waits in a handle that was freed.              *)
(***************************************************************************)
TypeOK ==
  /\ Store!TypeOK
  /\ conn \in [Conn -> {"none", "backlog", "open", "closing"}]
  /\ remote \in [Conn -> {"off", "on", "fin", "rst"}]
  /\ \A c \in Conn :
       /\ Len(in[c]) <= MaxIn /\ Len(queue[c]) <= MaxQueue
       /\ conn[c] \in {"none", "backlog"} => queue[c] = <<>>
  /\ waiting \in [Conn -> BOOLEAN] /\ cut \in [Conn -> BOOLEAN]
  /\ torn \in BOOLEAN /\ blind \in BOOLEAN /\ garbled \in BOOLEAN

AddressesTrue == \A u \in DOMAIN storage : Owner[storage[u].addr] = u

(***************************************************************************)
(* Every UID is registered at an address of its owner, over UDP and TCP    *)
(* together and wherever the reads of a stream begin and end, unless a     *)
(* chunk from within a request was taken for one or one was read after a   *)
(* reset: nothing else can put a false address into the storage.           *)
(***************************************************************************)
Truthful == torn \/ blind \/ AddressesTrue


(***************************************************************************)
(* "return my address as visible for outside" (presence.cpp): a source is  *)
(* registered at the address it is seen at.  After a reset there is none.  *)
(***************************************************************************)
VisibleAddress == torn \/ AddressesTrue

(***************************************************************************)
(* "Response <UID:16><ADDR:16>" (presence.cpp): what is sent is what       *)
(* query() returned.  A reply that waits is sent from a stack that has     *)
(* been used for something else.                                           *)
(***************************************************************************)
RepliesIntact == ~garbled

(***************************************************************************)
(* A remote end that sent a ping and waits gets a response or loses the    *)
(* connection, whatever else the sockets are busy with, unless a read ends *)
(* within the ping.  Then query() ignores its parts, and the remote end    *)
(* waits in vain on a connection that stays open.                          *)
(***************************************************************************)
PingAnswered == \A c \in Conn : waiting[c] ~> ~waiting[c] \/ cut[c]

(***************************************************************************)
(* The handle of a connection whose remote end is gone is freed.           *)
(***************************************************************************)
HandlesFreed == \A c \in Conn : remote[c] \in {"fin", "rst"} ~> conn[c] = "none"

(***************************************************************************)
(* Both rest on two facts that need no fairness.  Who waits is still owed  *)
(* something: its connection is there, with its whole request to be read   *)
(* or a reply to be sent, whatever the other requests and replies were.    *)
(***************************************************************************)
NoReplyLost ==
  \A c \in Conn : waiting[c] /\ ~cut[c] =>
    /\ conn[c] # "none"
    /\ Len(in[c]) >= SIZE_UID \/ queue[c] # <<>>

\* Somebody waits for the service to answer or to close.
Unserved(c) == waiting[c] \/ remote[c] \in {"fin", "rst"}

\* How many callbacks open, close and free a connection
StagesLeft == [none |-> 0, closing |-> 1, open |-> 2, backlog |-> 3]

\* How many callbacks a connection can have before it is freed, at most
CallbacksLeft(c) == StagesLeft[conn[c]] + 2 * Len(in[c]) + Len(queue[c])

(***************************************************************************)
(* While somebody waits for a connection to be answered or closed, every   *)
(* callback of it uses up one of a bounded number, although a read may add *)
(* a reply; and nothing that goes on elsewhere gives any back.             *)
(***************************************************************************)
CallbacksRunOut ==
  [][\A c \in Conn : Unserved(c) /\ Unserved(c)' =>
       /\ CallbacksLeft(c)' <= CallbacksLeft(c)
       /\ Serve(c) => CallbacksLeft(c)' < CallbacksLeft(c)]_vars
===============================================================================
