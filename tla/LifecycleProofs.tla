---------------------------- MODULE LifecycleProofs ----------------------------
(***************************************************************************)
(* Theorems about Lifecycle, for any number of processes.                  *)
(***************************************************************************)
EXTENDS Lifecycle, TLAPS

(***************************************************************************)
(* The inductive invariant: types; what sockets a process has at each      *)
(* place; a port has one listener; a datagram socket without a port comes  *)
(* from an address that came up in between; run() fails with an error.     *)
(***************************************************************************)
SocketsByPlace ==
  \A p \in Proc : /\ at[p] = "gone" => tcp[p] = "closed"
                  /\ p \in udp => /\ at[p] \in {"bound", "loop", "stuck"}
                                  /\ tcp[p] = "port" \/ p \in cameUp
                  /\ at[p] = "listening" => /\ tcp[p] # "closed"
                                            /\ tcp[p] = "elsewhere" /\ Bindable(p) =>
                                                 p \in cameUp
                  /\ tcp[p] = "elsewhere" => prog[p] = "service"

OneListener ==
  \A p, q \in Proc :
    tcp[p] = "port" /\ tcp[q] = "port" /\ prog[p] = prog[q] => p = q

ErrorIsKept == \A p \in Proc : at[p] = "failed" => retCode[p] # CODE_OK

IInv ==
  /\ TypeOK
  /\ SocketsByPlace /\ OneListener
  /\ ErrorIsKept /\ FailureIsTold

\* No error of run() looks like success in its low byte.
LEMMA ErrorStatus ==
  ASSUME NEW code \in {ERR_CODE_COMMAND_LINE, ERR_CODE_SOCKET_BIND,
                       ERR_CODE_SOCKET_LISTEN, EXIT_FAILURE}
  PROVE  ExitStatus(code) \in 1 .. 255
BY DEF ExitStatus, EXIT_FAILURE, ERR_CODE_COMMAND_LINE, ERR_CODE_SOCKET_BIND, ERR_CODE_SOCKET_LISTEN

LEMMA OkStatus == ExitStatus(CODE_OK) = 0
BY DEF ExitStatus, CODE_OK

LEMMA InitEstablishes == Init => IInv
BY DEF Init, IInv, TypeOK, Live, Program, CODE_OK, Killed, Aborted, Running, SocketsByPlace,
       OneListener, ErrorIsKept, FailureIsTold

(***************************************************************************)
(* Ending with a status other than 0, or after SIGINT, keeps the invariant *)
(***************************************************************************)
LEMMA EndKeeps ==
  ASSUME IInv, NEW p \in Proc, NEW status \in 0 .. Aborted, End(p, status),
         asked' = asked \/ asked' = [asked EXCEPT ![p] = TRUE],
         status = 0 => asked'[p]
  PROVE  IInv'
<1> USE DEF IInv, End, Tell
<1>1. TypeOK'
  <2>1. udp' \subseteq Live' /\ cameUp' \subseteq Live'
    BY DEF TypeOK, Live
  <2>2. asked' \in [Proc -> BOOLEAN]
    BY DEF TypeOK
  <2>3. exit' \in [Proc -> 0 .. Running] /\ told' \in [Proc -> 0 .. Running]
    BY DEF TypeOK, Aborted, Running
  <2> QED
    BY <2>1, <2>2, <2>3 DEF TypeOK
<1>2. SocketsByPlace'
  BY DEF SocketsByPlace, TypeOK, Live, Bindable
<1>3. OneListener'
  BY DEF OneListener, TypeOK
<1>4. ErrorIsKept'
  BY DEF ErrorIsKept, TypeOK
<1>5. FailureIsTold'
  BY DEF FailureIsTold, TypeOK
<1> QED
  BY <1>1, <1>2, <1>3, <1>4, <1>5

(***************************************************************************)
(* Every step keeps the invariant.                                         *)
(***************************************************************************)
LEMMA LaunchKeeps ==
  ASSUME IInv, NEW p \in Proc, NEW g \in Program, NEW d \in BOOLEAN, Launch(p, g, d)
  PROVE  IInv'
<1> USE DEF IInv, Launch, Goto, marks, sockets, ends
<1>1. TypeOK'
  BY DEF TypeOK, Live, Running
<1>2. SocketsByPlace' /\ OneListener'
  BY DEF SocketsByPlace, OneListener, TypeOK, Live, Bindable
<1>3. ErrorIsKept'
  BY DEF ErrorIsKept, TypeOK
<1>4. FailureIsTold'
  BY DEF FailureIsTold, TypeOK, Running
<1> QED
  BY <1>1, <1>2, <1>3, <1>4

\* Steps that neither end a process nor touch a socket
LEMMA WalkKeeps ==
  ASSUME IInv, NEW p \in Proc, Foreground(p) \/ Fork(p) \/ Background(p) \/ SetPidFile(p)
  PROVE  IInv'
<1> USE DEF IInv, Foreground, Fork, Background, SetPidFile, Goto, Tell, marks, sockets, ends
<1>1. TypeOK'
  <2>4. told' \in [Proc -> 0 .. Running]
    BY DEF TypeOK, EXIT_SUCCESS, Running
  <2>1. loopOpen' \in [Proc -> BOOLEAN]
    BY DEF TypeOK, CloseFileDescriptors
  <2>2. wrote' \in [Proc -> BOOLEAN]
    BY DEF TypeOK
  <2>3. pidFile' \in [Program -> Proc \cup {NoProc}]
    BY DEF TypeOK
  <2> QED
    BY <2>1, <2>2, <2>3, <2>4 DEF TypeOK, Live
<1>2. SocketsByPlace' /\ OneListener'
  BY DEF SocketsByPlace, OneListener, TypeOK, Bindable
<1>3. ErrorIsKept'
  BY DEF ErrorIsKept, TypeOK
<1>4. FailureIsTold'
  BY DEF FailureIsTold, TypeOK, EXIT_SUCCESS
<1> QED
  BY <1>1, <1>2, <1>3, <1>4

LEMMA ListenKeeps ==
  ASSUME IInv, NEW p \in Proc, Listen(p)
  PROVE  IInv'
<1> USE DEF IInv, Listen, Fail, Goto, marks, sockets, ends
<1>1. TypeOK'
  BY DEF TypeOK, Live
<1>2. SocketsByPlace'
  <2>1. CASE Bindable(p) /\ InUse(p)
    BY <2>1 DEF SocketsByPlace, TypeOK, Bindable
  <2>2. CASE Bindable(p) /\ ~InUse(p)
    BY <2>2 DEF SocketsByPlace, TypeOK, Bindable
  <2>3. CASE ~Bindable(p)
    BY <2>3 DEF SocketsByPlace, TypeOK, Bindable, Program
  <2> QED
    BY <2>1, <2>2, <2>3
<1>3. OneListener'
  BY DEF OneListener, TypeOK, InUse
<1>4. ErrorIsKept'
  BY DEF ErrorIsKept, TypeOK, ERR_CODE_SOCKET_LISTEN, CODE_OK
<1>5. FailureIsTold'
  BY DEF FailureIsTold, TypeOK
<1> QED
  BY <1>1, <1>2, <1>3, <1>4, <1>5

LEMMA BindUDPKeeps ==
  ASSUME IInv, NEW p \in Proc, BindUDP(p)
  PROVE  IInv'
<1> USE DEF IInv, BindUDP, Fail, Goto, marks, sockets, ends
<1>1. TypeOK'
  BY DEF TypeOK, Live
<1>2. SocketsByPlace' /\ OneListener'
  BY DEF SocketsByPlace, OneListener, TypeOK, Bindable
<1>3. ErrorIsKept'
  BY DEF ErrorIsKept, TypeOK, ERR_CODE_SOCKET_BIND, CODE_OK
<1>4. FailureIsTold'
  BY DEF FailureIsTold, TypeOK
<1> QED
  BY <1>1, <1>2, <1>3, <1>4

\* Going on, into the loop or into exit() for ever
LEMMA GotoKeeps ==
  ASSUME IInv, NEW p \in Proc, NEW there \in {"loop", "stuck"}, at[p] # "gone", Goto(p, there),
         asked' = asked \/ asked' = [asked EXCEPT ![p] = TRUE],
         UNCHANGED <<prog, daemon, loopOpen, retCode, sockets, ends, pidFile, up, cameUp, wrote>>
  PROVE  IInv'
<1> USE DEF IInv, Goto, sockets, ends
<1>1. TypeOK'
  <2>1. asked' \in [Proc -> BOOLEAN]
    BY DEF TypeOK
  <2> QED
    BY <2>1 DEF TypeOK, Live
<1>2. SocketsByPlace' /\ OneListener'
  BY DEF SocketsByPlace, OneListener, TypeOK, Bindable
<1>3. ErrorIsKept'
  BY DEF ErrorIsKept, TypeOK
<1>4. FailureIsTold'
  BY DEF FailureIsTold, TypeOK
<1> QED
  BY <1>1, <1>2, <1>3, <1>4

LEMMA AddressMovesKeeps ==
  ASSUME IInv, AddressMoves
  PROVE  IInv'
<1> USE DEF IInv, AddressMoves, sockets, ends
<1>1. TypeOK'
  BY DEF TypeOK, Live
<1>2. SocketsByPlace'
  BY DEF SocketsByPlace, TypeOK, Bindable
<1>3. OneListener' /\ ErrorIsKept' /\ FailureIsTold'
  BY DEF OneListener, ErrorIsKept, FailureIsTold
<1> QED
  BY <1>1, <1>2, <1>3

LEMMA StepKeeps == IInv /\ [Next]_vars => IInv'
<1> SUFFICES ASSUME IInv, [Next]_vars PROVE IInv'
  OBVIOUS
<1>1. ASSUME NEW p \in Proc, Step(p) PROVE IInv'
  <2>1. CASE Foreground(p) \/ Fork(p) \/ Background(p) \/ SetPidFile(p)
    BY <2>1, WalkKeeps
  <2>2. CASE Listen(p)
    BY <2>2, ListenKeeps
  <2>3. CASE BindUDP(p)
    BY <2>3, BindUDPKeeps
  <2>4. CASE RunLoop(p)
    <3>1. CASE loopOpen[p]
      BY <2>4, <3>1, GotoKeeps DEF RunLoop
    <3>2. CASE ~loopOpen[p]
      <4>1. Aborted \in 0 .. Aborted /\ Aborted # 0
        BY DEF Aborted
      <4> QED
        BY <2>4, <3>2, <4>1, EndKeeps DEF RunLoop
    <3> QED
      BY <3>1, <3>2
  <2>5. CASE Done(p)
    <3>1. retCode[p] \in {ERR_CODE_SOCKET_BIND, ERR_CODE_SOCKET_LISTEN}
      BY <2>5 DEF Done, IInv, TypeOK, ErrorIsKept
    <3>2. ExitStatus(retCode[p]) \in 1 .. 255
      BY <3>1, ErrorStatus
    <3>3. ExitStatus(retCode[p]) \in 0 .. Aborted /\ ExitStatus(retCode[p]) # 0
      BY <3>2 DEF Aborted
    <3> QED
      BY <2>5, <3>3, EndKeeps DEF Done
  <2> QED
    BY <1>1, <2>1, <2>2, <2>3, <2>4, <2>5 DEF Step
<1>2. ASSUME NEW p \in Proc, Usage(p) \/ ForkFails(p) PROVE IInv'
  <2>1. PICK code \in {ERR_CODE_COMMAND_LINE, EXIT_FAILURE} : End(p, ExitStatus(code)) /\ UNCHANGED asked
    BY <1>2 DEF Usage, ForkFails
  <2>2. ExitStatus(code) \in 1 .. 255
    BY <2>1, ErrorStatus
  <2>3. ExitStatus(code) \in 0 .. Aborted /\ ExitStatus(code) # 0
    BY <2>2 DEF Aborted
  <2> QED
    BY <2>1, <2>3, EndKeeps
<1>3. ASSUME NEW p \in Proc, Interrupt(p) PROVE IInv'
  <2>1. asked' = [asked EXCEPT ![p] = TRUE] /\ asked'[p]
    BY <1>3 DEF Interrupt, IInv, TypeOK
  <2>2. CASE End(p, Killed)
    <3>1. Killed \in 0 .. Aborted /\ Killed # 0
      BY DEF Killed, Aborted
    <3> QED
      BY <2>1, <2>2, <3>1, EndKeeps
  <2>3. CASE End(p, ExitStatus(retCode[p]))
    <3>1. retCode[p] \in {CODE_OK, ERR_CODE_SOCKET_BIND, ERR_CODE_SOCKET_LISTEN}
      BY DEF IInv, TypeOK
    <3>2. ExitStatus(retCode[p]) \in 0 .. Aborted
      BY <3>1, ErrorStatus, OkStatus DEF Aborted
    <3> QED
      BY <2>1, <2>3, <3>2, EndKeeps
  <2>4. CASE /\ Goto(p, "stuck")
             /\ UNCHANGED <<prog, daemon, loopOpen, retCode, sockets, ends, pidFile, up, cameUp, wrote>>
    BY <1>3, <2>1, <2>4, GotoKeeps DEF Interrupt
  <2> QED
    BY <1>3, <2>2, <2>3, <2>4 DEF Interrupt
<1>4. ASSUME NEW p \in Proc, Kill(p) PROVE IInv'
  <2>1. Killed \in 0 .. Aborted /\ Killed # 0
    BY DEF Killed, Aborted
  <2> QED
    BY <1>4, <2>1, EndKeeps DEF Kill
<1>5. CASE UNCHANGED vars
  BY <1>5 DEF vars, marks, sockets, ends, IInv, TypeOK, Live, SocketsByPlace, Bindable, OneListener,
              ErrorIsKept, FailureIsTold
<1> QED
  BY <1>1, <1>2, <1>3, <1>4, <1>5, LaunchKeeps, AddressMovesKeeps DEF Next

LEMMA IInvInvariant == Spec => []IInv
BY InitEstablishes, StepKeeps, PTL DEF Spec

(***************************************************************************)
(* Types: only a process that lives holds a socket.                        *)
(***************************************************************************)
THEOREM LifecycleTypeCorrect == Spec => []TypeOK
<1>1. IInv => TypeOK
  BY DEF IInv
<1> QED
  BY <1>1, IInvInvariant, PTL

(***************************************************************************)
(* However many instances are started, one receives the datagrams.         *)
(***************************************************************************)
THEOREM OneInstanceReceives == Spec => []OneReceiver
<1>1. IInv => OneReceiver
  BY DEF IInv, OneReceiver, SocketsByPlace, OneListener, TypeOK, Live
<1> QED
  BY <1>1, IInvInvariant, PTL

(***************************************************************************)
(* Only SIGINT makes an instance exit with success, for any number of      *)
(* processes, and the launcher of one in the foreground sees what it exits *)
(* with.                                                                   *)
(***************************************************************************)
THEOREM FailuresAreTold == Spec => []FailureIsTold
<1>1. IInv => FailureIsTold
  BY DEF IInv
<1> QED
  BY <1>1, IInvInvariant, PTL
===============================================================================
