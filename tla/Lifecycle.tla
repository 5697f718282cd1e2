------------------------------- MODULE Lifecycle -------------------------------
(***************************************************************************)
(* Instances of the service and the client on one POSIX host: main, the    *)
(* way into the background (daemonize.cpp), the sockets that run() opens,  *)
(* signals, and what an instance leaves behind when it ends.               *)
(*                                                                         *)
(* Instances of a program share its default ports and pid file.  A process *)
(* that forks keeps its name here; its parents exit at once, and what the  *)
(* first one reports is all that the launcher of a daemon ever sees.       *)
(***************************************************************************)
EXTENDS Integers

CONSTANTS
  Proc,    \* process ids; one that has ended may be given again
  NoProc   \* no pid was ever written

ASSUME NoProcAssumption == NoProc \notin Proc

Program == {"service", "client"}

VARIABLES
  at,        \* how far each process is
  prog,      \* its program
  daemon,    \* it was started with -d
  loopOpen,  \* the descriptors of its event loop are open
  retCode,   \* cli.retCode
  tcp,       \* where its TCP socket listens: at its port, or elsewhere
  udp,       \* the processes whose UDP socket has the port of their program
  exit,      \* how it ended
  told,      \* what its launcher has seen of that
  pidFile,   \* the pid in the pid file of each program
  up,        \* the service's address is one of this host's
  asked,     \* SIGINT ended it (history)
  cameUp,    \* those between whose sockets the address came up (history)
  wrote      \* it wrote its pid file (history)

marks == <<asked, cameUp, wrote>>
sockets == <<tcp, udp>>
ends == <<exit, told>>
vars == <<at, prog, daemon, loopOpen, retCode, sockets, ends, pidFile, up, marks>>

CODE_OK == 0
EXIT_SUCCESS == 0
EXIT_FAILURE == 1
ERR_CODE_COMMAND_LINE == -5000
ERR_CODE_SOCKET_BIND == -5014
ERR_CODE_SOCKET_LISTEN == -5022

\* What a parent sees of exit(code): its low byte.
ExitStatus(code) == code % 256

Killed == 256   \* by a signal
Aborted == 257  \* by libuv
Running == 258

Live == {p \in Proc : at[p] # "gone"}

Init ==
  /\ at = [p \in Proc |-> "gone"]
  /\ prog = [p \in Proc |-> "service"]
  /\ daemon = [p \in Proc |-> FALSE]
  /\ loopOpen = [p \in Proc |-> FALSE]
  /\ retCode = [p \in Proc |-> CODE_OK]
  /\ tcp = [p \in Proc |-> "closed"]
  /\ udp = {}
  /\ exit = [p \in Proc |-> Running]
  /\ told = [p \in Proc |-> Running]
  /\ pidFile = [g \in Program |-> NoProc]
  /\ up \in BOOLEAN
  /\ asked = [p \in Proc |-> FALSE]
  /\ cameUp = {}
  /\ wrote = [p \in Proc |-> FALSE]

\* The launcher sees the status of the process that it started, once.
Tell(p, status) == told' = [told EXCEPT ![p] = IF @ = Running THEN status ELSE @]

EndKeepsUDP(p, status) ==  \* (mutant) a child still has the socket
  /\ at' = [at EXCEPT ![p] = "gone"]
  /\ exit' = [exit EXCEPT ![p] = status]
  /\ Tell(p, status)
  /\ tcp' = [tcp EXCEPT ![p] = "closed"]
  /\ cameUp' = cameUp \ {p}
  /\ UNCHANGED <<prog, daemon, loopOpen, retCode, udp, pidFile, up, wrote>>

\* The process ends: its descriptors are closed, its pid file stays.
End(p, status) ==
  /\ at' = [at EXCEPT ![p] = "gone"]
  /\ exit' = [exit EXCEPT ![p] = status]
  /\ Tell(p, status)
  /\ tcp' = [tcp EXCEPT ![p] = "closed"]
  /\ udp' = udp \ {p}
  /\ cameUp' = cameUp \ {p}
  /\ UNCHANGED <<prog, daemon, loopOpen, retCode, pidFile, up, wrote>>

Goto(p, there) == at' = [at EXCEPT ![p] = there]

-------------------------------------------------------------------------------
(***************************************************************************)
(* Before run().                                                           *)
(***************************************************************************)

\* The constructor of the global cli opens the event loop, then main begins.
Launch(p, g, d) ==
  /\ at[p] = "gone"
  /\ Goto(p, "main")
  /\ prog' = [prog EXCEPT ![p] = g]
  /\ daemon' = [daemon EXCEPT ![p] = d]
  /\ loopOpen' = [loopOpen EXCEPT ![p] = TRUE]
  /\ retCode' = [retCode EXCEPT ![p] = CODE_OK]
  /\ exit' = [exit EXCEPT ![p] = Running]
  /\ told' = [told EXCEPT ![p] = Running]
  /\ asked' = [asked EXCEPT ![p] = FALSE]
  /\ wrote' = [wrote EXCEPT ![p] = FALSE]
  /\ UNCHANGED <<sockets, pidFile, up, cameUp>>

\* --help, or a command line that does not parse
Usage(p) ==
  /\ at[p] = "main"
  /\ End(p, ExitStatus(ERR_CODE_COMMAND_LINE))
  /\ UNCHANGED asked

\* Without -d main calls run().
Foreground(p) ==
  /\ at[p] = "main" /\ ~daemon[p]
  /\ Goto(p, "run")
  /\ UNCHANGED <<prog, daemon, loopOpen, retCode, sockets, ends, pidFile, up, marks>>

\* The last argument of Daemonize: the service says false, the client leaves it out.
CloseFileDescriptors(g) == g = "client"

\* The first fork of Daemonize::init: the parent, which was launched, reports success.
Fork(p) ==
  /\ at[p] = "main" /\ daemon[p]
  /\ Goto(p, "forked")
  /\ Tell(p, EXIT_SUCCESS)
  /\ UNCHANGED <<prog, daemon, loopOpen, retCode, sockets, exit, pidFile, up, marks>>

\* The rest of Daemonize::init up to setPidFile
Background(p) ==
  /\ at[p] = "forked"
  /\ Goto(p, "background")
  /\ loopOpen' = [loopOpen EXCEPT ![p] = ~CloseFileDescriptors(prog[p])]
  /\ UNCHANGED <<prog, daemon, retCode, sockets, ends, pidFile, up, marks>>

\* The first fork fails; or setsid or the second one, when nobody is told any more.
ForkFails(p) ==
  /\ at[p] \in {"main", "forked"} /\ daemon[p]
  /\ End(p, ExitStatus(EXIT_FAILURE))
  /\ UNCHANGED asked

\* The file is written over; when it cannot be opened the daemon goes on without.
SetPidFile(p) ==
  /\ at[p] = "background"
  /\ Goto(p, "run")
  /\ \/ /\ pidFile' = [pidFile EXCEPT ![prog[p]] = p]
        /\ wrote' = [wrote EXCEPT ![p] = TRUE]
     \/ UNCHANGED <<pidFile, wrote>>
  /\ UNCHANGED <<prog, daemon, loopOpen, retCode, sockets, ends, up, asked, cameUp>>

-------------------------------------------------------------------------------
(***************************************************************************)
(* run(): UVListener::run and UVClient::run open their sockets alike.      *)
(***************************************************************************)

\* The client binds to any address of the host.
Bindable(p) == prog[p] = "client" \/ up

InUse(p) == \E q \in Proc \ {p} : prog[q] = prog[p] /\ tcp[q] = "port"

Fail(p, code) ==
  /\ Goto(p, "failed")
  /\ retCode' = [retCode EXCEPT ![p] = code]
  /\ UNCHANGED sockets

\* (mutant) a port that is in use is shared
ListenShared(p) ==
  /\ at[p] = "run"
  /\ Goto(p, "listening")
  /\ tcp' = [tcp EXCEPT ![p] = IF Bindable(p) THEN "port" ELSE "elsewhere"]
  /\ UNCHANGED <<prog, daemon, loopOpen, retCode, udp, ends, pidFile, up, marks>>

ListenWaits(p) ==  \* (mutant) it tries again until the port is free
  /\ at[p] = "run"
  /\ ~InUse(p)
  /\ Goto(p, "listening")
  /\ tcp' = [tcp EXCEPT ![p] = IF Bindable(p) THEN "port" ELSE "elsewhere"]
  /\ UNCHANGED <<prog, daemon, loopOpen, retCode, udp, ends, pidFile, up, marks>>

(***************************************************************************)
(* uv_tcp_bind and uv_listen.  The result of the first is not looked at:   *)
(* libuv reports a port in use from the second, but after any other error  *)
(* it listens at a port that the system chooses.                           *)
(***************************************************************************)
Listen(p) ==
  /\ at[p] = "run"
  /\ IF Bindable(p) /\ InUse(p) THEN Fail(p, ERR_CODE_SOCKET_LISTEN)
     ELSE /\ Goto(p, "listening")
          /\ tcp' = [tcp EXCEPT ![p] = IF Bindable(p) THEN "port" ELSE "elsewhere"]
          /\ UNCHANGED <<retCode, udp>>
  /\ UNCHANGED <<prog, daemon, loopOpen, ends, pidFile, up, marks>>

\* (mutant) the error is not assigned to status
BindUDPUntold(p) ==
  /\ at[p] = "listening"
  /\ IF Bindable(p) THEN /\ Goto(p, "bound")
                         /\ udp' = udp \cup {p}
                         /\ UNCHANGED <<retCode, tcp>>
     ELSE Fail(p, CODE_OK)
  /\ UNCHANGED <<prog, daemon, loopOpen, ends, pidFile, up, marks>>

\* uv_udp_bind with UV_UDP_REUSEADDR: a port in use is no error.
BindUDP(p) ==
  /\ at[p] = "listening"
  /\ IF Bindable(p) THEN /\ Goto(p, "bound")
                         /\ udp' = udp \cup {p}
                         /\ UNCHANGED <<retCode, tcp>>
     ELSE Fail(p, ERR_CODE_SOCKET_BIND)
  /\ UNCHANGED <<prog, daemon, loopOpen, ends, pidFile, up, marks>>

\* uv_run; libuv aborts when it cannot watch the sockets.
RunLoop(p) ==
  /\ at[p] = "bound"
  /\ IF loopOpen[p]
     THEN /\ Goto(p, "loop")
          /\ UNCHANGED <<prog, daemon, loopOpen, retCode, sockets, ends, pidFile, up, cameUp, wrote>>
     ELSE End(p, Aborted)
  /\ UNCHANGED asked

\* run() has returned: done() exits.
Done(p) ==
  /\ at[p] = "failed"
  /\ End(p, ExitStatus(retCode[p]))
  /\ UNCHANGED asked

-------------------------------------------------------------------------------
(***************************************************************************)
(* Signals, and the host.                                                  *)
(***************************************************************************)

\* setSignalHandler: the service calls it always, the client in the foreground.
Handled(p) == prog[p] = "service" \/ ~daemon[p]

(***************************************************************************)
(* SIGINT ends main before the handler is set.  signalHandler calls exit() *)
(* in the middle of whatever runs, which is undefined while that changes   *)
(* the heap or the storage that exit() destroys: the process exits,        *)
(* crashes, or, where the heap has a lock, waits for it for ever.          *)
(***************************************************************************)
Interrupt(p) ==
  /\ at[p] \notin {"gone", "stuck"}
  /\ asked' = [asked EXCEPT ![p] = TRUE]
  /\ \/ End(p, Killed)
     \/ Handled(p) /\ End(p, ExitStatus(retCode[p]))
     \/ /\ Handled(p)
        /\ Goto(p, "stuck")
        /\ UNCHANGED <<prog, daemon, loopOpen, retCode, sockets, ends, pidFile, up, cameUp, wrote>>

Kill(p) ==
  /\ at[p] # "gone"
  /\ End(p, Killed)
  /\ UNCHANGED asked

\* The address of the service is added to the host, or removed.
AddressMoves ==
  /\ up' = ~up
  /\ cameUp' = cameUp \cup {p \in Proc : at[p] = "listening" /\ tcp[p] = "elsewhere"}
  /\ UNCHANGED <<at, prog, daemon, loopOpen, retCode, sockets, ends, pidFile, asked, wrote>>

Step(p) ==
  \/ Foreground(p) \/ Fork(p) \/ Background(p) \/ SetPidFile(p)
  \/ Listen(p) \/ BindUDP(p) \/ RunLoop(p) \/ Done(p)

Next ==
  \/ \E p \in Proc : \/ Step(p) \/ Usage(p) \/ ForkFails(p) \/ Interrupt(p) \/ Kill(p)
                     \/ \E g \in Program, d \in BOOLEAN : Launch(p, g, d)
  \/ AddressMoves

\* The system runs every process that can run.
Spec == Init /\ [][Next]_vars /\ \A p \in Proc : WF_vars(Step(p))

-------------------------------------------------------------------------------
(***************************************************************************)
(* Type invariant; a process holds sockets only while it lives.            *)
(***************************************************************************)
TypeOK ==
  /\ at \in [Proc -> {"gone", "main", "forked", "background", "run", "listening", "bound",
                      "loop", "failed", "stuck"}]
  /\ prog \in [Proc -> Program]
  /\ daemon \in [Proc -> BOOLEAN] /\ loopOpen \in [Proc -> BOOLEAN]
  /\ retCode \in [Proc -> {CODE_OK, ERR_CODE_SOCKET_BIND, ERR_CODE_SOCKET_LISTEN}]
  /\ tcp \in [Proc -> {"closed", "port", "elsewhere"}]
  /\ udp \subseteq Live /\ cameUp \subseteq Live
  /\ exit \in [Proc -> 0 .. Running] /\ told \in [Proc -> 0 .. Running]
  /\ pidFile \in [Program -> Proc \cup {NoProc}]
  /\ up \in BOOLEAN
  /\ asked \in [Proc -> BOOLEAN] /\ wrote \in [Proc -> BOOLEAN]

(***************************************************************************)
(* The datagrams of a program go to one instance, although UDP binds with  *)
(* UV_UDP_REUSEADDR: the TCP socket, which excludes others, is opened      *)
(* first.  A bind of TCP that fails unnoticed is made good by the bind of  *)
(* UDP to the same address, unless that comes up between the two.          *)
(***************************************************************************)
OneReceiver ==
  \A p, q \in udp : prog[p] = prog[q] => p = q \/ p \in cameUp \/ q \in cameUp

(***************************************************************************)
(* Who was not interrupted never exits with success: every error of run()  *)
(* reaches the exit status, of which only the low byte of the code is      *)
(* left.  The launcher sees it of an instance in the foreground; of a      *)
(* daemon it has seen success at the first fork, whatever follows.         *)
(***************************************************************************)
FailureIsTold ==
  \A p \in Proc : /\ exit[p] = 0 => asked[p]
                  /\ told[p] = 0 => asked[p] \/ daemon[p]

(***************************************************************************)
(* Who is started comes to serve or ends; only SIGINT can leave it stuck.  *)
(* No instance waits for the port or the pid file of another one.          *)
(***************************************************************************)
ServesOrEnds ==
  \A p \in Proc : at[p] = "main" ~> \/ at[p] \in {"loop", "gone"}
                                    \/ at[p] = "stuck" /\ asked[p]

(***************************************************************************)
(* "run daemon" (the option -d): the daemon runs its loop.                 *)
(***************************************************************************)
DaemonRuns == \A p \in Proc : daemon[p] => exit[p] # Aborted

(***************************************************************************)
(* "Check whether a process has created the file pidfile" (the option -p): *)
(* the file of a daemon that serves and wrote it is not taken from it.     *)
(***************************************************************************)
PidFileKept ==
  \A p \in Proc : daemon[p] /\ at[p] = "loop" /\ wrote[p] => pidFile[prog[p]] = p
===============================================================================
