-------------------------- MODULE DaemonLifecycle --------------------------
(***************************************************************************)
(* Daemon processes and their clients around one socket path.  A daemon    *)
(* binds the path, serves each connection in a goroutine and ends by its   *)
(* idle timer or a shutdown request; it may be killed at any time.  CLI    *)
(* commands ping the daemon, spawn one if there is none, wait for it and   *)
(* call it; the GUI pings and never spawns.                                *)
(*                                                                         *)
(* A listening socket is named by the daemon that bound it: a daemon binds *)
(* once.  What is asked and answered is the subject of DaemonIndex.  The   *)
(* kernel's part: connect finds the socket the path names now; ending a    *)
(* listener or a process resets the connections nobody will serve.         *)
(***************************************************************************)
EXTENDS Naturals

CONSTANTS
    Daemons,    \* daemon processes that may be spawned
    Clients,    \* processes that resolve a service
    Gui,        \* those of them that resolve through guisvc
    None

ASSUME GuiAssumption == Gui \subseteq Clients
ASSUME NoneAssumption == None \notin Daemons

VARIABLES
    path,       \* the daemon whose socket the path names; None: no such file
    dpc,        \* where each daemon's Run is
    timer,      \* s.idleTimer is running
    stopping,   \* some goroutine of the daemon is in Shutdown
    killed,     \* daemons that were killed
    cpc,        \* where each client is
    conn,       \* the daemon each client is connected to, or None
    handler     \* what becomes of that connection

daemon == <<dpc, timer, stopping, killed>>
client == <<cpc, conn, handler>>
vars == <<path, daemon, client>>

TypeOK ==
    /\ path \in Daemons \cup {None}
    /\ dpc \in [Daemons -> {"none", "remove", "bind", "listen", "chmod", "abort",
                            "accept", "closed", "exit", "dead"}]
    /\ timer \in [Daemons -> BOOLEAN]
    /\ stopping \in [Daemons -> BOOLEAN]
    /\ killed \subseteq Daemons
    /\ cpc \in [Clients -> {"idle", "ping", "absent", "wait", "start", "ipc",
                            "call", "stop", "local"}]
    /\ conn \in [Clients -> Daemons \cup {None}]
    /\ handler \in [Clients -> {"none", "queued", "serving", "answered", "lost"}]
    /\ \A c \in Clients : /\ conn[c] = None <=> handler[c] = "none"
                         /\ conn[c] = None <=> cpc[c] \notin {"ping", "call", "stop"}

Init ==
    /\ path = None
    /\ dpc = [d \in Daemons |-> "none"]
    /\ timer = [d \in Daemons |-> FALSE]
    /\ stopping = [d \in Daemons |-> FALSE]
    /\ killed = {}
    /\ cpc = [c \in Clients |-> "idle"]
    /\ conn = [c \in Clients |-> None]
    /\ handler = [c \in Clients |-> "none"]

DaemonAt(d, from, to) == dpc[d] = from /\ dpc' = [dpc EXCEPT ![d] = to]
ClientAt(c, from, to) == cpc[c] \in from /\ cpc' = [cpc EXCEPT ![c] = to]

\* The socket accepts connections: between listen and the listener's close.
Listening(d) == dpc[d] \in {"chmod", "abort", "accept"}
Running(d) == dpc[d] \notin {"none", "dead"}

\* The connections to d in one of these states get end of file.
Reset(d, states) ==
    handler' = [c \in Clients |->
        IF conn[c] = d /\ handler[c] \in states THEN "lost" ELSE handler[c]]

-----------------------------------------------------------------------------
(* Server.Run *)

\* Whatever is at the path is removed.
RemoveStale(d) ==
    /\ DaemonAt(d, "remove", "bind")
    /\ path' = None
    /\ UNCHANGED <<timer, stopping, killed, client>>

\* net.Listen: bind creates the file, or fails when there is one.
Bind(d) ==
    /\ path = None
    /\ DaemonAt(d, "bind", "listen")
    /\ path' = d
    /\ UNCHANGED <<timer, stopping, killed, client>>

AddressInUse(d) ==
    /\ path # None
    /\ DaemonAt(d, "bind", "dead")
    /\ UNCHANGED <<path, timer, stopping, killed, client>>

Listen(d) ==
    /\ DaemonAt(d, "listen", "chmod")
    /\ UNCHANGED <<path, timer, stopping, killed, client>>

\* A slip: the timer starts with the first connection.
ChmodUntimed(d) ==
    /\ path # None
    /\ DaemonAt(d, "chmod", "accept")
    /\ UNCHANGED <<path, timer, stopping, killed, client>>

\* os.Chmod works on whatever the path names by now; the idle timer starts.
Chmod(d) ==
    /\ path # None
    /\ DaemonAt(d, "chmod", "accept")
    /\ timer' = [timer EXCEPT ![d] = TRUE]
    /\ UNCHANGED <<path, stopping, killed, client>>

ChmodFails(d) ==
    /\ path = None
    /\ DaemonAt(d, "chmod", "abort")
    /\ UNCHANGED <<path, timer, stopping, killed, client>>

\* Accept and the start of the handler reset the idle timer.
Accept(d, c) ==
    /\ dpc[d] = "accept"
    /\ conn[c] = d /\ handler[c] = "queued"
    /\ handler' = [handler EXCEPT ![c] = "serving"]
    /\ timer' = [timer EXCEPT ![d] = TRUE]
    /\ UNCHANGED <<path, dpc, stopping, killed, cpc, conn>>

\* handleConn: the answer; OpShutdown answers and then calls Shutdown.
Serve(d, c) ==
    /\ Running(d)
    /\ conn[c] = d /\ handler[c] = "serving"
    /\ handler' = [handler EXCEPT ![c] = "answered"]
    /\ timer' = [timer EXCEPT ![d] = TRUE]
    /\ stopping' = [stopping EXCEPT ![d] = @ \/ cpc[c] = "stop"]
    /\ UNCHANGED <<path, dpc, killed, cpc, conn>>

\* A slip: the callback ends the process.
IdleExits(d) ==
    /\ DaemonAt(d, "accept", "dead") /\ timer[d]
    /\ timer' = [timer EXCEPT ![d] = FALSE]
    /\ Reset(d, {"queued", "serving"})
    /\ UNCHANGED <<path, stopping, killed, cpc, conn>>

\* The timer's callback calls Shutdown, whatever the handlers are doing.
IdleTimeout(d) ==
    /\ dpc[d] = "accept" /\ timer[d]
    /\ timer' = [timer EXCEPT ![d] = FALSE]
    /\ stopping' = [stopping EXCEPT ![d] = TRUE]
    /\ UNCHANGED <<path, dpc, killed, client>>

\* Shutdown stops the timer; the listener's Close unlinks the path first.
\* The error return after Chmod closes it too.
CloseListener(d) ==
    /\ \/ stopping[d] /\ DaemonAt(d, "accept", "closed")
       \/ DaemonAt(d, "abort", "closed")
    /\ path' = None
    /\ timer' = [timer EXCEPT ![d] = FALSE]
    /\ Reset(d, {"queued"})
    /\ UNCHANGED <<stopping, killed, cpc, conn>>

\* os.Remove at the end of Shutdown.  Several calls of Shutdown may be under
\* way, each with one; the process does not wait for them.
ShutdownRemoves(d) ==
    /\ stopping[d] /\ dpc[d] \in {"closed", "exit"}
    /\ path' = None
    /\ UNCHANGED <<daemon, client>>

\* os.Remove on the way out of Run.
RunRemoves(d) ==
    /\ DaemonAt(d, "closed", "exit")
    /\ path' = None
    /\ UNCHANGED <<timer, stopping, killed, client>>

\* The handlers end with the process.
Exit(d) ==
    /\ DaemonAt(d, "exit", "dead")
    /\ timer' = [timer EXCEPT ![d] = FALSE]
    /\ Reset(d, {"queued", "serving"})
    /\ UNCHANGED <<path, stopping, killed, cpc, conn>>

Kill(d) ==
    /\ Running(d)
    /\ dpc' = [dpc EXCEPT ![d] = "dead"]
    /\ timer' = [timer EXCEPT ![d] = FALSE]
    /\ killed' = killed \cup {d}
    /\ Reset(d, {"queued", "serving"})
    /\ UNCHANGED <<path, stopping, cpc, conn>>

-----------------------------------------------------------------------------
(* Clients *)

\* net.Dial: a connection to the daemon that the path names, if it listens.
Reachable == path # None /\ Listening(path)

Dial(c, from, to) ==
    /\ Reachable
    /\ ClientAt(c, from, to)
    /\ conn' = [conn EXCEPT ![c] = path]
    /\ handler' = [handler EXCEPT ![c] = "queued"]
    /\ UNCHANGED <<path, daemon>>

DialFails(c, from, to) ==
    /\ ~Reachable
    /\ ClientAt(c, from, to)
    /\ UNCHANGED <<path, daemon, conn, handler>>

HangUp(c) ==
    /\ conn' = [conn EXCEPT ![c] = None]
    /\ handler' = [handler EXCEPT ![c] = "none"]
    /\ UNCHANGED <<path, daemon>>

\* isSocketAlive, pingSocket.
Ping(c) == Dial(c, {"idle"}, "ping") \/ DialFails(c, {"idle"}, "absent")
PingAnswered(c) == handler[c] = "answered" /\ ClientAt(c, {"ping"}, "ipc") /\ HangUp(c)
PingFails(c) == handler[c] = "lost" /\ ClientAt(c, {"ping"}, "absent") /\ HangUp(c)

\* A slip: the connection stays open.
PingAbandoned(c) ==
    /\ c \in Gui /\ ClientAt(c, {"ping"}, "absent")
    /\ UNCHANGED <<path, daemon, conn, handler>>

\* Only pingSocket has a deadline.
PingTimesOut(c) == c \in Gui /\ ClientAt(c, {"ping"}, "absent") /\ HangUp(c)

\* spawnDaemon, by a command that found no daemon or by `daemon start`, which
\* does not look for one.
Spawn(c, d) ==
    /\ c \notin Gui
    /\ ClientAt(c, {"absent"}, "wait") \/ ClientAt(c, {"idle"}, "start")
    /\ DaemonAt(d, "none", "remove")
    /\ UNCHANGED <<path, timer, stopping, killed, conn, handler>>

\* waitForSocket looks for a file at the path, until its deadline.
SeeSocket(c) ==
    /\ path # None
    /\ ClientAt(c, {"wait"}, "ipc") \/ ClientAt(c, {"start"}, "idle")
    /\ UNCHANGED <<path, daemon, conn, handler>>

\* A slip: the wait for a new daemon has no deadline.
WaitForever(c) ==
    /\ ClientAt(c, {"start"}, "idle")
    /\ UNCHANGED <<path, daemon, conn, handler>>

WaitTimesOut(c) ==
    /\ ClientAt(c, {"wait"}, "local") \/ ClientAt(c, {"start"}, "idle")
    /\ UNCHANGED <<path, daemon, conn, handler>>

\* No auto_spawn, the spawn failed, or the GUI.
GoLocal(c) ==
    /\ ClientAt(c, {"absent"}, "local")
    /\ UNCHANGED <<path, daemon, conn, handler>>

\* roundTrip.  A dial that fails is an error for the caller, who keeps the
\* service, and changes nothing here.
Call(c) == Dial(c, {"ipc"}, "call")
CallEnds(c) ==
    handler[c] \in {"answered", "lost"} /\ ClientAt(c, {"call"}, "ipc") /\ HangUp(c)

\* `daemon stop`, which takes any end of the connection for success.
Stop(c) == c \notin Gui /\ Dial(c, {"idle"}, "stop")
StopEnds(c) ==
    handler[c] \in {"answered", "lost"} /\ ClientAt(c, {"stop"}, "idle") /\ HangUp(c)

\* The command, or the GUI, is done with its service.
Finish(c) ==
    /\ ClientAt(c, {"ipc", "local"}, "idle")
    /\ UNCHANGED <<path, daemon, conn, handler>>

-----------------------------------------------------------------------------
\* What Run does on its own.
Run(d) ==
    \/ RemoveStale(d) \/ Bind(d) \/ AddressInUse(d) \/ Listen(d)
    \/ Chmod(d) \/ ChmodFails(d) \/ CloseListener(d) \/ RunRemoves(d) \/ Exit(d)

\* What a client does while it waits for something.
Await(c) ==
    \/ PingAnswered(c) \/ PingFails(c) \/ PingTimesOut(c) \/ GoLocal(c)
    \/ SeeSocket(c) \/ WaitTimesOut(c) \/ CallEnds(c) \/ StopEnds(c)

Next ==
    \/ \E d \in Daemons : Run(d) \/ IdleTimeout(d) \/ ShutdownRemoves(d) \/ Kill(d)
    \/ \E c \in Clients : Await(c) \/ Ping(c) \/ Call(c) \/ Stop(c) \/ Finish(c)
    \/ \E d \in Daemons, c \in Clients : Accept(d, c) \/ Serve(d, c) \/ Spawn(c, d)

Spec == Init /\ [][Next]_vars

\* Nobody is connected to d: only then must the idle timer fire in the end.
Quiet(d) == \A c \in Clients : conn[c] # d

Fairness ==
    /\ \A d \in Daemons : WF_vars(Run(d)) /\ WF_vars(Quiet(d) /\ IdleTimeout(d))
    /\ \A d \in Daemons, c \in Clients : WF_vars(Accept(d, c)) /\ WF_vars(Serve(d, c))
    /\ \A c \in Clients : WF_vars(Await(c))

FairSpec == Spec /\ Fairness

-----------------------------------------------------------------------------
\* "Removes its socket on shutdown": the path names the socket of a daemon on
\* its way to serve, or serving, unless a daemon was killed.  Daemons remove
\* each other's sockets, but none ends by itself and leaves its own behind.
HoldsSocket(d) == dpc[d] \in {"listen", "chmod", "abort", "accept"}
NoStaleSocket == path # None => HoldsSocket(path) \/ path \in killed

\* A daemon that lost the path to another one, and can be reached by nobody
\* new, does not run for ever; neither does one that was told to stop.
OrphansEnd == \A d \in Daemons :
    (dpc[d] = "accept" /\ path # d) \/ stopping[d] ~> dpc[d] = "dead"

\* Pinging, waiting for a new daemon and calling all end, whichever daemons
\* start, end, remove each other's sockets or are killed meanwhile.
NobodyWaitsForever ==
    LET waits(c) == cpc[c] \in {"ping", "absent", "wait", "start", "call", "stop"}
    IN  \A c \in Clients : waits(c) ~> ~waits(c)

\* "Clean socket, spawn daemon, wait": a wait does not end at the socket of a
\* dead daemon that the new one has yet to remove.
CleanedBeforeWait ==
    [][\A c \in Clients :
         cpc[c] = "wait" /\ cpc'[c] = "ipc" /\ dpc[path] = "dead" =>
             \A d \in Daemons : dpc[d] # "remove"]_vars
=============================================================================
