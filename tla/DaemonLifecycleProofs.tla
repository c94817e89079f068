----------------------- MODULE DaemonLifecycleProofs -----------------------
(***************************************************************************)
(* Theorems about DaemonLifecycle, for any daemons and clients: types, and *)
(* that only a killed daemon leaves its socket file behind.                *)
(***************************************************************************)
EXTENDS DaemonLifecycle, TLAPS

\* The initial values have their types.
LEMMA InitTypeOK == Init => TypeOK
  BY DEF Init, TypeOK

\* Every action keeps the types, and connections go with calls.
LEMMA StepTypeOK == TypeOK /\ [Next]_vars => TypeOK'
<1> SUFFICES ASSUME TypeOK, [Next]_vars PROVE TypeOK'
  OBVIOUS
<1> USE NoneAssumption, GuiAssumption DEF TypeOK, daemon, client, DaemonAt, ClientAt
<1>1. ASSUME NEW d \in Daemons, RemoveStale(d) PROVE TypeOK'
  BY <1>1 DEF RemoveStale
<1>2. ASSUME NEW d \in Daemons, Bind(d) PROVE TypeOK'
  BY <1>2 DEF Bind
<1>3. ASSUME NEW d \in Daemons, AddressInUse(d) PROVE TypeOK'
  BY <1>3 DEF AddressInUse
<1>4. ASSUME NEW d \in Daemons, Listen(d) PROVE TypeOK'
  BY <1>4 DEF Listen
<1>5. ASSUME NEW d \in Daemons, Chmod(d) PROVE TypeOK'
  BY <1>5 DEF Chmod
<1>6. ASSUME NEW d \in Daemons, ChmodFails(d) PROVE TypeOK'
  BY <1>6 DEF ChmodFails
<1>7. ASSUME NEW d \in Daemons, CloseListener(d) PROVE TypeOK'
  BY <1>7 DEF CloseListener, Reset
<1>8. ASSUME NEW d \in Daemons, RunRemoves(d) PROVE TypeOK'
  BY <1>8 DEF RunRemoves
<1>9. ASSUME NEW d \in Daemons, Exit(d) PROVE TypeOK'
  BY <1>9 DEF Exit, Reset
<1>10. ASSUME NEW d \in Daemons, IdleTimeout(d) PROVE TypeOK'
  BY <1>10 DEF IdleTimeout
<1>11. ASSUME NEW d \in Daemons, ShutdownRemoves(d) PROVE TypeOK'
  BY <1>11 DEF ShutdownRemoves
<1>12. ASSUME NEW d \in Daemons, Kill(d) PROVE TypeOK'
  BY <1>12 DEF Kill, Reset
<1>13. ASSUME NEW c \in Clients, PingAnswered(c) PROVE TypeOK'
  BY <1>13 DEF PingAnswered, HangUp
<1>14. ASSUME NEW c \in Clients, PingFails(c) PROVE TypeOK'
  BY <1>14 DEF PingFails, HangUp
<1>15. ASSUME NEW c \in Clients, PingTimesOut(c) PROVE TypeOK'
  BY <1>15 DEF PingTimesOut, HangUp
<1>16. ASSUME NEW c \in Clients, GoLocal(c) PROVE TypeOK'
  BY <1>16 DEF GoLocal
<1>17. ASSUME NEW c \in Clients, SeeSocket(c) PROVE TypeOK'
  BY <1>17 DEF SeeSocket
<1>18. ASSUME NEW c \in Clients, WaitTimesOut(c) PROVE TypeOK'
  BY <1>18 DEF WaitTimesOut
<1>19. ASSUME NEW c \in Clients, CallEnds(c) PROVE TypeOK'
  BY <1>19 DEF CallEnds, HangUp
<1>20. ASSUME NEW c \in Clients, StopEnds(c) PROVE TypeOK'
  BY <1>20 DEF StopEnds, HangUp
<1>21. ASSUME NEW c \in Clients, Ping(c) PROVE TypeOK'
  BY <1>21 DEF Ping, Dial, DialFails, Reachable
<1>22. ASSUME NEW c \in Clients, Call(c) PROVE TypeOK'
  BY <1>22 DEF Call, Dial, Reachable
<1>23. ASSUME NEW c \in Clients, Stop(c) PROVE TypeOK'
  BY <1>23 DEF Stop, Dial, Reachable
<1>24. ASSUME NEW c \in Clients, Finish(c) PROVE TypeOK'
  BY <1>24 DEF Finish
<1>25. ASSUME NEW d \in Daemons, NEW c \in Clients, Accept(d, c) PROVE TypeOK'
  BY <1>25 DEF Accept
<1>26. ASSUME NEW d \in Daemons, NEW c \in Clients, Serve(d, c) PROVE TypeOK'
  BY <1>26 DEF Serve
<1>27. ASSUME NEW d \in Daemons, NEW c \in Clients, Spawn(c, d) PROVE TypeOK'
  BY <1>27 DEF Spawn
<1>28. CASE UNCHANGED vars
  BY <1>28 DEF vars
<1> QED
  BY <1>1, <1>2, <1>3, <1>4, <1>5, <1>6, <1>7, <1>8, <1>9, <1>10, <1>11,
     <1>12, <1>13, <1>14, <1>15, <1>16, <1>17, <1>18, <1>19, <1>20, <1>21,
     <1>22, <1>23, <1>24, <1>25, <1>26, <1>27, <1>28
     DEF Next, Run, Await

\* A daemon gives up the path before it ends, if it ends by itself.
LEMMA StepNoStaleSocket == TypeOK /\ NoStaleSocket /\ [Next]_vars => NoStaleSocket'
<1> SUFFICES ASSUME TypeOK, NoStaleSocket, [Next]_vars PROVE NoStaleSocket'
  OBVIOUS
<1> USE NoneAssumption, GuiAssumption DEF TypeOK, NoStaleSocket, HoldsSocket, daemon, client, DaemonAt, ClientAt
<1>1. ASSUME NEW d \in Daemons, RemoveStale(d) PROVE NoStaleSocket'
  BY <1>1 DEF RemoveStale
<1>2. ASSUME NEW d \in Daemons, Bind(d) PROVE NoStaleSocket'
  BY <1>2 DEF Bind
<1>3. ASSUME NEW d \in Daemons, AddressInUse(d) PROVE NoStaleSocket'
  BY <1>3 DEF AddressInUse
<1>4. ASSUME NEW d \in Daemons, Listen(d) PROVE NoStaleSocket'
  BY <1>4 DEF Listen
<1>5. ASSUME NEW d \in Daemons, Chmod(d) PROVE NoStaleSocket'
  BY <1>5 DEF Chmod
<1>6. ASSUME NEW d \in Daemons, ChmodFails(d) PROVE NoStaleSocket'
  BY <1>6 DEF ChmodFails
<1>7. ASSUME NEW d \in Daemons, CloseListener(d) PROVE NoStaleSocket'
  BY <1>7 DEF CloseListener, Reset
<1>8. ASSUME NEW d \in Daemons, RunRemoves(d) PROVE NoStaleSocket'
  BY <1>8 DEF RunRemoves
<1>9. ASSUME NEW d \in Daemons, Exit(d) PROVE NoStaleSocket'
  BY <1>9 DEF Exit, Reset
<1>10. ASSUME NEW d \in Daemons, IdleTimeout(d) PROVE NoStaleSocket'
  BY <1>10 DEF IdleTimeout
<1>11. ASSUME NEW d \in Daemons, ShutdownRemoves(d) PROVE NoStaleSocket'
  BY <1>11 DEF ShutdownRemoves
<1>12. ASSUME NEW d \in Daemons, Kill(d) PROVE NoStaleSocket'
  BY <1>12 DEF Kill, Reset
<1>13. ASSUME NEW c \in Clients, PingAnswered(c) PROVE NoStaleSocket'
  BY <1>13 DEF PingAnswered, HangUp
<1>14. ASSUME NEW c \in Clients, PingFails(c) PROVE NoStaleSocket'
  BY <1>14 DEF PingFails, HangUp
<1>15. ASSUME NEW c \in Clients, PingTimesOut(c) PROVE NoStaleSocket'
  BY <1>15 DEF PingTimesOut, HangUp
<1>16. ASSUME NEW c \in Clients, GoLocal(c) PROVE NoStaleSocket'
  BY <1>16 DEF GoLocal
<1>17. ASSUME NEW c \in Clients, SeeSocket(c) PROVE NoStaleSocket'
  BY <1>17 DEF SeeSocket
<1>18. ASSUME NEW c \in Clients, WaitTimesOut(c) PROVE NoStaleSocket'
  BY <1>18 DEF WaitTimesOut
<1>19. ASSUME NEW c \in Clients, CallEnds(c) PROVE NoStaleSocket'
  BY <1>19 DEF CallEnds, HangUp
<1>20. ASSUME NEW c \in Clients, StopEnds(c) PROVE NoStaleSocket'
  BY <1>20 DEF StopEnds, HangUp
<1>21. ASSUME NEW c \in Clients, Ping(c) PROVE NoStaleSocket'
  BY <1>21 DEF Ping, Dial, DialFails, Reachable
<1>22. ASSUME NEW c \in Clients, Call(c) PROVE NoStaleSocket'
  BY <1>22 DEF Call, Dial, Reachable
<1>23. ASSUME NEW c \in Clients, Stop(c) PROVE NoStaleSocket'
  BY <1>23 DEF Stop, Dial, Reachable
<1>24. ASSUME NEW c \in Clients, Finish(c) PROVE NoStaleSocket'
  BY <1>24 DEF Finish
<1>25. ASSUME NEW d \in Daemons, NEW c \in Clients, Accept(d, c) PROVE NoStaleSocket'
  BY <1>25 DEF Accept
<1>26. ASSUME NEW d \in Daemons, NEW c \in Clients, Serve(d, c) PROVE NoStaleSocket'
  BY <1>26 DEF Serve
<1>27. ASSUME NEW d \in Daemons, NEW c \in Clients, Spawn(c, d) PROVE NoStaleSocket'
  BY <1>27 DEF Spawn
<1>28. CASE UNCHANGED vars
  BY <1>28 DEF vars
<1> QED
  BY <1>1, <1>2, <1>3, <1>4, <1>5, <1>6, <1>7, <1>8, <1>9, <1>10, <1>11,
     <1>12, <1>13, <1>14, <1>15, <1>16, <1>17, <1>18, <1>19, <1>20, <1>21,
     <1>22, <1>23, <1>24, <1>25, <1>26, <1>27, <1>28
     DEF Next, Run, Await

\* Every variable keeps its type, and a client has a connection exactly while
\* it waits for an answer.
THEOREM LifecycleTypeCorrect == Spec => []TypeOK
  BY InitTypeOK, StepTypeOK, PTL DEF Spec

\* However daemons race for the path and remove each other's sockets, a socket
\* file whose daemon has ended is that of a killed one.
THEOREM SocketNeverStale == Spec => []NoStaleSocket
<1>1. Init => NoStaleSocket
  BY DEF Init, NoStaleSocket
<1> QED
  BY <1>1, LifecycleTypeCorrect, StepNoStaleSocket, PTL DEF Spec
=============================================================================
