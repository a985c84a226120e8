---------------------------- MODULE Daemon_proofs ----------------------------
(***************************************************************************)
(* Proofs about Daemon for any number of daemons, connections, drain       *)
(* clients and failures, whatever overlaps.                                *)
(***************************************************************************)
EXTENDS Daemon, TLAPS

\* A daemon that has not started has no status goroutine.
TypeInv == TypeOK /\ \A d \in Daemons : main[d] = "off" => statusG[d] = "off"

\* The initial state is well formed.
LEMMA TypeInit == Init => TypeInv
  BY SMTT(60), DaemonAssumption
  DEF Init, TypeInv, TypeOK, MainStates, StatusStates, DrainStates, ClientStates

\* Every step leaves a well-formed state: the lock file is released on every error path.
LEMMA TypeStep == TypeInv /\ [Next]_vars => TypeInv'
<1> SUFFICES ASSUME TypeInv, [Next]_vars PROVE TypeInv'
  OBVIOUS
<1> USE DaemonAssumption DEF TypeInv, TypeOK, MainStates, StatusStates, DrainStates,
        ClientStates, procVars, expVars, pathVars, cliVars, offMain, outsideStatus,
        outsideExporter, daemonVars
<1>1. ASSUME NEW d \in Daemons, Start(d) PROVE TypeInv'
  BY <1>1 DEF Start, Goto, StatusGoto
<1>2. ASSUME NEW d \in Daemons, StartFails(d) PROVE TypeInv'
  BY <1>2 DEF StartFails, Goto, Fault
<1>3. ASSUME NEW d \in Daemons, StatusReady(d) PROVE TypeInv'
  BY <1>3 DEF StatusReady, Goto
<1>4. ASSUME NEW d \in Daemons, ReadyTimeout(d) PROVE TypeInv'
  BY <1>4 DEF ReadyTimeout, Goto
<1>5. ASSUME NEW d \in Daemons, StatusStartErr(d) PROVE TypeInv'
  BY <1>5 DEF StatusStartErr, Goto
<1>6. ASSUME NEW d \in Daemons, ArmAccept(d) PROVE TypeInv'
  BY <1>6 DEF ArmAccept
<1>7. ASSUME NEW d \in Daemons, ServeReturns(d) PROVE TypeInv'
  BY <1>7 DEF ServeReturns, Goto
<1>8. ASSUME NEW d \in Daemons, ServeFails(d) PROVE TypeInv'
  BY <1>8 DEF ServeFails, Goto, Fault
<1>9. ASSUME NEW d \in Daemons, ShutdownBegins(d) PROVE TypeInv'
  BY <1>9 DEF ShutdownBegins, Goto
<1>10. ASSUME NEW d \in Daemons, ShutdownDrained(d) PROVE TypeInv'
  BY <1>10 DEF ShutdownDrained, Goto
<1>11. ASSUME NEW d \in Daemons, ShutdownTimesOut(d) PROVE TypeInv'
  BY <1>11 DEF ShutdownTimesOut, Goto
<1>12. ASSUME NEW d \in Daemons, CancelStatus(d) PROVE TypeInv'
  BY <1>12 DEF CancelStatus, Goto
<1>13. ASSUME NEW d \in Daemons, StatusExited(d) PROVE TypeInv'
  BY <1>13 DEF StatusExited, Goto
<1>14. ASSUME NEW d \in Daemons, StatusExitTimeout(d) PROVE TypeInv'
  BY <1>14 DEF StatusExitTimeout, Goto
<1>15. ASSUME NEW d \in Daemons, DeferredUnlink(d) PROVE TypeInv'
  BY <1>15 DEF DeferredUnlink, Goto
<1>16. ASSUME NEW d \in Daemons, Exit(d) PROVE TypeInv'
  BY <1>16 DEF Exit, ProcessEnds, Goto, StatusGoto
<1>17. ASSUME NEW d \in Daemons, TryLock(d) PROVE TypeInv'
  BY <1>17 DEF TryLock, StatusGoto, BindPhaseFails
<1>18. ASSUME NEW d \in Daemons, Detect(d) PROVE TypeInv'
  BY <1>18 DEF Detect, BindPhaseFails, StatusGoto
<1>19. ASSUME NEW d \in Daemons, Unlink(d) PROVE TypeInv'
  BY <1>19 DEF Unlink, StatusGoto
<1>20. ASSUME NEW d \in Daemons, Bind(d) PROVE TypeInv'
  BY <1>20 DEF Bind, StatusGoto, BindPhaseFails
<1>21. ASSUME NEW d \in Daemons, BindPhaseError(d) PROVE TypeInv'
  BY <1>21 DEF BindPhaseError, BindPhaseFails, StatusGoto, Fault
<1>22. ASSUME NEW d \in Daemons, Chmod(d) PROVE TypeInv'
  BY <1>22 DEF Chmod, StatusGoto
<1>23. ASSUME NEW d \in Daemons, ChmodFails(d) PROVE TypeInv'
  BY <1>23 DEF ChmodFails, BindPhaseFails, StatusGoto, Fault
<1>24. ASSUME NEW d \in Daemons, SignalStarted(d) PROVE TypeInv'
  BY <1>24 DEF SignalStarted, StatusGoto
<1>25. ASSUME NEW d \in Daemons, CloseListener(d) PROVE TypeInv'
  BY <1>25 DEF CloseListener, StatusGoto
<1>26. ASSUME NEW d \in Daemons, StatusServeFails(d) PROVE TypeInv'
  BY <1>26 DEF StatusServeFails, StatusGoto, Fault
<1>27. ASSUME NEW d \in Daemons, GoroutineRemove(d) PROVE TypeInv'
  BY <1>27 DEF GoroutineRemove, StatusGoto
<1>28. ASSUME NEW d \in Daemons, DrainFlag(d) PROVE TypeInv'
  BY <1>28 DEF DrainFlag
<1>29. ASSUME NEW d \in Daemons, DrainCancel(d) PROVE TypeInv'
  BY <1>29 DEF DrainCancel
<1>30. ASSUME NEW d \in Daemons, Signal(d) PROVE TypeInv'
  BY <1>30 DEF Signal
<1>31. ASSUME NEW d \in Daemons, Crash(d) PROVE TypeInv'
  BY <1>31 DEF Crash, ProcessEnds, Goto, StatusGoto, Fault
<1>32. ASSUME NEW d \in Daemons, NEW c \in Conns, AcceptConn(d, c) PROVE TypeInv'
  BY <1>32 DEF AcceptConn
<1>33. ASSUME NEW d \in Daemons, NEW c \in Conns, RegisterSession(d, c) PROVE TypeInv'
  BY <1>33 DEF RegisterSession
<1>34. ASSUME NEW d \in Daemons, NEW c \in Conns, ConnEnds(d, c) PROVE TypeInv'
  BY <1>34 DEF ConnEnds
<1>35. ASSUME NEW c \in Clients, Post(c) PROVE TypeInv'
  BY <1>35 DEF Post, Answers
<1>36. ASSUME NEW c \in Clients, ProbeAccepting(c) PROVE TypeInv'
  <2>1. ProbeTarget(c) \in Daemons
    BY <1>36 DEF ProbeAccepting, Answers
  <2>2. seen' \in [Clients -> BOOLEAN]
    BY <1>36, <2>1 DEF ProbeAccepting
  <2>3. client' \in [Clients -> ClientStates]
    BY <1>36 DEF ProbeAccepting
  <2>4. QED BY <1>36, <2>2, <2>3 DEF ProbeAccepting
<1>37. ASSUME NEW c \in Clients, ProbeSessions(c) PROVE TypeInv'
  <2>1. CASE ~seen[c] /\ sessions[ProbeTarget(c)] = {}
    <3>1. Verdict(c)
      BY <1>37, <2>1 DEF ProbeSessions
    <3>2. /\ client' \in [Clients -> ClientStates]
          /\ posted' \in [Clients -> Daemons \cup {None}]
          /\ seen' \in [Clients -> BOOLEAN]
      BY <3>1 DEF Verdict
    <3>3. QED BY <1>37, <3>2 DEF ProbeSessions
  <2>2. CASE ~(~seen[c] /\ sessions[ProbeTarget(c)] = {})
    <3>1. /\ client' = [client EXCEPT ![c] = "poll"]
          /\ seen' = [seen EXCEPT ![c] = FALSE]
          /\ UNCHANGED posted
      BY <1>37, <2>2 DEF ProbeSessions
    <3>2. client' \in [Clients -> ClientStates]
      BY <3>1
    <3>3. seen' \in [Clients -> BOOLEAN]
      BY <3>1
    <3>4. QED BY <1>37, <3>1, <3>2, <3>3 DEF ProbeSessions
  <2>3. QED BY <2>1, <2>2
<1>38. ASSUME NEW c \in Clients, ProbeGone(c) PROVE TypeInv'
  BY <1>38 DEF ProbeGone, Verdict
<1>39. ASSUME NEW c \in Clients, ProbeFails(c) PROVE TypeInv'
  BY <1>39 DEF ProbeFails, Verdict
<1>40. ASSUME NEW c \in Clients, DrainTimeout(c) PROVE TypeInv'
  BY <1>40 DEF DrainTimeout, Verdict
<1>41. CASE UNCHANGED vars
  BY <1>41 DEF vars
<1>42. QED
  BY <1>1, <1>2, <1>3, <1>4, <1>5, <1>6, <1>7, <1>8, <1>9, <1>10, <1>11, <1>12, <1>13,
     <1>14, <1>15, <1>16, <1>17, <1>18, <1>19, <1>20, <1>21, <1>22, <1>23, <1>24, <1>25,
     <1>26, <1>27, <1>28, <1>29, <1>30, <1>31, <1>32, <1>33, <1>34, <1>35, <1>36, <1>37,
     <1>38, <1>39, <1>40, <1>41
  DEF Next, MainStep, StatusStep, ConnStep, DrainStep, ClientStep

\* The daemon's state stays well formed, and whoever fails or dies while it binds the status
\* socket gives the lock file back.
THEOREM TypeCorrect == Spec => []TypeOK
<1>1. TypeInv => TypeOK
  BY DEF TypeInv
<1>2. QED
  BY <1>1, TypeInit, TypeStep, PTL DEF Spec

-----------------------------------------------------------------------------
(* Who owns the lock, the name and the listener, and what a drain client may conclude.     *)

\* Binding is done under the lock, a listener is open exactly from bind to close, and what
\* runDaemon unlinks it has seen announced.
GoroutineInv(d) ==
    /\ statusG[d] \in {"detect", "unlink", "bind", "chmod"} => flock = d
    /\ statusG[d] \in {"chmod", "ready", "serving"} => d \in lis
    /\ statusG[d] \in {"serving", "closed"} => started[d]
    /\ started[d] => statusG[d] \in {"serving", "closed", "done"}
    /\ statusG[d] = "dead" => main[d] = "exited"
    /\ bound[d] =>
          /\ statusG[d] \in {"serving", "closed", "done", "dead"}
          /\ main[d] \notin {"off", "await"}
          /\ started[d] \/ main[d] = "exited"

\* What a daemon that holds the lock has found out about the name stays true, and a daemon
\* that had the name and returned has taken it away.
NameInv(d) ==
    /\ statusG[d] = "unlink" => sock \notin lis
    /\ statusG[d] = "chmod" => sock \in {d, None}
    /\ main[d] \in {"returned", "exited"} /\ bound[d] => sock # d

\* "accepting" is said between the first Accept and the end of Serve.
AcceptingInv(d) == accepting[d] => main[d] \in {"serve", "served"}

\* The daemon a client posted to served then; if it no longer does, its Shutdown has returned
\* or its status server has failed.
ClientInv(c) ==
    client[c] # "idle" =>
       /\ posted[c] \in Daemons
       /\ statusG[posted[c]] \in {"serving", "closed", "done", "dead"}
       /\ statusG[posted[c]] # "serving" =>
             ShutdownReturned(posted[c]) \/ statusFailed[posted[c]]

DaemonInv ==
    /\ TypeInv
    /\ \A d \in Daemons : GoroutineInv(d)
    /\ \A d \in Daemons : NameInv(d)
    /\ \A d \in Daemons : AcceptingInv(d)
    /\ \A c \in Clients : ClientInv(c)

\* Every step of a daemon keeps its status goroutine, its lock and its listener in step.
LEMMA GoroutineStep ==
  ASSUME TypeInv, NEW e \in Daemons, GoroutineInv(e), [Next]_vars
  PROVE  GoroutineInv(e)'
<1> USE DaemonAssumption DEF TypeInv, TypeOK, GoroutineInv, procVars, expVars, pathVars,
        cliVars, offMain, outsideStatus, outsideExporter, daemonVars
<1>1. CASE UNCHANGED <<statusG, flock, lis, started, bound, main>>
  BY <1>1
<1>2. ASSUME NEW d \in Daemons, Start(d) PROVE GoroutineInv(e)'
  BY <1>2 DEF Start, Goto, StatusGoto
<1>3. ASSUME NEW d \in Daemons, StartFails(d) PROVE GoroutineInv(e)'
  BY <1>3 DEF StartFails, Goto, Fault
<1>4. ASSUME NEW d \in Daemons, StatusReady(d) PROVE GoroutineInv(e)'
  BY <1>4 DEF StatusReady, Goto
<1>5. ASSUME NEW d \in Daemons, ReadyTimeout(d) PROVE GoroutineInv(e)'
  BY <1>5 DEF ReadyTimeout, Goto
<1>6. ASSUME NEW d \in Daemons, StatusStartErr(d) PROVE GoroutineInv(e)'
  BY <1>6 DEF StatusStartErr, Goto
<1>7. ASSUME NEW d \in Daemons, ServeReturns(d) PROVE GoroutineInv(e)'
  BY <1>7 DEF ServeReturns, Goto
<1>8. ASSUME NEW d \in Daemons, ServeFails(d) PROVE GoroutineInv(e)'
  BY <1>8 DEF ServeFails, Goto, Fault
<1>9. ASSUME NEW d \in Daemons, ShutdownBegins(d) PROVE GoroutineInv(e)'
  BY <1>9 DEF ShutdownBegins, Goto
<1>10. ASSUME NEW d \in Daemons, ShutdownDrained(d) PROVE GoroutineInv(e)'
  BY <1>10 DEF ShutdownDrained, Goto
<1>11. ASSUME NEW d \in Daemons, ShutdownTimesOut(d) PROVE GoroutineInv(e)'
  BY <1>11 DEF ShutdownTimesOut, Goto
<1>12. ASSUME NEW d \in Daemons, CancelStatus(d) PROVE GoroutineInv(e)'
  BY <1>12 DEF CancelStatus, Goto
<1>13. ASSUME NEW d \in Daemons, StatusExited(d) PROVE GoroutineInv(e)'
  BY <1>13 DEF StatusExited, Goto
<1>14. ASSUME NEW d \in Daemons, StatusExitTimeout(d) PROVE GoroutineInv(e)'
  BY <1>14 DEF StatusExitTimeout, Goto
<1>15. ASSUME NEW d \in Daemons, DeferredUnlink(d) PROVE GoroutineInv(e)'
  BY <1>15 DEF DeferredUnlink, Goto
<1>16. ASSUME NEW d \in Daemons, Exit(d) PROVE GoroutineInv(e)'
  BY <1>16 DEF Exit, ProcessEnds, Goto, StatusGoto
<1>17. ASSUME NEW d \in Daemons, TryLock(d) PROVE GoroutineInv(e)'
  BY <1>17 DEF TryLock, StatusGoto, BindPhaseFails
<1>18. ASSUME NEW d \in Daemons, Detect(d) PROVE GoroutineInv(e)'
  BY <1>18 DEF Detect, BindPhaseFails, StatusGoto
<1>19. ASSUME NEW d \in Daemons, Unlink(d) PROVE GoroutineInv(e)'
  BY <1>19 DEF Unlink, StatusGoto
<1>20. ASSUME NEW d \in Daemons, Bind(d) PROVE GoroutineInv(e)'
  BY <1>20 DEF Bind, StatusGoto, BindPhaseFails
<1>21. ASSUME NEW d \in Daemons, BindPhaseError(d) PROVE GoroutineInv(e)'
  BY <1>21 DEF BindPhaseError, BindPhaseFails, StatusGoto, Fault
<1>22. ASSUME NEW d \in Daemons, Chmod(d) PROVE GoroutineInv(e)'
  BY <1>22 DEF Chmod, StatusGoto
<1>23. ASSUME NEW d \in Daemons, ChmodFails(d) PROVE GoroutineInv(e)'
  BY <1>23 DEF ChmodFails, BindPhaseFails, StatusGoto, Fault
<1>24. ASSUME NEW d \in Daemons, SignalStarted(d) PROVE GoroutineInv(e)'
  BY <1>24 DEF SignalStarted, StatusGoto
<1>25. ASSUME NEW d \in Daemons, CloseListener(d) PROVE GoroutineInv(e)'
  BY <1>25 DEF CloseListener, StatusGoto
<1>26. ASSUME NEW d \in Daemons, StatusServeFails(d) PROVE GoroutineInv(e)'
  BY <1>26 DEF StatusServeFails, StatusGoto, Fault
<1>27. ASSUME NEW d \in Daemons, GoroutineRemove(d) PROVE GoroutineInv(e)'
  BY <1>27 DEF GoroutineRemove, StatusGoto
<1>28. ASSUME NEW d \in Daemons, Crash(d) PROVE GoroutineInv(e)'
  BY <1>28 DEF Crash, ProcessEnds, Goto, StatusGoto, Fault
<1>29. ASSUME NEW d \in Daemons, 
               ArmAccept(d) \/ DrainFlag(d) \/ DrainCancel(d) \/ Signal(d)
     PROVE  UNCHANGED <<statusG, flock, lis, started, bound, main>>
  BY <1>29 DEF ArmAccept, DrainFlag, DrainCancel, Signal
<1>30. ASSUME NEW d \in Daemons, NEW c \in Conns, 
               AcceptConn(d, c) \/ RegisterSession(d, c) \/ ConnEnds(d, c)
     PROVE  UNCHANGED <<statusG, flock, lis, started, bound, main>>
  BY <1>30 DEF AcceptConn, RegisterSession, ConnEnds
<1>31. ASSUME NEW c \in Clients, 
               Post(c) \/ ProbeAccepting(c) \/ ProbeSessions(c) \/ ProbeGone(c)
            \/ ProbeFails(c) \/ DrainTimeout(c)
     PROVE  UNCHANGED <<statusG, flock, lis, started, bound, main>>
  BY <1>31 DEF Post, ProbeAccepting, ProbeSessions, ProbeGone, ProbeFails, DrainTimeout
<1>32. ASSUME UNCHANGED vars PROVE UNCHANGED <<statusG, flock, lis, started, bound, main>>
  BY <1>32 DEF vars
<1>33. QED
  BY <1>1, <1>2, <1>3, <1>4, <1>5, <1>6, <1>7, <1>8, <1>9, <1>10, <1>11, <1>12, <1>13,
     <1>14, <1>15, <1>16, <1>17, <1>18, <1>19, <1>20, <1>21, <1>22, <1>23, <1>24, <1>25,
     <1>26, <1>27, <1>28, <1>29, <1>30, <1>31, <1>32
  DEF Next, MainStep, StatusStep, ConnStep, DrainStep, ClientStep

\* No step takes a name away from under the daemon that holds the lock.
LEMMA NameStep ==
  ASSUME TypeInv, \A d \in Daemons : GoroutineInv(d), NEW e \in Daemons, NameInv(e),
         [Next]_vars
  PROVE  NameInv(e)'
<1> USE DaemonAssumption DEF TypeInv, TypeOK, GoroutineInv, NameInv, procVars, expVars,
        pathVars, cliVars, offMain, outsideStatus, outsideExporter, daemonVars
<1>1. CASE UNCHANGED <<statusG, sock, lis, bound, main>>
  BY <1>1
<1>2. ASSUME NEW d \in Daemons, Start(d) PROVE NameInv(e)'
  BY <1>2 DEF Start, Goto, StatusGoto
<1>3. ASSUME NEW d \in Daemons, StartFails(d) PROVE NameInv(e)'
  BY <1>3 DEF StartFails, Goto, Fault
<1>4. ASSUME NEW d \in Daemons, StatusReady(d) PROVE NameInv(e)'
  BY <1>4 DEF StatusReady, Goto
<1>5. ASSUME NEW d \in Daemons, ReadyTimeout(d) PROVE NameInv(e)'
  BY <1>5 DEF ReadyTimeout, Goto
<1>6. ASSUME NEW d \in Daemons, StatusStartErr(d) PROVE NameInv(e)'
  BY <1>6 DEF StatusStartErr, Goto
<1>7. ASSUME NEW d \in Daemons, ServeReturns(d) PROVE NameInv(e)'
  BY <1>7 DEF ServeReturns, Goto
<1>8. ASSUME NEW d \in Daemons, ServeFails(d) PROVE NameInv(e)'
  BY <1>8 DEF ServeFails, Goto, Fault
<1>9. ASSUME NEW d \in Daemons, ShutdownBegins(d) PROVE NameInv(e)'
  BY <1>9 DEF ShutdownBegins, Goto
<1>10. ASSUME NEW d \in Daemons, ShutdownDrained(d) PROVE NameInv(e)'
  BY <1>10 DEF ShutdownDrained, Goto
<1>11. ASSUME NEW d \in Daemons, ShutdownTimesOut(d) PROVE NameInv(e)'
  BY <1>11 DEF ShutdownTimesOut, Goto
<1>12. ASSUME NEW d \in Daemons, CancelStatus(d) PROVE NameInv(e)'
  BY <1>12 DEF CancelStatus, Goto
<1>13. ASSUME NEW d \in Daemons, StatusExited(d) PROVE NameInv(e)'
  BY <1>13 DEF StatusExited, Goto
<1>14. ASSUME NEW d \in Daemons, StatusExitTimeout(d) PROVE NameInv(e)'
  BY <1>14 DEF StatusExitTimeout, Goto
<1>15. ASSUME NEW d \in Daemons, DeferredUnlink(d) PROVE NameInv(e)'
  BY <1>15 DEF DeferredUnlink, Goto
<1>16. ASSUME NEW d \in Daemons, Exit(d) PROVE NameInv(e)'
  BY <1>16 DEF Exit, ProcessEnds, Goto, StatusGoto
<1>17. ASSUME NEW d \in Daemons, TryLock(d) PROVE NameInv(e)'
  BY <1>17 DEF TryLock, StatusGoto, BindPhaseFails
<1>18. ASSUME NEW d \in Daemons, Detect(d) PROVE NameInv(e)'
  BY <1>18 DEF Detect, BindPhaseFails, StatusGoto
<1>19. ASSUME NEW d \in Daemons, Unlink(d) PROVE NameInv(e)'
  BY <1>19 DEF Unlink, StatusGoto
<1>20. ASSUME NEW d \in Daemons, Bind(d) PROVE NameInv(e)'
  BY <1>20 DEF Bind, StatusGoto, BindPhaseFails
<1>21. ASSUME NEW d \in Daemons, BindPhaseError(d) PROVE NameInv(e)'
  BY <1>21 DEF BindPhaseError, BindPhaseFails, StatusGoto, Fault
<1>22. ASSUME NEW d \in Daemons, Chmod(d) PROVE NameInv(e)'
  BY <1>22 DEF Chmod, StatusGoto
<1>23. ASSUME NEW d \in Daemons, ChmodFails(d) PROVE NameInv(e)'
  BY <1>23 DEF ChmodFails, BindPhaseFails, StatusGoto, Fault
<1>24. ASSUME NEW d \in Daemons, SignalStarted(d) PROVE NameInv(e)'
  BY <1>24 DEF SignalStarted, StatusGoto
<1>25. ASSUME NEW d \in Daemons, CloseListener(d) PROVE NameInv(e)'
  BY <1>25 DEF CloseListener, StatusGoto
<1>26. ASSUME NEW d \in Daemons, StatusServeFails(d) PROVE NameInv(e)'
  BY <1>26 DEF StatusServeFails, StatusGoto, Fault
<1>27. ASSUME NEW d \in Daemons, GoroutineRemove(d) PROVE NameInv(e)'
  BY <1>27 DEF GoroutineRemove, StatusGoto
<1>28. ASSUME NEW d \in Daemons, Crash(d) PROVE NameInv(e)'
  BY <1>28 DEF Crash, ProcessEnds, Goto, StatusGoto, Fault
<1>29. ASSUME NEW d \in Daemons, 
               ArmAccept(d) \/ DrainFlag(d) \/ DrainCancel(d) \/ Signal(d)
     PROVE  UNCHANGED <<statusG, sock, lis, bound, main>>
  BY <1>29 DEF ArmAccept, DrainFlag, DrainCancel, Signal
<1>30. ASSUME NEW d \in Daemons, NEW c \in Conns, 
               AcceptConn(d, c) \/ RegisterSession(d, c) \/ ConnEnds(d, c)
     PROVE  UNCHANGED <<statusG, sock, lis, bound, main>>
  BY <1>30 DEF AcceptConn, RegisterSession, ConnEnds
<1>31. ASSUME NEW c \in Clients, 
               Post(c) \/ ProbeAccepting(c) \/ ProbeSessions(c) \/ ProbeGone(c)
            \/ ProbeFails(c) \/ DrainTimeout(c)
     PROVE  UNCHANGED <<statusG, sock, lis, bound, main>>
  BY <1>31 DEF Post, ProbeAccepting, ProbeSessions, ProbeGone, ProbeFails, DrainTimeout
<1>32. ASSUME UNCHANGED vars PROVE UNCHANGED <<statusG, sock, lis, bound, main>>
  BY <1>32 DEF vars
<1>33. QED
  BY <1>1, <1>2, <1>3, <1>4, <1>5, <1>6, <1>7, <1>8, <1>9, <1>10, <1>11, <1>12, <1>13,
     <1>14, <1>15, <1>16, <1>17, <1>18, <1>19, <1>20, <1>21, <1>22, <1>23, <1>24, <1>25,
     <1>26, <1>27, <1>28, <1>29, <1>30, <1>31, <1>32
  DEF Next, MainStep, StatusStep, ConnStep, DrainStep, ClientStep

\* Every step that leaves Serve clears the flag before Shutdown begins.
LEMMA AcceptingStep ==
  ASSUME TypeInv, NEW e \in Daemons, AcceptingInv(e), [Next]_vars
  PROVE  AcceptingInv(e)'
<1> USE DaemonAssumption DEF TypeInv, TypeOK, AcceptingInv, procVars, expVars, pathVars,
        cliVars, offMain, outsideStatus, outsideExporter, daemonVars
<1>1. CASE UNCHANGED <<accepting, main>>
  BY <1>1
<1>2. ASSUME NEW d \in Daemons, Start(d) PROVE AcceptingInv(e)'
  BY <1>2 DEF Start, Goto, StatusGoto
<1>3. ASSUME NEW d \in Daemons, StartFails(d) PROVE AcceptingInv(e)'
  BY <1>3 DEF StartFails, Goto, Fault
<1>4. ASSUME NEW d \in Daemons, StatusReady(d) PROVE AcceptingInv(e)'
  BY <1>4 DEF StatusReady, Goto
<1>5. ASSUME NEW d \in Daemons, ReadyTimeout(d) PROVE AcceptingInv(e)'
  BY <1>5 DEF ReadyTimeout, Goto
<1>6. ASSUME NEW d \in Daemons, StatusStartErr(d) PROVE AcceptingInv(e)'
  BY <1>6 DEF StatusStartErr, Goto
<1>7. ASSUME NEW d \in Daemons, ArmAccept(d) PROVE AcceptingInv(e)'
  BY <1>7 DEF ArmAccept
<1>8. ASSUME NEW d \in Daemons, ServeReturns(d) PROVE AcceptingInv(e)'
  BY <1>8 DEF ServeReturns, Goto
<1>9. ASSUME NEW d \in Daemons, ServeFails(d) PROVE AcceptingInv(e)'
  BY <1>9 DEF ServeFails, Goto, Fault
<1>10. ASSUME NEW d \in Daemons, ShutdownBegins(d) PROVE AcceptingInv(e)'
  BY <1>10 DEF ShutdownBegins, Goto
<1>11. ASSUME NEW d \in Daemons, ShutdownDrained(d) PROVE AcceptingInv(e)'
  BY <1>11 DEF ShutdownDrained, Goto
<1>12. ASSUME NEW d \in Daemons, ShutdownTimesOut(d) PROVE AcceptingInv(e)'
  BY <1>12 DEF ShutdownTimesOut, Goto
<1>13. ASSUME NEW d \in Daemons, CancelStatus(d) PROVE AcceptingInv(e)'
  BY <1>13 DEF CancelStatus, Goto
<1>14. ASSUME NEW d \in Daemons, StatusExited(d) PROVE AcceptingInv(e)'
  BY <1>14 DEF StatusExited, Goto
<1>15. ASSUME NEW d \in Daemons, StatusExitTimeout(d) PROVE AcceptingInv(e)'
  BY <1>15 DEF StatusExitTimeout, Goto
<1>16. ASSUME NEW d \in Daemons, DeferredUnlink(d) PROVE AcceptingInv(e)'
  BY <1>16 DEF DeferredUnlink, Goto
<1>17. ASSUME NEW d \in Daemons, Exit(d) PROVE AcceptingInv(e)'
  BY <1>17 DEF Exit, ProcessEnds, Goto, StatusGoto
<1>18. ASSUME NEW d \in Daemons, DrainFlag(d) PROVE AcceptingInv(e)'
  BY <1>18 DEF DrainFlag
<1>19. ASSUME NEW d \in Daemons, Crash(d) PROVE AcceptingInv(e)'
  BY <1>19 DEF Crash, ProcessEnds, Goto, StatusGoto, Fault
<1>20. ASSUME NEW d \in Daemons, 
               TryLock(d) \/ Detect(d) \/ Unlink(d) \/ Bind(d) \/ BindPhaseError(d)
            \/ Chmod(d) \/ ChmodFails(d) \/ SignalStarted(d) \/ CloseListener(d)
            \/ StatusServeFails(d) \/ GoroutineRemove(d) \/ DrainCancel(d) \/ Signal(d)
     PROVE  UNCHANGED <<accepting, main>>
  BY <1>20 DEF TryLock, Detect, Unlink, Bind, BindPhaseError, Chmod, ChmodFails,
     SignalStarted, CloseListener, StatusServeFails, GoroutineRemove, DrainCancel, Signal
<1>21. ASSUME NEW d \in Daemons, NEW c \in Conns, 
               AcceptConn(d, c) \/ RegisterSession(d, c) \/ ConnEnds(d, c)
     PROVE  UNCHANGED <<accepting, main>>
  BY <1>21 DEF AcceptConn, RegisterSession, ConnEnds
<1>22. ASSUME NEW c \in Clients, 
               Post(c) \/ ProbeAccepting(c) \/ ProbeSessions(c) \/ ProbeGone(c)
            \/ ProbeFails(c) \/ DrainTimeout(c)
     PROVE  UNCHANGED <<accepting, main>>
  BY <1>22 DEF Post, ProbeAccepting, ProbeSessions, ProbeGone, ProbeFails, DrainTimeout
<1>23. ASSUME UNCHANGED vars PROVE UNCHANGED <<accepting, main>>
  BY SMTT(60), <1>23 DEF vars
<1>24. QED
  BY <1>1, <1>2, <1>3, <1>4, <1>5, <1>6, <1>7, <1>8, <1>9, <1>10, <1>11, <1>12, <1>13,
     <1>14, <1>15, <1>16, <1>17, <1>18, <1>19, <1>20, <1>21, <1>22, <1>23
  DEF Next, MainStep, StatusStep, ConnStep, DrainStep, ClientStep

\* Every step keeps what a polling client may conclude true.
LEMMA ClientStepInv ==
  ASSUME TypeInv, \A d \in Daemons : GoroutineInv(d), NEW k \in Clients, ClientInv(k),
         [Next]_vars
  PROVE  ClientInv(k)'
<1> USE DaemonAssumption DEF TypeInv, TypeOK, GoroutineInv, ClientInv, ShutdownReturned,
        procVars, expVars, pathVars, cliVars, offMain, outsideStatus, outsideExporter,
        daemonVars
<1>1. CASE UNCHANGED <<client, posted, statusG, main, statusFailed>>
  BY <1>1
<1>2. ASSUME NEW d \in Daemons, Start(d) PROVE ClientInv(k)'
  BY <1>2 DEF Start, Goto, StatusGoto
<1>3. ASSUME NEW d \in Daemons, StartFails(d) PROVE ClientInv(k)'
  BY <1>3 DEF StartFails, Goto, Fault
<1>4. ASSUME NEW d \in Daemons, StatusReady(d) PROVE ClientInv(k)'
  BY <1>4 DEF StatusReady, Goto
<1>5. ASSUME NEW d \in Daemons, ReadyTimeout(d) PROVE ClientInv(k)'
  BY <1>5 DEF ReadyTimeout, Goto
<1>6. ASSUME NEW d \in Daemons, StatusStartErr(d) PROVE ClientInv(k)'
  BY <1>6 DEF StatusStartErr, Goto
<1>7. ASSUME NEW d \in Daemons, ServeReturns(d) PROVE ClientInv(k)'
  BY <1>7 DEF ServeReturns, Goto
<1>8. ASSUME NEW d \in Daemons, ServeFails(d) PROVE ClientInv(k)'
  BY <1>8 DEF ServeFails, Goto, Fault
<1>9. ASSUME NEW d \in Daemons, ShutdownBegins(d) PROVE ClientInv(k)'
  BY <1>9 DEF ShutdownBegins, Goto
<1>10. ASSUME NEW d \in Daemons, ShutdownDrained(d) PROVE ClientInv(k)'
  BY <1>10 DEF ShutdownDrained, Goto
<1>11. ASSUME NEW d \in Daemons, ShutdownTimesOut(d) PROVE ClientInv(k)'
  BY <1>11 DEF ShutdownTimesOut, Goto
<1>12. ASSUME NEW d \in Daemons, CancelStatus(d) PROVE ClientInv(k)'
  BY <1>12 DEF CancelStatus, Goto
<1>13. ASSUME NEW d \in Daemons, StatusExited(d) PROVE ClientInv(k)'
  BY <1>13 DEF StatusExited, Goto
<1>14. ASSUME NEW d \in Daemons, StatusExitTimeout(d) PROVE ClientInv(k)'
  BY <1>14 DEF StatusExitTimeout, Goto
<1>15. ASSUME NEW d \in Daemons, DeferredUnlink(d) PROVE ClientInv(k)'
  BY <1>15 DEF DeferredUnlink, Goto
<1>16. ASSUME NEW d \in Daemons, Exit(d) PROVE ClientInv(k)'
  BY <1>16 DEF Exit, ProcessEnds, Goto, StatusGoto
<1>17. ASSUME NEW d \in Daemons, TryLock(d) PROVE ClientInv(k)'
  BY <1>17 DEF TryLock, StatusGoto, BindPhaseFails
<1>18. ASSUME NEW d \in Daemons, Detect(d) PROVE ClientInv(k)'
  BY <1>18 DEF Detect, BindPhaseFails, StatusGoto
<1>19. ASSUME NEW d \in Daemons, Unlink(d) PROVE ClientInv(k)'
  BY <1>19 DEF Unlink, StatusGoto
<1>20. ASSUME NEW d \in Daemons, Bind(d) PROVE ClientInv(k)'
  BY <1>20 DEF Bind, StatusGoto, BindPhaseFails
<1>21. ASSUME NEW d \in Daemons, BindPhaseError(d) PROVE ClientInv(k)'
  BY <1>21 DEF BindPhaseError, BindPhaseFails, StatusGoto, Fault
<1>22. ASSUME NEW d \in Daemons, Chmod(d) PROVE ClientInv(k)'
  BY <1>22 DEF Chmod, StatusGoto
<1>23. ASSUME NEW d \in Daemons, ChmodFails(d) PROVE ClientInv(k)'
  BY <1>23 DEF ChmodFails, BindPhaseFails, StatusGoto, Fault
<1>24. ASSUME NEW d \in Daemons, SignalStarted(d) PROVE ClientInv(k)'
  BY <1>24 DEF SignalStarted, StatusGoto
<1>25. ASSUME NEW d \in Daemons, CloseListener(d) PROVE ClientInv(k)'
  BY <1>25 DEF CloseListener, StatusGoto, StatusCancelled
<1>26. ASSUME NEW d \in Daemons, StatusServeFails(d) PROVE ClientInv(k)'
  BY <1>26 DEF StatusServeFails, StatusGoto, Fault, StatusCancelled
<1>27. ASSUME NEW d \in Daemons, GoroutineRemove(d) PROVE ClientInv(k)'
  BY <1>27 DEF GoroutineRemove, StatusGoto
<1>28. ASSUME NEW d \in Daemons, Crash(d) PROVE ClientInv(k)'
  BY <1>28 DEF Crash, ProcessEnds, Goto, StatusGoto, Fault
<1>29. ASSUME NEW c \in Clients, Post(c) PROVE ClientInv(k)'
  BY <1>29 DEF Post, Answers, Reaches
<1>30. ASSUME NEW c \in Clients, ProbeAccepting(c) PROVE ClientInv(k)'
  BY <1>30 DEF ProbeAccepting
<1>31. ASSUME NEW c \in Clients, ProbeSessions(c) PROVE ClientInv(k)'
  BY <1>31 DEF ProbeSessions, Verdict
<1>32. ASSUME NEW c \in Clients, ProbeGone(c) PROVE ClientInv(k)'
  BY <1>32 DEF ProbeGone, Verdict
<1>33. ASSUME NEW c \in Clients, ProbeFails(c) PROVE ClientInv(k)'
  BY <1>33 DEF ProbeFails, Verdict
<1>34. ASSUME NEW c \in Clients, DrainTimeout(c) PROVE ClientInv(k)'
  BY <1>34 DEF DrainTimeout, Verdict
<1>35. ASSUME NEW d \in Daemons, 
               ArmAccept(d) \/ DrainFlag(d) \/ DrainCancel(d) \/ Signal(d)
     PROVE  UNCHANGED <<client, posted, statusG, main, statusFailed>>
  BY <1>35 DEF ArmAccept, DrainFlag, DrainCancel, Signal
<1>36. ASSUME NEW d \in Daemons, NEW c \in Conns, 
               AcceptConn(d, c) \/ RegisterSession(d, c) \/ ConnEnds(d, c)
     PROVE  UNCHANGED <<client, posted, statusG, main, statusFailed>>
  BY <1>36 DEF AcceptConn, RegisterSession, ConnEnds
<1>37. ASSUME UNCHANGED vars PROVE UNCHANGED <<client, posted, statusG, main, statusFailed>>
  BY <1>37 DEF vars
<1>38. QED
  BY <1>1, <1>2, <1>3, <1>4, <1>5, <1>6, <1>7, <1>8, <1>9, <1>10, <1>11, <1>12, <1>13,
     <1>14, <1>15, <1>16, <1>17, <1>18, <1>19, <1>20, <1>21, <1>22, <1>23, <1>24, <1>25,
     <1>26, <1>27, <1>28, <1>29, <1>30, <1>31, <1>32, <1>33, <1>34, <1>35, <1>36, <1>37
  DEF Next, MainStep, StatusStep, ConnStep, DrainStep, ClientStep

\* DaemonInv is an invariant.
THEOREM DaemonInvariant == Spec => []DaemonInv
<1>1. Init => DaemonInv
  <2> SUFFICES ASSUME Init PROVE DaemonInv
    OBVIOUS
  <2>1. TypeInv
    BY TypeInit
  <2>2. ASSUME NEW d \in Daemons PROVE GoroutineInv(d) /\ NameInv(d) /\ AcceptingInv(d)
    BY DEF Init, GoroutineInv, NameInv, AcceptingInv
  <2>3. ASSUME NEW c \in Clients PROVE ClientInv(c)
    BY DEF Init, ClientInv
  <2>4. QED BY <2>1, <2>2, <2>3 DEF DaemonInv
<1>2. DaemonInv /\ [Next]_vars => DaemonInv'
  <2> SUFFICES ASSUME DaemonInv, [Next]_vars PROVE DaemonInv'
    OBVIOUS
  <2>1. TypeInv'
    BY TypeStep DEF DaemonInv
  <2>2. ASSUME NEW e \in Daemons PROVE GoroutineInv(e)'
    BY GoroutineStep DEF DaemonInv
  <2>3. ASSUME NEW e \in Daemons PROVE NameInv(e)'
    BY NameStep DEF DaemonInv
  <2>4. ASSUME NEW e \in Daemons PROVE AcceptingInv(e)'
    BY AcceptingStep DEF DaemonInv
  <2>5. ASSUME NEW k \in Clients PROVE ClientInv(k)'
    BY ClientStepInv DEF DaemonInv
  <2>6. QED BY <2>1, <2>2, <2>3, <2>4, <2>5 DEF DaemonInv
<1>3. QED
  BY <1>1, <1>2, PTL DEF Spec

\* A daemon stops saying "accepting" before Shutdown begins, and one that returned from
\* runDaemon after its status server had started leaves no socket file of its own behind.
THEOREM CleanExit == Spec => []ExitIsClean
<1>1. DaemonInv => ExitIsClean
  BY DEF DaemonInv, NameInv, AcceptingInv, ExitIsClean, AcceptingEndsWithServe,
     CleanExitLeavesNoSocket
<1>2. QED
  BY <1>1, DaemonInvariant, PTL

\* A drain client that finds the socket gone after its POST was answered may take the daemon's
\* sessions as shut down, unless the status server failed on its own.
THEOREM GoneIsShutdown == Spec => GoneMeansShutdown
<1> DEFINE Right == \A c \in Clients : ProbeGone(c) =>
                       ShutdownReturned(posted[c]) \/ statusFailed[posted[c]]
<1>1. DaemonInv => Right
  <2> SUFFICES ASSUME DaemonInv, NEW c \in Clients, ProbeGone(c)
               PROVE  ShutdownReturned(posted[c]) \/ statusFailed[posted[c]]
    OBVIOUS
  <2>1. client[c] = "poll" /\ ProbeTarget(c) \notin lis
    BY DEF ProbeGone
  <2>2. posted[c] \in Daemons
    BY <2>1 DEF DaemonInv, ClientInv
  <2>3. statusG[posted[c]] # "serving"
    <3>1. SUFFICES ASSUME statusG[posted[c]] = "serving" PROVE FALSE
      OBVIOUS
    <3>2. posted[c] \in lis
      BY <2>2, <3>1 DEF DaemonInv, GoroutineInv
    <3>3. ProbeTarget(c) = posted[c]
      BY <3>1 DEF ProbeTarget, Reaches
    <3>4. QED BY <2>1, <3>2, <3>3
  <2>4. QED BY <2>1, <2>3 DEF DaemonInv, ClientInv
<1>2. DaemonInv /\ [Next]_vars => [Right]_vars
  BY <1>1
<1>3. QED
  BY <1>2, DaemonInvariant, PTL DEF Spec, GoneMeansShutdown

\* The steps that take the name of a listening daemon away.
LEMMA NameTaker ==
  ASSUME DaemonInv, [Next]_vars, LiveNameLost
  PROVE  \E d \in Daemons : /\ started[d] \/ sock = d
                            /\ statusG'[d] # statusG[d] \/ main'[d] # main[d]
<1> USE DaemonAssumption DEF DaemonInv, TypeInv, TypeOK, LiveNameLost, procVars, expVars,
        pathVars, cliVars, offMain, outsideStatus, outsideExporter, daemonVars
<1> DEFINE Taker(d) == /\ started[d] \/ sock = d
                       /\ statusG'[d] # statusG[d] \/ main'[d] # main[d]
<1>1. ASSUME NEW d \in Daemons, DeferredUnlink(d) PROVE Taker(d)
  BY <1>1 DEF DeferredUnlink, Goto, GoroutineInv
<1>2. ASSUME NEW d \in Daemons, Unlink(d) PROVE FALSE
  BY <1>2 DEF Unlink, NameInv
<1>3. ASSUME NEW d \in Daemons, Bind(d) PROVE FALSE
  BY <1>3 DEF Bind
<1>4. ASSUME NEW d \in Daemons, ChmodFails(d) PROVE Taker(d)
  BY <1>4 DEF ChmodFails, BindPhaseFails, StatusGoto, NameInv
<1>5. ASSUME NEW d \in Daemons, CloseListener(d) PROVE Taker(d)
  BY <1>5 DEF CloseListener, StatusGoto, GoroutineInv
<1>6. ASSUME NEW d \in Daemons, StatusServeFails(d) PROVE Taker(d)
  BY <1>6 DEF StatusServeFails, StatusGoto, GoroutineInv
<1>7. ASSUME NEW d \in Daemons, GoroutineRemove(d) PROVE Taker(d)
  BY <1>7 DEF GoroutineRemove, StatusGoto, GoroutineInv
<1>8. ASSUME NEW d \in Daemons,
               Start(d) \/ StartFails(d) \/ StatusReady(d) \/ ReadyTimeout(d)
            \/ StatusStartErr(d) \/ ArmAccept(d) \/ ServeReturns(d) \/ ServeFails(d)
            \/ ShutdownBegins(d) \/ ShutdownDrained(d) \/ ShutdownTimesOut(d)
            \/ CancelStatus(d) \/ StatusExited(d) \/ StatusExitTimeout(d) \/ Exit(d)
            \/ TryLock(d) \/ Detect(d) \/ BindPhaseError(d) \/ Chmod(d)
            \/ SignalStarted(d) \/ DrainFlag(d) \/ DrainCancel(d) \/ Signal(d)
            \/ Crash(d)
     PROVE  UNCHANGED sock
  BY <1>8 DEF Start, StartFails, StatusReady, ReadyTimeout, StatusStartErr, ArmAccept,
     ServeReturns, ServeFails, ShutdownBegins, ShutdownDrained, ShutdownTimesOut,
     CancelStatus, StatusExited, StatusExitTimeout, Exit, ProcessEnds, TryLock, Detect,
     BindPhaseError, Chmod, SignalStarted, DrainFlag, DrainCancel, Signal, Crash
<1>9. ASSUME NEW d \in Daemons, NEW c \in Conns,
               AcceptConn(d, c) \/ RegisterSession(d, c) \/ ConnEnds(d, c)
     PROVE  UNCHANGED sock
  BY <1>9 DEF AcceptConn, RegisterSession, ConnEnds
<1>10. ASSUME NEW c \in Clients,
               Post(c) \/ ProbeAccepting(c) \/ ProbeSessions(c) \/ ProbeGone(c)
            \/ ProbeFails(c) \/ DrainTimeout(c)
     PROVE  UNCHANGED sock
  BY <1>10 DEF Post, ProbeAccepting, ProbeSessions, ProbeGone, ProbeFails, DrainTimeout
<1>11. ASSUME UNCHANGED vars PROVE UNCHANGED sock
  BY <1>11 DEF vars
<1>12. QED
  BY <1>1, <1>2, <1>3, <1>4, <1>5, <1>6, <1>7, <1>8, <1>9, <1>10, <1>11
  DEF Next, MainStep, StatusStep, ConnStep, DrainStep, ClientStep

\* Only a daemon that had announced its own socket, or the owner itself, ever takes away the
\* name of a listening daemon: the losers of the race for the path leave it alone.
THEOREM LosersSpare == Spec => LosersSpareTheIncumbent
<1> DEFINE Spared == LiveNameLost => \E d \in Daemons :
                        /\ started[d] \/ sock = d
                        /\ statusG'[d] # statusG[d] \/ main'[d] # main[d]
<1>1. DaemonInv /\ [Next]_vars => [Spared]_vars
  BY NameTaker
<1>2. QED
  BY <1>1, DaemonInvariant, PTL DEF Spec, LosersSpareTheIncumbent
=============================================================================
