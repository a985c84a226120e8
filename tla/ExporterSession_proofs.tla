----------------------- MODULE ExporterSession_proofs -----------------------
(***************************************************************************)
(* Proofs about ExporterSession for any sets of connections, peers,        *)
(* devices and Shutdown calls.                                             *)
(***************************************************************************)
EXTENDS ExporterSession, FiniteSetTheorems, TLAPS

\* The initial state is well formed.
LEMMA TypeInit == Init => TypeOK
<1> SUFFICES ASSUME Init PROVE TypeOK
  OBVIOUS
<1>1. /\ pc \in [Conns -> HandlerStates]
      /\ reason \in [Conns -> Reasons]
      /\ handoffState \in [Conns -> HandoffStates]
      /\ sd \in [Callers -> CallerStates]
  BY DEF Init, HandlerStates, CallerStates, HandoffStates, Reasons
<1>2. /\ cleanupDone \in [Conns -> Nat]
      /\ disconnects \in [Conns -> Nat]
      /\ perPeer \in [Peers -> Nat]
      /\ owner \in [BusIDs -> Conns \cup {None}]
  BY DEF Init
<1>3. QED
  BY <1>1, <1>2 DEF Init, TypeOK

\* Every step leaves a well-formed state.
LEMMA TypeStep == TypeOK /\ [Next]_vars => TypeOK'
<1> SUFFICES ASSUME TypeOK, [Next]_vars PROVE TypeOK'
  OBVIOUS
<1> USE SessionAssumption DEF TypeOK, HandlerStates, CallerStates, HandoffStates, Reasons,
      exporterVars, handlerVars, handleVars, discVars, kernelVars, eventVars, callerVars,
      watchVars
<1>1. ASSUME NEW c \in Conns, Accept(c) \/ RejectAccept(c) \/ WatcherStep(c)
             \/ ClientStep(c) \/ DisconnectorStep(c)
      PROVE  TypeOK'
  <2>1. CASE Accept(c)        BY <2>1 DEF Accept
  <2>2. CASE RejectAccept(c)  BY <2>2 DEF RejectAccept
  <2>3. CASE WatcherTimer(c)  BY <2>3 DEF WatcherTimer
  <2>4. CASE WatcherStop(c)   BY <2>4 DEF WatcherStop
  <2>5. CASE DecodeImport(c)  BY <2>5 DEF DecodeImport
  <2>6. CASE HandshakeEnds(c) BY <2>6 DEF HandshakeEnds, StopTimeout
  <2>7. CASE ReplySent(c)     BY <2>7 DEF ReplySent, StopTimeout
  <2>8. CASE ReplyFails(c)    BY <2>8 DEF ReplyFails, StopTimeout
  <2>9. CASE GoDisconnect(c)  BY <2>9 DEF GoDisconnect, Disconnect
  <2>10. CASE GoFinishCleanup(c) BY SMTT(60), <2>10 DEF GoFinishCleanup, FinishCleanup
  <2>11. QED
    BY <1>1, <2>1, <2>2, <2>3, <2>4, <2>5, <2>6, <2>7, <2>8, <2>9, <2>10
    DEF WatcherStep, ClientStep, DisconnectorStep
<1>2. ASSUME NEW c \in Conns, HandlerStep(c)
      PROVE  TypeOK'
  <2>1. CASE LookupExportedDevice(c)
    <3>1. /\ pc' \in [Conns -> HandlerStates]
          /\ watcher' \in [Conns -> {"off", "armed", "stopping", "stopped"}]
      BY SMTT(60), <2>1 DEF LookupExportedDevice, StopTimeout
    <3>2. QED BY <2>1, <3>1 DEF LookupExportedDevice
  <2>2. CASE RegisterSession(c)      BY <2>2 DEF RegisterSession
  <2>3. CASE DeclineSession(c)       BY <2>3 DEF DeclineSession, StopTimeout
  <2>4. CASE PublishStarted(c)       BY <2>4 DEF PublishStarted, Publish
  <2>5. CASE Subscribe(c)
    <3>1. CASE reason' = reason
      BY SMTT(60), <2>5, <3>1 DEF Subscribe, StopTimeout
    <3>2. CASE ~(reason' = reason)
      BY SMTT(60), <2>5, <3>2 DEF Subscribe, StopTimeout
    <3>3. QED BY <2>5, <3>1, <3>2 DEF Subscribe
  <2>6. CASE StopWaited(c)
    <3>1. pc' \in [Conns -> HandlerStates]
      <4>1. \E to \in {"exited", "end", "handoff"} : pc' = [pc EXCEPT ![c] = to]
        BY <2>6 DEF StopWaited
      <4>2. QED BY <4>1
    <3>2. connOpen' \in [Conns -> BOOLEAN]
      <4>1. connOpen \in [Conns -> BOOLEAN]
        OBVIOUS
      <4>2. connOpen' = connOpen \/ connOpen' = [connOpen EXCEPT ![c] = FALSE]
        BY <2>6 DEF StopWaited
      <4>3. QED BY ONLY <4>1, <4>2
    <3>3. QED BY <2>6, <3>1, <3>2 DEF StopWaited
  <2>7. CASE BeginHandoff(c)
    <3>1. CASE cancelled[c]
      BY SMTT(60), <2>7, <3>1 DEF BeginHandoff
    <3>2. CASE ~cancelled[c]
      BY SMTT(60), <2>7, <3>2 DEF BeginHandoff
    <3>3. QED BY <2>7, <3>1, <3>2 DEF BeginHandoff
  <2>8. CASE ExportOnConn(c)         BY SMTT(60), <2>8 DEF ExportOnConn
  <2>9. CASE HandoffSucceeded(c)
    <3>1. CASE cancelled[c] /\ ~cleanupClaimed[c]
      <4>1. cleanupClaimed' \in [Conns -> BOOLEAN]
        <5>1. cleanupClaimed' = [cleanupClaimed EXCEPT ![c] = TRUE]
          BY <2>9, <3>1 DEF HandoffSucceeded
        <5>2. QED BY <5>1
      <4>2. /\ pc' \in [Conns -> HandlerStates]
            /\ reason' \in [Conns -> Reasons]
            /\ handoffState' \in [Conns -> HandoffStates]
        BY SMTT(60), <2>9, <3>1 DEF HandoffSucceeded
      <4>3. QED BY <2>9, <4>1, <4>2 DEF HandoffSucceeded
    <3>2. CASE ~(cancelled[c] /\ ~cleanupClaimed[c])
      BY SMTT(60), <2>9, <3>2 DEF HandoffSucceeded
    <3>3. QED BY <2>9, <3>1, <3>2 DEF HandoffSucceeded
  <2>10. CASE HandoffFailed(c)       BY <2>10 DEF HandoffFailed, CompleteWithoutDisconnect
  <2>11. CASE WakeShutdown(c)        BY <2>11 DEF WakeShutdown
  <2>12. CASE WakeEvent(c)           BY <2>12 DEF WakeEvent
  <2>13. CASE WakeEventsClosed(c)    BY <2>13 DEF WakeEventsClosed
  <2>14. CASE PollInactive(c)        BY <2>14 DEF PollInactive
  <2>15. CASE CompletedSessionEnd(c)
    BY <2>15 DEF CompletedSessionEnd, CompleteWithoutDisconnect
  <2>16. CASE HandlerDisconnect(c)   BY <2>16 DEF HandlerDisconnect, Disconnect
  <2>17. CASE HandlerFinishCleanup(c) BY <2>17 DEF HandlerFinishCleanup, FinishCleanup
  <2>18. CASE EndSession(c)          BY <2>18 DEF EndSession, CompleteWithoutDisconnect
  <2>19. CASE UnregisterSession(c)   BY <2>19 DEF UnregisterSession
  <2>20. CASE PublishEnded(c)        BY <2>20 DEF PublishEnded, Publish
  <2>21. QED
    BY <1>2, <2>1, <2>2, <2>3, <2>4, <2>5, <2>6, <2>7, <2>8, <2>9, <2>10, <2>11, <2>12,
       <2>13, <2>14, <2>15, <2>16, <2>17, <2>18, <2>19, <2>20 DEF HandlerStep
<1>3. ASSUME NEW s \in Callers,
             CaptureShutdownState(s) \/ DeadlineExpires(s) \/ ShutdownStep(s)
      PROVE  TypeOK'
  <2>1. CASE CaptureShutdownState(s) BY <2>1 DEF CaptureShutdownState
  <2>2. CASE DeadlineExpires(s)      BY <2>2 DEF DeadlineExpires
  <2>3. ASSUME NEW c \in Conns, SignalCancel(s, c)
        PROVE  TypeOK'
    <3>1. cancelled' \in [Conns -> BOOLEAN] /\ done' \in [Conns -> BOOLEAN]
      BY <2>3 DEF SignalCancel
    <3>2. /\ cleanupClaimed' \in [Conns -> BOOLEAN]
          /\ cleanupDone' \in [Conns -> Nat]
          /\ disconnector' \in [Conns -> {"none", "call", "ok", "failed", "finished"}]
      <4>1. CASE handoffState[c] = "Succeeded"
        <5>1. /\ cleanupClaimed' = [cleanupClaimed EXCEPT ![c] = TRUE]
              /\ disconnector' = [disconnector EXCEPT ![c] =
                                    IF cleanupClaimed[c] THEN @ ELSE "call"]
              /\ cleanupDone' = cleanupDone
          BY <2>3, <4>1 DEF SignalCancel
        <5>2. QED BY <5>1
      <4>2. CASE handoffState[c] \in {"NotStarted", "Failed"}
        <5>1. CompleteWithoutDisconnect(c) /\ disconnector' = disconnector
          BY <2>3, <4>2 DEF SignalCancel
        <5>2. QED BY <5>1 DEF CompleteWithoutDisconnect
      <4>3. CASE handoffState[c] = "InProgress"
        BY <2>3, <4>3 DEF SignalCancel
      <4>4. QED BY <2>3, <4>1, <4>2, <4>3 DEF SignalCancel
    <3>3. QED BY <2>3, <3>1, <3>2 DEF SignalCancel
  <2>4. CASE SignalsSent(s)          BY <2>4 DEF SignalsSent
  <2>5. CASE AcceptLoopExited(s)     BY <2>5 DEF AcceptLoopExited
  <2>6. CASE DrainCompletes(s)       BY <2>6 DEF DrainCompletes
  <2>7. CASE ForceCloseSessionConns(s)
    <3>1. connOpen' \in [Conns -> BOOLEAN]
      BY <2>7 DEF ForceCloseSessionConns
    <3>2. QED
      BY <2>7, <3>1 DEF ForceCloseSessionConns
  <2>8. CASE GraceEnds(s)            BY <2>8 DEF GraceEnds
  <2>9. CASE WaitCleanupBounded(s)   BY <2>9 DEF WaitCleanupBounded
  <2>10. CASE CloseAllSubscribers(s) BY <2>10 DEF CloseAllSubscribers
  <2>11. QED
    BY <1>3, <2>1, <2>2, <2>3, <2>4, <2>5, <2>6, <2>7, <2>8, <2>9, <2>10 DEF ShutdownStep
<1>4. CASE AcceptLoopExit
  BY <1>4 DEF AcceptLoopExit
<1>5. CASE Environment
  <2>1. ASSUME NEW b \in BusIDs, PeerGone(b) PROVE TypeOK'
    BY <2>1 DEF PeerGone
  <2>2. ASSUME NEW b \in BusIDs, UnbindDevice(b) PROVE TypeOK'
    BY <2>2 DEF UnbindDevice
  <2>3. ASSUME NEW b \in BusIDs, BindDevice(b) PROVE TypeOK'
    BY <2>3 DEF BindDevice
  <2>4. ASSUME NEW b \in BusIDs, DeliverUevent(b) PROVE TypeOK'
    BY <2>4 DEF DeliverUevent
  <2>5. CASE EventStreamLost
    BY <2>5 DEF EventStreamLost
  <2>6. QED
    BY <1>5, <2>1, <2>2, <2>3, <2>4, <2>5 DEF Environment
<1>6. CASE UNCHANGED vars
  BY SMTT(60), <1>6 DEF vars
<1>7. QED
  BY <1>1, <1>2, <1>3, <1>4, <1>5, <1>6 DEF Next, Finished

\* TypeOK is an invariant: every critical section of the session handler, of the handle's
\* state machine and of Shutdown leaves the state well formed.
THEOREM TypeCorrect == Spec => []TypeOK
<1>1. QED
  BY TypeInit, TypeStep, PTL DEF Spec

-----------------------------------------------------------------------------
(* The inductive invariant behind CleanupExactlyOnce and DisconnectHitsOwnExport.       *)

BeforeRegister == {"new", "handshake", "lookup", "register", "stopExit"}
BeforeHandoff == {"started", "subscribe", "reply", "stopEnd", "stopHandoff", "handoff"}
InHandoff == {"exporting", "exported", "exportFailed"}
Disconnecting == {"disconnect", "disconnected", "disconnectFailed"}
AfterHandoff == {"parked", "completing"} \cup Disconnecting
Registered == BeforeHandoff \cup InHandoff \cup AfterHandoff \cup {"end", "unregister"}

\* Where the handler stands determines the handoff state and the registration.
PhaseInv(c) ==
    /\ pc[c] \in BeforeRegister \cup BeforeHandoff => handoffState[c] = "NotStarted"
    /\ pc[c] \in InHandoff => handoffState[c] = "InProgress"
    /\ pc[c] \in AfterHandoff => handoffState[c] = "Succeeded"
    /\ c \in sessions <=> pc[c] \in Registered

\* The claim is the licence to disconnect and to resolve the future, and is spent once.
ClaimInv(c) ==
    /\ ~cleanupClaimed[c] => /\ cleanupDone[c] = 0
                             /\ disconnects[c] = 0
                             /\ disconnector[c] = "none"
                             /\ pc[c] \notin Disconnecting
    /\ cleanupDone[c] \in {0, 1}
    /\ disconnects[c] \in {0, 1}
    /\ disconnects[c] = 1 => handoffState[c] = "Succeeded"
    /\ pc[c] \in Disconnecting => cleanupDone[c] = 0 /\ disconnector[c] = "none"
    /\ pc[c] = "disconnect" => disconnects[c] = 0
    /\ disconnector[c] # "none" => handoffState[c] = "Succeeded"
    /\ disconnector[c] \in {"call", "ok", "failed"} => cleanupDone[c] = 0
    /\ disconnector[c] = "call" => disconnects[c] = 0
    /\ pc[c] \in {"unregister", "publishEnded"} => cleanupClaimed[c]
    /\ pc[c] = "exited" /\ handoffState[c] # "NotStarted" => cleanupClaimed[c]

\* No two registered or retained sessions share a busid, and once shutdown is set nothing
\* new is registered.
RegistryInv ==
    /\ \A c, d \in sessions : BusOf[c] = BusOf[d] => c = d
    /\ \A c, d \in shutdownHandles : BusOf[c] = BusOf[d] => c = d
    /\ shutdown => sessions \subseteq shutdownHandles
    /\ ~shutdown => todo = {}
    /\ todo \subseteq shutdownHandles
    /\ \A c \in Conns : disconnector[c] # "none" => shutdown /\ c \in shutdownHandles

\* The kernel export a session may still have to disconnect is its own.
MayDisconnect(c) ==
    \/ pc[c] \in {"exported", "disconnect"}
    \/ disconnector[c] = "call"
    \/ handoffState[c] = "Succeeded" /\ ~cleanupClaimed[c]

OwnerInv == \A c \in Conns : MayDisconnect(c) => owner[BusOf[c]] \in {c, None}

SessionInv ==
    /\ TypeOK
    /\ \A c \in Conns : PhaseInv(c)
    /\ \A c \in Conns : ClaimInv(c)
    /\ RegistryInv
    /\ OwnerInv

\* Every step keeps the handler's position, the handoff state and the registration in step.
LEMMA PhaseStep ==
  ASSUME TypeOK, NEW d \in Conns, PhaseInv(d), [Next]_vars
  PROVE  PhaseInv(d)'
<1> USE SessionAssumption DEF TypeOK, PhaseInv, BeforeRegister, BeforeHandoff,
        InHandoff, Disconnecting, AfterHandoff, Registered,
      exporterVars, handlerVars, handleVars,
      discVars, kernelVars, eventVars, callerVars, watchVars
<1>1. CASE UNCHANGED <<pc, handoffState, sessions>>
  BY <1>1
<1>2. ASSUME NEW c \in Conns, Accept(c) PROVE PhaseInv(d)'
  BY <1>2 DEF Accept
<1>3. ASSUME NEW c \in Conns, RejectAccept(c) PROVE PhaseInv(d)'
  BY <1>3 DEF RejectAccept
<1>4. ASSUME NEW c \in Conns, DecodeImport(c) PROVE PhaseInv(d)'
  BY <1>4 DEF DecodeImport
<1>5. ASSUME NEW c \in Conns, HandshakeEnds(c) PROVE PhaseInv(d)'
  BY <1>5 DEF HandshakeEnds, StopTimeout
<1>6. ASSUME NEW c \in Conns, ReplySent(c) PROVE PhaseInv(d)'
  BY <1>6 DEF ReplySent, StopTimeout
<1>7. ASSUME NEW c \in Conns, ReplyFails(c) PROVE PhaseInv(d)'
  BY <1>7 DEF ReplyFails, StopTimeout
<1>8. ASSUME NEW c \in Conns, LookupExportedDevice(c) PROVE PhaseInv(d)'
  BY <1>8 DEF LookupExportedDevice, StopTimeout
<1>9. ASSUME NEW c \in Conns, RegisterSession(c) PROVE PhaseInv(d)'
  BY <1>9 DEF RegisterSession, MayRegister, BusIDFree
<1>10. ASSUME NEW c \in Conns, DeclineSession(c) PROVE PhaseInv(d)'
  BY <1>10 DEF DeclineSession, StopTimeout
<1>11. ASSUME NEW c \in Conns, PublishStarted(c) PROVE PhaseInv(d)'
  BY <1>11 DEF PublishStarted, Publish
<1>12. ASSUME NEW c \in Conns, Subscribe(c) PROVE PhaseInv(d)'
  BY <1>12 DEF Subscribe, StopTimeout
<1>13. ASSUME NEW c \in Conns, StopWaited(c) PROVE PhaseInv(d)'
  BY <1>13 DEF StopWaited
<1>14. ASSUME NEW c \in Conns, BeginHandoff(c) PROVE PhaseInv(d)'
  BY <1>14 DEF BeginHandoff
<1>15. ASSUME NEW c \in Conns, ExportOnConn(c) PROVE PhaseInv(d)'
  BY <1>15 DEF ExportOnConn
<1>16. ASSUME NEW c \in Conns, HandoffSucceeded(c) PROVE PhaseInv(d)'
  BY <1>16 DEF HandoffSucceeded
<1>17. ASSUME NEW c \in Conns, HandoffFailed(c) PROVE PhaseInv(d)'
  BY <1>17 DEF HandoffFailed, CompleteWithoutDisconnect
<1>18. ASSUME NEW c \in Conns, WakeShutdown(c) PROVE PhaseInv(d)'
  BY <1>18 DEF WakeShutdown
<1>19. ASSUME NEW c \in Conns, WakeEvent(c) PROVE PhaseInv(d)'
  BY <1>19 DEF WakeEvent
<1>20. ASSUME NEW c \in Conns, WakeEventsClosed(c) PROVE PhaseInv(d)'
  BY <1>20 DEF WakeEventsClosed
<1>21. ASSUME NEW c \in Conns, PollInactive(c) PROVE PhaseInv(d)'
  BY <1>21 DEF PollInactive
<1>22. ASSUME NEW c \in Conns, CompletedSessionEnd(c) PROVE PhaseInv(d)'
  BY <1>22 DEF CompletedSessionEnd, CompleteWithoutDisconnect
<1>23. ASSUME NEW c \in Conns, HandlerDisconnect(c) PROVE PhaseInv(d)'
  BY <1>23 DEF HandlerDisconnect, Disconnect
<1>24. ASSUME NEW c \in Conns, HandlerFinishCleanup(c) PROVE PhaseInv(d)'
  BY <1>24 DEF HandlerFinishCleanup, FinishCleanup
<1>25. ASSUME NEW c \in Conns, EndSession(c) PROVE PhaseInv(d)'
  BY <1>25 DEF EndSession, CompleteWithoutDisconnect
<1>26. ASSUME NEW c \in Conns, UnregisterSession(c) PROVE PhaseInv(d)'
  BY <1>26 DEF UnregisterSession
<1>27. ASSUME NEW c \in Conns, PublishEnded(c) PROVE PhaseInv(d)'
  BY <1>27 DEF PublishEnded, Publish
<1>28. ASSUME NEW c \in Conns,
               WatcherTimer(c) \/ WatcherStop(c) \/ GoDisconnect(c) \/ GoFinishCleanup(c)
     PROVE  UNCHANGED <<pc, handoffState, sessions>>
  BY <1>28 DEF WatcherTimer, WatcherStop, GoDisconnect, GoFinishCleanup
<1>29. ASSUME NEW s \in Callers,
               CaptureShutdownState(s) \/ DeadlineExpires(s) \/ SignalsSent(s)
            \/ AcceptLoopExited(s) \/ DrainCompletes(s) \/ ForceCloseSessionConns(s)
            \/ GraceEnds(s) \/ WaitCleanupBounded(s) \/ CloseAllSubscribers(s)
     PROVE  UNCHANGED <<pc, handoffState, sessions>>
  BY <1>29 DEF CaptureShutdownState, DeadlineExpires, SignalsSent, AcceptLoopExited,
     DrainCompletes, ForceCloseSessionConns, GraceEnds, WaitCleanupBounded,
     CloseAllSubscribers
<1>30. ASSUME NEW b \in BusIDs,
              PeerGone(b) \/ UnbindDevice(b) \/ BindDevice(b) \/ DeliverUevent(b)
     PROVE  UNCHANGED <<pc, handoffState, sessions>>
  BY <1>30 DEF PeerGone, UnbindDevice, BindDevice, DeliverUevent
<1>31. ASSUME AcceptLoopExit \/ EventStreamLost \/ UNCHANGED vars
     PROVE  UNCHANGED <<pc, handoffState, sessions>>
  BY <1>31 DEF AcceptLoopExit, EventStreamLost, vars
<1>32. ASSUME NEW s \in Callers, NEW c \in Conns, SignalCancel(s, c)
     PROVE  UNCHANGED <<pc, handoffState, sessions>>
  BY SMTT(60), <1>32 DEF SignalCancel
<1>33. QED
  BY <1>1, <1>2, <1>3, <1>4, <1>5, <1>6, <1>7, <1>8, <1>9, <1>10, <1>11, <1>12, <1>13,
     <1>14, <1>15, <1>16, <1>17, <1>18, <1>19, <1>20, <1>21, <1>22, <1>23, <1>24, <1>25,
     <1>26, <1>27, <1>28, <1>29, <1>30, <1>31, <1>32
  DEF Next, Finished, HandlerStep, ClientStep, WatcherStep, DisconnectorStep, ShutdownStep,
     Environment

\* The fields ClaimInv is about.
claimVars == <<pc, handoffState, cleanupClaimed, cleanupDone, disconnector, disconnects>>

\* Every step spends the claim of a handle at most once.
LEMMA ClaimStep ==
  ASSUME TypeOK, NEW d \in Conns, PhaseInv(d), ClaimInv(d), [Next]_vars
  PROVE  ClaimInv(d)'
<1> USE SessionAssumption DEF TypeOK, PhaseInv, ClaimInv, BeforeRegister, BeforeHandoff,
        InHandoff, Disconnecting, AfterHandoff, Registered,
        claimVars, exporterVars, handlerVars, handleVars, discVars, kernelVars, eventVars,
        callerVars, watchVars
<1>1. CASE UNCHANGED claimVars
  BY <1>1
<1>2. ASSUME NEW c \in Conns, Accept(c) PROVE ClaimInv(d)'
  BY <1>2 DEF Accept
<1>3. ASSUME NEW c \in Conns, RejectAccept(c) PROVE ClaimInv(d)'
  BY <1>3 DEF RejectAccept
<1>4. ASSUME NEW c \in Conns, DecodeImport(c) PROVE ClaimInv(d)'
  BY <1>4 DEF DecodeImport
<1>5. ASSUME NEW c \in Conns, HandshakeEnds(c) PROVE ClaimInv(d)'
  BY <1>5 DEF HandshakeEnds, StopTimeout
<1>6. ASSUME NEW c \in Conns, ReplySent(c) PROVE ClaimInv(d)'
  BY <1>6 DEF ReplySent, StopTimeout
<1>7. ASSUME NEW c \in Conns, ReplyFails(c) PROVE ClaimInv(d)'
  BY <1>7 DEF ReplyFails, StopTimeout
<1>8. ASSUME NEW c \in Conns, GoDisconnect(c) PROVE ClaimInv(d)'
  BY <1>8 DEF GoDisconnect, Disconnect
<1>9. ASSUME NEW c \in Conns, GoFinishCleanup(c) PROVE ClaimInv(d)'
  BY <1>9 DEF GoFinishCleanup, FinishCleanup
<1>10. ASSUME NEW c \in Conns, LookupExportedDevice(c) PROVE ClaimInv(d)'
  BY <1>10 DEF LookupExportedDevice, StopTimeout
<1>11. ASSUME NEW c \in Conns, RegisterSession(c) PROVE ClaimInv(d)'
  BY <1>11 DEF RegisterSession, MayRegister, BusIDFree
<1>12. ASSUME NEW c \in Conns, DeclineSession(c) PROVE ClaimInv(d)'
  BY <1>12 DEF DeclineSession, StopTimeout
<1>13. ASSUME NEW c \in Conns, PublishStarted(c) PROVE ClaimInv(d)'
  BY <1>13 DEF PublishStarted, Publish
<1>14. ASSUME NEW c \in Conns, Subscribe(c) PROVE ClaimInv(d)'
  BY <1>14 DEF Subscribe, StopTimeout
<1>15. ASSUME NEW c \in Conns, StopWaited(c) PROVE ClaimInv(d)'
  BY <1>15 DEF StopWaited
<1>16. ASSUME NEW c \in Conns, BeginHandoff(c) PROVE ClaimInv(d)'
  BY <1>16 DEF BeginHandoff
<1>17. ASSUME NEW c \in Conns, ExportOnConn(c) PROVE ClaimInv(d)'
  BY <1>17 DEF ExportOnConn
<1>18. ASSUME NEW c \in Conns, HandoffSucceeded(c) PROVE ClaimInv(d)'
  BY <1>18 DEF HandoffSucceeded
<1>19. ASSUME NEW c \in Conns, HandoffFailed(c) PROVE ClaimInv(d)'
  BY <1>19 DEF HandoffFailed, CompleteWithoutDisconnect
<1>20. ASSUME NEW c \in Conns, WakeShutdown(c) PROVE ClaimInv(d)'
  BY <1>20 DEF WakeShutdown
<1>21. ASSUME NEW c \in Conns, WakeEvent(c) PROVE ClaimInv(d)'
  BY <1>21 DEF WakeEvent
<1>22. ASSUME NEW c \in Conns, WakeEventsClosed(c) PROVE ClaimInv(d)'
  BY <1>22 DEF WakeEventsClosed
<1>23. ASSUME NEW c \in Conns, PollInactive(c) PROVE ClaimInv(d)'
  BY <1>23 DEF PollInactive
<1>24. ASSUME NEW c \in Conns, CompletedSessionEnd(c) PROVE ClaimInv(d)'
  BY <1>24 DEF CompletedSessionEnd, CompleteWithoutDisconnect
<1>25. ASSUME NEW c \in Conns, HandlerDisconnect(c) PROVE ClaimInv(d)'
  BY <1>25 DEF HandlerDisconnect, Disconnect
<1>26. ASSUME NEW c \in Conns, HandlerFinishCleanup(c) PROVE ClaimInv(d)'
  BY <1>26 DEF HandlerFinishCleanup, FinishCleanup
<1>27. ASSUME NEW c \in Conns, EndSession(c) PROVE ClaimInv(d)'
  BY <1>27 DEF EndSession, CompleteWithoutDisconnect
<1>28. ASSUME NEW c \in Conns, UnregisterSession(c) PROVE ClaimInv(d)'
  BY <1>28 DEF UnregisterSession
<1>29. ASSUME NEW c \in Conns, PublishEnded(c) PROVE ClaimInv(d)'
  BY <1>29 DEF PublishEnded, Publish
<1>30. ASSUME NEW s \in Callers, NEW c \in Conns, SignalCancel(s, c) PROVE ClaimInv(d)'
  BY <1>30 DEF SignalCancel, CompleteWithoutDisconnect
<1>31. ASSUME NEW c \in Conns, WatcherTimer(c) \/ WatcherStop(c)
     PROVE   UNCHANGED claimVars
  BY <1>31 DEF WatcherTimer, WatcherStop
<1>32. ASSUME NEW s \in Callers,
               CaptureShutdownState(s) \/ DeadlineExpires(s) \/ SignalsSent(s)
            \/ AcceptLoopExited(s) \/ DrainCompletes(s) \/ ForceCloseSessionConns(s)
            \/ GraceEnds(s) \/ WaitCleanupBounded(s) \/ CloseAllSubscribers(s)
     PROVE   UNCHANGED claimVars
  BY <1>32 DEF CaptureShutdownState, DeadlineExpires, SignalsSent, AcceptLoopExited,
     DrainCompletes, ForceCloseSessionConns, GraceEnds, WaitCleanupBounded,
     CloseAllSubscribers
<1>33. ASSUME NEW b \in BusIDs,
              PeerGone(b) \/ UnbindDevice(b) \/ BindDevice(b) \/ DeliverUevent(b)
     PROVE   UNCHANGED claimVars
  BY <1>33 DEF PeerGone, UnbindDevice, BindDevice, DeliverUevent
<1>34. ASSUME AcceptLoopExit \/ EventStreamLost \/ UNCHANGED vars
     PROVE   UNCHANGED claimVars
  BY <1>34 DEF AcceptLoopExit, EventStreamLost, vars
<1>35. QED
  BY <1>1, <1>2, <1>3, <1>4, <1>5, <1>6, <1>7, <1>8, <1>9, <1>10, <1>11, <1>12, <1>13,
     <1>14, <1>15, <1>16, <1>17, <1>18, <1>19, <1>20, <1>21, <1>22, <1>23, <1>24, <1>25,
     <1>26, <1>27, <1>28, <1>29, <1>30, <1>31, <1>32, <1>33, <1>34
  DEF Next, Finished, HandlerStep, ClientStep, WatcherStep, DisconnectorStep, ShutdownStep,
     Environment

\* Every step keeps registered and retained busids distinct.
LEMMA RegistryStep ==
  ASSUME TypeOK, \A c \in Conns : PhaseInv(c), RegistryInv, [Next]_vars
  PROVE  RegistryInv'
<1> USE SessionAssumption DEF TypeOK, RegistryInv,
      exporterVars, handlerVars, handleVars,
      discVars, kernelVars, eventVars, callerVars, watchVars
<1>1. CASE UNCHANGED <<shutdown, sessions, shutdownHandles, todo, disconnector>>
  BY <1>1
<1>2. ASSUME NEW c \in Conns, GoDisconnect(c) PROVE RegistryInv'
  BY <1>2 DEF GoDisconnect, Disconnect
<1>3. ASSUME NEW c \in Conns, GoFinishCleanup(c) PROVE RegistryInv'
  BY <1>3 DEF GoFinishCleanup, FinishCleanup
<1>4. ASSUME NEW c \in Conns, RegisterSession(c) PROVE RegistryInv'
  BY <1>4 DEF RegisterSession, MayRegister, BusIDFree
<1>5. ASSUME NEW c \in Conns, UnregisterSession(c) PROVE RegistryInv'
  BY <1>5 DEF UnregisterSession
<1>6. ASSUME NEW s \in Callers, NEW c \in Conns, SignalCancel(s, c) PROVE RegistryInv'
  BY <1>6 DEF SignalCancel, CompleteWithoutDisconnect
<1>7. ASSUME NEW s \in Callers, CaptureShutdownState(s) PROVE RegistryInv'
  BY <1>7 DEF CaptureShutdownState
<1>8. ASSUME NEW c \in Conns,
               Accept(c) \/ RejectAccept(c) \/ WatcherTimer(c) \/ WatcherStop(c)
            \/ DecodeImport(c) \/ HandshakeEnds(c) \/ ReplySent(c) \/ ReplyFails(c)
            \/ LookupExportedDevice(c) \/ DeclineSession(c) \/ PublishStarted(c)
            \/ Subscribe(c) \/ StopWaited(c) \/ BeginHandoff(c) \/ ExportOnConn(c)
            \/ HandoffSucceeded(c) \/ HandoffFailed(c) \/ WakeShutdown(c) \/ WakeEvent(c)
            \/ WakeEventsClosed(c) \/ PollInactive(c) \/ CompletedSessionEnd(c)
            \/ HandlerDisconnect(c) \/ HandlerFinishCleanup(c) \/ EndSession(c)
            \/ PublishEnded(c)
     PROVE  UNCHANGED <<shutdown, sessions, shutdownHandles, todo, disconnector>>
  BY <1>8 DEF Accept, RejectAccept, WatcherTimer, WatcherStop, DecodeImport, HandshakeEnds,
     ReplySent, ReplyFails, LookupExportedDevice, DeclineSession, PublishStarted,
     Subscribe, StopWaited, BeginHandoff, ExportOnConn, HandoffSucceeded, HandoffFailed,
     WakeShutdown, WakeEvent, WakeEventsClosed, PollInactive, CompletedSessionEnd,
     HandlerDisconnect, HandlerFinishCleanup, EndSession, PublishEnded
<1>9. ASSUME NEW s \in Callers,
               DeadlineExpires(s) \/ SignalsSent(s) \/ AcceptLoopExited(s)
            \/ DrainCompletes(s) \/ ForceCloseSessionConns(s) \/ GraceEnds(s)
            \/ WaitCleanupBounded(s) \/ CloseAllSubscribers(s)
     PROVE  UNCHANGED <<shutdown, sessions, shutdownHandles, todo, disconnector>>
  BY <1>9 DEF DeadlineExpires, SignalsSent, AcceptLoopExited, DrainCompletes,
     ForceCloseSessionConns, GraceEnds, WaitCleanupBounded, CloseAllSubscribers
<1>10. ASSUME NEW b \in BusIDs,
              PeerGone(b) \/ UnbindDevice(b) \/ BindDevice(b) \/ DeliverUevent(b)
     PROVE  UNCHANGED <<shutdown, sessions, shutdownHandles, todo, disconnector>>
  BY <1>10 DEF PeerGone, UnbindDevice, BindDevice, DeliverUevent
<1>11. ASSUME AcceptLoopExit \/ EventStreamLost \/ UNCHANGED vars
     PROVE  UNCHANGED <<shutdown, sessions, shutdownHandles, todo, disconnector>>
  BY <1>11 DEF AcceptLoopExit, EventStreamLost, vars
<1>12. QED
  BY <1>1, <1>2, <1>3, <1>4, <1>5, <1>6, <1>7, <1>8, <1>9, <1>10, <1>11
  DEF Next, Finished, HandlerStep, ClientStep, WatcherStep, DisconnectorStep, ShutdownStep,
     Environment

\* Every step leaves a session that may still be disconnected with its own export or none.
LEMMA OwnerStep ==
  ASSUME SessionInv, NEW d \in Conns, [Next]_vars
  PROVE  (MayDisconnect(d) => owner[BusOf[d]] \in {d, None})'
<1> USE SessionAssumption DEF SessionInv, TypeOK, OwnerInv, PhaseInv, ClaimInv,
        MayDisconnect, BeforeRegister, BeforeHandoff,
        InHandoff, Disconnecting, AfterHandoff, Registered,
      exporterVars, handlerVars, handleVars,
      discVars, kernelVars, eventVars, callerVars, watchVars
<1>1. CASE UNCHANGED <<pc, handoffState, cleanupClaimed, disconnector, owner>>
  BY <1>1
<1>2. ASSUME NEW c \in Conns, Accept(c)
     PROVE  (MayDisconnect(d) => owner[BusOf[d]] \in {d, None})'
  BY <1>2 DEF Accept
<1>3. ASSUME NEW c \in Conns, RejectAccept(c)
     PROVE  (MayDisconnect(d) => owner[BusOf[d]] \in {d, None})'
  BY <1>3 DEF RejectAccept
<1>4. ASSUME NEW c \in Conns, DecodeImport(c)
     PROVE  (MayDisconnect(d) => owner[BusOf[d]] \in {d, None})'
  BY <1>4 DEF DecodeImport
<1>5. ASSUME NEW c \in Conns, HandshakeEnds(c)
     PROVE  (MayDisconnect(d) => owner[BusOf[d]] \in {d, None})'
  BY <1>5 DEF HandshakeEnds, StopTimeout
<1>6. ASSUME NEW c \in Conns, ReplySent(c)
     PROVE  (MayDisconnect(d) => owner[BusOf[d]] \in {d, None})'
  BY <1>6 DEF ReplySent, StopTimeout
<1>7. ASSUME NEW c \in Conns, ReplyFails(c)
     PROVE  (MayDisconnect(d) => owner[BusOf[d]] \in {d, None})'
  BY <1>7 DEF ReplyFails, StopTimeout
<1>8. ASSUME NEW c \in Conns, GoDisconnect(c)
     PROVE  (MayDisconnect(d) => owner[BusOf[d]] \in {d, None})'
  BY <1>8 DEF GoDisconnect, Disconnect
<1>9. ASSUME NEW c \in Conns, GoFinishCleanup(c)
     PROVE  (MayDisconnect(d) => owner[BusOf[d]] \in {d, None})'
  BY <1>9 DEF GoFinishCleanup, FinishCleanup
<1>10. ASSUME NEW c \in Conns, LookupExportedDevice(c)
     PROVE  (MayDisconnect(d) => owner[BusOf[d]] \in {d, None})'
  BY <1>10 DEF LookupExportedDevice, StopTimeout
<1>11. ASSUME NEW c \in Conns, RegisterSession(c)
     PROVE  (MayDisconnect(d) => owner[BusOf[d]] \in {d, None})'
  BY <1>11 DEF RegisterSession, MayRegister, BusIDFree
<1>12. ASSUME NEW c \in Conns, DeclineSession(c)
     PROVE  (MayDisconnect(d) => owner[BusOf[d]] \in {d, None})'
  BY <1>12 DEF DeclineSession, StopTimeout
<1>13. ASSUME NEW c \in Conns, PublishStarted(c)
     PROVE  (MayDisconnect(d) => owner[BusOf[d]] \in {d, None})'
  BY <1>13 DEF PublishStarted, Publish
<1>14. ASSUME NEW c \in Conns, Subscribe(c)
     PROVE  (MayDisconnect(d) => owner[BusOf[d]] \in {d, None})'
  BY <1>14 DEF Subscribe, StopTimeout
<1>15. ASSUME NEW c \in Conns, StopWaited(c)
     PROVE  (MayDisconnect(d) => owner[BusOf[d]] \in {d, None})'
  BY <1>15 DEF StopWaited
<1>16. ASSUME NEW c \in Conns, BeginHandoff(c)
     PROVE  (MayDisconnect(d) => owner[BusOf[d]] \in {d, None})'
  BY <1>16 DEF BeginHandoff
<1>17. ASSUME NEW c \in Conns, ExportOnConn(c)
     PROVE  (MayDisconnect(d) => owner[BusOf[d]] \in {d, None})'
  <2>1. CASE owner' = owner
    BY <1>17, <2>1 DEF ExportOnConn
  <2>2. CASE d = c
    BY <1>17, <2>2 DEF ExportOnConn
  <2>3. CASE owner' # owner /\ d # c
    <3>1. c \in sessions
      BY <1>17 DEF ExportOnConn
    <3>2. BusOf[d] = BusOf[c] => ~MayDisconnect(d)
      <4>1. SUFFICES ASSUME BusOf[d] = BusOf[c], MayDisconnect(d) PROVE FALSE
        OBVIOUS
      <4>2. d \notin sessions
        BY <2>3, <3>1, <4>1 DEF RegistryInv
      <4>3. disconnector[d] = "call"
        BY <4>1, <4>2 DEF HandlerStates
      <4>4. d \in shutdownHandles /\ c \in shutdownHandles
        BY <3>1, <4>3 DEF RegistryInv
      <4>5. QED
        BY <2>3, <4>1, <4>4 DEF RegistryInv
    <3>3. MayDisconnect(d)' => MayDisconnect(d)
      BY <1>17, <2>3 DEF ExportOnConn
    <3>4. owner'[BusOf[d]] = IF BusOf[d] = BusOf[c] THEN c ELSE owner[BusOf[d]]
      BY <1>17, <2>3 DEF ExportOnConn
    <3>5. QED
      BY <1>17, <3>2, <3>3, <3>4
  <2>4. QED
    BY <2>1, <2>2, <2>3
<1>18. ASSUME NEW c \in Conns, HandoffSucceeded(c)
     PROVE  (MayDisconnect(d) => owner[BusOf[d]] \in {d, None})'
  BY <1>18 DEF HandoffSucceeded
<1>19. ASSUME NEW c \in Conns, HandoffFailed(c)
     PROVE  (MayDisconnect(d) => owner[BusOf[d]] \in {d, None})'
  BY <1>19 DEF HandoffFailed, CompleteWithoutDisconnect
<1>20. ASSUME NEW c \in Conns, WakeShutdown(c)
     PROVE  (MayDisconnect(d) => owner[BusOf[d]] \in {d, None})'
  BY <1>20 DEF WakeShutdown
<1>21. ASSUME NEW c \in Conns, WakeEvent(c)
     PROVE  (MayDisconnect(d) => owner[BusOf[d]] \in {d, None})'
  BY <1>21 DEF WakeEvent
<1>22. ASSUME NEW c \in Conns, WakeEventsClosed(c)
     PROVE  (MayDisconnect(d) => owner[BusOf[d]] \in {d, None})'
  BY <1>22 DEF WakeEventsClosed
<1>23. ASSUME NEW c \in Conns, PollInactive(c)
     PROVE  (MayDisconnect(d) => owner[BusOf[d]] \in {d, None})'
  BY <1>23 DEF PollInactive
<1>24. ASSUME NEW c \in Conns, CompletedSessionEnd(c)
     PROVE  (MayDisconnect(d) => owner[BusOf[d]] \in {d, None})'
  BY <1>24 DEF CompletedSessionEnd, CompleteWithoutDisconnect
<1>25. ASSUME NEW c \in Conns, HandlerDisconnect(c)
     PROVE  (MayDisconnect(d) => owner[BusOf[d]] \in {d, None})'
  BY <1>25 DEF HandlerDisconnect, Disconnect
<1>26. ASSUME NEW c \in Conns, HandlerFinishCleanup(c)
     PROVE  (MayDisconnect(d) => owner[BusOf[d]] \in {d, None})'
  BY <1>26 DEF HandlerFinishCleanup, FinishCleanup
<1>27. ASSUME NEW c \in Conns, EndSession(c)
     PROVE  (MayDisconnect(d) => owner[BusOf[d]] \in {d, None})'
  BY <1>27 DEF EndSession, CompleteWithoutDisconnect
<1>28. ASSUME NEW c \in Conns, UnregisterSession(c)
     PROVE  (MayDisconnect(d) => owner[BusOf[d]] \in {d, None})'
  BY <1>28 DEF UnregisterSession
<1>29. ASSUME NEW c \in Conns, PublishEnded(c)
     PROVE  (MayDisconnect(d) => owner[BusOf[d]] \in {d, None})'
  BY <1>29 DEF PublishEnded, Publish
<1>30. ASSUME NEW s \in Callers, NEW c \in Conns, SignalCancel(s, c)
     PROVE  (MayDisconnect(d) => owner[BusOf[d]] \in {d, None})'
  BY <1>30 DEF SignalCancel, CompleteWithoutDisconnect
<1>31. ASSUME NEW b \in BusIDs, PeerGone(b)
     PROVE  (MayDisconnect(d) => owner[BusOf[d]] \in {d, None})'
  BY <1>31 DEF PeerGone
<1>32. ASSUME NEW b \in BusIDs, UnbindDevice(b)
     PROVE  (MayDisconnect(d) => owner[BusOf[d]] \in {d, None})'
  BY <1>32 DEF UnbindDevice
<1>33. ASSUME NEW c \in Conns, WatcherTimer(c) \/ WatcherStop(c)
     PROVE  UNCHANGED <<pc, handoffState, cleanupClaimed, disconnector, owner>>
  BY <1>33 DEF WatcherTimer, WatcherStop
<1>34. ASSUME NEW s \in Callers,
               CaptureShutdownState(s) \/ DeadlineExpires(s) \/ SignalsSent(s)
            \/ AcceptLoopExited(s) \/ DrainCompletes(s) \/ ForceCloseSessionConns(s)
            \/ GraceEnds(s) \/ WaitCleanupBounded(s) \/ CloseAllSubscribers(s)
     PROVE  UNCHANGED <<pc, handoffState, cleanupClaimed, disconnector, owner>>
  BY <1>34 DEF CaptureShutdownState, DeadlineExpires, SignalsSent, AcceptLoopExited,
     DrainCompletes, ForceCloseSessionConns, GraceEnds, WaitCleanupBounded,
     CloseAllSubscribers
<1>35. ASSUME NEW b \in BusIDs, BindDevice(b) \/ DeliverUevent(b)
     PROVE  UNCHANGED <<pc, handoffState, cleanupClaimed, disconnector, owner>>
  BY <1>35 DEF BindDevice, DeliverUevent
<1>36. ASSUME AcceptLoopExit \/ EventStreamLost \/ UNCHANGED vars
     PROVE  UNCHANGED <<pc, handoffState, cleanupClaimed, disconnector, owner>>
  BY <1>36 DEF AcceptLoopExit, EventStreamLost, vars
<1>37. QED
  BY <1>1, <1>2, <1>3, <1>4, <1>5, <1>6, <1>7, <1>8, <1>9, <1>10, <1>11, <1>12, <1>13,
     <1>14, <1>15, <1>16, <1>17, <1>18, <1>19, <1>20, <1>21, <1>22, <1>23, <1>24, <1>25,
     <1>26, <1>27, <1>28, <1>29, <1>30, <1>31, <1>32, <1>33, <1>34, <1>35, <1>36
  DEF Next, Finished, HandlerStep, ClientStep, WatcherStep, DisconnectorStep, ShutdownStep,
     Environment

\* Only a session that may disconnect issues a Disconnect.
LEMMA DisconnectStep ==
  ASSUME SessionInv, NEW d \in Conns, [Next]_vars
  PROVE  disconnects'[d] # disconnects[d] => MayDisconnect(d)
<1> USE SessionAssumption DEF SessionInv, TypeOK, MayDisconnect,
      exporterVars, handlerVars, handleVars,
      discVars, kernelVars, eventVars, callerVars, watchVars
<1>1. CASE UNCHANGED <<disconnects>>
  BY <1>1
<1>2. ASSUME NEW c \in Conns, GoDisconnect(c)
     PROVE  disconnects'[d] # disconnects[d] => MayDisconnect(d)
  BY <1>2 DEF GoDisconnect, Disconnect
<1>3. ASSUME NEW c \in Conns, HandlerDisconnect(c)
     PROVE  disconnects'[d] # disconnects[d] => MayDisconnect(d)
  BY <1>3 DEF HandlerDisconnect, Disconnect
<1>4. ASSUME NEW c \in Conns,
               Accept(c) \/ RejectAccept(c) \/ WatcherTimer(c) \/ WatcherStop(c)
            \/ DecodeImport(c) \/ HandshakeEnds(c) \/ ReplySent(c) \/ ReplyFails(c)
            \/ GoFinishCleanup(c) \/ LookupExportedDevice(c) \/ RegisterSession(c)
            \/ DeclineSession(c) \/ PublishStarted(c) \/ Subscribe(c) \/ StopWaited(c)
            \/ BeginHandoff(c) \/ ExportOnConn(c) \/ HandoffSucceeded(c)
            \/ HandoffFailed(c) \/ WakeShutdown(c) \/ WakeEvent(c) \/ WakeEventsClosed(c)
            \/ PollInactive(c) \/ CompletedSessionEnd(c) \/ HandlerFinishCleanup(c)
            \/ EndSession(c) \/ UnregisterSession(c) \/ PublishEnded(c)
     PROVE  UNCHANGED <<disconnects>>
  BY <1>4 DEF Accept, RejectAccept, WatcherTimer, WatcherStop, DecodeImport, HandshakeEnds,
     ReplySent, ReplyFails, GoFinishCleanup, LookupExportedDevice, RegisterSession,
     DeclineSession, PublishStarted, Subscribe, StopWaited, BeginHandoff, ExportOnConn,
     HandoffSucceeded, HandoffFailed, WakeShutdown, WakeEvent, WakeEventsClosed,
     PollInactive, CompletedSessionEnd, HandlerFinishCleanup, EndSession,
     UnregisterSession, PublishEnded
<1>5. ASSUME NEW s \in Callers,
               CaptureShutdownState(s) \/ DeadlineExpires(s) \/ SignalsSent(s)
            \/ AcceptLoopExited(s) \/ DrainCompletes(s) \/ ForceCloseSessionConns(s)
            \/ GraceEnds(s) \/ WaitCleanupBounded(s) \/ CloseAllSubscribers(s)
     PROVE  UNCHANGED <<disconnects>>
  BY <1>5 DEF CaptureShutdownState, DeadlineExpires, SignalsSent, AcceptLoopExited,
     DrainCompletes, ForceCloseSessionConns, GraceEnds, WaitCleanupBounded,
     CloseAllSubscribers
<1>6. ASSUME NEW b \in BusIDs,
              PeerGone(b) \/ UnbindDevice(b) \/ BindDevice(b) \/ DeliverUevent(b)
     PROVE  UNCHANGED <<disconnects>>
  BY <1>6 DEF PeerGone, UnbindDevice, BindDevice, DeliverUevent
<1>7. ASSUME AcceptLoopExit \/ EventStreamLost \/ UNCHANGED vars
     PROVE  UNCHANGED <<disconnects>>
  BY <1>7 DEF AcceptLoopExit, EventStreamLost, vars
<1>8. ASSUME NEW s \in Callers, NEW c \in Conns, SignalCancel(s, c)
     PROVE  UNCHANGED <<disconnects>>
  BY <1>8 DEF SignalCancel
<1>9. QED
  BY <1>1, <1>2, <1>3, <1>4, <1>5, <1>6, <1>7, <1>8
  DEF Next, Finished, HandlerStep, ClientStep, WatcherStep, DisconnectorStep, ShutdownStep,
     Environment

\* SessionInv is an invariant.
THEOREM SessionInvariant == Spec => []SessionInv
<1>1. Init => SessionInv
  <2> SUFFICES ASSUME Init PROVE SessionInv
    OBVIOUS
  <2>1. TypeOK
    BY TypeInit
  <2>2. ASSUME NEW c \in Conns PROVE PhaseInv(c) /\ ClaimInv(c)
    BY DEF Init, PhaseInv, ClaimInv, BeforeRegister, BeforeHandoff, InHandoff, Disconnecting,
           AfterHandoff, Registered
  <2>3. RegistryInv
    BY DEF Init, RegistryInv
  <2>4. OwnerInv
    BY SessionAssumption DEF Init, OwnerInv
  <2>5. QED
    BY <2>1, <2>2, <2>3, <2>4 DEF SessionInv
<1>2. SessionInv /\ [Next]_vars => SessionInv'
  <2> SUFFICES ASSUME SessionInv, [Next]_vars PROVE SessionInv'
    OBVIOUS
  <2>1. TypeOK'
    BY TypeStep DEF SessionInv
  <2>2. ASSUME NEW d \in Conns PROVE PhaseInv(d)'
    BY PhaseStep DEF SessionInv
  <2>3. ASSUME NEW d \in Conns PROVE ClaimInv(d)'
    BY ClaimStep DEF SessionInv
  <2>4. RegistryInv'
    BY RegistryStep DEF SessionInv
  <2>5. OwnerInv'
    BY OwnerStep DEF OwnerInv
  <2>6. QED
    BY <2>1, <2>2, <2>3, <2>4, <2>5 DEF SessionInv
<1>3. QED
  BY <1>1, <1>2, PTL DEF Spec

\* However Shutdown races the handoff, the cleanup future of a session is resolved at most
\* once and at most one Disconnect is issued, and only after a successful ExportOnConn.
THEOREM CleanupOnce == Spec => []CleanupExactlyOnce
<1>1. SessionInv => CleanupExactlyOnce
  BY DEF SessionInv, ClaimInv, CleanupExactlyOnce
<1>2. QED
  BY <1>1, SessionInvariant, PTL

\* A Disconnect issued for one session never drops the export of another one.
THEOREM DisconnectOwn == Spec => DisconnectHitsOwnExport
<1> DEFINE Own == \A c \in Conns :
                     disconnects'[c] # disconnects[c] => owner[BusOf[c]] \in {c, None}
<1>1. SessionInv /\ [Next]_vars => [Own]_vars
  <2> SUFFICES ASSUME SessionInv, [Next]_vars, NEW d \in Conns, disconnects'[d] # disconnects[d]
               PROVE  owner[BusOf[d]] \in {d, None}
    OBVIOUS
  <2>1. MayDisconnect(d)
    BY DisconnectStep
  <2>2. QED
    BY <2>1 DEF SessionInv, OwnerInv
<1>2. QED
  BY <1>1, SessionInvariant, PTL DEF Spec, DisconnectHitsOwnExport

-----------------------------------------------------------------------------
(* The handshake timer, the cancellation of a handle, the reasons and the event feed.      *)

\* The handler leaves stopTimeout only after the watcher has ended.
TimerInv(c) ==
    /\ pc[c] = "handoff" => watcher[c] = "stopped"
    /\ handoffState[c] # "NotStarted" => watcher[c] = "stopped"

\* Only Shutdown claims a cleanup before the session ends, of a handle it retained; a parked
\* session it cancelled has a goroutine that disconnects it.
CancelInv(c) ==
    /\ pc[c] \in BeforeRegister \cup BeforeHandoff /\ cleanupClaimed[c] => cancelled[c]
    /\ pc[c] \in InHandoff => ~cleanupClaimed[c]
    /\ pc[c] = "parked" /\ cancelled[c] => cleanupClaimed[c]
    /\ pc[c] = "parked" /\ cleanupClaimed[c] => disconnector[c] # "none"
    /\ done[c] => cancelled[c] \/ pc[c] \in {"publishEnded", "exited"}
    /\ pc[c] \in Disconnecting \/ cleanupErr[c] \/ disconnector[c] # "none" => cancelled[c]
    /\ cancelled[c] => shutdown /\ c \in shutdownHandles

\* A handler on its way out has a reason, and SessionEnded is published with it.
ReasonInv(c) ==
    /\ pc[c] \in {"stopEnd", "end", "unregister", "publishEnded"} \cup Disconnecting
          => reason[c] # "none"
    /\ feed[c] = "ended" => pc[c] = "exited" /\ reason[c] # "none"

\* While subscribers are open, a session they saw start has not published its end yet.
FeedInv(c) ==
    ~subscribersClosed /\ feed[c] = "started" => pc[c] \in Registered \cup {"publishEnded"}

\* What a call of Shutdown has seen by the time it gets somewhere.
CallerInv(s) ==
    /\ sd[s] # "idle" => shutdown
    /\ sd[s] \in {"waitSessions", "grace", "waitCleanup", "closeSubscribers", "returned"}
          => ~accepting
    /\ sd[s] \in {"waitCleanup", "closeSubscribers", "returned"} /\ result[s] = "nil"
          => SessionsDrained
    /\ sd[s] \in {"closeSubscribers", "returned"} /\ result[s] = "nil"
          => \A c \in shutdownHandles : cleanupDone[c] > 0 /\ ~cleanupErr[c]

DrainInv ==
    /\ \A c \in Conns : TimerInv(c)
    /\ \A c \in Conns : CancelInv(c)
    /\ \A c \in Conns : ReasonInv(c)
    /\ \A c \in Conns : FeedInv(c)
    /\ \A s \in Callers : CallerInv(s)
    /\ WatchersSeeEveryEnd

\* The fields CancelInv and CallerInv are about.
cancelVars == <<pc, handoffState, cleanupClaimed, cancelled, done, cleanupErr, disconnector,
                shutdown, shutdownHandles>>
drainVars == <<sd, result, accepting, pc, shutdown, shutdownHandles, cleanupDone, cleanupErr>>

\* Every step keeps the watcher away from a connection whose handoff has begun.
LEMMA TimerStep ==
  ASSUME TypeOK, NEW d \in Conns, PhaseInv(d), TimerInv(d), [Next]_vars
  PROVE  TimerInv(d)'
<1> USE SessionAssumption DEF TypeOK, PhaseInv, TimerInv, BeforeRegister, BeforeHandoff,
        InHandoff, Disconnecting, AfterHandoff, Registered, exporterVars, handlerVars,
        handleVars, discVars, kernelVars, eventVars, callerVars, watchVars
<1>1. CASE UNCHANGED <<pc, watcher, handoffState>>
  BY <1>1
<1>2. ASSUME NEW c \in Conns, Accept(c) PROVE TimerInv(d)'
  BY <1>2 DEF Accept
<1>3. ASSUME NEW c \in Conns, RejectAccept(c) PROVE TimerInv(d)'
  BY <1>3 DEF RejectAccept
<1>4. ASSUME NEW c \in Conns, WatcherTimer(c) PROVE TimerInv(d)'
  BY <1>4 DEF WatcherTimer
<1>5. ASSUME NEW c \in Conns, WatcherStop(c) PROVE TimerInv(d)'
  BY <1>5 DEF WatcherStop
<1>6. ASSUME NEW c \in Conns, DecodeImport(c) PROVE TimerInv(d)'
  BY <1>6 DEF DecodeImport
<1>7. ASSUME NEW c \in Conns, HandshakeEnds(c) PROVE TimerInv(d)'
  BY <1>7 DEF HandshakeEnds, StopTimeout
<1>8. ASSUME NEW c \in Conns, ReplySent(c) PROVE TimerInv(d)'
  BY <1>8 DEF ReplySent, StopTimeout
<1>9. ASSUME NEW c \in Conns, ReplyFails(c) PROVE TimerInv(d)'
  BY <1>9 DEF ReplyFails, StopTimeout
<1>10. ASSUME NEW c \in Conns, LookupExportedDevice(c) PROVE TimerInv(d)'
  BY <1>10 DEF LookupExportedDevice, StopTimeout
<1>11. ASSUME NEW c \in Conns, RegisterSession(c) PROVE TimerInv(d)'
  BY <1>11 DEF RegisterSession
<1>12. ASSUME NEW c \in Conns, DeclineSession(c) PROVE TimerInv(d)'
  BY <1>12 DEF DeclineSession, StopTimeout
<1>13. ASSUME NEW c \in Conns, PublishStarted(c) PROVE TimerInv(d)'
  BY <1>13 DEF PublishStarted, Publish
<1>14. ASSUME NEW c \in Conns, Subscribe(c) PROVE TimerInv(d)'
  BY <1>14 DEF Subscribe, StopTimeout
<1>15. ASSUME NEW c \in Conns, StopWaited(c) PROVE TimerInv(d)'
  BY <1>15 DEF StopWaited, WatcherDone
<1>16. ASSUME NEW c \in Conns, BeginHandoff(c) PROVE TimerInv(d)'
  BY <1>16 DEF BeginHandoff
<1>17. ASSUME NEW c \in Conns, ExportOnConn(c) PROVE TimerInv(d)'
  BY <1>17 DEF ExportOnConn
<1>18. ASSUME NEW c \in Conns, HandoffSucceeded(c) PROVE TimerInv(d)'
  BY <1>18 DEF HandoffSucceeded
<1>19. ASSUME NEW c \in Conns, HandoffFailed(c) PROVE TimerInv(d)'
  BY <1>19 DEF HandoffFailed, CompleteWithoutDisconnect
<1>20. ASSUME NEW c \in Conns, WakeShutdown(c) PROVE TimerInv(d)'
  BY <1>20 DEF WakeShutdown
<1>21. ASSUME NEW c \in Conns, WakeEvent(c) PROVE TimerInv(d)'
  BY <1>21 DEF WakeEvent
<1>22. ASSUME NEW c \in Conns, WakeEventsClosed(c) PROVE TimerInv(d)'
  BY <1>22 DEF WakeEventsClosed
<1>23. ASSUME NEW c \in Conns, PollInactive(c) PROVE TimerInv(d)'
  BY <1>23 DEF PollInactive
<1>24. ASSUME NEW c \in Conns, CompletedSessionEnd(c) PROVE TimerInv(d)'
  BY <1>24 DEF CompletedSessionEnd, CompleteWithoutDisconnect
<1>25. ASSUME NEW c \in Conns, HandlerDisconnect(c) PROVE TimerInv(d)'
  BY <1>25 DEF HandlerDisconnect, Disconnect
<1>26. ASSUME NEW c \in Conns, HandlerFinishCleanup(c) PROVE TimerInv(d)'
  BY <1>26 DEF HandlerFinishCleanup, FinishCleanup
<1>27. ASSUME NEW c \in Conns, EndSession(c) PROVE TimerInv(d)'
  BY <1>27 DEF EndSession, CompleteWithoutDisconnect
<1>28. ASSUME NEW c \in Conns, UnregisterSession(c) PROVE TimerInv(d)'
  BY <1>28 DEF UnregisterSession
<1>29. ASSUME NEW c \in Conns, PublishEnded(c) PROVE TimerInv(d)'
  BY <1>29 DEF PublishEnded, Publish
<1>30. ASSUME NEW c \in Conns, 
               GoDisconnect(c) \/ GoFinishCleanup(c)
     PROVE  UNCHANGED <<pc, watcher, handoffState>>
  BY <1>30 DEF GoDisconnect, GoFinishCleanup
<1>31. ASSUME NEW s \in Callers, NEW c \in Conns, 
               SignalCancel(s, c)
     PROVE  UNCHANGED <<pc, watcher, handoffState>>
  BY <1>31 DEF SignalCancel
<1>32. ASSUME NEW s \in Callers, 
               CaptureShutdownState(s) \/ DeadlineExpires(s) \/ SignalsSent(s)
            \/ AcceptLoopExited(s) \/ DrainCompletes(s) \/ ForceCloseSessionConns(s)
            \/ GraceEnds(s) \/ WaitCleanupBounded(s) \/ CloseAllSubscribers(s)
     PROVE  UNCHANGED <<pc, watcher, handoffState>>
  BY <1>32 DEF CaptureShutdownState, DeadlineExpires, SignalsSent, AcceptLoopExited,
     DrainCompletes, ForceCloseSessionConns, GraceEnds, WaitCleanupBounded,
     CloseAllSubscribers
<1>33. ASSUME NEW b \in BusIDs, 
               PeerGone(b) \/ UnbindDevice(b) \/ BindDevice(b) \/ DeliverUevent(b)
     PROVE  UNCHANGED <<pc, watcher, handoffState>>
  BY <1>33 DEF PeerGone, UnbindDevice, BindDevice, DeliverUevent
<1>34. ASSUME AcceptLoopExit \/ EventStreamLost
     PROVE  UNCHANGED <<pc, watcher, handoffState>>
  BY <1>34 DEF AcceptLoopExit, EventStreamLost
<1>35. ASSUME UNCHANGED vars PROVE UNCHANGED <<pc, watcher, handoffState>>
  BY SMTT(60), <1>35 DEF vars
<1>36. QED
  BY <1>1, <1>2, <1>3, <1>4, <1>5, <1>6, <1>7, <1>8, <1>9, <1>10, <1>11, <1>12, <1>13,
     <1>14, <1>15, <1>16, <1>17, <1>18, <1>19, <1>20, <1>21, <1>22, <1>23, <1>24, <1>25,
     <1>26, <1>27, <1>28, <1>29, <1>30, <1>31, <1>32, <1>33, <1>34, <1>35
  DEF Next, Finished, HandlerStep, ClientStep, WatcherStep, DisconnectorStep, ShutdownStep,
      Environment

\* Every step keeps claims and cancellations of a handle in step.
LEMMA CancelStep ==
  ASSUME TypeOK, NEW d \in Conns, PhaseInv(d), ClaimInv(d), RegistryInv, CancelInv(d),
         [Next]_vars
  PROVE  CancelInv(d)'
<1> USE SessionAssumption DEF TypeOK, PhaseInv, ClaimInv, RegistryInv, CancelInv,
        BeforeRegister, BeforeHandoff, InHandoff, Disconnecting, AfterHandoff, Registered,
        cancelVars, exporterVars, handlerVars, handleVars, discVars, kernelVars, eventVars,
        callerVars, watchVars
<1>1. CASE UNCHANGED cancelVars
  BY <1>1
<1>2. ASSUME NEW c \in Conns, Accept(c) PROVE CancelInv(d)'
  BY <1>2 DEF Accept
<1>3. ASSUME NEW c \in Conns, RejectAccept(c) PROVE CancelInv(d)'
  BY <1>3 DEF RejectAccept
<1>4. ASSUME NEW c \in Conns, DecodeImport(c) PROVE CancelInv(d)'
  BY <1>4 DEF DecodeImport
<1>5. ASSUME NEW c \in Conns, HandshakeEnds(c) PROVE CancelInv(d)'
  BY <1>5 DEF HandshakeEnds, StopTimeout
<1>6. ASSUME NEW c \in Conns, ReplySent(c) PROVE CancelInv(d)'
  BY <1>6 DEF ReplySent, StopTimeout
<1>7. ASSUME NEW c \in Conns, ReplyFails(c) PROVE CancelInv(d)'
  BY <1>7 DEF ReplyFails, StopTimeout
<1>8. ASSUME NEW c \in Conns, GoDisconnect(c) PROVE CancelInv(d)'
  BY <1>8 DEF GoDisconnect, Disconnect
<1>9. ASSUME NEW c \in Conns, GoFinishCleanup(c) PROVE CancelInv(d)'
  BY <1>9 DEF GoFinishCleanup, FinishCleanup
<1>10. ASSUME NEW c \in Conns, LookupExportedDevice(c) PROVE CancelInv(d)'
  BY <1>10 DEF LookupExportedDevice, StopTimeout
<1>11. ASSUME NEW c \in Conns, RegisterSession(c) PROVE CancelInv(d)'
  BY <1>11 DEF RegisterSession
<1>12. ASSUME NEW c \in Conns, DeclineSession(c) PROVE CancelInv(d)'
  BY <1>12 DEF DeclineSession, StopTimeout
<1>13. ASSUME NEW c \in Conns, PublishStarted(c) PROVE CancelInv(d)'
  BY <1>13 DEF PublishStarted, Publish
<1>14. ASSUME NEW c \in Conns, Subscribe(c) PROVE CancelInv(d)'
  BY <1>14 DEF Subscribe, StopTimeout
<1>15. ASSUME NEW c \in Conns, StopWaited(c) PROVE CancelInv(d)'
  BY <1>15 DEF StopWaited
<1>16. ASSUME NEW c \in Conns, BeginHandoff(c) PROVE CancelInv(d)'
  BY <1>16 DEF BeginHandoff
<1>17. ASSUME NEW c \in Conns, ExportOnConn(c) PROVE CancelInv(d)'
  BY <1>17 DEF ExportOnConn
<1>18. ASSUME NEW c \in Conns, HandoffSucceeded(c) PROVE CancelInv(d)'
  BY <1>18 DEF HandoffSucceeded
<1>19. ASSUME NEW c \in Conns, HandoffFailed(c) PROVE CancelInv(d)'
  BY <1>19 DEF HandoffFailed, CompleteWithoutDisconnect
<1>20. ASSUME NEW c \in Conns, WakeShutdown(c) PROVE CancelInv(d)'
  BY <1>20 DEF WakeShutdown
<1>21. ASSUME NEW c \in Conns, WakeEvent(c) PROVE CancelInv(d)'
  BY <1>21 DEF WakeEvent
<1>22. ASSUME NEW c \in Conns, WakeEventsClosed(c) PROVE CancelInv(d)'
  BY <1>22 DEF WakeEventsClosed
<1>23. ASSUME NEW c \in Conns, PollInactive(c) PROVE CancelInv(d)'
  BY <1>23 DEF PollInactive
<1>24. ASSUME NEW c \in Conns, CompletedSessionEnd(c) PROVE CancelInv(d)'
  BY <1>24 DEF CompletedSessionEnd, CompleteWithoutDisconnect
<1>25. ASSUME NEW c \in Conns, HandlerDisconnect(c) PROVE CancelInv(d)'
  BY <1>25 DEF HandlerDisconnect, Disconnect
<1>26. ASSUME NEW c \in Conns, HandlerFinishCleanup(c) PROVE CancelInv(d)'
  BY <1>26 DEF HandlerFinishCleanup, FinishCleanup
<1>27. ASSUME NEW c \in Conns, EndSession(c) PROVE CancelInv(d)'
  BY <1>27 DEF EndSession, CompleteWithoutDisconnect
<1>28. ASSUME NEW c \in Conns, UnregisterSession(c) PROVE CancelInv(d)'
  BY <1>28 DEF UnregisterSession
<1>29. ASSUME NEW c \in Conns, PublishEnded(c) PROVE CancelInv(d)'
  BY <1>29 DEF PublishEnded, Publish
<1>30. ASSUME NEW s \in Callers, NEW c \in Conns, SignalCancel(s, c) PROVE CancelInv(d)'
  BY <1>30 DEF SignalCancel, CompleteWithoutDisconnect
<1>31. ASSUME NEW s \in Callers, CaptureShutdownState(s) PROVE CancelInv(d)'
  BY <1>31 DEF CaptureShutdownState
<1>32. ASSUME NEW c \in Conns, 
               WatcherTimer(c) \/ WatcherStop(c)
     PROVE  UNCHANGED cancelVars
  BY <1>32 DEF WatcherTimer, WatcherStop
<1>33. ASSUME NEW s \in Callers, 
               DeadlineExpires(s) \/ SignalsSent(s) \/ AcceptLoopExited(s)
            \/ DrainCompletes(s) \/ ForceCloseSessionConns(s) \/ GraceEnds(s)
            \/ WaitCleanupBounded(s) \/ CloseAllSubscribers(s)
     PROVE  UNCHANGED cancelVars
  BY <1>33 DEF DeadlineExpires, SignalsSent, AcceptLoopExited, DrainCompletes,
     ForceCloseSessionConns, GraceEnds, WaitCleanupBounded, CloseAllSubscribers
<1>34. ASSUME NEW b \in BusIDs, 
               PeerGone(b) \/ UnbindDevice(b) \/ BindDevice(b) \/ DeliverUevent(b)
     PROVE  UNCHANGED cancelVars
  BY <1>34 DEF PeerGone, UnbindDevice, BindDevice, DeliverUevent
<1>35. ASSUME AcceptLoopExit \/ EventStreamLost
     PROVE  UNCHANGED cancelVars
  BY <1>35 DEF AcceptLoopExit, EventStreamLost
<1>36. ASSUME UNCHANGED vars PROVE UNCHANGED cancelVars
  BY <1>36 DEF vars
<1>37. QED
  BY <1>1, <1>2, <1>3, <1>4, <1>5, <1>6, <1>7, <1>8, <1>9, <1>10, <1>11, <1>12, <1>13,
     <1>14, <1>15, <1>16, <1>17, <1>18, <1>19, <1>20, <1>21, <1>22, <1>23, <1>24, <1>25,
     <1>26, <1>27, <1>28, <1>29, <1>30, <1>31, <1>32, <1>33, <1>34, <1>35, <1>36
  DEF Next, Finished, HandlerStep, ClientStep, WatcherStep, DisconnectorStep, ShutdownStep,
      Environment

\* Every step that ends a session gives it a reason.
LEMMA ReasonStep ==
  ASSUME TypeOK, NEW d \in Conns, ReasonInv(d), [Next]_vars
  PROVE  ReasonInv(d)'
<1> USE SessionAssumption DEF TypeOK, ReasonInv, BeforeRegister, BeforeHandoff, InHandoff,
        Disconnecting, AfterHandoff, Registered, exporterVars, handlerVars, handleVars,
        discVars, kernelVars, eventVars, callerVars, watchVars
<1>1. CASE UNCHANGED <<pc, reason, feed>>
  BY <1>1
<1>2. ASSUME NEW c \in Conns, Accept(c) PROVE ReasonInv(d)'
  BY <1>2 DEF Accept
<1>3. ASSUME NEW c \in Conns, RejectAccept(c) PROVE ReasonInv(d)'
  BY <1>3 DEF RejectAccept
<1>4. ASSUME NEW c \in Conns, DecodeImport(c) PROVE ReasonInv(d)'
  BY <1>4 DEF DecodeImport
<1>5. ASSUME NEW c \in Conns, HandshakeEnds(c) PROVE ReasonInv(d)'
  BY <1>5 DEF HandshakeEnds, StopTimeout
<1>6. ASSUME NEW c \in Conns, ReplySent(c) PROVE ReasonInv(d)'
  BY <1>6 DEF ReplySent, StopTimeout
<1>7. ASSUME NEW c \in Conns, ReplyFails(c) PROVE ReasonInv(d)'
  BY <1>7 DEF ReplyFails, StopTimeout
<1>8. ASSUME NEW c \in Conns, LookupExportedDevice(c) PROVE ReasonInv(d)'
  BY <1>8 DEF LookupExportedDevice, StopTimeout
<1>9. ASSUME NEW c \in Conns, RegisterSession(c) PROVE ReasonInv(d)'
  BY <1>9 DEF RegisterSession
<1>10. ASSUME NEW c \in Conns, DeclineSession(c) PROVE ReasonInv(d)'
  BY <1>10 DEF DeclineSession, StopTimeout
<1>11. ASSUME NEW c \in Conns, PublishStarted(c) PROVE ReasonInv(d)'
  BY <1>11 DEF PublishStarted, Publish
<1>12. ASSUME NEW c \in Conns, Subscribe(c) PROVE ReasonInv(d)'
  BY <1>12 DEF Subscribe, StopTimeout
<1>13. ASSUME NEW c \in Conns, StopWaited(c) PROVE ReasonInv(d)'
  BY <1>13 DEF StopWaited
<1>14. ASSUME NEW c \in Conns, BeginHandoff(c) PROVE ReasonInv(d)'
  BY <1>14 DEF BeginHandoff
<1>15. ASSUME NEW c \in Conns, ExportOnConn(c) PROVE ReasonInv(d)'
  BY <1>15 DEF ExportOnConn
<1>16. ASSUME NEW c \in Conns, HandoffSucceeded(c) PROVE ReasonInv(d)'
  BY <1>16 DEF HandoffSucceeded
<1>17. ASSUME NEW c \in Conns, HandoffFailed(c) PROVE ReasonInv(d)'
  BY <1>17 DEF HandoffFailed, CompleteWithoutDisconnect
<1>18. ASSUME NEW c \in Conns, WakeShutdown(c) PROVE ReasonInv(d)'
  BY <1>18 DEF WakeShutdown
<1>19. ASSUME NEW c \in Conns, WakeEvent(c) PROVE ReasonInv(d)'
  BY <1>19 DEF WakeEvent
<1>20. ASSUME NEW c \in Conns, WakeEventsClosed(c) PROVE ReasonInv(d)'
  BY <1>20 DEF WakeEventsClosed
<1>21. ASSUME NEW c \in Conns, PollInactive(c) PROVE ReasonInv(d)'
  BY <1>21 DEF PollInactive
<1>22. ASSUME NEW c \in Conns, CompletedSessionEnd(c) PROVE ReasonInv(d)'
  BY <1>22 DEF CompletedSessionEnd, CompleteWithoutDisconnect
<1>23. ASSUME NEW c \in Conns, HandlerDisconnect(c) PROVE ReasonInv(d)'
  BY <1>23 DEF HandlerDisconnect, Disconnect
<1>24. ASSUME NEW c \in Conns, HandlerFinishCleanup(c) PROVE ReasonInv(d)'
  BY <1>24 DEF HandlerFinishCleanup, FinishCleanup
<1>25. ASSUME NEW c \in Conns, EndSession(c) PROVE ReasonInv(d)'
  BY <1>25 DEF EndSession, CompleteWithoutDisconnect
<1>26. ASSUME NEW c \in Conns, UnregisterSession(c) PROVE ReasonInv(d)'
  BY <1>26 DEF UnregisterSession
<1>27. ASSUME NEW c \in Conns, PublishEnded(c) PROVE ReasonInv(d)'
  BY <1>27 DEF PublishEnded, Publish
<1>28. ASSUME NEW c \in Conns, 
               WatcherTimer(c) \/ WatcherStop(c) \/ GoDisconnect(c) \/ GoFinishCleanup(c)
     PROVE  UNCHANGED <<pc, reason, feed>>
  BY <1>28 DEF WatcherTimer, WatcherStop, GoDisconnect, GoFinishCleanup
<1>29. ASSUME NEW s \in Callers, NEW c \in Conns, 
               SignalCancel(s, c)
     PROVE  UNCHANGED <<pc, reason, feed>>
  BY <1>29 DEF SignalCancel
<1>30. ASSUME NEW s \in Callers, 
               CaptureShutdownState(s) \/ DeadlineExpires(s) \/ SignalsSent(s)
            \/ AcceptLoopExited(s) \/ DrainCompletes(s) \/ ForceCloseSessionConns(s)
            \/ GraceEnds(s) \/ WaitCleanupBounded(s) \/ CloseAllSubscribers(s)
     PROVE  UNCHANGED <<pc, reason, feed>>
  BY <1>30 DEF CaptureShutdownState, DeadlineExpires, SignalsSent, AcceptLoopExited,
     DrainCompletes, ForceCloseSessionConns, GraceEnds, WaitCleanupBounded,
     CloseAllSubscribers
<1>31. ASSUME NEW b \in BusIDs, 
               PeerGone(b) \/ UnbindDevice(b) \/ BindDevice(b) \/ DeliverUevent(b)
     PROVE  UNCHANGED <<pc, reason, feed>>
  BY <1>31 DEF PeerGone, UnbindDevice, BindDevice, DeliverUevent
<1>32. ASSUME AcceptLoopExit \/ EventStreamLost
     PROVE  UNCHANGED <<pc, reason, feed>>
  BY <1>32 DEF AcceptLoopExit, EventStreamLost
<1>33. ASSUME UNCHANGED vars PROVE UNCHANGED <<pc, reason, feed>>
  BY <1>33 DEF vars
<1>34. QED
  BY <1>1, <1>2, <1>3, <1>4, <1>5, <1>6, <1>7, <1>8, <1>9, <1>10, <1>11, <1>12, <1>13,
     <1>14, <1>15, <1>16, <1>17, <1>18, <1>19, <1>20, <1>21, <1>22, <1>23, <1>24, <1>25,
     <1>26, <1>27, <1>28, <1>29, <1>30, <1>31, <1>32, <1>33
  DEF Next, Finished, HandlerStep, ClientStep, WatcherStep, DisconnectorStep, ShutdownStep,
      Environment

\* Every step publishes the end of a session before its handler exits.
LEMMA FeedStep ==
  ASSUME TypeOK, NEW d \in Conns, FeedInv(d), [Next]_vars
  PROVE  FeedInv(d)'
<1> USE SessionAssumption DEF TypeOK, FeedInv, BeforeRegister, BeforeHandoff, InHandoff,
        Disconnecting, AfterHandoff, Registered, exporterVars, handlerVars, handleVars,
        discVars, kernelVars, eventVars, callerVars, watchVars
<1>1. CASE UNCHANGED <<pc, subscribersClosed, feed>>
  BY <1>1
<1>2. ASSUME NEW c \in Conns, Accept(c) PROVE FeedInv(d)'
  BY <1>2 DEF Accept
<1>3. ASSUME NEW c \in Conns, RejectAccept(c) PROVE FeedInv(d)'
  BY <1>3 DEF RejectAccept
<1>4. ASSUME NEW c \in Conns, DecodeImport(c) PROVE FeedInv(d)'
  BY <1>4 DEF DecodeImport
<1>5. ASSUME NEW c \in Conns, HandshakeEnds(c) PROVE FeedInv(d)'
  BY <1>5 DEF HandshakeEnds, StopTimeout
<1>6. ASSUME NEW c \in Conns, ReplySent(c) PROVE FeedInv(d)'
  BY <1>6 DEF ReplySent, StopTimeout
<1>7. ASSUME NEW c \in Conns, ReplyFails(c) PROVE FeedInv(d)'
  BY <1>7 DEF ReplyFails, StopTimeout
<1>8. ASSUME NEW c \in Conns, LookupExportedDevice(c) PROVE FeedInv(d)'
  BY <1>8 DEF LookupExportedDevice, StopTimeout
<1>9. ASSUME NEW c \in Conns, RegisterSession(c) PROVE FeedInv(d)'
  BY <1>9 DEF RegisterSession
<1>10. ASSUME NEW c \in Conns, DeclineSession(c) PROVE FeedInv(d)'
  BY <1>10 DEF DeclineSession, StopTimeout
<1>11. ASSUME NEW c \in Conns, PublishStarted(c) PROVE FeedInv(d)'
  BY <1>11 DEF PublishStarted, Publish
<1>12. ASSUME NEW c \in Conns, Subscribe(c) PROVE FeedInv(d)'
  BY <1>12 DEF Subscribe, StopTimeout
<1>13. ASSUME NEW c \in Conns, StopWaited(c) PROVE FeedInv(d)'
  BY <1>13 DEF StopWaited
<1>14. ASSUME NEW c \in Conns, BeginHandoff(c) PROVE FeedInv(d)'
  BY <1>14 DEF BeginHandoff
<1>15. ASSUME NEW c \in Conns, ExportOnConn(c) PROVE FeedInv(d)'
  BY <1>15 DEF ExportOnConn
<1>16. ASSUME NEW c \in Conns, HandoffSucceeded(c) PROVE FeedInv(d)'
  BY <1>16 DEF HandoffSucceeded
<1>17. ASSUME NEW c \in Conns, HandoffFailed(c) PROVE FeedInv(d)'
  BY <1>17 DEF HandoffFailed, CompleteWithoutDisconnect
<1>18. ASSUME NEW c \in Conns, WakeShutdown(c) PROVE FeedInv(d)'
  BY <1>18 DEF WakeShutdown
<1>19. ASSUME NEW c \in Conns, WakeEvent(c) PROVE FeedInv(d)'
  BY <1>19 DEF WakeEvent
<1>20. ASSUME NEW c \in Conns, WakeEventsClosed(c) PROVE FeedInv(d)'
  BY <1>20 DEF WakeEventsClosed
<1>21. ASSUME NEW c \in Conns, PollInactive(c) PROVE FeedInv(d)'
  BY <1>21 DEF PollInactive
<1>22. ASSUME NEW c \in Conns, CompletedSessionEnd(c) PROVE FeedInv(d)'
  BY <1>22 DEF CompletedSessionEnd, CompleteWithoutDisconnect
<1>23. ASSUME NEW c \in Conns, HandlerDisconnect(c) PROVE FeedInv(d)'
  BY <1>23 DEF HandlerDisconnect, Disconnect
<1>24. ASSUME NEW c \in Conns, HandlerFinishCleanup(c) PROVE FeedInv(d)'
  BY <1>24 DEF HandlerFinishCleanup, FinishCleanup
<1>25. ASSUME NEW c \in Conns, EndSession(c) PROVE FeedInv(d)'
  BY <1>25 DEF EndSession, CompleteWithoutDisconnect
<1>26. ASSUME NEW c \in Conns, UnregisterSession(c) PROVE FeedInv(d)'
  BY <1>26 DEF UnregisterSession
<1>27. ASSUME NEW c \in Conns, PublishEnded(c) PROVE FeedInv(d)'
  BY <1>27 DEF PublishEnded, Publish
<1>28. ASSUME NEW s \in Callers, CloseAllSubscribers(s) PROVE FeedInv(d)'
  BY <1>28 DEF CloseAllSubscribers
<1>29. ASSUME NEW c \in Conns, 
               WatcherTimer(c) \/ WatcherStop(c) \/ GoDisconnect(c) \/ GoFinishCleanup(c)
     PROVE  UNCHANGED <<pc, subscribersClosed, feed>>
  BY <1>29 DEF WatcherTimer, WatcherStop, GoDisconnect, GoFinishCleanup
<1>30. ASSUME NEW s \in Callers, NEW c \in Conns, 
               SignalCancel(s, c)
     PROVE  UNCHANGED <<pc, subscribersClosed, feed>>
  BY <1>30 DEF SignalCancel
<1>31. ASSUME NEW s \in Callers, 
               CaptureShutdownState(s) \/ DeadlineExpires(s) \/ SignalsSent(s)
            \/ AcceptLoopExited(s) \/ DrainCompletes(s) \/ ForceCloseSessionConns(s)
            \/ GraceEnds(s) \/ WaitCleanupBounded(s)
     PROVE  UNCHANGED <<pc, subscribersClosed, feed>>
  BY <1>31 DEF CaptureShutdownState, DeadlineExpires, SignalsSent, AcceptLoopExited,
     DrainCompletes, ForceCloseSessionConns, GraceEnds, WaitCleanupBounded
<1>32. ASSUME NEW b \in BusIDs, 
               PeerGone(b) \/ UnbindDevice(b) \/ BindDevice(b) \/ DeliverUevent(b)
     PROVE  UNCHANGED <<pc, subscribersClosed, feed>>
  BY <1>32 DEF PeerGone, UnbindDevice, BindDevice, DeliverUevent
<1>33. ASSUME AcceptLoopExit \/ EventStreamLost
     PROVE  UNCHANGED <<pc, subscribersClosed, feed>>
  BY <1>33 DEF AcceptLoopExit, EventStreamLost
<1>34. ASSUME UNCHANGED vars PROVE UNCHANGED <<pc, subscribersClosed, feed>>
  BY SMTT(60), <1>34 DEF vars
<1>35. QED
  BY <1>1, <1>2, <1>3, <1>4, <1>5, <1>6, <1>7, <1>8, <1>9, <1>10, <1>11, <1>12, <1>13,
     <1>14, <1>15, <1>16, <1>17, <1>18, <1>19, <1>20, <1>21, <1>22, <1>23, <1>24, <1>25,
     <1>26, <1>27, <1>28, <1>29, <1>30, <1>31, <1>32, <1>33, <1>34
  DEF Next, Finished, HandlerStep, ClientStep, WatcherStep, DisconnectorStep, ShutdownStep,
      Environment

\* Every step keeps what a call of Shutdown has waited for true: handlers that are gone stay
\* gone, resolved cleanups stay resolved.
LEMMA CallerStep ==
  ASSUME SessionInv, \A c \in Conns : CancelInv(c), NEW t \in Callers, CallerInv(t),
         [Next]_vars
  PROVE  CallerInv(t)'
<1> USE SessionAssumption DEF SessionInv, TypeOK, PhaseInv, ClaimInv, RegistryInv,
        CancelInv, CallerInv, SessionsDrained, BeforeRegister, BeforeHandoff, InHandoff,
        Disconnecting, AfterHandoff, Registered, drainVars, exporterVars, handlerVars,
        handleVars, discVars, kernelVars, eventVars, callerVars, watchVars
<1>1. CASE UNCHANGED drainVars
  BY <1>1
<1>2. ASSUME NEW c \in Conns, Accept(c) PROVE CallerInv(t)'
  BY <1>2 DEF Accept
<1>3. ASSUME NEW c \in Conns, RejectAccept(c) PROVE CallerInv(t)'
  BY <1>3 DEF RejectAccept
<1>4. ASSUME NEW c \in Conns, DecodeImport(c) PROVE CallerInv(t)'
  BY <1>4 DEF DecodeImport
<1>5. ASSUME NEW c \in Conns, HandshakeEnds(c) PROVE CallerInv(t)'
  BY <1>5 DEF HandshakeEnds, StopTimeout
<1>6. ASSUME NEW c \in Conns, ReplySent(c) PROVE CallerInv(t)'
  BY <1>6 DEF ReplySent, StopTimeout
<1>7. ASSUME NEW c \in Conns, ReplyFails(c) PROVE CallerInv(t)'
  BY <1>7 DEF ReplyFails, StopTimeout
<1>8. ASSUME NEW c \in Conns, GoFinishCleanup(c) PROVE CallerInv(t)'
  BY <1>8 DEF GoFinishCleanup, FinishCleanup
<1>9. ASSUME NEW c \in Conns, LookupExportedDevice(c) PROVE CallerInv(t)'
  BY <1>9 DEF LookupExportedDevice, StopTimeout
<1>10. ASSUME NEW c \in Conns, RegisterSession(c) PROVE CallerInv(t)'
  BY <1>10 DEF RegisterSession
<1>11. ASSUME NEW c \in Conns, DeclineSession(c) PROVE CallerInv(t)'
  BY <1>11 DEF DeclineSession, StopTimeout
<1>12. ASSUME NEW c \in Conns, PublishStarted(c) PROVE CallerInv(t)'
  BY <1>12 DEF PublishStarted, Publish
<1>13. ASSUME NEW c \in Conns, Subscribe(c) PROVE CallerInv(t)'
  BY <1>13 DEF Subscribe, StopTimeout
<1>14. ASSUME NEW c \in Conns, StopWaited(c) PROVE CallerInv(t)'
  BY SMTT(60), <1>14 DEF StopWaited
<1>15. ASSUME NEW c \in Conns, BeginHandoff(c) PROVE CallerInv(t)'
  BY <1>15 DEF BeginHandoff
<1>16. ASSUME NEW c \in Conns, ExportOnConn(c) PROVE CallerInv(t)'
  BY <1>16 DEF ExportOnConn
<1>17. ASSUME NEW c \in Conns, HandoffSucceeded(c) PROVE CallerInv(t)'
  BY <1>17 DEF HandoffSucceeded
<1>18. ASSUME NEW c \in Conns, HandoffFailed(c) PROVE CallerInv(t)'
  BY <1>18 DEF HandoffFailed, CompleteWithoutDisconnect
<1>19. ASSUME NEW c \in Conns, WakeShutdown(c) PROVE CallerInv(t)'
  BY <1>19 DEF WakeShutdown
<1>20. ASSUME NEW c \in Conns, WakeEvent(c) PROVE CallerInv(t)'
  BY <1>20 DEF WakeEvent
<1>21. ASSUME NEW c \in Conns, WakeEventsClosed(c) PROVE CallerInv(t)'
  BY <1>21 DEF WakeEventsClosed
<1>22. ASSUME NEW c \in Conns, PollInactive(c) PROVE CallerInv(t)'
  BY <1>22 DEF PollInactive
<1>23. ASSUME NEW c \in Conns, CompletedSessionEnd(c) PROVE CallerInv(t)'
  BY <1>23 DEF CompletedSessionEnd, CompleteWithoutDisconnect
<1>24. ASSUME NEW c \in Conns, HandlerDisconnect(c) PROVE CallerInv(t)'
  BY <1>24 DEF HandlerDisconnect, Disconnect
<1>25. ASSUME NEW c \in Conns, HandlerFinishCleanup(c) PROVE CallerInv(t)'
  BY <1>25 DEF HandlerFinishCleanup, FinishCleanup
<1>26. ASSUME NEW c \in Conns, EndSession(c) PROVE CallerInv(t)'
  BY <1>26 DEF EndSession, CompleteWithoutDisconnect
<1>27. ASSUME NEW c \in Conns, UnregisterSession(c) PROVE CallerInv(t)'
  BY <1>27 DEF UnregisterSession
<1>28. ASSUME NEW c \in Conns, PublishEnded(c) PROVE CallerInv(t)'
  BY <1>28 DEF PublishEnded, Publish
<1>29. ASSUME NEW s \in Callers, NEW c \in Conns, SignalCancel(s, c) PROVE CallerInv(t)'
  BY <1>29 DEF SignalCancel, CompleteWithoutDisconnect
<1>30. ASSUME NEW s \in Callers, CaptureShutdownState(s) PROVE CallerInv(t)'
  BY <1>30 DEF CaptureShutdownState
<1>31. ASSUME NEW s \in Callers, SignalsSent(s) PROVE CallerInv(t)'
  BY <1>31 DEF SignalsSent
<1>32. ASSUME NEW s \in Callers, AcceptLoopExited(s) PROVE CallerInv(t)'
  BY <1>32 DEF AcceptLoopExited
<1>33. ASSUME NEW s \in Callers, DrainCompletes(s) PROVE CallerInv(t)'
  BY <1>33 DEF DrainCompletes
<1>34. ASSUME NEW s \in Callers, ForceCloseSessionConns(s) PROVE CallerInv(t)'
  BY <1>34 DEF ForceCloseSessionConns
<1>35. ASSUME NEW s \in Callers, GraceEnds(s) PROVE CallerInv(t)'
  BY <1>35 DEF GraceEnds
<1>36. ASSUME NEW s \in Callers, WaitCleanupBounded(s) PROVE CallerInv(t)'
  BY <1>36 DEF WaitCleanupBounded
<1>37. ASSUME NEW s \in Callers, CloseAllSubscribers(s) PROVE CallerInv(t)'
  BY <1>37 DEF CloseAllSubscribers
<1>38. ASSUME AcceptLoopExit PROVE CallerInv(t)'
  BY <1>38 DEF AcceptLoopExit
<1>39. ASSUME NEW c \in Conns, 
               WatcherTimer(c) \/ WatcherStop(c) \/ GoDisconnect(c)
     PROVE  UNCHANGED drainVars
  BY <1>39 DEF WatcherTimer, WatcherStop, GoDisconnect
<1>40. ASSUME NEW s \in Callers, 
               DeadlineExpires(s)
     PROVE  UNCHANGED drainVars
  BY <1>40 DEF DeadlineExpires
<1>41. ASSUME NEW b \in BusIDs, 
               PeerGone(b) \/ UnbindDevice(b) \/ BindDevice(b) \/ DeliverUevent(b)
     PROVE  UNCHANGED drainVars
  BY <1>41 DEF PeerGone, UnbindDevice, BindDevice, DeliverUevent
<1>42. ASSUME EventStreamLost
     PROVE  UNCHANGED drainVars
  BY <1>42 DEF EventStreamLost
<1>43. ASSUME UNCHANGED vars PROVE UNCHANGED drainVars
  BY <1>43 DEF vars
<1>44. QED
  BY <1>1, <1>2, <1>3, <1>4, <1>5, <1>6, <1>7, <1>8, <1>9, <1>10, <1>11, <1>12, <1>13,
     <1>14, <1>15, <1>16, <1>17, <1>18, <1>19, <1>20, <1>21, <1>22, <1>23, <1>24, <1>25,
     <1>26, <1>27, <1>28, <1>29, <1>30, <1>31, <1>32, <1>33, <1>34, <1>35, <1>36, <1>37,
     <1>38, <1>39, <1>40, <1>41, <1>42, <1>43
  DEF Next, Finished, HandlerStep, ClientStep, WatcherStep, DisconnectorStep, ShutdownStep,
      Environment

\* Every step keeps the promise to the watchers: subscribers are closed after the drain.
LEMMA WatchersStep ==
  ASSUME TypeOK, \A c \in Conns : FeedInv(c), \A s \in Callers : CallerInv(s),
         WatchersSeeEveryEnd, [Next]_vars
  PROVE  WatchersSeeEveryEnd'
<1> USE SessionAssumption DEF TypeOK, FeedInv, CallerInv, SessionsDrained,
        WatchersSeeEveryEnd, BeforeRegister, BeforeHandoff, InHandoff, Disconnecting,
        AfterHandoff, Registered, exporterVars, handlerVars, handleVars, discVars,
        kernelVars, eventVars, callerVars, watchVars
<1>1. CASE UNCHANGED <<subscribersClosed, sd, result, feed>>
  BY <1>1
<1>2. ASSUME NEW c \in Conns, PublishStarted(c) PROVE WatchersSeeEveryEnd'
  BY <1>2 DEF PublishStarted, Publish
<1>3. ASSUME NEW c \in Conns, PublishEnded(c) PROVE WatchersSeeEveryEnd'
  BY <1>3 DEF PublishEnded, Publish
<1>4. ASSUME NEW s \in Callers, CaptureShutdownState(s) PROVE WatchersSeeEveryEnd'
  BY <1>4 DEF CaptureShutdownState
<1>5. ASSUME NEW s \in Callers, SignalsSent(s) PROVE WatchersSeeEveryEnd'
  BY <1>5 DEF SignalsSent
<1>6. ASSUME NEW s \in Callers, AcceptLoopExited(s) PROVE WatchersSeeEveryEnd'
  BY <1>6 DEF AcceptLoopExited
<1>7. ASSUME NEW s \in Callers, DrainCompletes(s) PROVE WatchersSeeEveryEnd'
  BY <1>7 DEF DrainCompletes
<1>8. ASSUME NEW s \in Callers, ForceCloseSessionConns(s) PROVE WatchersSeeEveryEnd'
  BY <1>8 DEF ForceCloseSessionConns
<1>9. ASSUME NEW s \in Callers, GraceEnds(s) PROVE WatchersSeeEveryEnd'
  BY <1>9 DEF GraceEnds
<1>10. ASSUME NEW s \in Callers, WaitCleanupBounded(s) PROVE WatchersSeeEveryEnd'
  BY SMTT(60), <1>10 DEF WaitCleanupBounded
<1>11. ASSUME NEW s \in Callers, CloseAllSubscribers(s) PROVE WatchersSeeEveryEnd'
  BY SMTT(60), <1>11 DEF CloseAllSubscribers
<1>12. ASSUME NEW c \in Conns, 
               Accept(c) \/ RejectAccept(c) \/ WatcherTimer(c) \/ WatcherStop(c)
            \/ DecodeImport(c) \/ HandshakeEnds(c) \/ ReplySent(c) \/ ReplyFails(c)
            \/ GoDisconnect(c) \/ GoFinishCleanup(c) \/ LookupExportedDevice(c)
            \/ RegisterSession(c) \/ DeclineSession(c) \/ Subscribe(c) \/ StopWaited(c)
            \/ BeginHandoff(c) \/ ExportOnConn(c) \/ HandoffSucceeded(c)
            \/ HandoffFailed(c) \/ WakeShutdown(c) \/ WakeEvent(c)
            \/ WakeEventsClosed(c) \/ PollInactive(c) \/ CompletedSessionEnd(c)
            \/ HandlerDisconnect(c) \/ HandlerFinishCleanup(c) \/ EndSession(c)
            \/ UnregisterSession(c)
     PROVE  UNCHANGED <<subscribersClosed, sd, result, feed>>
  BY <1>12 DEF Accept, RejectAccept, WatcherTimer, WatcherStop, DecodeImport, HandshakeEnds,
     ReplySent, ReplyFails, GoDisconnect, GoFinishCleanup, LookupExportedDevice,
     RegisterSession, DeclineSession, Subscribe, StopWaited, BeginHandoff, ExportOnConn,
     HandoffSucceeded, HandoffFailed, WakeShutdown, WakeEvent, WakeEventsClosed,
     PollInactive, CompletedSessionEnd, HandlerDisconnect, HandlerFinishCleanup, EndSession,
     UnregisterSession
<1>13. ASSUME NEW s \in Callers, NEW c \in Conns, 
               SignalCancel(s, c)
     PROVE  UNCHANGED <<subscribersClosed, sd, result, feed>>
  BY <1>13 DEF SignalCancel
<1>14. ASSUME NEW s \in Callers, 
               DeadlineExpires(s)
     PROVE  UNCHANGED <<subscribersClosed, sd, result, feed>>
  BY <1>14 DEF DeadlineExpires
<1>15. ASSUME NEW b \in BusIDs, 
               PeerGone(b) \/ UnbindDevice(b) \/ BindDevice(b) \/ DeliverUevent(b)
     PROVE  UNCHANGED <<subscribersClosed, sd, result, feed>>
  BY <1>15 DEF PeerGone, UnbindDevice, BindDevice, DeliverUevent
<1>16. ASSUME AcceptLoopExit \/ EventStreamLost
     PROVE  UNCHANGED <<subscribersClosed, sd, result, feed>>
  BY <1>16 DEF AcceptLoopExit, EventStreamLost
<1>17. ASSUME UNCHANGED vars PROVE UNCHANGED <<subscribersClosed, sd, result, feed>>
  BY <1>17 DEF vars
<1>18. QED
  BY ZenonT(60), <1>1, <1>2, <1>3, <1>4, <1>5, <1>6, <1>7, <1>8, <1>9, <1>10, <1>11,
     <1>12, <1>13, <1>14, <1>15, <1>16, <1>17
  DEF Next, Finished, HandlerStep, ClientStep, WatcherStep, DisconnectorStep, ShutdownStep,
      Environment

\* DrainInv is an invariant.
THEOREM DrainInvariant == Spec => []DrainInv
<1>1. Init => DrainInv
  <2> SUFFICES ASSUME Init PROVE DrainInv
    OBVIOUS
  <2>1. ASSUME NEW c \in Conns PROVE TimerInv(c) /\ CancelInv(c) /\ ReasonInv(c) /\ FeedInv(c)
    BY DEF Init, TimerInv, CancelInv, ReasonInv, FeedInv, BeforeRegister, BeforeHandoff,
           InHandoff, Disconnecting, AfterHandoff, Registered
  <2>2. ASSUME NEW s \in Callers PROVE CallerInv(s)
    BY DEF Init, CallerInv
  <2>3. WatchersSeeEveryEnd
    BY DEF Init, WatchersSeeEveryEnd
  <2>4. QED
    BY <2>1, <2>2, <2>3 DEF DrainInv
<1>2. SessionInv /\ DrainInv /\ [Next]_vars => DrainInv'
  <2> SUFFICES ASSUME SessionInv, DrainInv, [Next]_vars PROVE DrainInv'
    OBVIOUS
  <2>1. ASSUME NEW d \in Conns PROVE TimerInv(d)'
    BY TimerStep DEF SessionInv, DrainInv
  <2>2. ASSUME NEW d \in Conns PROVE CancelInv(d)'
    BY CancelStep DEF SessionInv, DrainInv
  <2>3. ASSUME NEW d \in Conns PROVE ReasonInv(d)'
    BY ReasonStep DEF SessionInv, DrainInv
  <2>4. ASSUME NEW d \in Conns PROVE FeedInv(d)'
    BY FeedStep DEF SessionInv, DrainInv
  <2>5. ASSUME NEW t \in Callers PROVE CallerInv(t)'
    BY CallerStep DEF DrainInv
  <2>6. WatchersSeeEveryEnd'
    BY WatchersStep DEF SessionInv, DrainInv
  <2>7. QED
    BY <2>1, <2>2, <2>3, <2>4, <2>5, <2>6 DEF DrainInv
<1>3. QED
  BY <1>1, <1>2, SessionInvariant, PTL DEF Spec

\* The handshake timeout cannot fire once the handoff has begun, whatever order the timer,
\* stopTimeout and the handler run in.
THEOREM TimerQuiet == Spec => []HandshakeTimerQuiet
<1>1. DrainInv => HandshakeTimerQuiet
  BY DEF DrainInv, TimerInv, HandshakeTimerQuiet
<1>2. QED
  BY <1>1, DrainInvariant, PTL

\* Unless some call of Shutdown missed its deadline, watchers are sent the end of every session
\* they saw start before closeAllSubscribers ends their streams.
THEOREM WatchersSeeEnds == Spec => []WatchersSeeEveryEnd
<1>1. DrainInv => WatchersSeeEveryEnd
  BY DEF DrainInv
<1>2. QED
  BY <1>1, DrainInvariant, PTL

-----------------------------------------------------------------------------
(* The registry's counters.                                                                *)

CountInv == IsFiniteSet(sessions) /\ RegistryConsistent

\* Registering and unregistering keep the counters exact; nothing else changes them.
LEMMA CountStep ==
  ASSUME TypeOK, \A c \in Conns : PhaseInv(c), CountInv, [Next]_vars
  PROVE  CountInv'
<1> USE SessionAssumption DEF CountInv, exporterVars, handlerVars, handleVars, discVars,
        kernelVars, eventVars, callerVars, watchVars
<1>1. CASE UNCHANGED <<sessions, perPeer>>
  BY <1>1 DEF RegistryConsistent
<1>2. ASSUME NEW c \in Conns, RegisterSession(c) PROVE CountInv'
  <2> USE <1>2 DEF RegisterSession, MayRegister
  <2>1. c \notin sessions /\ sessions' = sessions \cup {c}
    BY DEF PhaseInv, Registered, BeforeHandoff, InHandoff, AfterHandoff, Disconnecting
  <2>2. /\ IsFiniteSet(sessions')
        /\ Cardinality(sessions') = Cardinality(sessions) + 1
        /\ Cardinality(sessions) \in Nat
    BY <2>1, FS_AddElement, FS_CardinalityType
  <2>3. MaxSessions > 0 => Cardinality(sessions') <= MaxSessions
    BY <2>2 DEF BelowMaxSessions
  <2>4. ASSUME NEW p \in Peers
        PROVE  (/\ perPeer[p] = Cardinality({e \in sessions : PeerOf[e] = p})
                /\ MaxSessionsPerPeer > 0 => perPeer[p] <= MaxSessionsPerPeer)'
    <3>1. CASE p = PeerOf[c]
      <4>1. {e \in sessions' : PeerOf[e] = p} = {e \in sessions : PeerOf[e] = p} \cup {c}
        BY <2>1, <3>1
      <4>2. IsFiniteSet({e \in sessions : PeerOf[e] = p})
        BY FS_Subset
      <4>3. c \notin {e \in sessions : PeerOf[e] = p}
        BY <2>1
      <4>4. Cardinality({e \in sessions' : PeerOf[e] = p})
               = Cardinality({e \in sessions : PeerOf[e] = p}) + 1
        BY <4>1, <4>2, <4>3, FS_AddElement
      <4>5. perPeer'[p] = perPeer[p] + 1
        BY <3>1 DEF TypeOK
      <4>6. perPeer[p] = Cardinality({e \in sessions : PeerOf[e] = p})
        BY DEF RegistryConsistent
      <4>7. MaxSessionsPerPeer > 0 => perPeer'[p] <= MaxSessionsPerPeer
        BY <3>1, <4>5 DEF BelowPerPeerLimit, TypeOK
      <4>8. QED BY <4>4, <4>5, <4>6, <4>7
    <3>2. CASE p # PeerOf[c]
      <4>1. {e \in sessions' : PeerOf[e] = p} = {e \in sessions : PeerOf[e] = p}
        BY <2>1, <3>2
      <4>2. perPeer'[p] = perPeer[p]
        BY <3>2 DEF TypeOK
      <4>3. QED BY <4>1, <4>2 DEF RegistryConsistent
    <3>3. QED BY <3>1, <3>2
  <2>5. \A e, f \in sessions' : BusOf[e] = BusOf[f] => e = f
    BY <2>1 DEF RegistryConsistent, BusIDFree
  <2>6. QED BY <2>2, <2>3, <2>4, <2>5 DEF RegistryConsistent
<1>3. ASSUME NEW c \in Conns, UnregisterSession(c) PROVE CountInv'
  <2> USE <1>3 DEF UnregisterSession
  <2>1. c \in sessions /\ sessions' = sessions \ {c}
    BY DEF PhaseInv, Registered
  <2>2. /\ IsFiniteSet(sessions')
        /\ Cardinality(sessions') = Cardinality(sessions) - 1
        /\ Cardinality(sessions) \in Nat
    BY <2>1, FS_RemoveElement, FS_CardinalityType
  <2>3. MaxSessions > 0 => Cardinality(sessions') <= MaxSessions
    BY <2>2 DEF RegistryConsistent
  <2>4. ASSUME NEW p \in Peers
        PROVE  (/\ perPeer[p] = Cardinality({e \in sessions : PeerOf[e] = p})
                /\ MaxSessionsPerPeer > 0 => perPeer[p] <= MaxSessionsPerPeer)'
    <3>1. CASE p = PeerOf[c]
      <4>1. {e \in sessions' : PeerOf[e] = p} = {e \in sessions : PeerOf[e] = p} \ {c}
        BY <2>1, <3>1
      <4>2. IsFiniteSet({e \in sessions : PeerOf[e] = p})
        BY FS_Subset
      <4>3. c \in {e \in sessions : PeerOf[e] = p}
        BY <2>1, <3>1
      <4>4. /\ Cardinality({e \in sessions' : PeerOf[e] = p})
                 = Cardinality({e \in sessions : PeerOf[e] = p}) - 1
            /\ Cardinality({e \in sessions : PeerOf[e] = p}) \in Nat \ {0}
        <5>1. Cardinality({e \in sessions : PeerOf[e] = p}) # 0
          BY <4>2, <4>3, FS_EmptySet
        <5>2. Cardinality({e \in sessions : PeerOf[e] = p}) \in Nat
          BY <4>2, FS_CardinalityType
        <5>3. Cardinality({e \in sessions : PeerOf[e] = p} \ {c})
                 = Cardinality({e \in sessions : PeerOf[e] = p}) - 1
          BY <4>2, <4>3, FS_RemoveElement
        <5>4. QED BY <4>1, <5>1, <5>2, <5>3
      <4>5. perPeer[p] = Cardinality({e \in sessions : PeerOf[e] = p})
        BY DEF RegistryConsistent
      <4>6. perPeer'[p] = perPeer[p] - 1
        BY <3>1, <4>4, <4>5 DEF TypeOK
      <4>7. MaxSessionsPerPeer > 0 => perPeer[p] <= MaxSessionsPerPeer
        BY DEF RegistryConsistent
      <4>8. QED BY <4>4, <4>5, <4>6, <4>7
    <3>2. CASE p # PeerOf[c]
      <4>1. {e \in sessions' : PeerOf[e] = p} = {e \in sessions : PeerOf[e] = p}
        BY <2>1, <3>2
      <4>2. perPeer'[p] = perPeer[p]
        BY <3>2 DEF TypeOK
      <4>3. QED BY <4>1, <4>2 DEF RegistryConsistent
    <3>3. QED BY <3>1, <3>2
  <2>5. \A e, f \in sessions' : BusOf[e] = BusOf[f] => e = f
    BY <2>1 DEF RegistryConsistent
  <2>6. QED BY <2>2, <2>3, <2>4, <2>5 DEF RegistryConsistent
<1>4. ASSUME NEW c \in Conns, 
               Accept(c) \/ RejectAccept(c) \/ WatcherTimer(c) \/ WatcherStop(c)
            \/ DecodeImport(c) \/ HandshakeEnds(c) \/ ReplySent(c) \/ ReplyFails(c)
            \/ GoDisconnect(c) \/ GoFinishCleanup(c) \/ LookupExportedDevice(c)
            \/ DeclineSession(c) \/ PublishStarted(c) \/ Subscribe(c) \/ StopWaited(c)
            \/ BeginHandoff(c) \/ ExportOnConn(c) \/ HandoffSucceeded(c)
            \/ HandoffFailed(c) \/ WakeShutdown(c) \/ WakeEvent(c)
            \/ WakeEventsClosed(c) \/ PollInactive(c) \/ CompletedSessionEnd(c)
            \/ HandlerDisconnect(c) \/ HandlerFinishCleanup(c) \/ EndSession(c)
            \/ PublishEnded(c)
     PROVE  UNCHANGED <<sessions, perPeer>>
  BY <1>4 DEF Accept, RejectAccept, WatcherTimer, WatcherStop, DecodeImport, HandshakeEnds,
     ReplySent, ReplyFails, GoDisconnect, GoFinishCleanup, LookupExportedDevice,
     DeclineSession, PublishStarted, Subscribe, StopWaited, BeginHandoff, ExportOnConn,
     HandoffSucceeded, HandoffFailed, WakeShutdown, WakeEvent, WakeEventsClosed,
     PollInactive, CompletedSessionEnd, HandlerDisconnect, HandlerFinishCleanup, EndSession,
     PublishEnded
<1>5. ASSUME NEW s \in Callers, NEW c \in Conns, 
               SignalCancel(s, c)
     PROVE  UNCHANGED <<sessions, perPeer>>
  BY <1>5 DEF SignalCancel
<1>6. ASSUME NEW s \in Callers, 
               CaptureShutdownState(s) \/ DeadlineExpires(s) \/ SignalsSent(s)
            \/ AcceptLoopExited(s) \/ DrainCompletes(s) \/ ForceCloseSessionConns(s)
            \/ GraceEnds(s) \/ WaitCleanupBounded(s) \/ CloseAllSubscribers(s)
     PROVE  UNCHANGED <<sessions, perPeer>>
  BY <1>6 DEF CaptureShutdownState, DeadlineExpires, SignalsSent, AcceptLoopExited,
     DrainCompletes, ForceCloseSessionConns, GraceEnds, WaitCleanupBounded,
     CloseAllSubscribers
<1>7. ASSUME NEW b \in BusIDs, 
               PeerGone(b) \/ UnbindDevice(b) \/ BindDevice(b) \/ DeliverUevent(b)
     PROVE  UNCHANGED <<sessions, perPeer>>
  BY <1>7 DEF PeerGone, UnbindDevice, BindDevice, DeliverUevent
<1>8. ASSUME AcceptLoopExit \/ EventStreamLost
     PROVE  UNCHANGED <<sessions, perPeer>>
  BY <1>8 DEF AcceptLoopExit, EventStreamLost
<1>9. ASSUME UNCHANGED vars PROVE UNCHANGED <<sessions, perPeer>>
  BY <1>9 DEF vars
<1>10. QED
  BY <1>1, <1>2, <1>3, <1>4, <1>5, <1>6, <1>7, <1>8, <1>9
  DEF Next, Finished, HandlerStep, ClientStep, WatcherStep, DisconnectorStep, ShutdownStep,
      Environment

\* Whatever sessions begin, are declined and end concurrently, the per-peer counters are the
\* sizes of the peers' shares of e.sessions, both caps hold and no busid has two sessions.
THEOREM RegistryExact == Spec => []RegistryConsistent
<1>1. Init => CountInv
  <2> SUFFICES ASSUME Init PROVE CountInv
    OBVIOUS
  <2>1. IsFiniteSet(sessions) /\ Cardinality(sessions) = 0 /\ sessions = {}
    BY FS_EmptySet DEF Init
  <2>2. ASSUME NEW p \in Peers
        PROVE  perPeer[p] = 0 /\ Cardinality({c \in sessions : PeerOf[c] = p}) = 0
    <3>1. {c \in sessions : PeerOf[c] = p} = {}
      BY <2>1
    <3>2. QED BY <3>1, FS_EmptySet DEF Init
  <2>3. QED
    BY <2>1, <2>2, SessionAssumption DEF CountInv, RegistryConsistent
<1>2. SessionInv /\ CountInv /\ [Next]_vars => CountInv'
  BY CountStep DEF SessionInv
<1>3. CountInv => RegistryConsistent
  BY DEF CountInv
<1>4. QED
  BY <1>1, <1>2, <1>3, SessionInvariant, PTL DEF Spec

-----------------------------------------------------------------------------
(* Which devices the kernel still exports.                                                 *)

\* A device is bound again only once its last unbind has been announced to the sessions and
\* they have taken notice of it.  Without this a stale announcement ends a live session: the
\* run of SessionStaleUnbind.cfg shows it.
Settled ==
    \A b \in BusIDs :
       ~bound[b] /\ bound'[b] =>
          b \notin uevents /\ \A c \in Conns : BusOf[c] = b => ~queued[c]

RebindsAreSettled == [][Settled]_vars

\* An unbind under way or noticed is of a device that is still unbound.
KernelInv ==
    /\ \A b \in BusIDs : owner[b] # None => bound[b] /\ BusOf[owner[b]] = b
    /\ \A b \in BusIDs : bound[b] => b \notin uevents
    /\ \A c \in Conns : queued[c] => ~bound[BusOf[c]]

\* Somebody answers for an export: the handler that has not ended its session, the goroutine
\* that disconnects it, or the error stored in the handle.
ExportInv(c) ==
    /\ owner[BusOf[c]] = c =>
          \/ pc[c] \in {"exported", "parked", "disconnect", "disconnectFailed"}
          \/ disconnector[c] \in {"call", "failed"}
          \/ cleanupErr[c]
    /\ pc[c] \in {"completing", "disconnected"} => owner[BusOf[c]] # c
    /\ disconnector[c] = "ok" => owner[BusOf[c]] # c
    /\ disconnector[c] = "finished" /\ ~cleanupErr[c] => owner[BusOf[c]] # c
    /\ reason[c] = "client_gone" =>
          /\ pc[c] \in {"end", "unregister", "publishEnded", "exited"}
          /\ owner[BusOf[c]] # c

ReleaseInv == KernelInv /\ \A c \in Conns : ExportInv(c)

\* Every step leaves only unbinds of unbound devices under way.
LEMMA KernelStep ==
  ASSUME TypeOK, KernelInv, [Settled]_vars, [Next]_vars
  PROVE  KernelInv'
<1> USE SessionAssumption DEF TypeOK, KernelInv, Settled, exporterVars, handlerVars,
        handleVars, discVars, kernelVars, eventVars, callerVars, watchVars
<1>1. CASE UNCHANGED <<bound, owner, uevents, queued>>
  BY <1>1
<1>2. ASSUME NEW c \in Conns, GoDisconnect(c) PROVE KernelInv'
  BY <1>2 DEF GoDisconnect, Disconnect
<1>3. ASSUME NEW c \in Conns, ExportOnConn(c) PROVE KernelInv'
  BY <1>3 DEF ExportOnConn
<1>4. ASSUME NEW c \in Conns, WakeEvent(c) PROVE KernelInv'
  BY <1>4 DEF WakeEvent
<1>5. ASSUME NEW c \in Conns, HandlerDisconnect(c) PROVE KernelInv'
  BY <1>5 DEF HandlerDisconnect, Disconnect
<1>6. ASSUME NEW c \in Conns, EndSession(c) PROVE KernelInv'
  BY <1>6 DEF EndSession, CompleteWithoutDisconnect
<1>7. ASSUME NEW b \in BusIDs, PeerGone(b) PROVE KernelInv'
  BY <1>7 DEF PeerGone
<1>8. ASSUME NEW b \in BusIDs, UnbindDevice(b) PROVE KernelInv'
  BY <1>8 DEF UnbindDevice
<1>9. ASSUME NEW b \in BusIDs, BindDevice(b) PROVE KernelInv'
  <2>1. ~bound[b] /\ bound'[b] /\ bound' = [bound EXCEPT ![b] = TRUE]
    BY <1>9 DEF BindDevice
  <2>2. Settled
    BY <2>1 DEF vars
  <2>3. b \notin uevents /\ \A c \in Conns : BusOf[c] = b => ~queued[c]
    BY <2>1, <2>2
  <2>4. QED BY <1>9, <2>1, <2>3 DEF BindDevice
<1>10. ASSUME NEW b \in BusIDs, DeliverUevent(b) PROVE KernelInv'
  BY <1>10 DEF DeliverUevent
<1>11. ASSUME NEW c \in Conns, 
               Accept(c) \/ RejectAccept(c) \/ WatcherTimer(c) \/ WatcherStop(c)
            \/ DecodeImport(c) \/ HandshakeEnds(c) \/ ReplySent(c) \/ ReplyFails(c)
            \/ GoFinishCleanup(c) \/ LookupExportedDevice(c) \/ RegisterSession(c)
            \/ DeclineSession(c) \/ PublishStarted(c) \/ Subscribe(c) \/ StopWaited(c)
            \/ BeginHandoff(c) \/ HandoffSucceeded(c) \/ HandoffFailed(c)
            \/ WakeShutdown(c) \/ WakeEventsClosed(c) \/ PollInactive(c)
            \/ CompletedSessionEnd(c) \/ HandlerFinishCleanup(c)
            \/ UnregisterSession(c) \/ PublishEnded(c)
     PROVE  UNCHANGED <<bound, owner, uevents, queued>>
  BY <1>11 DEF Accept, RejectAccept, WatcherTimer, WatcherStop, DecodeImport, HandshakeEnds,
     ReplySent, ReplyFails, GoFinishCleanup, LookupExportedDevice, RegisterSession,
     DeclineSession, PublishStarted, Subscribe, StopWaited, BeginHandoff, HandoffSucceeded,
     HandoffFailed, WakeShutdown, WakeEventsClosed, PollInactive, CompletedSessionEnd,
     HandlerFinishCleanup, UnregisterSession, PublishEnded
<1>12. ASSUME NEW s \in Callers, NEW c \in Conns, 
               SignalCancel(s, c)
     PROVE  UNCHANGED <<bound, owner, uevents, queued>>
  BY <1>12 DEF SignalCancel
<1>13. ASSUME NEW s \in Callers, 
               CaptureShutdownState(s) \/ DeadlineExpires(s) \/ SignalsSent(s)
            \/ AcceptLoopExited(s) \/ DrainCompletes(s) \/ ForceCloseSessionConns(s)
            \/ GraceEnds(s) \/ WaitCleanupBounded(s) \/ CloseAllSubscribers(s)
     PROVE  UNCHANGED <<bound, owner, uevents, queued>>
  BY <1>13 DEF CaptureShutdownState, DeadlineExpires, SignalsSent, AcceptLoopExited,
     DrainCompletes, ForceCloseSessionConns, GraceEnds, WaitCleanupBounded,
     CloseAllSubscribers
<1>14. ASSUME AcceptLoopExit \/ EventStreamLost
     PROVE  UNCHANGED <<bound, owner, uevents, queued>>
  BY <1>14 DEF AcceptLoopExit, EventStreamLost
<1>15. ASSUME UNCHANGED vars PROVE UNCHANGED <<bound, owner, uevents, queued>>
  BY SMTT(60), <1>15 DEF vars
<1>16. QED
  BY <1>1, <1>2, <1>3, <1>4, <1>5, <1>6, <1>7, <1>8, <1>9, <1>10, <1>11, <1>12, <1>13,
     <1>14, <1>15
  DEF Next, Finished, HandlerStep, ClientStep, WatcherStep, DisconnectorStep, ShutdownStep,
      Environment

\* Every step leaves somebody who answers for an export.
LEMMA ExportStep ==
  ASSUME SessionInv, KernelInv, NEW d \in Conns, CancelInv(d), ExportInv(d), [Next]_vars
  PROVE  ExportInv(d)'
<1> USE SessionAssumption DEF SessionInv, TypeOK, PhaseInv, ClaimInv, KernelInv, CancelInv,
        ExportInv, BeforeRegister, BeforeHandoff, InHandoff, Disconnecting, AfterHandoff,
        Registered, exporterVars, handlerVars, handleVars, discVars, kernelVars, eventVars,
        callerVars, watchVars
<1>1. CASE UNCHANGED <<pc, owner, disconnector, cleanupErr, reason>>
  BY <1>1
<1>2. ASSUME NEW c \in Conns, Accept(c) PROVE ExportInv(d)'
  BY <1>2 DEF Accept
<1>3. ASSUME NEW c \in Conns, RejectAccept(c) PROVE ExportInv(d)'
  BY <1>3 DEF RejectAccept
<1>4. ASSUME NEW c \in Conns, DecodeImport(c) PROVE ExportInv(d)'
  BY <1>4 DEF DecodeImport
<1>5. ASSUME NEW c \in Conns, HandshakeEnds(c) PROVE ExportInv(d)'
  BY <1>5 DEF HandshakeEnds, StopTimeout
<1>6. ASSUME NEW c \in Conns, ReplySent(c) PROVE ExportInv(d)'
  BY <1>6 DEF ReplySent, StopTimeout
<1>7. ASSUME NEW c \in Conns, ReplyFails(c) PROVE ExportInv(d)'
  BY <1>7 DEF ReplyFails, StopTimeout
<1>8. ASSUME NEW c \in Conns, GoDisconnect(c) PROVE ExportInv(d)'
  BY <1>8 DEF GoDisconnect, Disconnect
<1>9. ASSUME NEW c \in Conns, GoFinishCleanup(c) PROVE ExportInv(d)'
  BY <1>9 DEF GoFinishCleanup, FinishCleanup
<1>10. ASSUME NEW c \in Conns, LookupExportedDevice(c) PROVE ExportInv(d)'
  BY <1>10 DEF LookupExportedDevice, StopTimeout
<1>11. ASSUME NEW c \in Conns, RegisterSession(c) PROVE ExportInv(d)'
  BY <1>11 DEF RegisterSession
<1>12. ASSUME NEW c \in Conns, DeclineSession(c) PROVE ExportInv(d)'
  BY <1>12 DEF DeclineSession, StopTimeout
<1>13. ASSUME NEW c \in Conns, PublishStarted(c) PROVE ExportInv(d)'
  BY <1>13 DEF PublishStarted, Publish
<1>14. ASSUME NEW c \in Conns, Subscribe(c) PROVE ExportInv(d)'
  BY <1>14 DEF Subscribe, StopTimeout
<1>15. ASSUME NEW c \in Conns, StopWaited(c) PROVE ExportInv(d)'
  BY <1>15 DEF StopWaited
<1>16. ASSUME NEW c \in Conns, BeginHandoff(c) PROVE ExportInv(d)'
  BY <1>16 DEF BeginHandoff
<1>17. ASSUME NEW c \in Conns, ExportOnConn(c) PROVE ExportInv(d)'
  BY <1>17 DEF ExportOnConn
<1>18. ASSUME NEW c \in Conns, HandoffSucceeded(c) PROVE ExportInv(d)'
  BY <1>18 DEF HandoffSucceeded
<1>19. ASSUME NEW c \in Conns, HandoffFailed(c) PROVE ExportInv(d)'
  BY <1>19 DEF HandoffFailed, CompleteWithoutDisconnect
<1>20. ASSUME NEW c \in Conns, WakeShutdown(c) PROVE ExportInv(d)'
  BY <1>20 DEF WakeShutdown
<1>21. ASSUME NEW c \in Conns, WakeEvent(c) PROVE ExportInv(d)'
  BY <1>21 DEF WakeEvent
<1>22. ASSUME NEW c \in Conns, WakeEventsClosed(c) PROVE ExportInv(d)'
  BY <1>22 DEF WakeEventsClosed, ExportSessionInactive
<1>23. ASSUME NEW c \in Conns, PollInactive(c) PROVE ExportInv(d)'
  BY <1>23 DEF PollInactive, ExportSessionInactive
<1>24. ASSUME NEW c \in Conns, CompletedSessionEnd(c) PROVE ExportInv(d)'
  BY <1>24 DEF CompletedSessionEnd, CompleteWithoutDisconnect
<1>25. ASSUME NEW c \in Conns, HandlerDisconnect(c) PROVE ExportInv(d)'
  BY <1>25 DEF HandlerDisconnect, Disconnect
<1>26. ASSUME NEW c \in Conns, HandlerFinishCleanup(c) PROVE ExportInv(d)'
  BY <1>26 DEF HandlerFinishCleanup, FinishCleanup
<1>27. ASSUME NEW c \in Conns, EndSession(c) PROVE ExportInv(d)'
  BY <1>27 DEF EndSession, CompleteWithoutDisconnect
<1>28. ASSUME NEW c \in Conns, UnregisterSession(c) PROVE ExportInv(d)'
  BY <1>28 DEF UnregisterSession
<1>29. ASSUME NEW c \in Conns, PublishEnded(c) PROVE ExportInv(d)'
  BY <1>29 DEF PublishEnded, Publish
<1>30. ASSUME NEW s \in Callers, NEW c \in Conns, SignalCancel(s, c) PROVE ExportInv(d)'
  BY <1>30 DEF SignalCancel, CompleteWithoutDisconnect
<1>31. ASSUME NEW b \in BusIDs, PeerGone(b) PROVE ExportInv(d)'
  BY <1>31 DEF PeerGone
<1>32. ASSUME NEW b \in BusIDs, UnbindDevice(b) PROVE ExportInv(d)'
  BY <1>32 DEF UnbindDevice
<1>33. ASSUME NEW c \in Conns, 
               WatcherTimer(c) \/ WatcherStop(c)
     PROVE  UNCHANGED <<pc, owner, disconnector, cleanupErr, reason>>
  BY <1>33 DEF WatcherTimer, WatcherStop
<1>34. ASSUME NEW s \in Callers, 
               CaptureShutdownState(s) \/ DeadlineExpires(s) \/ SignalsSent(s)
            \/ AcceptLoopExited(s) \/ DrainCompletes(s) \/ ForceCloseSessionConns(s)
            \/ GraceEnds(s) \/ WaitCleanupBounded(s) \/ CloseAllSubscribers(s)
     PROVE  UNCHANGED <<pc, owner, disconnector, cleanupErr, reason>>
  BY <1>34 DEF CaptureShutdownState, DeadlineExpires, SignalsSent, AcceptLoopExited,
     DrainCompletes, ForceCloseSessionConns, GraceEnds, WaitCleanupBounded,
     CloseAllSubscribers
<1>35. ASSUME NEW b \in BusIDs, 
               BindDevice(b) \/ DeliverUevent(b)
     PROVE  UNCHANGED <<pc, owner, disconnector, cleanupErr, reason>>
  BY <1>35 DEF BindDevice, DeliverUevent
<1>36. ASSUME AcceptLoopExit \/ EventStreamLost
     PROVE  UNCHANGED <<pc, owner, disconnector, cleanupErr, reason>>
  BY <1>36 DEF AcceptLoopExit, EventStreamLost
<1>37. ASSUME UNCHANGED vars PROVE UNCHANGED <<pc, owner, disconnector, cleanupErr, reason>>
  BY <1>37 DEF vars
<1>38. QED
  BY <1>1, <1>2, <1>3, <1>4, <1>5, <1>6, <1>7, <1>8, <1>9, <1>10, <1>11, <1>12, <1>13,
     <1>14, <1>15, <1>16, <1>17, <1>18, <1>19, <1>20, <1>21, <1>22, <1>23, <1>24, <1>25,
     <1>26, <1>27, <1>28, <1>29, <1>30, <1>31, <1>32, <1>33, <1>34, <1>35, <1>36, <1>37
  DEF Next, Finished, HandlerStep, ClientStep, WatcherStep, DisconnectorStep, ShutdownStep,
      Environment

\* ReleaseInv is an invariant as long as re-binds are settled.
THEOREM ReleaseInvariant == Spec /\ RebindsAreSettled => []ReleaseInv
<1>1. Init => ReleaseInv
  <2> SUFFICES ASSUME Init PROVE ReleaseInv
    OBVIOUS
  <2>1. KernelInv
    BY SessionAssumption DEF Init, KernelInv
  <2>2. ASSUME NEW c \in Conns PROVE ExportInv(c)
    BY SessionAssumption DEF Init, ExportInv
  <2>3. QED
    BY <2>1, <2>2 DEF ReleaseInv
<1>2. SessionInv /\ DrainInv /\ ReleaseInv /\ [Next]_vars /\ [Settled]_vars => ReleaseInv'
  <2> SUFFICES ASSUME SessionInv, DrainInv, ReleaseInv, [Next]_vars, [Settled]_vars
               PROVE  ReleaseInv'
    OBVIOUS
  <2>1. KernelInv'
    BY KernelStep DEF SessionInv, ReleaseInv
  <2>2. ASSUME NEW d \in Conns PROVE ExportInv(d)'
    BY ExportStep DEF DrainInv, ReleaseInv
  <2>3. QED
    BY <2>1, <2>2 DEF ReleaseInv
<1>3. QED
  BY <1>1, <1>2, SessionInvariant, DrainInvariant, PTL DEF Spec, RebindsAreSettled

\* A device the kernel exports is one of a listed session, or its Disconnect is under way or
\* failed and is recorded, as long as re-binds are settled.
THEOREM ExportsAccountedFor == Spec /\ RebindsAreSettled => []ExportIsAccountedFor
<1>1. SessionInv /\ ReleaseInv => ExportIsAccountedFor
  BY DEF SessionInv, PhaseInv, ReleaseInv, ExportInv, ExportIsAccountedFor, Registered,
     InHandoff, AfterHandoff, Disconnecting
<1>2. QED
  BY <1>1, SessionInvariant, ReleaseInvariant, PTL

\* SessionEnded names a reason, and says client_gone only of a client the kernel no longer
\* exports the device to, as long as re-binds are settled.
THEOREM ReasonsTruthful == Spec /\ RebindsAreSettled => []EndReasonTruthful
<1>1. DrainInv /\ ReleaseInv => EndReasonTruthful
  BY DEF DrainInv, ReasonInv, ReleaseInv, ExportInv, EndReasonTruthful
<1>2. QED
  BY <1>1, DrainInvariant, ReleaseInvariant, PTL

\* Whichever of several calls of Shutdown issues the Disconnects, one that returns nil has
\* drained every handler and left no device exported, as long as re-binds are settled.
THEOREM NilReleases == Spec /\ RebindsAreSettled => []ShutdownNilReleases
<1>1. SessionInv /\ DrainInv /\ ReleaseInv => ShutdownNilReleases
  <2> SUFFICES ASSUME SessionInv, DrainInv, ReleaseInv, NEW s \in Callers,
                      sd[s] = "returned", result[s] = "nil"
               PROVE  SessionsDrained /\ \A b \in BusIDs : owner[b] = None
    BY DEF ShutdownNilReleases
  <2>1. SessionsDrained
    BY DEF DrainInv, CallerInv
  <2>2. \A c \in shutdownHandles : cleanupDone[c] > 0 /\ ~cleanupErr[c]
    BY DEF DrainInv, CallerInv
  <2>3. SUFFICES ASSUME NEW b \in BusIDs, owner[b] # None PROVE FALSE
    BY <2>1
  <2>4. PICK c \in Conns : owner[b] = c
    BY <2>3 DEF SessionInv, TypeOK
  <2>5. owner[BusOf[c]] = c
    BY <2>3, <2>4 DEF ReleaseInv, KernelInv
  <2>6. pc[c] \in {"new", "exited"}
    BY <2>1 DEF SessionsDrained
  <2>7. disconnector[c] \in {"call", "failed"} \/ cleanupErr[c]
    BY <2>5, <2>6 DEF ReleaseInv, ExportInv
  <2>8. c \in shutdownHandles
    BY <2>7 DEF DrainInv, CancelInv
  <2>9. cleanupDone[c] = 0 \/ cleanupErr[c]
    BY <2>7 DEF SessionInv, ClaimInv
  <2>10. QED
    BY <2>2, <2>8, <2>9
<1>2. QED
  BY <1>1, SessionInvariant, DrainInvariant, ReleaseInvariant, PTL
=============================================================================
