------------------------- MODULE ExporterServe_proofs -------------------------
(***************************************************************************)
(* Proofs about ExporterServe: the serving reservation is exclusive, and a *)
(* Shutdown that is past its wait for the accept loop faces no Serve that  *)
(* accepts or still may, for any number of calls of Serve and Shutdown.    *)
(***************************************************************************)
EXTENDS ExporterServe, FiniteSetTheorems, TLAPS

-----------------------------------------------------------------------------
(* The inductive invariant, over the parts of the state it needs.          *)

\* The types of the fields the argument looks at.
ServeTypes ==
    /\ shutdown \in BOOLEAN
    /\ serving \in BOOLEAN
    /\ listener \in Serves \cup {None}
    /\ serveCancel \in Serves \cup {None}
    /\ acceptLoopExited \in Serves \cup {None}
    /\ sv \in [Serves -> ServeStates]
    /\ exitedClosed \subseteq Serves
    /\ sd \in [Callers -> CallerStates]
    /\ snapshot \in [Callers -> [first : BOOLEAN, listener : Serves \cup {None},
                                 cancel : Serves \cup {None}, exited : Serves \cup {None}]]

\* The reservation is exclusive, and acceptLoopExited is closed only by a call whose accept
\* loop is over or never began.
ReserveInv ==
    /\ ReservationIsExclusive
    /\ \A v \in Serves :
          v \in exitedClosed =>
             sv[v] \in {"stopWatcher", "wgWait", "stopServing", "close", "returned"}

\* After e.shutdown is set acceptLoopExited is never replaced, so what every call of
\* Shutdown waits for is the channel of the last Serve.
SnapshotInv ==
    \A s \in Callers :
       /\ sd[s] # "idle" => shutdown /\ snapshot[s].exited = acceptLoopExited
       /\ sd[s] \in {"capture", "wait", "drained", "gaveUp"} =>
             snapshot[s].exited \in exitedClosed \cup {None}

ServeInv == ServeTypes /\ ReserveInv /\ SnapshotInv

-----------------------------------------------------------------------------

\* Init establishes the invariant.
LEMMA ServeInit == Init => ServeInv
  <1> SUFFICES ASSUME Init PROVE ServeInv
    OBVIOUS
  <1>1. ServeTypes
    BY DEF Init, ServeTypes, ServeStates, CallerStates
  <1>2. Reserved = {} /\ exitedClosed = {}
    BY DEF Init, Reserved
  <1>3. \A s \in Callers : sd[s] = "idle"
    BY DEF Init
  <1> QED BY <1>1, <1>2, <1>3 DEF ServeInv, ReserveInv, SnapshotInv, ReservationIsExclusive

\* The fields the invariant is about.
argVars == <<reserveVars, sv, exitedClosed, callerVars>>

\* A step that leaves them alone (of the closer, a context or a session handler) keeps it.
LEMMA QuietStep == ServeInv /\ UNCHANGED argVars => ServeInv'
  BY DEF ServeInv, ServeTypes, ReserveInv, SnapshotInv, ReservationIsExclusive, Reserved,
     argVars, reserveVars, callerVars

\* A turn of the accept loop keeps it, whatever comes of the connection.
LEMMA LoopTurn ==
  ASSUME ServeInv, NEW v \in Serves, NEW pc \in {"accepting", "accepted"},
         sv[v] \in {"accepting", "accepted"}, sv' = [sv EXCEPT ![v] = pc],
         UNCHANGED <<reserveVars, exitedClosed, callerVars>>
  PROVE  ServeInv'
<1> USE DEF ServeInv, ServeTypes, reserveVars, callerVars
<1>1. ServeTypes'
  BY DEF ServeStates, CallerStates
<1>2. ReserveInv'
  BY DEF ReserveInv, ReservationIsExclusive, Reserved
<1>3. SnapshotInv'
  BY DEF SnapshotInv
<1>4. QED BY <1>1, <1>2, <1>3

\* Every step preserves the invariant.
LEMMA ServeStepInv == ServeInv /\ [Next]_vars => ServeInv'
  <1> SUFFICES ASSUME ServeInv, [Next]_vars PROVE ServeInv'
    OBVIOUS
  <1> USE ServeAssumption
  <1>1. ASSUME NEW v \in Serves, StartServing(v) PROVE ServeInv'
    <2>1. ServeTypes'
      BY <1>1 DEF ServeInv, ServeTypes, ServeStates, CallerStates, StartServing,
         MayServe, callerVars
    <2>2. ReserveInv'
      BY <1>1 DEF ServeInv, ReserveInv, ServeTypes, ReservationIsExclusive, Reserved,
         StartServing, MayServe, callerVars
    <2>3. SnapshotInv'
      BY <1>1 DEF ServeInv, SnapshotInv, ServeTypes, StartServing, MayServe, callerVars
    <2> QED BY <2>1, <2>2, <2>3 DEF ServeInv
  <1>2. ASSUME NEW v \in Serves, ServeRefused(v) PROVE ServeInv'
    <2>1. ServeTypes'
      BY <1>2 DEF ServeInv, ServeTypes, ServeStates, CallerStates, ServeRefused,
         reserveVars, callerVars
    <2>2. ReserveInv'
      BY <1>2 DEF ServeInv, ReserveInv, ServeTypes, ReservationIsExclusive, Reserved,
         ServeRefused, reserveVars, callerVars
    <2>3. SnapshotInv'
      BY <1>2 DEF ServeInv, SnapshotInv, ServeTypes, ServeRefused, reserveVars,
         callerVars
    <2> QED BY <2>1, <2>2, <2>3 DEF ServeInv
  <1>3. ASSUME NEW v \in Serves, FactoryListens(v) PROVE ServeInv'
    <2>1. ServeTypes'
      BY <1>3 DEF ServeInv, ServeTypes, ServeStates, CallerStates, FactoryListens,
         reserveVars, callerVars
    <2>2. ReserveInv'
      BY <1>3 DEF ServeInv, ReserveInv, ServeTypes, ReservationIsExclusive, Reserved,
         FactoryListens, reserveVars, callerVars
    <2>3. SnapshotInv'
      BY <1>3 DEF ServeInv, SnapshotInv, ServeTypes, FactoryListens, reserveVars,
         callerVars
    <2> QED BY <2>1, <2>2, <2>3 DEF ServeInv
  <1>4. ASSUME NEW v \in Serves, FactoryFails(v) PROVE ServeInv'
    <2>1. ServeTypes'
      BY <1>4 DEF ServeInv, ServeTypes, ServeStates, CallerStates, FactoryFails,
         reserveVars, callerVars
    <2>2. ReserveInv'
      BY <1>4 DEF ServeInv, ReserveInv, ServeTypes, ReservationIsExclusive, Reserved,
         FactoryFails, reserveVars, callerVars
    <2>3. SnapshotInv'
      BY <1>4 DEF ServeInv, SnapshotInv, ServeTypes, FactoryFails, reserveVars,
         callerVars
    <2> QED BY <2>1, <2>2, <2>3 DEF ServeInv
  <1>5. ASSUME NEW v \in Serves, InstallServingListener(v) PROVE ServeInv'
    <2>1. ServeTypes'
      BY <1>5 DEF ServeInv, ServeTypes, ServeStates, CallerStates,
         InstallServingListener, callerVars
    <2>2. ReserveInv'
      BY <1>5 DEF ServeInv, ReserveInv, ServeTypes, ReservationIsExclusive, Reserved,
         InstallServingListener, callerVars
    <2>3. SnapshotInv'
      BY <1>5 DEF ServeInv, SnapshotInv, ServeTypes, InstallServingListener, callerVars
    <2> QED BY <2>1, <2>2, <2>3 DEF ServeInv
  <1>6. ASSUME NEW v \in Serves, SpawnCtxListenerCloser(v) PROVE ServeInv'
    <2>1. ServeTypes'
      BY <1>6 DEF ServeInv, ServeTypes, ServeStates, CallerStates,
         SpawnCtxListenerCloser, reserveVars, callerVars
    <2>2. ReserveInv'
      BY <1>6 DEF ServeInv, ReserveInv, ServeTypes, ReservationIsExclusive, Reserved,
         SpawnCtxListenerCloser, reserveVars, callerVars
    <2>3. SnapshotInv'
      BY <1>6 DEF ServeInv, SnapshotInv, ServeTypes, SpawnCtxListenerCloser, reserveVars,
         callerVars
    <2> QED BY <2>1, <2>2, <2>3 DEF ServeInv
  <1>7. ASSUME NEW v \in Serves, CloserCancelled(v) PROVE ServeInv'
    BY <1>7, QuietStep DEF CloserCancelled, reserveVars, callerVars, argVars
  <1>8. ASSUME NEW v \in Serves, CloserStopped(v) PROVE ServeInv'
    BY <1>8, QuietStep DEF CloserStopped, reserveVars, callerVars, argVars
  <1>9. ASSUME NEW v \in Serves, AcceptConn(v) \/ HandleAccepted(v) PROVE ServeInv'
    <2>1. /\ sv[v] \in {"accepting", "accepted"}
          /\ \E pc \in {"accepting", "accepted"} : sv' = [sv EXCEPT ![v] = pc]
          /\ UNCHANGED <<reserveVars, exitedClosed, callerVars>>
      BY <1>9 DEF AcceptConn, HandleAccepted, RejectConn, DispatchConn
    <2> QED BY <2>1, LoopTurn
  <1>10. ASSUME NEW v \in Serves, AcceptLoopReturns(v) PROVE ServeInv'
    <2>1. ServeTypes'
      BY <1>10 DEF ServeInv, ServeTypes, ServeStates, CallerStates, AcceptLoopReturns,
         reserveVars, callerVars
    <2>2. ReserveInv'
      BY <1>10 DEF ServeInv, ReserveInv, ServeTypes, ReservationIsExclusive, Reserved,
         AcceptLoopReturns, reserveVars, callerVars
    <2>3. SnapshotInv'
      BY <1>10 DEF ServeInv, SnapshotInv, ServeTypes, AcceptLoopReturns, reserveVars,
         callerVars
    <2> QED BY <2>1, <2>2, <2>3 DEF ServeInv
  <1>11. ASSUME NEW v \in Serves, SignalAcceptExited(v) PROVE ServeInv'
    <2>1. ServeTypes'
      BY <1>11 DEF ServeInv, ServeTypes, ServeStates, CallerStates, SignalAcceptExited,
         reserveVars, callerVars
    <2>2. ReserveInv'
      BY <1>11 DEF ServeInv, ReserveInv, ServeTypes, ReservationIsExclusive, Reserved,
         SignalAcceptExited, reserveVars, callerVars
    <2>3. SnapshotInv'
      BY <1>11 DEF ServeInv, SnapshotInv, ServeTypes, SignalAcceptExited, reserveVars,
         callerVars
    <2> QED BY <2>1, <2>2, <2>3 DEF ServeInv
  <1>12. ASSUME NEW v \in Serves, StopWatcher(v) PROVE ServeInv'
    <2>1. ServeTypes'
      BY <1>12 DEF ServeInv, ServeTypes, ServeStates, CallerStates, StopWatcher,
         reserveVars, callerVars
    <2>2. ReserveInv'
      BY <1>12 DEF ServeInv, ReserveInv, ServeTypes, ReservationIsExclusive, Reserved,
         StopWatcher, reserveVars, callerVars
    <2>3. SnapshotInv'
      BY <1>12 DEF ServeInv, SnapshotInv, ServeTypes, StopWatcher, reserveVars,
         callerVars
    <2> QED BY <2>1, <2>2, <2>3 DEF ServeInv
  <1>13. ASSUME NEW v \in Serves, WgWait(v) PROVE ServeInv'
    <2>1. ServeTypes'
      BY <1>13 DEF ServeInv, ServeTypes, ServeStates, CallerStates, WgWait, reserveVars,
         callerVars
    <2>2. ReserveInv'
      BY <1>13 DEF ServeInv, ReserveInv, ServeTypes, ReservationIsExclusive, Reserved,
         WgWait, reserveVars, callerVars
    <2>3. SnapshotInv'
      BY <1>13 DEF ServeInv, SnapshotInv, ServeTypes, WgWait, reserveVars, callerVars
    <2> QED BY <2>1, <2>2, <2>3 DEF ServeInv
  <1>14. ASSUME NEW v \in Serves, StopServing(v) PROVE ServeInv'
    <2>1. ServeTypes'
      BY <1>14 DEF ServeInv, ServeTypes, ServeStates, CallerStates, StopServing,
         callerVars
    <2>2. ReserveInv'
      BY <1>14 DEF ServeInv, ReserveInv, ServeTypes, ReservationIsExclusive, Reserved,
         StopServing, callerVars
    <2>3. SnapshotInv'
      BY <1>14 DEF ServeInv, SnapshotInv, ServeTypes, StopServing, callerVars
    <2> QED BY <2>1, <2>2, <2>3 DEF ServeInv
  <1>15. ASSUME NEW v \in Serves, CloseListener(v) PROVE ServeInv'
    <2>1. ServeTypes'
      BY <1>15 DEF ServeInv, ServeTypes, ServeStates, CallerStates, CloseListener,
         reserveVars, callerVars
    <2>2. ReserveInv'
      BY <1>15 DEF ServeInv, ReserveInv, ServeTypes, ReservationIsExclusive, Reserved,
         CloseListener, reserveVars, callerVars
    <2>3. SnapshotInv'
      BY <1>15 DEF ServeInv, SnapshotInv, ServeTypes, CloseListener, reserveVars,
         callerVars
    <2> QED BY <2>1, <2>2, <2>3 DEF ServeInv
  <1>16. ASSUME NEW v \in Serves, CtxCancelled(v) PROVE ServeInv'
    BY <1>16, QuietStep DEF CtxCancelled, reserveVars, serveVars, callerVars, argVars
  <1>17. ASSUME NEW h \in Handlers, ArmHandshakeTimeout(h) PROVE ServeInv'
    BY <1>17, QuietStep DEF ArmHandshakeTimeout, serveVars, reserveVars, callerVars,
       argVars
  <1>18. ASSUME NEW h \in Handlers, WatcherStops(h) PROVE ServeInv'
    BY <1>18, QuietStep DEF WatcherStops, serveVars, reserveVars, callerVars, argVars
  <1>19. ASSUME NEW h \in Handlers, WatcherDone(h) PROVE ServeInv'
    BY <1>19, QuietStep DEF WatcherDone, serveVars, reserveVars, callerVars, argVars
  <1>20. ASSUME NEW h \in Handlers, HandlerDone(h) PROVE ServeInv'
    BY <1>20, QuietStep DEF HandlerDone, serveVars, reserveVars, callerVars, argVars
  <1>21. ASSUME NEW s \in Callers, CaptureShutdownState(s) PROVE ServeInv'
    <2>1. ServeTypes'
      BY <1>21 DEF ServeInv, ServeTypes, ServeStates, CallerStates, CaptureShutdownState,
         serveVars
    <2>2. ReserveInv'
      BY <1>21 DEF ServeInv, ReserveInv, ServeTypes, ReservationIsExclusive, Reserved,
         CaptureShutdownState, serveVars
    <2>3. SnapshotInv'
      BY <1>21 DEF ServeInv, SnapshotInv, ServeTypes, CaptureShutdownState, serveVars
    <2> QED BY <2>1, <2>2, <2>3 DEF ServeInv
  <1>22. ASSUME NEW s \in Callers, CancelServe(s) PROVE ServeInv'
    <2>1. ServeTypes'
      BY <1>22 DEF ServeInv, ServeTypes, ServeStates, CallerStates, CancelServe,
         reserveVars
    <2>2. ReserveInv'
      BY <1>22 DEF ServeInv, ReserveInv, ServeTypes, ReservationIsExclusive, Reserved,
         CancelServe, reserveVars
    <2>3. SnapshotInv'
      BY <1>22 DEF ServeInv, SnapshotInv, ServeTypes, CancelServe, reserveVars
    <2> QED BY <2>1, <2>2, <2>3 DEF ServeInv
  <1>23. ASSUME NEW s \in Callers, WaitAcceptLoop(s) PROVE ServeInv'
    <2>1. ServeTypes'
      BY <1>23 DEF ServeInv, ServeTypes, ServeStates, CallerStates, WaitAcceptLoop,
         reserveVars, serveVars
    <2>2. ReserveInv'
      BY <1>23 DEF ServeInv, ReserveInv, ServeTypes, ReservationIsExclusive, Reserved,
         WaitAcceptLoop, reserveVars, serveVars
    <2>3. SnapshotInv'
      BY <1>23 DEF ServeInv, SnapshotInv, ServeTypes, WaitAcceptLoop, reserveVars,
         serveVars
    <2> QED BY <2>1, <2>2, <2>3 DEF ServeInv
  <1>24. ASSUME NEW s \in Callers, DrainFuture(s) PROVE ServeInv'
    <2>1. ServeTypes'
      BY <1>24 DEF ServeInv, ServeTypes, ServeStates, CallerStates, DrainFuture,
         reserveVars, serveVars
    <2>2. ReserveInv'
      BY <1>24 DEF ServeInv, ReserveInv, ServeTypes, ReservationIsExclusive, Reserved,
         DrainFuture, reserveVars, serveVars
    <2>3. SnapshotInv'
      BY <1>24 DEF ServeInv, SnapshotInv, ServeTypes, DrainFuture, reserveVars, serveVars
    <2> QED BY <2>1, <2>2, <2>3 DEF ServeInv
  <1>25. ASSUME NEW s \in Callers, DrainObserved(s) PROVE ServeInv'
    <2>1. ServeTypes'
      BY <1>25 DEF ServeInv, ServeTypes, ServeStates, CallerStates, DrainObserved,
         reserveVars, serveVars
    <2>2. ReserveInv'
      BY <1>25 DEF ServeInv, ReserveInv, ServeTypes, ReservationIsExclusive, Reserved,
         DrainObserved, reserveVars, serveVars
    <2>3. SnapshotInv'
      BY <1>25 DEF ServeInv, SnapshotInv, ServeTypes, DrainObserved, reserveVars,
         serveVars
    <2> QED BY <2>1, <2>2, <2>3 DEF ServeInv
  <1>26. ASSUME NEW s \in Callers, DrainGivesUp(s) PROVE ServeInv'
    <2>1. ServeTypes'
      BY <1>26 DEF ServeInv, ServeTypes, ServeStates, CallerStates, DrainGivesUp,
         reserveVars, serveVars
    <2>2. ReserveInv'
      BY <1>26 DEF ServeInv, ReserveInv, ServeTypes, ReservationIsExclusive, Reserved,
         DrainGivesUp, reserveVars, serveVars
    <2>3. SnapshotInv'
      BY <1>26 DEF ServeInv, SnapshotInv, ServeTypes, DrainGivesUp, reserveVars,
         serveVars
    <2> QED BY <2>1, <2>2, <2>3 DEF ServeInv
  <1>27. ASSUME UNCHANGED vars PROVE ServeInv'
    BY <1>27, QuietStep DEF vars, serveVars, argVars
  <1> QED
    BY <1>1, <1>2, <1>3, <1>4, <1>5, <1>6, <1>7, <1>8, <1>9, <1>10, <1>11, <1>12, <1>13,
       <1>14, <1>15, <1>16, <1>17, <1>18, <1>19, <1>20, <1>21, <1>22, <1>23, <1>24, <1>25,
       <1>26, <1>27 DEF Next, ServeStep, CloserStep, HandlerStep, ShutdownStep, Finished

-----------------------------------------------------------------------------

\* The invariant holds in every reachable state of Serve and Shutdown.
THEOREM ServeInvariant == Spec => []ServeInv
  <1>1. Init => ServeInv
    BY ServeInit
  <1>2. ServeInv /\ [Next]_vars => ServeInv'
    BY ServeStepInv
  <1> QED BY <1>1, <1>2, PTL DEF Spec

\* At most one call of Serve holds the reservation startServing gives out, and the context
\* and the channel Shutdown would use are that call's.
THEOREM ReservationExclusive == Spec => []ReservationIsExclusive
  <1>1. ServeInv => ReservationIsExclusive
    BY DEF ServeInv, ReserveInv
  <1> QED BY <1>1, ServeInvariant, PTL

\* Once Shutdown has waited for acceptLoopExited, no call of Serve accepts a connection or
\* is on its way to: sessionsWG cannot grow behind the drain future Shutdown captures next.
THEOREM AcceptingIsOver == Spec => []NoAcceptAfterShutdown
  <1>1. ServeInv => NoAcceptAfterShutdown
    <2> SUFFICES ASSUME ServeInv, NEW s \in Callers, NEW v \in Serves,
                        sd[s] \in {"capture", "wait", "drained", "gaveUp"},
                        sv[v] \in {"factory", "install", "spawn", "accepting", "accepted"}
                 PROVE  FALSE
      BY DEF NoAcceptAfterShutdown
    <2>1. v \in Reserved
      BY DEF Reserved
    <2>2. snapshot[s].exited = v
      BY <2>1 DEF ServeInv, ReserveInv, ReservationIsExclusive, SnapshotInv
    <2>3. v \in exitedClosed
      BY <2>2, ServeAssumption DEF ServeInv, SnapshotInv
    <2> QED BY <2>3 DEF ServeInv, ReserveInv
  <1> QED BY <1>1, ServeInvariant, PTL

-----------------------------------------------------------------------------
(* sessionsWG: its count is the number of goroutines that run, and the drain channel       *)
(* Shutdown captured is the last one.                                                      *)

Busy == {h \in Handlers : handler[h] \in {"running", "armed"}}
Watching == {h \in Handlers : watcher[h] \in {"running", "closing"}}

CountInv ==
    /\ handler \in [Handlers -> {"new", "running", "armed", "exited"}]
    /\ watcher \in [Handlers -> {"off", "running", "closing", "done"}]
    /\ \A h \in Handlers : handler[h] \in {"new", "running"} => watcher[h] = "off"
    /\ count = Cardinality(Busy) + Cardinality(Watching)

\* The current drain channel is open while goroutines run; a captured channel is the current
\* one for good, because the count can leave zero only in the accept loop.
ChannelInv ==
    /\ count \in Nat
    /\ drained \in Nat /\ sessionsDrained \in Nat
    /\ drainedClosed \subseteq 1 .. drained
    /\ count > 0 => drained > 0 /\ drained \notin drainedClosed
    /\ sessionsDrained # 0 =>
          /\ sessionsDrained = drained
          /\ \E s \in Callers : sd[s] \in {"wait", "drained", "gaveUp"}
    /\ \A s \in Callers :
          /\ sd[s] \in {"wait", "drained", "gaveUp"} => sessionsDrained # 0
          /\ sd[s] = "drained" => sessionsDrained \in drainedClosed

\* The remaining fields.
SocketTypes ==
    /\ ctxDone \subseteq Serves
    /\ lsn \in [Serves -> {"none", "open", "closed"}]
    /\ closer \in [Serves -> {"off", "running", "stopping", "done"}]

DrainInv == CountInv /\ ChannelInv /\ SocketTypes

\* Finitely many goroutines run, so their numbers can be added.
LEMMA LiveFinite ==
  /\ IsFiniteSet(Busy) /\ Cardinality(Busy) \in Nat
  /\ IsFiniteSet(Watching) /\ Cardinality(Watching) \in Nat
  BY ServeAssumption, FS_Subset, FS_CardinalityType DEF Busy, Watching

\* While one of them runs the count is not zero.
LEMMA LiveCounted ==
  ASSUME CountInv, NEW h \in Busy \cup Watching
  PROVE  count > 0 /\ count - 1 \in Nat
<1>1. Cardinality(Busy) # 0 \/ Cardinality(Watching) # 0
  BY LiveFinite, FS_EmptySet
<1>2. count \in Nat /\ count # 0
  BY <1>1, LiveFinite DEF CountInv
<1>3. QED BY <1>2

\* Every goroutine is counted when it starts and uncounted when it ends.
LEMMA CountStep ==
  ASSUME CountInv, [Next]_vars
  PROVE  CountInv'
<1> USE ServeAssumption DEF CountInv, serveVars, reserveVars, wgVars, sessionVars,
        callerVars
<1>1. CASE UNCHANGED <<handler, watcher, count>>
  BY <1>1 DEF Busy, Watching
<1>2. ASSUME NEW v \in Serves, NEW h \in Handlers, DispatchConn(v, h) PROVE CountInv'
  <2> USE <1>2 DEF DispatchConn, WGAdd
  <2>1. Busy' = Busy \cup {h} /\ h \notin Busy
    BY DEF Busy
  <2>2. Watching' = Watching
    BY DEF Watching
  <2>3. Cardinality(Busy') = Cardinality(Busy) + 1
    BY <2>1, LiveFinite, FS_AddElement
  <2>4. count' = Cardinality(Busy)' + Cardinality(Watching)'
    BY <2>2, <2>3, LiveFinite
  <2>5. QED BY <2>4
<1>3. ASSUME NEW h \in Handlers, ArmHandshakeTimeout(h) PROVE CountInv'
  <2> USE <1>3 DEF ArmHandshakeTimeout, WGAdd
  <2>1. Watching' = Watching \cup {h} /\ h \notin Watching
    BY DEF Watching
  <2>2. Busy' = Busy
    BY DEF Busy
  <2>3. Cardinality(Watching') = Cardinality(Watching) + 1
    BY <2>1, LiveFinite, FS_AddElement
  <2>4. count' = Cardinality(Busy)' + Cardinality(Watching)'
    BY <2>2, <2>3, LiveFinite
  <2>5. QED BY <2>4
<1>4. ASSUME NEW h \in Handlers, WatcherStops(h) PROVE CountInv'
  <2> USE <1>4 DEF WatcherStops
  <2>1. Busy' = Busy /\ Watching' = Watching
    BY DEF Busy, Watching
  <2>2. QED BY <2>1
<1>5. ASSUME NEW h \in Handlers, WatcherDone(h) PROVE CountInv'
  <2> USE <1>5 DEF WatcherDone, WGDone
  <2>1. Watching' = Watching \ {h} /\ h \in Watching
    BY DEF Watching
  <2>2. Busy' = Busy
    BY DEF Busy
  <2>3. Cardinality(Watching') = Cardinality(Watching) - 1
    BY <2>1, LiveFinite, FS_RemoveElement
  <2>4. count' = Cardinality(Busy)' + Cardinality(Watching)'
    BY <2>2, <2>3, LiveFinite
  <2>5. QED BY <2>4
<1>6. ASSUME NEW h \in Handlers, HandlerDone(h) PROVE CountInv'
  <2> USE <1>6 DEF HandlerDone, WGDone
  <2>1. Busy' = Busy \ {h} /\ h \in Busy
    BY DEF Busy
  <2>2. Watching' = Watching
    BY DEF Watching
  <2>3. Cardinality(Busy') = Cardinality(Busy) - 1
    BY <2>1, LiveFinite, FS_RemoveElement
  <2>4. count' = Cardinality(Busy)' + Cardinality(Watching)'
    BY <2>2, <2>3, LiveFinite
  <2>5. QED BY <2>4
<1>7. ASSUME NEW v \in Serves, 
               StartServing(v) \/ ServeRefused(v) \/ FactoryListens(v) \/ FactoryFails(v)
            \/ InstallServingListener(v) \/ SpawnCtxListenerCloser(v)
            \/ CloserCancelled(v) \/ CloserStopped(v) \/ AcceptConn(v)
            \/ RejectConn(v) \/ AcceptLoopReturns(v)
            \/ SignalAcceptExited(v) \/ StopWatcher(v) \/ WgWait(v) \/ StopServing(v)
            \/ CloseListener(v) \/ CtxCancelled(v)
     PROVE  UNCHANGED <<handler, watcher, count>>
  BY <1>7 DEF StartServing, ServeRefused, FactoryListens, FactoryFails,
     InstallServingListener, SpawnCtxListenerCloser, CloserCancelled, CloserStopped,
     AcceptConn, RejectConn, AcceptLoopReturns, SignalAcceptExited, StopWatcher, WgWait,
     StopServing, CloseListener, CtxCancelled
<1>8. ASSUME NEW s \in Callers, 
               CaptureShutdownState(s) \/ CancelServe(s) \/ WaitAcceptLoop(s)
            \/ DrainFuture(s) \/ DrainObserved(s) \/ DrainGivesUp(s)
     PROVE  UNCHANGED <<handler, watcher, count>>
  BY <1>8 DEF CaptureShutdownState, CancelServe, WaitAcceptLoop, DrainFuture, DrainObserved,
     DrainGivesUp
<1>9. ASSUME UNCHANGED vars PROVE UNCHANGED <<handler, watcher, count>>
  BY <1>9 DEF vars
<1>10. QED
  BY <1>1, <1>2, <1>3, <1>4, <1>5, <1>6, <1>7, <1>8, <1>9
  DEF Next, HandleAccepted, ServeStep, CloserStep, HandlerStep, ShutdownStep, Finished

\* No step replaces the drain channel once it is captured.
LEMMA ChannelStep ==
  ASSUME ServeInv, NoAcceptAfterShutdown, CountInv, ChannelInv, [Next]_vars
  PROVE  ChannelInv'
<1> USE ServeAssumption DEF ServeInv, ServeTypes, ChannelInv, serveVars, reserveVars,
        wgVars, sessionVars, callerVars
<1>1. CASE UNCHANGED <<count, drained, drainedClosed, sessionsDrained, sd>>
  BY <1>1
<1>2. ASSUME NEW v \in Serves, NEW h \in Handlers, DispatchConn(v, h) PROVE ChannelInv'
  <2>1. sessionsDrained = 0
    <3>1. sv[v] = "accepted"
      BY <1>2 DEF DispatchConn
    <3>2. QED BY <3>1 DEF NoAcceptAfterShutdown
  <2>2. \A s \in Callers : sd'[s] \notin {"wait", "drained", "gaveUp"}
    BY <1>2, <2>1 DEF DispatchConn
  <2>3. sessionsDrained' = 0
    BY <1>2, <2>1 DEF DispatchConn
  <2>4. /\ count' \in Nat /\ drained' \in Nat
        /\ drainedClosed' \subseteq 1 .. drained'
        /\ drained' > 0 /\ drained' \notin drainedClosed'
    BY <1>2 DEF DispatchConn, WGAdd
  <2>5. QED BY <2>2, <2>3, <2>4
<1>3. ASSUME NEW h \in Handlers, ArmHandshakeTimeout(h) PROVE ChannelInv'
  <2>1. h \in Busy
    BY <1>3 DEF ArmHandshakeTimeout, Busy
  <2>2. count > 0
    BY <2>1, LiveCounted
  <2>3. count' = count + 1 /\ UNCHANGED <<drained, drainedClosed, sessionsDrained, sd>>
    BY <1>3, <2>2 DEF ArmHandshakeTimeout, WGAdd
  <2>4. QED BY <2>2, <2>3
<1>4. ASSUME NEW h \in Handlers, WatcherDone(h) PROVE ChannelInv'
  <2>1. h \in Watching
    BY <1>4 DEF WatcherDone, Watching
  <2>2. count > 0 /\ count' \in Nat /\ count' = count - 1
    BY <1>4, <2>1, LiveCounted DEF WatcherDone, WGDone
  <2>3. /\ drainedClosed' = IF count = 1 THEN drainedClosed \cup {drained} ELSE drainedClosed
        /\ UNCHANGED <<drained, sessionsDrained, sd>>
    BY <1>4 DEF WatcherDone, WGDone
  <2>4. QED BY <2>2, <2>3
<1>5. ASSUME NEW h \in Handlers, HandlerDone(h) PROVE ChannelInv'
  <2>1. h \in Busy
    BY <1>5 DEF HandlerDone, Busy
  <2>2. count > 0 /\ count' \in Nat /\ count' = count - 1
    BY <1>5, <2>1, LiveCounted DEF HandlerDone, WGDone
  <2>3. /\ drainedClosed' = IF count = 1 THEN drainedClosed \cup {drained} ELSE drainedClosed
        /\ UNCHANGED <<drained, sessionsDrained, sd>>
    BY <1>5 DEF HandlerDone, WGDone
  <2>4. QED BY <2>2, <2>3
<1>6. ASSUME NEW s \in Callers, CaptureShutdownState(s) PROVE ChannelInv'
  BY <1>6 DEF CaptureShutdownState
<1>7. ASSUME NEW s \in Callers, CancelServe(s) PROVE ChannelInv'
  BY <1>7 DEF CancelServe
<1>8. ASSUME NEW s \in Callers, WaitAcceptLoop(s) PROVE ChannelInv'
  BY <1>8 DEF WaitAcceptLoop
<1>9. ASSUME NEW s \in Callers, DrainFuture(s) PROVE ChannelInv'
  <2>1. sd' = [sd EXCEPT ![s] = "wait"] /\ count' = count
    BY <1>9 DEF DrainFuture
  <2>2. CASE sessionsDrained # 0
    <3>1. UNCHANGED <<sessionsDrained, drained, drainedClosed>>
      BY <1>9, <2>2 DEF DrainFuture
    <3>2. QED BY <2>1, <2>2, <3>1
  <2>3. CASE sessionsDrained = 0 /\ drained # 0
    <3>1. sessionsDrained' = drained /\ UNCHANGED <<drained, drainedClosed>>
      BY <1>9, <2>3 DEF DrainFuture
    <3>2. sd'[s] = "wait" /\ \A t \in Callers : sd'[t] # "drained"
      BY <2>1, <2>3
    <3>3. QED BY <2>1, <2>3, <3>1, <3>2
  <2>4. CASE sessionsDrained = 0 /\ drained = 0
    <3>1. sessionsDrained' = 1 /\ drained' = 1 /\ drainedClosed' = drainedClosed \cup {1}
      BY <1>9, <2>4 DEF DrainFuture
    <3>2. count = 0
      BY <2>4
    <3>3. sd'[s] = "wait" /\ \A t \in Callers : sd'[t] # "drained"
      BY <2>1, <2>4
    <3>4. QED BY <2>1, <2>4, <3>1, <3>2, <3>3
  <2>5. QED BY <2>2, <2>3, <2>4
<1>10. ASSUME NEW s \in Callers, DrainObserved(s) PROVE ChannelInv'
  BY <1>10 DEF DrainObserved
<1>11. ASSUME NEW s \in Callers, DrainGivesUp(s) PROVE ChannelInv'
  BY <1>11 DEF DrainGivesUp
<1>12. ASSUME NEW h \in Handlers, 
               WatcherStops(h)
     PROVE  UNCHANGED <<count, drained, drainedClosed, sessionsDrained, sd>>
  BY <1>12 DEF WatcherStops
<1>13. ASSUME NEW v \in Serves, 
               StartServing(v) \/ ServeRefused(v) \/ FactoryListens(v) \/ FactoryFails(v)
            \/ InstallServingListener(v) \/ SpawnCtxListenerCloser(v)
            \/ CloserCancelled(v) \/ CloserStopped(v) \/ AcceptConn(v)
            \/ RejectConn(v) \/ AcceptLoopReturns(v)
            \/ SignalAcceptExited(v) \/ StopWatcher(v) \/ WgWait(v) \/ StopServing(v)
            \/ CloseListener(v) \/ CtxCancelled(v)
     PROVE  UNCHANGED <<count, drained, drainedClosed, sessionsDrained, sd>>
  BY <1>13 DEF StartServing, ServeRefused, FactoryListens, FactoryFails,
     InstallServingListener, SpawnCtxListenerCloser, CloserCancelled, CloserStopped,
     AcceptConn, RejectConn, AcceptLoopReturns, SignalAcceptExited, StopWatcher, WgWait,
     StopServing, CloseListener, CtxCancelled
<1>14. ASSUME UNCHANGED vars PROVE UNCHANGED <<count, drained, drainedClosed, sessionsDrained, sd>>
  BY <1>14 DEF vars
<1>15. QED
  BY <1>1, <1>2, <1>3, <1>4, <1>5, <1>6, <1>7, <1>8, <1>9, <1>10, <1>11, <1>12, <1>13, <1>14
  DEF Next, HandleAccepted, ServeStep, CloserStep, HandlerStep, ShutdownStep, Finished

\* Contexts, sockets and closers keep their types.
LEMMA SocketStep ==
  ASSUME ServeInv, SocketTypes, [Next]_vars
  PROVE  SocketTypes'
<1> USE ServeAssumption DEF ServeInv, ServeTypes, SocketTypes, serveVars, reserveVars,
        wgVars, sessionVars, callerVars
<1>1. CASE UNCHANGED <<ctxDone, lsn, closer>>
  BY <1>1
<1>2. ASSUME NEW v \in Serves, FactoryListens(v) PROVE SocketTypes'
  BY <1>2 DEF FactoryListens
<1>3. ASSUME NEW v \in Serves, InstallServingListener(v) PROVE SocketTypes'
  BY <1>3 DEF InstallServingListener
<1>4. ASSUME NEW v \in Serves, SpawnCtxListenerCloser(v) PROVE SocketTypes'
  BY <1>4 DEF SpawnCtxListenerCloser
<1>5. ASSUME NEW v \in Serves, CloserCancelled(v) PROVE SocketTypes'
  BY <1>5 DEF CloserCancelled
<1>6. ASSUME NEW v \in Serves, CloserStopped(v) PROVE SocketTypes'
  BY <1>6 DEF CloserStopped
<1>7. ASSUME NEW v \in Serves, StopWatcher(v) PROVE SocketTypes'
  BY <1>7 DEF StopWatcher
<1>8. ASSUME NEW v \in Serves, StopServing(v) PROVE SocketTypes'
  BY <1>8 DEF StopServing
<1>9. ASSUME NEW v \in Serves, CloseListener(v) PROVE SocketTypes'
  BY <1>9 DEF CloseListener
<1>10. ASSUME NEW v \in Serves, CtxCancelled(v) PROVE SocketTypes'
  BY <1>10 DEF CtxCancelled
<1>11. ASSUME NEW s \in Callers, CancelServe(s) PROVE SocketTypes'
  BY <1>11 DEF CancelServe
<1>12. ASSUME NEW v \in Serves, NEW h \in Handlers, 
               DispatchConn(v, h)
     PROVE  UNCHANGED <<ctxDone, lsn, closer>>
  BY <1>12 DEF DispatchConn
<1>13. ASSUME NEW h \in Handlers, 
               ArmHandshakeTimeout(h) \/ WatcherStops(h) \/ WatcherDone(h)
            \/ HandlerDone(h)
     PROVE  UNCHANGED <<ctxDone, lsn, closer>>
  BY <1>13 DEF ArmHandshakeTimeout, WatcherStops, WatcherDone, HandlerDone
<1>14. ASSUME NEW v \in Serves, 
               StartServing(v) \/ ServeRefused(v) \/ FactoryFails(v)
            \/ AcceptConn(v) \/ RejectConn(v) \/ AcceptLoopReturns(v)
            \/ SignalAcceptExited(v) \/ WgWait(v)
     PROVE  UNCHANGED <<ctxDone, lsn, closer>>
  BY <1>14 DEF StartServing, ServeRefused, FactoryFails, AcceptConn, RejectConn,
     AcceptLoopReturns, SignalAcceptExited, WgWait
<1>15. ASSUME NEW s \in Callers, 
               CaptureShutdownState(s) \/ WaitAcceptLoop(s) \/ DrainFuture(s)
            \/ DrainObserved(s) \/ DrainGivesUp(s)
     PROVE  UNCHANGED <<ctxDone, lsn, closer>>
  BY <1>15 DEF CaptureShutdownState, WaitAcceptLoop, DrainFuture, DrainObserved,
     DrainGivesUp
<1>16. ASSUME UNCHANGED vars PROVE UNCHANGED <<ctxDone, lsn, closer>>
  BY <1>16 DEF vars
<1>17. QED
  BY <1>1, <1>2, <1>3, <1>4, <1>5, <1>6, <1>7, <1>8, <1>9, <1>10, <1>11, <1>12, <1>13,
     <1>14, <1>15, <1>16
  DEF Next, HandleAccepted, ServeStep, CloserStep, HandlerStep, ShutdownStep, Finished

\* DrainInv is an invariant.
THEOREM DrainInvariant == Spec => []DrainInv
<1>1. Init => DrainInv
  <2> SUFFICES ASSUME Init PROVE DrainInv
    OBVIOUS
  <2>1. Busy = {} /\ Watching = {}
    BY DEF Init, Busy, Watching
  <2>2. CountInv
    BY <2>1, FS_EmptySet DEF Init, CountInv
  <2>3. ChannelInv
    BY DEF Init, ChannelInv
  <2>4. SocketTypes
    BY DEF Init, SocketTypes
  <2>5. QED BY <2>2, <2>3, <2>4 DEF DrainInv
<1>2. ServeInv /\ NoAcceptAfterShutdown /\ DrainInv /\ [Next]_vars => DrainInv'
  BY CountStep, ChannelStep, SocketStep DEF DrainInv
<1>3. QED
  BY <1>1, <1>2, ServeInvariant, AcceptingIsOver, PTL DEF Spec

\* Serve, its closer, the handlers and Shutdown leave the state well formed; in particular
\* lifecycleWaitGroup's count never becomes negative.
THEOREM TypeCorrect == Spec => []TypeOK
<1>1. ServeInv /\ DrainInv => TypeOK
  <2> SUFFICES ASSUME ServeInv, DrainInv PROVE TypeOK
    OBVIOUS
  <2>1. drainedClosed \subseteq Nat
    BY DEF DrainInv, ChannelInv
  <2>2. QED
    BY <2>1 DEF ServeInv, ServeTypes, DrainInv, CountInv, ChannelInv, SocketTypes, TypeOK
<1>2. QED
  BY <1>1, ServeInvariant, DrainInvariant, PTL

\* A Shutdown that takes the captured drain channel as closed has outlived every session
\* handler and every handshake watcher, and none starts after it.
THEOREM DrainComplete == Spec => []DrainIsComplete
<1>1. DrainInv => DrainIsComplete
  <2> SUFFICES ASSUME DrainInv, NEW s \in Callers, sd[s] = "drained"
               PROVE  Busy \cup Watching = {}
    BY DEF DrainIsComplete, DrainInv, CountInv, Busy, Watching
  <2>1. drained \in drainedClosed
    BY DEF DrainInv, ChannelInv
  <2>2. ~(count > 0)
    BY <2>1 DEF DrainInv, ChannelInv
  <2>3. QED
    BY <2>2, LiveCounted DEF DrainInv
<1>2. QED
  BY <1>1, DrainInvariant, PTL
=============================================================================
