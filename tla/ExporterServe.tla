---------------------------- MODULE ExporterServe ----------------------------
(***************************************************************************)
(* Exporter.Serve against Exporter.Shutdown (internal/app/exporter.go):    *)
(* the reservation of the serving lifecycle, the listener factory, the     *)
(* accept loop, the goroutine that closes the listener on cancellation,    *)
(* and the drain future Shutdown captures from sessionsWG.  The facade     *)
(* ListenAndServe (pkg/usbip/usbip.go) closes the listener it created.     *)
(*                                                                         *)
(* A session handler is a goroutine that starts, arms its handshake        *)
(* watcher and ends; what it does in between is module ExporterSession.    *)
(* Channels have identities: acceptLoopExited is fresh for every Serve and *)
(* the drain channel of lifecycleWaitGroup is fresh whenever its count     *)
(* leaves zero, so holding the wrong one is a behaviour of the model.      *)
(***************************************************************************)
EXTENDS Integers, FiniteSets

CONSTANTS
    Serves,     \* calls of Serve, also naming their context, listener and acceptLoopExited
    Handlers,   \* connections that may be accepted
    Callers,    \* calls of Shutdown
    None        \* a nil pointer

ASSUME ServeAssumption ==
    /\ None \notin Serves
    /\ IsFiniteSet(Handlers)

VARIABLES
    (* Exporter, under mu *)
    shutdown,          \* e.shutdown
    serving,           \* e.serving
    listener,          \* e.listener
    serveCancel,       \* e.serveCancel
    acceptLoopExited,  \* e.acceptLoopExited
    (* Serve calls *)
    sv,                \* where a call of Serve stands
    ctxDone,           \* serve contexts that are cancelled
    lsn,               \* the socket of a call's listener
    exitedClosed,      \* acceptLoopExited channels that are closed
    closer,            \* the goroutine of spawnCtxListenerCloser
    (* sessions *)
    handler,           \* a session handler
    watcher,           \* its handshake watcher
    count,             \* sessionsWG.count
    drained,           \* the number of sessionsWG's current drain channel; 0 is nil
    drainedClosed,     \* drain channels that are closed
    sessionsDrained,   \* e.sessionsDrained, captured once; 0 before
    (* Shutdown calls *)
    sd,                \* where a call of Shutdown stands
    snapshot           \* what captureShutdownState returned to it

serveVars   == <<sv, lsn, exitedClosed, closer>>
reserveVars == <<shutdown, serving, listener, serveCancel, acceptLoopExited>>
wgVars      == <<count, drained, drainedClosed>>
sessionVars == <<handler, watcher, wgVars, sessionsDrained>>
callerVars  == <<sd, snapshot>>

vars == <<reserveVars, serveVars, ctxDone, sessionVars, callerVars>>

ServeStates ==
    {"idle", "factory", "install", "spawn", "accepting", "accepted", "loopExited",
     "stopWatcher", "wgWait", "abort", "stopServing", "close", "returned"}
CallerStates == {"idle", "cancel", "waitAccept", "capture", "wait", "drained", "gaveUp"}

\* Calls that hold the reservation of startServing.
Reserved == {v \in Serves : sv[v] \notin {"idle", "close", "returned"}}

TypeOK ==
    /\ shutdown \in BOOLEAN /\ serving \in BOOLEAN
    /\ {listener, serveCancel, acceptLoopExited} \subseteq Serves \cup {None}
    /\ sv \in [Serves -> ServeStates]
    /\ ctxDone \subseteq Serves
    /\ lsn \in [Serves -> {"none", "open", "closed"}]
    /\ exitedClosed \subseteq Serves
    /\ closer \in [Serves -> {"off", "running", "stopping", "done"}]
    /\ handler \in [Handlers -> {"new", "running", "armed", "exited"}]
    /\ watcher \in [Handlers -> {"off", "running", "closing", "done"}]
    /\ count \in Nat
    /\ drained \in Nat /\ drainedClosed \subseteq Nat /\ sessionsDrained \in Nat
    /\ sd \in [Callers -> CallerStates]
    /\ snapshot \in [Callers -> [first : BOOLEAN, listener : Serves \cup {None},
                                 cancel : Serves \cup {None}, exited : Serves \cup {None}]]

Init ==
    /\ shutdown = FALSE /\ serving = FALSE
    /\ listener = None /\ serveCancel = None /\ acceptLoopExited = None
    /\ sv = [v \in Serves |-> "idle"]
    /\ ctxDone = {}
    /\ lsn = [v \in Serves |-> "none"]
    /\ exitedClosed = {}
    /\ closer = [v \in Serves |-> "off"]
    /\ handler = [h \in Handlers |-> "new"]
    /\ watcher = [h \in Handlers |-> "off"]
    /\ count = 0 /\ drained = 0 /\ drainedClosed = {} /\ sessionsDrained = 0
    /\ sd = [s \in Callers |-> "idle"]
    /\ snapshot = [s \in Callers |-> [first |-> FALSE, listener |-> None, cancel |-> None,
                                      exited |-> None]]

-----------------------------------------------------------------------------
(* lifecycleWaitGroup.                                                     *)

\* Add(1): leaving zero makes a fresh drain channel.
WGAdd ==
    /\ count' = count + 1
    /\ drained' = IF count = 0 THEN drained + 1 ELSE drained
    /\ UNCHANGED drainedClosed

\* Add(-1): reaching zero closes the current drain channel.
WGDone ==
    /\ count' = count - 1
    /\ drainedClosed' = IF count = 1 THEN drainedClosed \cup {drained} ELSE drainedClosed
    /\ UNCHANGED drained

-----------------------------------------------------------------------------
(* Serve.                                                                  *)

\* Fault: an overlapping Serve is not refused.
MayServe_Overlap == ~shutdown

\* Fault: a Serve that comes after Shutdown is not refused.
MayServe_AfterShutdown == ~serving

\* startServing's two checks.
MayServe == ~shutdown /\ ~serving

StartServing(v) ==
    /\ sv[v] = "idle"
    /\ MayServe
    /\ serving' = TRUE
    /\ listener' = None
    /\ serveCancel' = v
    /\ acceptLoopExited' = v
    /\ sv' = [sv EXCEPT ![v] = "factory"]
    /\ UNCHANGED <<shutdown, lsn, exitedClosed, closer, ctxDone, sessionVars, callerVars>>

\* ErrAlreadyShutdown or ErrServeAlreadyRunning, before the factory runs.
ServeRefused(v) ==
    /\ sv[v] = "idle"
    /\ ~MayServe
    /\ sv' = [sv EXCEPT ![v] = "returned"]
    /\ UNCHANGED <<lsn, exitedClosed, closer, reserveVars, ctxDone, sessionVars, callerVars>>

\* The factory returns a listener.
FactoryListens(v) ==
    /\ sv[v] = "factory"
    /\ lsn' = [lsn EXCEPT ![v] = "open"]
    /\ sv' = [sv EXCEPT ![v] = "install"]
    /\ UNCHANGED <<exitedClosed, closer, reserveVars, ctxDone, sessionVars, callerVars>>

\* It fails, for instance because its context was cancelled.
FactoryFails(v) ==
    /\ sv[v] = "factory"
    /\ sv' = [sv EXCEPT ![v] = "abort"]
    /\ UNCHANGED <<lsn, exitedClosed, closer, reserveVars, ctxDone, sessionVars, callerVars>>

\* installServingListener; after Shutdown the listener is closed instead.
InstallServingListener(v) ==
    /\ sv[v] = "install"
    /\ \/ /\ ~shutdown
          /\ listener' = v
          /\ sv' = [sv EXCEPT ![v] = "spawn"]
          /\ UNCHANGED lsn
       \/ /\ shutdown
          /\ lsn' = [lsn EXCEPT ![v] = "closed"]
          /\ sv' = [sv EXCEPT ![v] = "abort"]
          /\ UNCHANGED listener
    /\ UNCHANGED <<shutdown, serving, serveCancel, acceptLoopExited, exitedClosed, closer,
                   ctxDone, sessionVars, callerVars>>

SpawnCtxListenerCloser(v) ==
    /\ sv[v] = "spawn"
    /\ closer' = [closer EXCEPT ![v] = "running"]
    /\ sv' = [sv EXCEPT ![v] = "accepting"]
    /\ UNCHANGED <<lsn, exitedClosed, reserveVars, ctxDone, sessionVars, callerVars>>

\* The closer's select takes ctx.Done() and closes the listener.
CloserCancelled(v) ==
    /\ closer[v] \in {"running", "stopping"}
    /\ v \in ctxDone
    /\ lsn' = [lsn EXCEPT ![v] = "closed"]
    /\ closer' = [closer EXCEPT ![v] = "done"]
    /\ UNCHANGED <<sv, exitedClosed, reserveVars, ctxDone, sessionVars, callerVars>>

\* It takes stop.
CloserStopped(v) ==
    /\ closer[v] = "stopping"
    /\ closer' = [closer EXCEPT ![v] = "done"]
    /\ UNCHANGED <<sv, lsn, exitedClosed, reserveVars, ctxDone, sessionVars, callerVars>>

\* Accept returns a connection; its listener may be closed before anything comes of it.
AcceptConn(v) ==
    /\ sv[v] = "accepting"
    /\ lsn[v] = "open"
    /\ sv' = [sv EXCEPT ![v] = "accepted"]
    /\ UNCHANGED <<lsn, exitedClosed, closer, reserveVars, ctxDone, sessionVars, callerVars>>

\* The ACL or the rate limit refuses it, and the loop goes on.
RejectConn(v) ==
    /\ sv[v] = "accepted"
    /\ sv' = [sv EXCEPT ![v] = "accepting"]
    /\ UNCHANGED <<lsn, exitedClosed, closer, reserveVars, ctxDone, sessionVars, callerVars>>

\* sessionsWG.Go starts its handler, whatever became of the listener.
DispatchConn(v, h) ==
    /\ sv[v] = "accepted"
    /\ handler[h] = "new"
    /\ sv' = [sv EXCEPT ![v] = "accepting"]
    /\ handler' = [handler EXCEPT ![h] = "running"]
    /\ WGAdd
    /\ UNCHANGED <<lsn, exitedClosed, closer, watcher, sessionsDrained, reserveVars, ctxDone,
                   callerVars>>

\* Accept fails: its listener was closed, or a permanent error occurred.
AcceptLoopReturns(v) ==
    /\ sv[v] = "accepting"
    /\ sv' = [sv EXCEPT ![v] = "loopExited"]
    /\ UNCHANGED <<lsn, exitedClosed, closer, reserveVars, ctxDone, sessionVars, callerVars>>

\* Fault: an early return of Serve leaves acceptLoopExited open.
SignalAcceptExited_LoopOnly(v) ==
    /\ sv[v] \in {"loopExited", "abort"}
    /\ exitedClosed' = IF sv[v] = "abort" THEN exitedClosed ELSE exitedClosed \cup {v}
    /\ sv' = [sv EXCEPT ![v] = IF @ = "abort" THEN "stopServing" ELSE "stopWatcher"]
    /\ UNCHANGED <<lsn, closer, reserveVars, ctxDone, sessionVars, callerVars>>

\* close(acceptLoopExited), after the loop or by the deferred call on an early return.
SignalAcceptExited(v) ==
    /\ sv[v] \in {"loopExited", "abort"}
    /\ exitedClosed' = exitedClosed \cup {v}
    /\ sv' = [sv EXCEPT ![v] = IF @ = "abort" THEN "stopServing" ELSE "stopWatcher"]
    /\ UNCHANGED <<lsn, closer, reserveVars, ctxDone, sessionVars, callerVars>>

StopWatcher(v) ==
    /\ sv[v] = "stopWatcher"
    /\ closer' = [closer EXCEPT ![v] = IF @ = "running" THEN "stopping" ELSE @]
    /\ sv' = [sv EXCEPT ![v] = "wgWait"]
    /\ UNCHANGED <<lsn, exitedClosed, reserveVars, ctxDone, sessionVars, callerVars>>

\* e.wg.Wait(): Serve waits for the closer, not for the sessions.
WgWait(v) ==
    /\ sv[v] = "wgWait"
    /\ closer[v] = "done"
    /\ sv' = [sv EXCEPT ![v] = "stopServing"]
    /\ UNCHANGED <<lsn, exitedClosed, closer, reserveVars, ctxDone, sessionVars, callerVars>>

\* The deferred stopServing gives up the reservation and cancels the serve context.
StopServing(v) ==
    /\ sv[v] = "stopServing"
    /\ serving' = FALSE
    /\ listener' = None
    /\ serveCancel' = None
    /\ ctxDone' = ctxDone \cup ({serveCancel} \ {None})
    /\ sv' = [sv EXCEPT ![v] = "close"]
    /\ UNCHANGED <<shutdown, acceptLoopExited, lsn, exitedClosed, closer, sessionVars,
                   callerVars>>

\* ListenAndServe's deferred Close.
CloseListener(v) ==
    /\ sv[v] = "close"
    /\ lsn' = [lsn EXCEPT ![v] = IF @ = "open" THEN "closed" ELSE @]
    /\ sv' = [sv EXCEPT ![v] = "returned"]
    /\ UNCHANGED <<exitedClosed, closer, reserveVars, ctxDone, sessionVars, callerVars>>

\* The caller of Serve cancels its context.
CtxCancelled(v) ==
    /\ v \in Reserved
    /\ ctxDone' = ctxDone \cup {v}
    /\ UNCHANGED <<reserveVars, serveVars, sessionVars, callerVars>>

-----------------------------------------------------------------------------
(* Session handlers.                                                       *)

\* Fault: the watcher is started without being counted.
ArmHandshakeTimeout_Uncounted(h) ==
    /\ handler[h] = "running"
    /\ handler' = [handler EXCEPT ![h] = "armed"]
    /\ watcher' = [watcher EXCEPT ![h] = "running"]
    /\ UNCHANGED <<wgVars, sessionsDrained, serveVars, reserveVars, ctxDone, callerVars>>

\* armHandshakeTimeout adds the watcher to sessionsWG from inside a handler.
ArmHandshakeTimeout(h) ==
    /\ handler[h] = "running"
    /\ handler' = [handler EXCEPT ![h] = "armed"]
    /\ watcher' = [watcher EXCEPT ![h] = "running"]
    /\ WGAdd
    /\ UNCHANGED <<sessionsDrained, serveVars, reserveVars, ctxDone, callerVars>>

\* The watcher closes `stopped`; its Done follows.
WatcherStops(h) ==
    /\ watcher[h] = "running"
    /\ watcher' = [watcher EXCEPT ![h] = "closing"]
    /\ UNCHANGED <<handler, wgVars, sessionsDrained, serveVars, reserveVars, ctxDone,
                   callerVars>>

WatcherDone(h) ==
    /\ watcher[h] = "closing"
    /\ watcher' = [watcher EXCEPT ![h] = "done"]
    /\ WGDone
    /\ UNCHANGED <<handler, sessionsDrained, serveVars, reserveVars, ctxDone, callerVars>>

\* The handler returns; its deferred stopTimeout has seen `stopped`.
HandlerDone(h) ==
    /\ handler[h] = "armed"
    /\ watcher[h] # "running"
    /\ handler' = [handler EXCEPT ![h] = "exited"]
    /\ WGDone
    /\ UNCHANGED <<watcher, sessionsDrained, serveVars, reserveVars, ctxDone, callerVars>>

-----------------------------------------------------------------------------
(* Shutdown.                                                               *)

CaptureShutdownState(s) ==
    /\ sd[s] = "idle"
    /\ shutdown' = TRUE
    /\ listener' = IF shutdown THEN listener ELSE None
    /\ snapshot' = [snapshot EXCEPT ![s] = [first |-> ~shutdown, listener |-> listener,
                                            cancel |-> serveCancel,
                                            exited |-> acceptLoopExited]]
    /\ sd' = [sd EXCEPT ![s] = IF shutdown THEN "waitAccept" ELSE "cancel"]
    /\ UNCHANGED <<serving, serveCancel, acceptLoopExited, serveVars, ctxDone, sessionVars>>

\* The first call cancels the serve context and closes the listener.  Both only enable
\* Serve's own steps, in either order.
CancelServe(s) ==
    /\ sd[s] = "cancel"
    /\ ctxDone' = ctxDone \cup ({snapshot[s].cancel} \ {None})
    /\ lsn' = [v \in Serves |-> IF v = snapshot[s].listener THEN "closed" ELSE lsn[v]]
    /\ sd' = [sd EXCEPT ![s] = "waitAccept"]
    /\ UNCHANGED <<snapshot, sv, exitedClosed, closer, reserveVars, sessionVars>>

\* Fault: the drain future is captured while the accept loop still runs.
WaitAcceptLoop_Skipped(s) ==
    /\ sd[s] = "waitAccept"
    /\ sd' = [sd EXCEPT ![s] = "capture"]
    /\ UNCHANGED <<snapshot, reserveVars, serveVars, ctxDone, sessionVars>>

\* <-acceptLoopExited, skipped when Serve never ran.
WaitAcceptLoop(s) ==
    /\ sd[s] = "waitAccept"
    /\ snapshot[s].exited \in exitedClosed \cup {None}
    /\ sd' = [sd EXCEPT ![s] = "capture"]
    /\ UNCHANGED <<snapshot, reserveVars, serveVars, ctxDone, sessionVars>>

\* drainFuture: the first call captures sessionsWG.DoneChan(), which is a closed channel
\* when no handler ever ran.
DrainFuture(s) ==
    /\ sd[s] = "capture"
    /\ \/ /\ sessionsDrained # 0
          /\ UNCHANGED <<sessionsDrained, wgVars>>
       \/ /\ sessionsDrained = 0
          /\ drained # 0
          /\ sessionsDrained' = drained
          /\ UNCHANGED wgVars
       \/ /\ sessionsDrained = 0
          /\ drained = 0
          /\ drained' = 1
          /\ drainedClosed' = drainedClosed \cup {1}
          /\ sessionsDrained' = 1
          /\ UNCHANGED count
    /\ sd' = [sd EXCEPT ![s] = "wait"]
    /\ UNCHANGED <<snapshot, handler, watcher, reserveVars, serveVars, ctxDone>>

\* The captured channel is closed: Shutdown reports a completed drain.
DrainObserved(s) ==
    /\ sd[s] = "wait"
    /\ sessionsDrained \in drainedClosed
    /\ sd' = [sd EXCEPT ![s] = "drained"]
    /\ UNCHANGED <<snapshot, reserveVars, serveVars, ctxDone, sessionVars>>

\* The deadline passes first.
DrainGivesUp(s) ==
    /\ sd[s] = "wait"
    /\ sessionsDrained \notin drainedClosed
    /\ sd' = [sd EXCEPT ![s] = "gaveUp"]
    /\ UNCHANGED <<snapshot, reserveVars, serveVars, ctxDone, sessionVars>>

-----------------------------------------------------------------------------

\* Steps of Serve that wait for nobody outside the process.
ServeStep(v) ==
    \/ StartServing(v) \/ ServeRefused(v) \/ InstallServingListener(v)
    \/ SpawnCtxListenerCloser(v) \/ SignalAcceptExited(v) \/ StopWatcher(v) \/ WgWait(v)
    \/ StopServing(v) \/ CloseListener(v)

CloserStep(v) == CloserCancelled(v) \/ CloserStopped(v)

HandleAccepted(v) == RejectConn(v) \/ \E h \in Handlers : DispatchConn(v, h)

HandlerStep(h) ==
    ArmHandshakeTimeout(h) \/ WatcherStops(h) \/ WatcherDone(h) \/ HandlerDone(h)

ShutdownStep(s) ==
    CancelServe(s) \/ WaitAcceptLoop(s) \/ DrainFuture(s) \/ DrainObserved(s)

Finished ==
    /\ \A v \in Serves : sv[v] = "returned"
    /\ \A s \in Callers : sd[s] \in {"drained", "gaveUp"}
    /\ UNCHANGED vars

Next ==
    \/ \E v \in Serves :
          \/ ServeStep(v) \/ CloserStep(v)
          \/ FactoryListens(v) \/ FactoryFails(v) \/ AcceptLoopReturns(v) \/ CtxCancelled(v)
          \/ AcceptConn(v) \/ HandleAccepted(v)
    \/ \E h \in Handlers : HandlerStep(h)
    \/ \E s \in Callers : CaptureShutdownState(s) \/ ShutdownStep(s) \/ DrainGivesUp(s)
    \/ Finished

Spec == Init /\ [][Next]_vars

\* Serve and its closer run, a factory returns once its context is cancelled (the contract
\* of ServeWithListenerFactory), Accept returns once the listener is closed, what it
\* returned is dispatched or refused, and Shutdown runs.  Session handlers need not end.
Fairness ==
    /\ \A v \in Serves :
          /\ WF_vars(~(sv[v] = "idle") /\ ServeStep(v))
          /\ WF_vars(CloserStep(v)) /\ WF_vars(HandleAccepted(v))
          /\ WF_vars(v \in ctxDone /\ (FactoryListens(v) \/ FactoryFails(v)))
          /\ WF_vars(lsn[v] = "closed" /\ AcceptLoopReturns(v))
    /\ \A s \in Callers : WF_vars(ShutdownStep(s))

FairSpec == Spec /\ Fairness

-----------------------------------------------------------------------------
(* Properties.                                                             *)

\* When Shutdown takes the captured drain channel as closed, no handler and no handshake
\* watcher runs, and none starts later: the captured channel was the last one.
DrainIsComplete ==
    (\E s \in Callers : sd[s] = "drained") =>
       \A h \in Handlers : handler[h] \in {"new", "exited"} /\ watcher[h] \in {"off", "done"}

\* Once a Shutdown call is past its wait for the accept loop, no call of Serve accepts or
\* will: every listener is closed or belongs to a call that is only closing it, whichever
\* side won the race between the factory and Shutdown.
NoAcceptAfterShutdown ==
    (\E s \in Callers : sd[s] \in {"capture", "wait", "drained", "gaveUp"}) =>
       \A v \in Serves : sv[v] \notin {"factory", "install", "spawn", "accepting", "accepted"}

\* At most one call holds the serving reservation, and what Shutdown would cancel, close and
\* wait for is that call's: e.serveCancel and e.acceptLoopExited name it.
ReservationIsExclusive ==
    /\ \A v, w \in Reserved : v = w
    /\ \A v \in Reserved : serving /\ serveCancel = v /\ acceptLoopExited = v

\* A cancelled Serve returns although its sessions may run for ever.
CancelledServeReturns ==
    \A v \in Serves : (v \in ctxDone) ~> (sv[v] = "returned")

\* A Serve whose accept loop ended returns, also on a permanent accept error, when nothing
\* cancels its context: the closer goroutine has to be told to stop.
EndedServeReturns ==
    \A v \in Serves : (sv[v] = "loopExited") ~> (sv[v] = "returned")

\* Every call of Shutdown gets past the accept loop, whatever stage of setup Serve was in,
\* and sees the drain unless a handler runs on (acceptLoopExited, drainFuture).
ShutdownDrains ==
    \A s \in Callers :
       (sd[s] # "idle") ~>
          \/ sd[s] \in {"drained", "gaveUp"}
          \/ sd[s] = "wait" /\ \E h \in Handlers : handler[h] \in {"running", "armed"}
                                                  \/ watcher[h] \in {"running", "closing"}

\* Serve and Shutdown come back, for whichever reason the accept loop ended.
ServeEnds == CancelledServeReturns /\ EndedServeReturns /\ ShutdownDrains
=============================================================================
