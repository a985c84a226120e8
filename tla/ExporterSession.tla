--------------------------- MODULE ExporterSession ---------------------------
(***************************************************************************)
(* The exporter's session lifecycle (internal/app/exporter.go and          *)
(* session.go): one goroutine per accepted connection runs the USB/IP      *)
(* handshake, registers a session, hands the socket to the kernel and      *)
(* parks until the session ends, while any number of Shutdown callers      *)
(* cancel, disconnect and drain.  The state machine of sessionHandle       *)
(* (handoffState, cancelled, cleanupClaimed, cleanupDone) decides who owns *)
(* the kernel Disconnect of a session.                                     *)
(*                                                                         *)
(* One action is one critical section (of Exporter.mu or of a handle's     *)
(* handoffMu), one kernel call, or one channel operation that another      *)
(* goroutine can observe.  The accept loop is reduced to `accepting`; its  *)
(* own races are in module ExporterServe.                                  *)
(***************************************************************************)
EXTENDS Integers, FiniteSets

CONSTANTS
    Conns,               \* connections that may be accepted, each naming its session and handle
    Peers,               \* peer keys (peerKeyFromAddr)
    BusIDs,              \* exportable devices
    Callers,             \* calls of Exporter.Shutdown
    PeerOf,              \* the peer of a connection
    BusOf,               \* the busid a connection asks to import
    MaxSessions,         \* cfg.maxSessions; 0 disables the cap
    MaxSessionsPerPeer,  \* cfg.maxSessionsPerPeer; 0 disables the cap
    MaxRebinds,          \* bound on how often an operator re-binds a device
    None                 \* no owner

ASSUME SessionAssumption ==
    /\ PeerOf \in [Conns -> Peers]
    /\ BusOf \in [Conns -> BusIDs]
    /\ MaxSessions \in Nat
    /\ MaxSessionsPerPeer \in Nat
    /\ MaxRebinds \in Nat
    /\ None \notin Conns

VARIABLES
    (* Exporter, under mu *)
    shutdown,         \* e.shutdown
    accepting,        \* the accept loop runs (acceptLoopExited is open)
    sessions,         \* connections with an entry in e.sessions
    perPeer,          \* e.perPeer
    shutdownHandles,  \* e.shutdownHandles, the first Shutdown's snapshot
    (* handler goroutine of a connection *)
    pc,               \* where handleConn stands
    watcher,          \* the goroutine of armHandshakeTimeout
    connOpen,         \* the handler's own reference of the socket is open
    reason,           \* handle.disconnectReason
    (* sessionHandle, under handoffMu *)
    handoffState,     \* kernelHandoffState
    cancelled,        \* Shutdown signalled the handle
    done,             \* handle.done is closed
    cleanupClaimed,   \* somebody owns the cleanup
    cleanupDone,      \* how often close(cleanupDone) ran; the second close panics
    cleanupErr,       \* the stored Disconnect failed
    (* disconnectSession *)
    disconnector,     \* the goroutine spawnGracefulDisconnects starts
    disconnects,      \* kernel.Disconnect calls made for a session
    (* the kernel and its events *)
    bound,            \* the device is bound to usbip-host
    owner,            \* the connection whose socket the kernel exports the device on
    uevents,          \* devices with an unbind uevent under way
    rebinds,          \* how often a device was re-bound
    events,           \* the session's KernelEvents subscription
    queued,           \* a matching DeviceUnboundEvent is buffered in it
    (* Shutdown calls *)
    sd,               \* where a call of Shutdown stands
    todo,             \* handles the first call has still to signal
    expired,          \* its drain deadline has passed
    result,           \* what it returned so far
    (* WatchSessions *)
    subscribersClosed,\* closeAllSubscribers ran
    feed              \* the last event of a session a watcher was sent

exporterVars == <<shutdown, accepting, sessions, perPeer, shutdownHandles>>
handlerVars  == <<pc, watcher, connOpen, reason>>
handleVars   == <<handoffState, cancelled, done, cleanupClaimed, cleanupDone, cleanupErr>>
discVars     == <<disconnector, disconnects>>
kernelVars   == <<bound, owner, uevents, rebinds>>
eventVars    == <<events, queued>>
callerVars   == <<sd, todo, expired, result>>
watchVars    == <<subscribersClosed, feed>>

vars == <<exporterVars, handlerVars, handleVars, discVars, kernelVars, eventVars,
          callerVars, watchVars>>

HandoffStates == {"NotStarted", "InProgress", "Succeeded", "Failed"}
Reasons == {"none", "client_gone", "kernel_error", "shutdown", "protocol_error"}
HandlerStates ==
    {"new", "handshake", "lookup", "register", "started", "subscribe", "reply",
     "stopExit", "stopEnd", "stopHandoff", "handoff", "exporting", "exported",
     "exportFailed", "parked", "completing", "disconnect", "disconnected",
     "disconnectFailed", "end", "unregister", "publishEnded", "exited"}
CallerStates ==
    {"idle", "signal", "waitAccept", "waitSessions", "grace", "waitCleanup",
     "closeSubscribers", "returned"}

TypeOK ==
    /\ shutdown \in BOOLEAN
    /\ accepting \in BOOLEAN
    /\ sessions \subseteq Conns
    /\ perPeer \in [Peers -> Nat]
    /\ shutdownHandles \subseteq Conns
    /\ pc \in [Conns -> HandlerStates]
    /\ watcher \in [Conns -> {"off", "armed", "stopping", "stopped"}]
    /\ connOpen \in [Conns -> BOOLEAN]
    /\ reason \in [Conns -> Reasons]
    /\ handoffState \in [Conns -> HandoffStates]
    /\ cancelled \in [Conns -> BOOLEAN]
    /\ done \in [Conns -> BOOLEAN]
    /\ cleanupClaimed \in [Conns -> BOOLEAN]
    /\ cleanupDone \in [Conns -> Nat]
    /\ cleanupErr \in [Conns -> BOOLEAN]
    /\ disconnector \in [Conns -> {"none", "call", "ok", "failed", "finished"}]
    /\ disconnects \in [Conns -> Nat]
    /\ bound \in [BusIDs -> BOOLEAN]
    /\ owner \in [BusIDs -> Conns \cup {None}]
    /\ uevents \subseteq BusIDs
    /\ rebinds \in Nat
    /\ events \in [Conns -> {"none", "open", "closed"}]
    /\ queued \in [Conns -> BOOLEAN]
    /\ sd \in [Callers -> CallerStates]
    /\ todo \subseteq Conns
    /\ expired \in [Callers -> BOOLEAN]
    /\ result \in [Callers -> {"nil", "error"}]
    /\ subscribersClosed \in BOOLEAN
    /\ feed \in [Conns -> {"none", "started", "ended"}]

Init ==
    /\ shutdown = FALSE
    /\ accepting = TRUE
    /\ sessions = {}
    /\ perPeer = [p \in Peers |-> 0]
    /\ shutdownHandles = {}
    /\ pc = [c \in Conns |-> "new"]
    /\ watcher = [c \in Conns |-> "off"]
    /\ connOpen = [c \in Conns |-> TRUE]
    /\ reason = [c \in Conns |-> "none"]
    /\ handoffState = [c \in Conns |-> "NotStarted"]
    /\ cancelled = [c \in Conns |-> FALSE]
    /\ done = [c \in Conns |-> FALSE]
    /\ cleanupClaimed = [c \in Conns |-> FALSE]
    /\ cleanupDone = [c \in Conns |-> 0]
    /\ cleanupErr = [c \in Conns |-> FALSE]
    /\ disconnector = [c \in Conns |-> "none"]
    /\ disconnects = [c \in Conns |-> 0]
    /\ bound = [b \in BusIDs |-> TRUE]
    /\ owner = [b \in BusIDs |-> None]
    /\ uevents = {}
    /\ rebinds = 0
    /\ events = [c \in Conns |-> "none"]
    /\ queued = [c \in Conns |-> FALSE]
    /\ sd = [s \in Callers |-> "idle"]
    /\ todo = {}
    /\ expired = [s \in Callers |-> FALSE]
    /\ result = [s \in Callers |-> "nil"]
    /\ subscribersClosed = FALSE
    /\ feed = [c \in Conns |-> "none"]

-----------------------------------------------------------------------------
(* Accepting and the handshake.                                            *)

\* acceptLoop dispatches a connection; handleConn arms the handshake timeout first.
Accept(c) ==
    /\ accepting
    /\ pc[c] = "new"
    /\ pc' = [pc EXCEPT ![c] = "handshake"]
    /\ watcher' = [watcher EXCEPT ![c] = "armed"]
    /\ UNCHANGED <<connOpen, reason, exporterVars, handleVars, discVars, kernelVars,
                   eventVars, callerVars, watchVars>>

\* The ACL or the rate limiter refuses the connection; no handler starts.
RejectAccept(c) ==
    /\ accepting
    /\ pc[c] = "new"
    /\ pc' = [pc EXCEPT ![c] = "exited"]
    /\ connOpen' = [connOpen EXCEPT ![c] = FALSE]
    /\ UNCHANGED <<watcher, reason, exporterVars, handleVars, discVars, kernelVars,
                   eventVars, callerVars, watchVars>>

\* acceptLoop returns: its context ended, its listener was closed, or Accept failed.
AcceptLoopExit ==
    /\ accepting
    /\ accepting' = FALSE
    /\ UNCHANGED <<shutdown, sessions, perPeer, shutdownHandles, handlerVars, handleVars,
                   discVars, kernelVars, eventVars, callerVars, watchVars>>

\* stopTimeout: close(stop), then wait for the watcher in state `wait`.
StopTimeout(c, wait) ==
    /\ pc' = [pc EXCEPT ![c] = wait]
    /\ watcher' = [watcher EXCEPT ![c] = IF @ = "armed" THEN "stopping" ELSE @]

\* The watcher's select takes the timer and closes the connection.
WatcherTimer(c) ==
    /\ watcher[c] \in {"armed", "stopping"}
    /\ watcher' = [watcher EXCEPT ![c] = "stopped"]
    /\ connOpen' = [connOpen EXCEPT ![c] = FALSE]
    /\ UNCHANGED <<pc, reason, exporterVars, handleVars, discVars, kernelVars, eventVars,
                   callerVars, watchVars>>

\* The watcher's select takes stop.
WatcherStop(c) ==
    /\ watcher[c] = "stopping"
    /\ watcher' = [watcher EXCEPT ![c] = "stopped"]
    /\ UNCHANGED <<pc, connOpen, reason, exporterVars, handleVars, discVars, kernelVars,
                   eventVars, callerVars, watchVars>>

\* Fault: stopTimeout does not wait for the watcher.
WatcherDone_NoWait(c) == TRUE

\* stopTimeout returns once the watcher has closed `stopped`.
WatcherDone(c) == watcher[c] = "stopped"

StopWaited(c) ==
    /\ WatcherDone(c)
    /\ \/ /\ pc[c] = "stopExit"
          /\ pc' = [pc EXCEPT ![c] = "exited"]
          /\ connOpen' = [connOpen EXCEPT ![c] = FALSE]
       \/ /\ pc[c] = "stopEnd"
          /\ pc' = [pc EXCEPT ![c] = "end"]
          /\ UNCHANGED connOpen
       \/ /\ pc[c] = "stopHandoff"
          /\ pc' = [pc EXCEPT ![c] = "handoff"]
          /\ UNCHANGED connOpen
    /\ UNCHANGED <<watcher, reason, exporterVars, handleVars, discVars, kernelVars,
                   eventVars, callerVars, watchVars>>

\* An OP_REQ_IMPORT was decoded.
DecodeImport(c) ==
    /\ pc[c] = "handshake"
    /\ connOpen[c]
    /\ pc' = [pc EXCEPT ![c] = "lookup"]
    /\ UNCHANGED <<watcher, connOpen, reason, exporterVars, handleVars, discVars,
                   kernelVars, eventVars, callerVars, watchVars>>

\* The handler ends without a session: decode error (or the timeout closed the
\* connection), an unexpected opcode, or an OP_REQ_DEVLIST that was answered.
HandshakeEnds(c) ==
    /\ pc[c] = "handshake"
    /\ StopTimeout(c, "stopExit")
    /\ UNCHANGED <<connOpen, reason, exporterVars, handleVars, discVars, kernelVars,
                   eventVars, callerVars, watchVars>>

\* lookupExportedDevice and buildSession; either may fail, and is answered with an error.
LookupExportedDevice(c) ==
    /\ pc[c] = "lookup"
    /\ \/ /\ bound[BusOf[c]]
          /\ pc' = [pc EXCEPT ![c] = "register"]
          /\ UNCHANGED watcher
       \/ StopTimeout(c, "stopExit")
    /\ UNCHANGED <<connOpen, reason, exporterVars, handleVars, discVars, kernelVars,
                   eventVars, callerVars, watchVars>>

-----------------------------------------------------------------------------
(* Registration.                                                           *)

\* Fault: the per-peer cap admits one session too many.
BelowPerPeerLimit_OffByOne(c) ==
    MaxSessionsPerPeer > 0 => perPeer[PeerOf[c]] <= MaxSessionsPerPeer

BelowMaxSessions == MaxSessions > 0 => Cardinality(sessions) < MaxSessions
BelowPerPeerLimit(c) == MaxSessionsPerPeer > 0 => perPeer[PeerOf[c]] < MaxSessionsPerPeer
BusIDFree(c) == \A d \in sessions : BusOf[d] # BusOf[c]

\* Fault: a connection accepted before Shutdown may still register after it.
MayRegister_AfterShutdown(c) == BelowMaxSessions /\ BelowPerPeerLimit(c) /\ BusIDFree(c)

\* The conditions of registerSession, in one critical section of e.mu.
MayRegister(c) ==
    /\ ~shutdown
    /\ BelowMaxSessions
    /\ BelowPerPeerLimit(c)
    /\ BusIDFree(c)

RegisterSession(c) ==
    /\ pc[c] = "register"
    /\ MayRegister(c)
    /\ sessions' = sessions \cup {c}
    /\ perPeer' = [perPeer EXCEPT ![PeerOf[c]] = @ + 1]
    /\ pc' = [pc EXCEPT ![c] = "started"]
    /\ UNCHANGED <<shutdown, accepting, shutdownHandles, watcher, connOpen, reason,
                   handleVars, discVars, kernelVars, eventVars, callerVars, watchVars>>

\* Fault: the decline path runs unregisterSession's bookkeeping.
DeclineSession_Uncounts(c) ==
    /\ pc[c] = "register"
    /\ ~MayRegister(c)
    /\ perPeer' = [perPeer EXCEPT ![PeerOf[c]] = @ - 1]
    /\ StopTimeout(c, "stopExit")
    /\ UNCHANGED <<shutdown, accepting, sessions, shutdownHandles, connOpen, reason,
                   handleVars, discVars, kernelVars, eventVars, callerVars, watchVars>>

\* registerSession refuses; serveImport answers ST_DEV_BUSY or ST_DEV_ERR.
DeclineSession(c) ==
    /\ pc[c] = "register"
    /\ ~MayRegister(c)
    /\ StopTimeout(c, "stopExit")
    /\ UNCHANGED <<connOpen, reason, exporterVars, handleVars, discVars, kernelVars,
                   eventVars, callerVars, watchVars>>

\* publishSessionEvent reaches the subscribers that are still registered.
Publish(c, ev) == feed' = [feed EXCEPT ![c] = IF subscribersClosed THEN @ ELSE ev]

PublishStarted(c) ==
    /\ pc[c] = "started"
    /\ Publish(c, "started")
    /\ pc' = [pc EXCEPT ![c] = "subscribe"]
    /\ UNCHANGED <<watcher, connOpen, reason, exporterVars, handleVars, discVars,
                   kernelVars, eventVars, callerVars, subscribersClosed>>

\* runRegisteredSession opens the event subscription before the handoff.
Subscribe(c) ==
    /\ pc[c] = "subscribe"
    /\ \/ /\ events' = [events EXCEPT ![c] = "open"]
          /\ pc' = [pc EXCEPT ![c] = "reply"]
          /\ UNCHANGED <<watcher, reason>>
       \/ /\ reason' = [reason EXCEPT ![c] = "kernel_error"]
          /\ StopTimeout(c, "stopEnd")
          /\ UNCHANGED events
    /\ UNCHANGED <<connOpen, exporterVars, handleVars, discVars, kernelVars, queued,
                   callerVars, watchVars>>

\* EncodeOpRepImport succeeds; the handshake deadline is disarmed.
ReplySent(c) ==
    /\ pc[c] = "reply"
    /\ connOpen[c]
    /\ StopTimeout(c, "stopHandoff")
    /\ UNCHANGED <<connOpen, reason, exporterVars, handleVars, discVars, kernelVars,
                   eventVars, callerVars, watchVars>>

ReplyFails(c) ==
    /\ pc[c] = "reply"
    /\ reason' = [reason EXCEPT ![c] = "protocol_error"]
    /\ StopTimeout(c, "stopEnd")
    /\ UNCHANGED <<connOpen, exporterVars, handleVars, discVars, kernelVars, eventVars,
                   callerVars, watchVars>>

-----------------------------------------------------------------------------
(* The handoff state machine of sessionHandle.                             *)

\* Fault: the future is resolved whoever owns the cleanup.
CompleteWithoutDisconnect_Unclaimed(c) ==
    /\ cleanupClaimed' = [cleanupClaimed EXCEPT ![c] = TRUE]
    /\ cleanupDone' = [cleanupDone EXCEPT ![c] = @ + 1]

\* completeWithoutDisconnectLocked: claim the cleanup and resolve it, unless claimed.
CompleteWithoutDisconnect(c) ==
    /\ cleanupClaimed' = [cleanupClaimed EXCEPT ![c] = TRUE]
    /\ cleanupDone' = [cleanupDone EXCEPT ![c] = IF cleanupClaimed[c] THEN @ ELSE @ + 1]

\* First critical section of runHandoff.
BeginHandoff(c) ==
    /\ pc[c] = "handoff"
    /\ \/ /\ cancelled[c]
          /\ reason' = [reason EXCEPT ![c] = "shutdown"]
          /\ pc' = [pc EXCEPT ![c] = "end"]
          /\ UNCHANGED handoffState
       \/ /\ ~cancelled[c]
          /\ handoffState' = [handoffState EXCEPT ![c] = "InProgress"]
          /\ pc' = [pc EXCEPT ![c] = "exporting"]
          /\ UNCHANGED reason
    /\ UNCHANGED <<watcher, connOpen, cancelled, done, cleanupClaimed, cleanupDone,
                   cleanupErr, exporterVars, discVars, kernelVars, eventVars, callerVars,
                   watchVars>>

\* kernel.ExportOnConn writes the socket to usbip_sockfd.  The kernel takes it when
\* the device is bound and idle; the write may also fail.
ExportOnConn(c) ==
    /\ pc[c] = "exporting"
    /\ \/ /\ connOpen[c]
          /\ bound[BusOf[c]]
          /\ owner[BusOf[c]] = None
          /\ owner' = [owner EXCEPT ![BusOf[c]] = c]
          /\ pc' = [pc EXCEPT ![c] = "exported"]
       \/ /\ pc' = [pc EXCEPT ![c] = "exportFailed"]
          /\ UNCHANGED owner
    /\ UNCHANGED <<watcher, connOpen, reason, exporterVars, handleVars, discVars, bound,
                   uevents, rebinds, eventVars, callerVars, watchVars>>

\* Fault: a cancellation that arrived during the write is overlooked.
HandoffSucceeded_ForgetsCancel(c) ==
    /\ pc[c] = "exported"
    /\ handoffState' = [handoffState EXCEPT ![c] = "Succeeded"]
    /\ pc' = [pc EXCEPT ![c] = "parked"]
    /\ UNCHANGED <<reason, watcher, connOpen, cancelled, done, cleanupClaimed, cleanupDone,
                   cleanupErr, exporterVars, discVars, kernelVars, eventVars, callerVars,
                   watchVars>>

\* Second critical section of runHandoff after success.  A cancellation that arrived
\* during the write makes this handler the owner of the Disconnect.
HandoffSucceeded(c) ==
    /\ pc[c] = "exported"
    /\ handoffState' = [handoffState EXCEPT ![c] = "Succeeded"]
    /\ \/ /\ cancelled[c] /\ ~cleanupClaimed[c]
          /\ cleanupClaimed' = [cleanupClaimed EXCEPT ![c] = TRUE]
          /\ reason' = [reason EXCEPT ![c] = "shutdown"]
          /\ pc' = [pc EXCEPT ![c] = "disconnect"]
       \/ /\ ~(cancelled[c] /\ ~cleanupClaimed[c])
          /\ pc' = [pc EXCEPT ![c] = "parked"]
          /\ UNCHANGED <<cleanupClaimed, reason>>
    /\ UNCHANGED <<watcher, connOpen, cancelled, done, cleanupDone, cleanupErr,
                   exporterVars, discVars, kernelVars, eventVars, callerVars, watchVars>>

\* Second critical section of runHandoff after an error (context.Canceled reads as shutdown).
HandoffFailed(c) ==
    /\ pc[c] = "exportFailed"
    /\ handoffState' = [handoffState EXCEPT ![c] = "Failed"]
    /\ CompleteWithoutDisconnect(c)
    /\ \E r \in {"kernel_error", "shutdown"} : reason' = [reason EXCEPT ![c] = r]
    /\ pc' = [pc EXCEPT ![c] = "end"]
    /\ UNCHANGED <<watcher, connOpen, cancelled, done, cleanupErr, exporterVars, discVars,
                   kernelVars, eventVars, callerVars, watchVars>>

-----------------------------------------------------------------------------
(* waitForSessionEnd.                                                      *)

\* Fault: a failing probe is read as the end of the session.
ExportSessionInactive_OnError(c) == TRUE

\* ExportSessionActive answers "no" only from a readable usbip_status, which a device
\* has while it is bound to usbip-host; a failing probe keeps the session.
ExportSessionInactive(c) == bound[BusOf[c]] /\ owner[BusOf[c]] = None

\* handle.done is closed.
WakeShutdown(c) ==
    /\ pc[c] = "parked"
    /\ done[c]
    /\ reason' = [reason EXCEPT ![c] = "shutdown"]
    /\ pc' = [pc EXCEPT ![c] = "end"]
    /\ UNCHANGED <<watcher, connOpen, exporterVars, handleVars, discVars, kernelVars,
                   eventVars, callerVars, watchVars>>

\* A DeviceUnboundEvent for the session's busid.
WakeEvent(c) ==
    /\ pc[c] = "parked"
    /\ queued[c]
    /\ queued' = [queued EXCEPT ![c] = FALSE]
    /\ pc' = [pc EXCEPT ![c] = "completing"]
    /\ UNCHANGED <<watcher, connOpen, reason, exporterVars, handleVars, discVars,
                   kernelVars, events, callerVars, watchVars>>

\* The events channel is closed and empty: the arm is disabled after one probe.
WakeEventsClosed(c) ==
    /\ pc[c] = "parked"
    /\ events[c] = "closed"
    /\ ~queued[c]
    /\ events' = [events EXCEPT ![c] = "none"]
    /\ \/ /\ ExportSessionInactive(c)
          /\ pc' = [pc EXCEPT ![c] = "completing"]
       \/ UNCHANGED pc
    /\ UNCHANGED <<watcher, connOpen, reason, exporterVars, handleVars, discVars,
                   kernelVars, queued, callerVars, watchVars>>

\* Fault: losing the event stream also loses the status poll.
PollInactive_NeedsEvents(c) ==
    /\ pc[c] = "parked"
    /\ events[c] # "none"
    /\ ExportSessionInactive(c)
    /\ pc' = [pc EXCEPT ![c] = "completing"]
    /\ UNCHANGED <<watcher, connOpen, reason, exporterVars, handleVars, discVars,
                   kernelVars, eventVars, callerVars, watchVars>>

\* The status poll finds the device no longer in use.
PollInactive(c) ==
    /\ pc[c] = "parked"
    /\ ExportSessionInactive(c)
    /\ pc' = [pc EXCEPT ![c] = "completing"]
    /\ UNCHANGED <<watcher, connOpen, reason, exporterVars, handleVars, discVars,
                   kernelVars, eventVars, callerVars, watchVars>>

\* completedSessionEndTick: whoever claims the cleanup first names the reason.
CompletedSessionEnd(c) ==
    /\ pc[c] = "completing"
    /\ CompleteWithoutDisconnect(c)
    /\ reason' = [reason EXCEPT ![c] =
                     IF cleanupClaimed[c] THEN "shutdown" ELSE "client_gone"]
    /\ pc' = [pc EXCEPT ![c] = "end"]
    /\ UNCHANGED <<watcher, connOpen, handoffState, cancelled, done, cleanupErr,
                   exporterVars, discVars, kernelVars, eventVars, callerVars, watchVars>>

-----------------------------------------------------------------------------
(* disconnectSession, run by the handler or by a goroutine of Shutdown.    *)

\* kernel.Disconnect(busid) writes -1 to usbip_sockfd: it drops whatever export the
\* device has.  It may fail and leave the export, and may fail when there is none.
Disconnect(c, failed) ==
    /\ disconnects' = [disconnects EXCEPT ![c] = @ + 1]
    /\ owner' = [owner EXCEPT ![BusOf[c]] = IF failed THEN @ ELSE None]

\* finishCleanup publishes the result and resolves the future.
FinishCleanup(c, failed) ==
    /\ cleanupErr' = [cleanupErr EXCEPT ![c] = failed]
    /\ cleanupDone' = [cleanupDone EXCEPT ![c] = @ + 1]

HandlerDisconnect(c) ==
    /\ pc[c] = "disconnect"
    /\ \E failed \in BOOLEAN :
          /\ Disconnect(c, failed)
          /\ pc' = [pc EXCEPT ![c] = IF failed THEN "disconnectFailed" ELSE "disconnected"]
    /\ UNCHANGED <<watcher, connOpen, reason, disconnector, exporterVars, handleVars,
                   bound, uevents, rebinds, eventVars, callerVars, watchVars>>

HandlerFinishCleanup(c) ==
    /\ pc[c] \in {"disconnected", "disconnectFailed"}
    /\ FinishCleanup(c, pc[c] = "disconnectFailed")
    /\ pc' = [pc EXCEPT ![c] = "end"]
    /\ UNCHANGED <<watcher, connOpen, reason, handoffState, cancelled, done,
                   cleanupClaimed, exporterVars, discVars, kernelVars, eventVars,
                   callerVars, watchVars>>

GoDisconnect(c) ==
    /\ disconnector[c] = "call"
    /\ \E failed \in BOOLEAN :
          /\ Disconnect(c, failed)
          /\ disconnector' = [disconnector EXCEPT ![c] = IF failed THEN "failed" ELSE "ok"]
    /\ UNCHANGED <<handlerVars, exporterVars, handleVars, bound, uevents, rebinds,
                   eventVars, callerVars, watchVars>>

GoFinishCleanup(c) ==
    /\ disconnector[c] \in {"ok", "failed"}
    /\ FinishCleanup(c, disconnector[c] = "failed")
    /\ disconnector' = [disconnector EXCEPT ![c] = "finished"]
    /\ UNCHANGED <<handlerVars, handoffState, cancelled, done, cleanupClaimed,
                   disconnects, exporterVars, kernelVars, eventVars, callerVars, watchVars>>

-----------------------------------------------------------------------------
(* endSession, run when a registered handler returns.                      *)

\* The deferred cancelEvents, then completeWithoutDisconnect.
EndSession(c) ==
    /\ pc[c] = "end"
    /\ events' = [events EXCEPT ![c] = "none"]
    /\ queued' = [queued EXCEPT ![c] = FALSE]
    /\ CompleteWithoutDisconnect(c)
    /\ pc' = [pc EXCEPT ![c] = "unregister"]
    /\ UNCHANGED <<watcher, connOpen, reason, handoffState, cancelled, done, cleanupErr,
                   exporterVars, discVars, kernelVars, callerVars, watchVars>>

\* unregisterSession drops the entry and its peer's count, then closes handle.done.
UnregisterSession(c) ==
    /\ pc[c] = "unregister"
    /\ sessions' = sessions \ {c}
    /\ perPeer' = [perPeer EXCEPT ![PeerOf[c]] = IF @ > 0 THEN @ - 1 ELSE @]
    /\ done' = [done EXCEPT ![c] = TRUE]
    /\ pc' = [pc EXCEPT ![c] = "publishEnded"]
    /\ UNCHANGED <<shutdown, accepting, shutdownHandles, watcher, connOpen, reason,
                   handoffState, cancelled, cleanupClaimed, cleanupDone, cleanupErr,
                   discVars, kernelVars, eventVars, callerVars, watchVars>>

\* SessionEnded is published and handleConn's deferred close runs.
PublishEnded(c) ==
    /\ pc[c] = "publishEnded"
    /\ Publish(c, "ended")
    /\ connOpen' = [connOpen EXCEPT ![c] = FALSE]
    /\ pc' = [pc EXCEPT ![c] = "exited"]
    /\ UNCHANGED <<watcher, reason, exporterVars, handleVars, discVars, kernelVars,
                   eventVars, callerVars, subscribersClosed>>

-----------------------------------------------------------------------------
(* Shutdown.                                                               *)

\* captureShutdownState: the call that flips e.shutdown retains the live handles.
CaptureShutdownState(s) ==
    /\ sd[s] = "idle"
    /\ shutdown' = TRUE
    /\ shutdownHandles' = IF shutdown THEN shutdownHandles ELSE sessions
    /\ todo' = IF shutdown THEN todo ELSE sessions
    /\ sd' = [sd EXCEPT ![s] = IF shutdown THEN "waitAccept" ELSE "signal"]
    /\ UNCHANGED <<accepting, sessions, perPeer, expired, result, handlerVars, handleVars,
                   discVars, kernelVars, eventVars, watchVars>>

\* signalCancel on one handle, h.cancel() and, if the kernel already has the socket,
\* `go disconnectSession`.  Only a parked handler reads done, so closing it in the same
\* step as signalCancel hides no behaviour.
SignalCancel(s, c) ==
    /\ sd[s] = "signal"
    /\ c \in todo
    /\ todo' = todo \ {c}
    /\ cancelled' = [cancelled EXCEPT ![c] = TRUE]
    /\ done' = [done EXCEPT ![c] = TRUE]
    /\ \/ /\ handoffState[c] = "Succeeded"
          /\ cleanupClaimed' = [cleanupClaimed EXCEPT ![c] = TRUE]
          /\ disconnector' = [disconnector EXCEPT ![c] =
                                 IF cleanupClaimed[c] THEN @ ELSE "call"]
          /\ UNCHANGED cleanupDone
       \/ /\ handoffState[c] \in {"NotStarted", "Failed"}
          /\ CompleteWithoutDisconnect(c)
          /\ UNCHANGED disconnector
       \/ /\ handoffState[c] = "InProgress"
          /\ UNCHANGED <<cleanupClaimed, cleanupDone, disconnector>>
    /\ UNCHANGED <<sd, expired, result, exporterVars, handlerVars, handoffState,
                   cleanupErr, disconnects, kernelVars, eventVars, watchVars>>

SignalsSent(s) ==
    /\ sd[s] = "signal"
    /\ todo = {}
    /\ sd' = [sd EXCEPT ![s] = "waitAccept"]
    /\ UNCHANGED <<todo, expired, result, exporterVars, handlerVars, handleVars, discVars,
                   kernelVars, eventVars, watchVars>>

\* <-acceptLoopExited
AcceptLoopExited(s) ==
    /\ sd[s] = "waitAccept"
    /\ ~accepting
    /\ sd' = [sd EXCEPT ![s] = "waitSessions"]
    /\ UNCHANGED <<todo, expired, result, exporterVars, handlerVars, handleVars, discVars,
                   kernelVars, eventVars, watchVars>>

\* The drain context of a call ends.
DeadlineExpires(s) ==
    /\ sd[s] \notin {"idle", "returned"}
    /\ ~expired[s]
    /\ expired' = [expired EXCEPT ![s] = TRUE]
    /\ UNCHANGED <<sd, todo, result, exporterVars, handlerVars, handleVars, discVars,
                   kernelVars, eventVars, watchVars>>

\* Fault: the drain looks at e.sessions instead of the handlers.
SessionsDrained_Registry == sessions = {}

\* sessionsWG has drained: no handler runs.
SessionsDrained == \A c \in Conns : pc[c] \in {"new", "exited"}

\* waitSessionsBounded: a completed drain wins a tie with the deadline.
DrainCompletes(s) ==
    /\ sd[s] = "waitSessions"
    /\ SessionsDrained
    /\ sd' = [sd EXCEPT ![s] = "waitCleanup"]
    /\ UNCHANGED <<todo, expired, result, exporterVars, handlerVars, handleVars, discVars,
                   kernelVars, eventVars, watchVars>>

\* forceCloseSessionConns closes the handlers' references of registered sessions.
ForceCloseSessionConns(s) ==
    /\ sd[s] = "waitSessions"
    /\ expired[s]
    /\ ~SessionsDrained
    /\ connOpen' = [c \in Conns |-> connOpen[c] /\ c \notin sessions]
    /\ sd' = [sd EXCEPT ![s] = "grace"]
    /\ UNCHANGED <<pc, watcher, reason, todo, expired, result, exporterVars, handleVars,
                   discVars, kernelVars, eventVars, watchVars>>

\* The residual grace ends, drained or not: the deadline was missed either way.
GraceEnds(s) ==
    /\ sd[s] = "grace"
    /\ result' = [result EXCEPT ![s] = "error"]
    /\ sd' = [sd EXCEPT ![s] = "waitCleanup"]
    /\ UNCHANGED <<todo, expired, exporterVars, handlerVars, handleVars, discVars,
                   kernelVars, eventVars, watchVars>>

\* waitCleanupBounded over the retained handles: every future is resolved and the stored
\* errors are joined, or the deadline wins while one is pending.
WaitCleanupBounded(s) ==
    /\ sd[s] = "waitCleanup"
    /\ \/ /\ \A c \in shutdownHandles : cleanupDone[c] > 0
          /\ result' = [result EXCEPT ![s] =
                           IF \E c \in shutdownHandles : cleanupErr[c] THEN "error" ELSE @]
       \/ /\ expired[s]
          /\ \E c \in shutdownHandles : cleanupDone[c] = 0
          /\ result' = [result EXCEPT ![s] = "error"]
    /\ sd' = [sd EXCEPT ![s] = "closeSubscribers"]
    /\ UNCHANGED <<todo, expired, exporterVars, handlerVars, handleVars, discVars,
                   kernelVars, eventVars, watchVars>>

\* closeAllSubscribers, then return.
CloseAllSubscribers(s) ==
    /\ sd[s] = "closeSubscribers"
    /\ subscribersClosed' = TRUE
    /\ sd' = [sd EXCEPT ![s] = "returned"]
    /\ UNCHANGED <<todo, expired, result, feed, exporterVars, handlerVars, handleVars,
                   discVars, kernelVars, eventVars>>

-----------------------------------------------------------------------------
(* The kernel, the remote peer and the operator.                           *)

\* The importing peer goes away: usbip_host leaves SDEV_ST_USED, without a uevent.
PeerGone(b) ==
    /\ owner[b] # None
    /\ owner' = [owner EXCEPT ![b] = None]
    /\ UNCHANGED <<bound, uevents, rebinds, exporterVars, handlerVars, handleVars,
                   discVars, eventVars, callerVars, watchVars>>

\* Unbind stops the export and releases the device from usbip-host.
UnbindDevice(b) ==
    /\ bound[b]
    /\ bound' = [bound EXCEPT ![b] = FALSE]
    /\ owner' = [owner EXCEPT ![b] = None]
    /\ uevents' = uevents \cup {b}
    /\ UNCHANGED <<rebinds, exporterVars, handlerVars, handleVars, discVars, eventVars,
                   callerVars, watchVars>>

BindDevice(b) ==
    /\ ~bound[b]
    /\ rebinds < MaxRebinds
    /\ rebinds' = rebinds + 1
    /\ bound' = [bound EXCEPT ![b] = TRUE]
    /\ UNCHANGED <<owner, uevents, exporterVars, handlerVars, handleVars, discVars,
                   eventVars, callerVars, watchVars>>

\* The dispatcher announces an unbind.  A subscriber misses it when its buffer is full or
\* the dispatcher had not seen the bind (module EventDispatcher).
DeliverUevent(b) ==
    /\ b \in uevents
    /\ uevents' = uevents \ {b}
    /\ \E got \in SUBSET {c \in Conns : events[c] = "open" /\ BusOf[c] = b} :
          queued' = [c \in Conns |-> queued[c] \/ c \in got]
    /\ UNCHANGED <<bound, owner, rebinds, events, exporterVars, handlerVars, handleVars,
                   discVars, callerVars, watchVars>>

\* The event dispatcher dies and closes every subscriber's channel.
EventStreamLost ==
    /\ \E c \in Conns : events[c] = "open"
    /\ events' = [c \in Conns |-> IF events[c] = "open" THEN "closed" ELSE events[c]]
    /\ UNCHANGED <<queued, kernelVars, exporterVars, handlerVars, handleVars, discVars,
                   callerVars, watchVars>>

-----------------------------------------------------------------------------

\* Steps of a handler that wait for nobody outside the process and its kernel.
HandlerStep(c) ==
    \/ LookupExportedDevice(c)
    \/ RegisterSession(c) \/ DeclineSession(c)
    \/ PublishStarted(c) \/ Subscribe(c)
    \/ StopWaited(c)
    \/ BeginHandoff(c) \/ ExportOnConn(c) \/ HandoffSucceeded(c) \/ HandoffFailed(c)
    \/ WakeShutdown(c) \/ WakeEvent(c) \/ WakeEventsClosed(c) \/ PollInactive(c)
    \/ CompletedSessionEnd(c)
    \/ HandlerDisconnect(c) \/ HandlerFinishCleanup(c)
    \/ EndSession(c) \/ UnregisterSession(c) \/ PublishEnded(c)

\* Steps of a handler that depend on what the client sends or reads.
ClientStep(c) == DecodeImport(c) \/ HandshakeEnds(c) \/ ReplySent(c) \/ ReplyFails(c)

WatcherStep(c) == WatcherTimer(c) \/ WatcherStop(c)

DisconnectorStep(c) == GoDisconnect(c) \/ GoFinishCleanup(c)

ShutdownStep(s) ==
    \/ (\E c \in Conns : SignalCancel(s, c)) \/ SignalsSent(s)
    \/ AcceptLoopExited(s)
    \/ DrainCompletes(s) \/ ForceCloseSessionConns(s) \/ GraceEnds(s)
    \/ WaitCleanupBounded(s) \/ CloseAllSubscribers(s)

Environment ==
    \/ \E b \in BusIDs : PeerGone(b) \/ UnbindDevice(b) \/ BindDevice(b) \/ DeliverUevent(b)
    \/ EventStreamLost

\* Every call of Shutdown returned and every handler ended: nothing is left to do.
Finished ==
    /\ \A s \in Callers : sd[s] = "returned"
    /\ SessionsDrained
    /\ UNCHANGED vars

Next ==
    \/ \E c \in Conns :
          \/ Accept(c) \/ RejectAccept(c)
          \/ HandlerStep(c) \/ ClientStep(c) \/ WatcherStep(c) \/ DisconnectorStep(c)
    \/ AcceptLoopExit
    \/ \E s \in Callers : CaptureShutdownState(s) \/ DeadlineExpires(s) \/ ShutdownStep(s)
    \/ Environment
    \/ Finished

Spec == Init /\ [][Next]_vars

\* The goroutines of Shutdown and of Serve run: this much is always assumed.  Serve returns
\* once Shutdown has cancelled its context.
FairSpec ==
    /\ Spec
    /\ \A s \in Callers : WF_vars(ShutdownStep(s))
    /\ WF_vars(shutdown /\ AcceptLoopExit)

\* Handlers run, kernel calls return and the handshake timer fires.  A client need not send
\* or read anything, but reading or writing a closed connection fails.
HandlersRun ==
    \A c \in Conns :
       /\ WF_vars(HandlerStep(c))
       /\ WF_vars(~connOpen[c] /\ (HandshakeEnds(c) \/ ReplyFails(c)))
       /\ WF_vars(WatcherStep(c))
       /\ WF_vars(DisconnectorStep(c))

\* The caller's context or the WithExporterShutdownTimeout backstop expires.
DeadlinesExpire == \A s \in Callers : WF_vars(DeadlineExpires(s))

-----------------------------------------------------------------------------
(* Properties.                                                             *)

\* The cleanup future of a handle is resolved at most once (a second close of cleanupDone
\* would panic), at most one kernel Disconnect is issued for a session however Shutdown
\* races the handoff, and only for a handoff that succeeded (runHandoff, signalCancel).
CleanupExactlyOnce ==
    \A c \in Conns :
       /\ cleanupDone[c] <= 1
       /\ disconnects[c] <= 1
       /\ disconnects[c] > 0 => handoffState[c] = "Succeeded"

\* kernel.Disconnect names a busid, not a session.  When it is issued for a session, the
\* device is exported on that session's socket or on none, never on a later session's.
DisconnectHitsOwnExport ==
    [][\A c \in Conns :
          disconnects'[c] # disconnects[c] => owner[BusOf[c]] \in {c, None}]_vars

\* Between registerSession and unregisterSession the per-peer counters are the sizes of the
\* peers' shares of e.sessions, both caps hold, and no busid has two sessions.
RegistryConsistent ==
    /\ \A p \in Peers :
          /\ perPeer[p] = Cardinality({c \in sessions : PeerOf[c] = p})
          /\ MaxSessionsPerPeer > 0 => perPeer[p] <= MaxSessionsPerPeer
    /\ MaxSessions > 0 => Cardinality(sessions) <= MaxSessions
    /\ \A c, d \in sessions : BusOf[c] = BusOf[d] => c = d

\* A Shutdown that returns nil has drained every handler and left no device exported,
\* whichever call of Shutdown issued the Disconnect.
ShutdownNilReleases ==
    \A s \in Callers :
       sd[s] = "returned" /\ result[s] = "nil" =>
          /\ SessionsDrained
          /\ \A b \in BusIDs : owner[b] = None

\* A device the kernel exports on a session's socket is listed by Sessions(), or its
\* Disconnect is under way or has failed and been recorded (serveImport: the handler must
\* not leave "Sessions() empty while the device is still exported").
ExportIsAccountedFor ==
    \A c \in Conns :
       owner[BusOf[c]] = c =>
          c \in sessions \/ disconnector[c] \in {"call", "failed"} \/ cleanupErr[c]

\* Once the handoff has begun the handshake watcher is gone, so a late timeout cannot close
\* the connection under the kernel's feet (armHandshakeTimeout's stop waits for it).
HandshakeTimerQuiet ==
    \A c \in Conns : handoffState[c] # "NotStarted" => watcher[c] = "stopped"

\* SessionEnded carries a typed reason, and client_gone is not said of a session whose
\* device the kernel still exports to that client (endSession, completedSessionEndTick).
EndReasonTruthful ==
    \A c \in Conns :
       feed[c] = "ended" =>
          /\ reason[c] # "none"
          /\ reason[c] = "client_gone" => owner[BusOf[c]] # c

\* If no call of Shutdown has returned an error, the watchers whose streams Shutdown closed
\* have been sent the end of every session they saw start (subscribers are closed last).
WatchersSeeEveryEnd ==
    /\ subscribersClosed
    /\ \A s \in Callers : sd[s] = "returned" => result[s] = "nil"
    => \A c \in Conns : feed[c] # "started"

\* Every call of Shutdown returns: with a deadline even if handlers, clients and kernel calls
\* hang for ever, and without one as long as those make progress.
ShutdownReturns ==
    HandlersRun \/ DeadlinesExpire =>
       \A s \in Callers : (sd[s] # "idle") ~> (sd[s] = "returned")

\* The cleanup of every session Shutdown found is eventually resolved, also when the call
\* itself gave up at its deadline.
CleanupResolves ==
    HandlersRun => \A c \in Conns : (c \in shutdownHandles) ~> (cleanupDone[c] > 0)

\* A peer that leaves without a uevent is noticed by the status poll while the device stays
\* bound, so its session does not hold the device for ever.
GonePeerIsNoticed ==
    HandlersRun =>
       \A c \in Conns :
          (pc[c] = "parked" /\ owner[BusOf[c]] # c)
             ~> (c \notin sessions \/ ~bound[BusOf[c]])

\* What must happen in the end: Shutdown returns, cleanup futures resolve, and a device does
\* not stay with a peer that is gone.
SessionsEnd == ShutdownReturns /\ CleanupResolves /\ GonePeerIsNoticed
=============================================================================
