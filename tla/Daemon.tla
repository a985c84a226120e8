------------------------------- MODULE Daemon -------------------------------
(***************************************************************************)
(* usbip-go serve and usbip-go drain (cmd/usbip-go: serve.go, status.go,   *)
(* status_exporter.go, drain.go): daemon processes that share one status   *)
(* socket path, the drain clients that talk to whichever of them owns it,  *)
(* and the order in which a daemon gives things up.                        *)
(*                                                                         *)
(* The path is a name: removing it removes whatever socket is there, and a *)
(* listener stays open (its accepted connections work) after its name is   *)
(* gone.  Exporter.Serve and Exporter.Shutdown are modules ExporterServe   *)
(* and ExporterSession; here a connection is being handled, or holds a     *)
(* registered session.                                                     *)
(***************************************************************************)
EXTENDS Integers, FiniteSets

CONSTANTS
    Daemons,   \* processes running usbip-go serve with the same --status-socket
    Conns,     \* importers' connections
    Clients,   \* processes running usbip-go drain
    MaxFaults, \* bound: crashes and failing system calls in a behaviour
    None

ASSUME DaemonAssumption ==
    /\ None \notin Daemons
    /\ MaxFaults \in Nat

VARIABLES
    (* the file system *)
    sock,            \* the daemon whose socket the status path names
    flock,           \* the daemon that holds <path>.lock
    (* a daemon process *)
    main,            \* where runDaemon stands
    statusG,         \* where the goroutine of maybeStartStatusServer stands
    lis,             \* daemons whose status listener is open
    started,         \* the channel started is closed
    bound,           \* runDaemon registered its unlink defer
    serveCancelled,  \* serveCtx
    accepting,       \* statusExporter.accepting
    armed,           \* the accept loop has entered Accept
    drain,           \* the goroutine of handleStatusDrain
    statusFailed,    \* server.Serve of the status server failed on its own
    (* connections *)
    handshakes,      \* connections a handler works on
    sessions,        \* connections with a registered session
    (* drain clients *)
    client,          \* where runDrain stands
    posted,          \* the daemon that answered POST /drain
    seen,            \* listening.accepting of the status document being answered
    faults           \* crashes and failing calls so far

procVars  == <<main, statusG, lis, started, bound, statusFailed>>
expVars   == <<accepting, armed, handshakes, sessions>>
pathVars  == <<sock, flock>>
cliVars   == <<client, posted, seen>>

(* What a step of runDaemon, of its status goroutine, of the exporter and of a drain client *)
(* each leave alone.                                                                        *)
offMain == <<pathVars, statusG, lis, started, bound, statusFailed, serveCancelled,
             expVars, drain, cliVars>>
outsideStatus   == <<main, bound, serveCancelled, expVars, drain, cliVars>>
outsideExporter == <<pathVars, procVars, serveCancelled, drain, cliVars>>
daemonVars      == <<pathVars, procVars, serveCancelled, expVars>>

vars == <<daemonVars, drain, cliVars, faults>>

MainStates == {"off", "await", "serve", "served", "shutting", "shut",
               "waitStatus", "returning", "returned", "exited"}
StatusStates == {"off", "lock", "detect", "unlink", "bind", "chmod", "ready", "serving",
                 "closed", "done", "dead"}
DrainStates == {"none", "flag", "cancel", "done"}
ClientStates == {"idle", "poll", "reading"}

(* Besides the types: the lock file is held only while the socket is being bound, on     *)
(* every error path, and a listener is open only for a status goroutine that serves it.  *)
TypeOK ==
    /\ sock \in Daemons \cup {None}
    /\ flock \in Daemons \cup {None}
    /\ main \in [Daemons -> MainStates]
    /\ statusG \in [Daemons -> StatusStates]
    /\ lis \subseteq Daemons
    /\ started \in [Daemons -> BOOLEAN]
    /\ bound \in [Daemons -> BOOLEAN]
    /\ serveCancelled \in [Daemons -> BOOLEAN]
    /\ accepting \in [Daemons -> BOOLEAN]
    /\ armed \in [Daemons -> BOOLEAN]
    /\ drain \in [Daemons -> DrainStates]
    /\ statusFailed \in [Daemons -> BOOLEAN]
    /\ handshakes \in [Daemons -> SUBSET Conns]
    /\ sessions \in [Daemons -> SUBSET Conns]
    /\ client \in [Clients -> ClientStates]
    /\ posted \in [Clients -> Daemons \cup {None}]
    /\ seen \in [Clients -> BOOLEAN]
    /\ faults \in 0..MaxFaults
    /\ \A d \in Daemons : flock = d => statusG[d] \in {"detect", "unlink", "bind", "chmod"}
    /\ \A d \in lis : statusG[d] \in {"chmod", "ready", "serving"}

Init ==
    /\ sock = None
    /\ flock = None
    /\ main = [d \in Daemons |-> "off"]
    /\ statusG = [d \in Daemons |-> "off"]
    /\ lis = {}
    /\ started = [d \in Daemons |-> FALSE]
    /\ bound = [d \in Daemons |-> FALSE]
    /\ serveCancelled = [d \in Daemons |-> FALSE]
    /\ accepting = [d \in Daemons |-> FALSE]
    /\ armed = [d \in Daemons |-> FALSE]
    /\ drain = [d \in Daemons |-> "none"]
    /\ statusFailed = [d \in Daemons |-> FALSE]
    /\ handshakes = [d \in Daemons |-> {}]
    /\ sessions = [d \in Daemons |-> {}]
    /\ client = [c \in Clients |-> "idle"]
    /\ posted = [c \in Clients |-> None]
    /\ seen = [c \in Clients |-> FALSE]
    /\ faults = 0

(* Exporter.Shutdown has begun: registerSession refuses.                                  *)
Refusing(d) == main[d] \in {"shutting", "shut", "waitStatus", "returning", "returned"}

(* finishDaemonShutdown cancels statusCtx strictly after the bounded Shutdown returned.   *)
StatusCancelled_BeforeShutdown(d) ==
    main[d] \in {"shutting", "shut", "waitStatus", "returning", "returned"}

StatusCancelled(d) == main[d] \in {"waitStatus", "returning", "returned"}

Running(d) == main[d] \notin {"off", "exited"}
Fault == faults < MaxFaults /\ faults' = faults + 1
Goto(d, pc) == main' = [main EXCEPT ![d] = pc]
StatusGoto(d, pc) == statusG' = [statusG EXCEPT ![d] = pc]

(* The kernel closes every descriptor of a process that ends; the socket file stays.  The *)
(* memory of the process goes with it.                                                    *)
ProcessEnds(d) ==
    /\ Goto(d, "exited")
    /\ StatusGoto(d, "dead")
    /\ lis' = lis \ {d}
    /\ flock' = IF flock = d THEN None ELSE flock
    /\ started' = [started EXCEPT ![d] = FALSE]
    /\ serveCancelled' = [serveCancelled EXCEPT ![d] = FALSE]
    /\ accepting' = [accepting EXCEPT ![d] = FALSE]
    /\ armed' = [armed EXCEPT ![d] = FALSE]
    /\ handshakes' = [handshakes EXCEPT ![d] = {}]
    /\ sessions' = [sessions EXCEPT ![d] = {}]
    /\ drain' = [drain EXCEPT ![d] = "none"]
    /\ statusFailed' = [statusFailed EXCEPT ![d] = FALSE]
    /\ UNCHANGED <<sock, cliVars>>

-----------------------------------------------------------------------------
(* runDaemon *)

(* The listener, the exporter and the health server are up, setDrain has installed        *)
(* cancelServe, and the status goroutine is spawned.                                      *)
Start(d) ==
    /\ main[d] = "off"
    /\ Goto(d, "await")
    /\ StatusGoto(d, "lock")
    /\ UNCHANGED <<expVars, cliVars, pathVars, lis, started, bound, statusFailed,
                   serveCancelled, drain, faults>>

(* listen, buildExporter or startHealthServer returns an error.                           *)
StartFails(d) ==
    /\ main[d] = "off"
    /\ Goto(d, "exited")
    /\ Fault
    /\ UNCHANGED <<offMain>>

(* case <-started: runDaemon registers its unlink defer.                                  *)
StatusReady(d) ==
    /\ main[d] = "await"
    /\ started[d]
    /\ Goto(d, "serve")
    /\ bound' = [bound EXCEPT ![d] = TRUE]
    /\ UNCHANGED <<expVars, cliVars, pathVars, statusG, lis, started, statusFailed,
                   serveCancelled, drain, faults>>

(* case <-time.After(readyTimeout): no ownership of the path on a guess.                  *)
ReadyTimeout(d) ==
    /\ main[d] = "await"
    /\ Goto(d, "serve")
    /\ UNCHANGED <<offMain, faults>>

(* case err := <-statusErrCh: runDaemon returns; the deferred Shutdown finds no session   *)
(* because Serve was never called.                                                        *)
StatusStartErr_Unlinks(d) ==
    /\ main[d] = "await"
    /\ statusG[d] = "done"
    /\ Goto(d, "returning")
    /\ bound' = [bound EXCEPT ![d] = TRUE]
    /\ UNCHANGED <<expVars, cliVars, pathVars, statusG, lis, started, statusFailed,
                   serveCancelled, drain, faults>>

StatusStartErr(d) ==
    /\ main[d] = "await"
    /\ statusG[d] = "done"
    /\ Goto(d, "returned")
    /\ UNCHANGED <<offMain, faults>>

(* firstAcceptListener.Accept fires its hook once, on entry.                              *)
ArmAccept(d) ==
    /\ main[d] = "serve"
    /\ ~armed[d]
    /\ armed' = [armed EXCEPT ![d] = TRUE]
    /\ accepting' = [accepting EXCEPT ![d] = TRUE]
    /\ UNCHANGED <<outsideExporter, handshakes, sessions, faults>>

(* SIGTERM or SIGINT cancels the context runDaemon was given.                             *)
Signal(d) ==
    /\ main[d] \in {"await", "serve"}
    /\ ~serveCancelled[d]
    /\ serveCancelled' = [serveCancelled EXCEPT ![d] = TRUE]
    /\ UNCHANGED <<procVars, expVars, cliVars, pathVars, drain, faults>>

(* Serve comes back once its context is cancelled, or because Accept failed for good.     *)
ServeReturns(d) ==
    /\ main[d] = "serve"
    /\ serveCancelled[d]
    /\ Goto(d, "served")
    /\ UNCHANGED <<offMain, faults>>

ServeFails(d) ==
    /\ main[d] = "serve"
    /\ armed[d]
    /\ ~serveCancelled[d]
    /\ Goto(d, "served")
    /\ Fault
    /\ UNCHANGED <<offMain>>

(* src.markAccepting(false), then finishDaemonShutdown: drainExporter calls Shutdown,      *)
(* which refuses new sessions from its first step on and returns when nothing is left or  *)
(* when ShutdownTimeout has passed.                                                       *)
ShutdownBegins(d) ==
    /\ main[d] = "served"
    /\ Goto(d, "shutting")
    /\ accepting' = [accepting EXCEPT ![d] = FALSE]
    /\ UNCHANGED <<cliVars, pathVars, statusG, lis, started, bound, statusFailed,
                   serveCancelled, armed, handshakes, sessions, drain, faults>>

ShutdownDrained(d) ==
    /\ main[d] = "shutting"
    /\ handshakes[d] = {} /\ sessions[d] = {}
    /\ Goto(d, "shut")
    /\ UNCHANGED <<offMain, faults>>

ShutdownTimesOut(d) ==
    /\ main[d] = "shutting"
    /\ handshakes[d] # {} \/ sessions[d] # {}
    /\ Goto(d, "shut")
    /\ UNCHANGED <<offMain, faults>>

CancelStatus(d) ==
    /\ main[d] = "shut"
    /\ Goto(d, "waitStatus")
    /\ UNCHANGED <<offMain, faults>>

(* completeShutdown: the status goroutine has reported, or ShutdownTimeout has passed.    *)
StatusExited(d) ==
    /\ main[d] = "waitStatus"
    /\ statusG[d] = "done"
    /\ Goto(d, "returning")
    /\ UNCHANGED <<offMain, faults>>

StatusExitTimeout(d) ==
    /\ main[d] = "waitStatus"
    /\ statusG[d] # "done"
    /\ Goto(d, "returning")
    /\ UNCHANGED <<offMain, faults>>

(* The deferred os.Remove of a daemon that owned the path.                                *)
DeferredUnlink_LeftToGoroutine(d) ==
    /\ main[d] = "returning"
    /\ Goto(d, "returned")
    /\ UNCHANGED <<offMain, faults>>

DeferredUnlink(d) ==
    /\ main[d] = "returning"
    /\ Goto(d, "returned")
    /\ sock' = IF bound[d] THEN None ELSE sock
    /\ UNCHANGED <<expVars, cliVars, flock, statusG, lis, started, bound, statusFailed,
                   serveCancelled, drain, faults>>

Exit(d) ==
    /\ main[d] = "returned"
    /\ ProcessEnds(d)
    /\ UNCHANGED <<bound, faults>>

(* SIGKILL or the OOM killer: no deferred call runs.                                      *)
Crash(d) ==
    /\ Running(d)
    /\ ProcessEnds(d)
    /\ bound' = [bound EXCEPT ![d] = FALSE]
    /\ Fault

-----------------------------------------------------------------------------
(* serveStatus: bindStatusSocket under the lock file *)

(* A step that ends the bind phase with an error releases the lock; started is not        *)
(* closed, so the goroutine removes nothing before it reports.                            *)
BindPhaseFails_KeepsLock(d) == StatusGoto(d, "done") /\ UNCHANGED flock

BindPhaseFails(d) ==
    /\ StatusGoto(d, "done")
    /\ flock' = IF flock = d THEN None ELSE flock

(* flock(LOCK_EX | LOCK_NB); EWOULDBLOCK is errAlreadyRunning.                            *)
TryLock(d) ==
    /\ statusG[d] = "lock"
    /\ IF flock = None
       THEN StatusGoto(d, "detect") /\ flock' = d
       ELSE BindPhaseFails(d)
    /\ UNCHANGED <<outsideStatus, sock, lis, started, statusFailed, faults>>

(* detectAlreadyRunning: a dial that succeeds is a live peer; ENOENT and ECONNREFUSED     *)
(* leave a name this daemon may take.                                                     *)
Detect(d) ==
    /\ statusG[d] = "detect"
    /\ IF sock \in lis
       THEN BindPhaseFails(d)
       ELSE StatusGoto(d, "unlink") /\ UNCHANGED flock
    /\ UNCHANGED <<outsideStatus, sock, lis, started, statusFailed, faults>>

Unlink(d) ==
    /\ statusG[d] = "unlink"
    /\ sock' = None
    /\ StatusGoto(d, "bind")
    /\ UNCHANGED <<outsideStatus, flock, lis, started, statusFailed, faults>>

(* net.Listen: bind(2) refuses an existing name.                                          *)
Bind(d) ==
    /\ statusG[d] = "bind"
    /\ IF sock = None
       THEN /\ sock' = d
            /\ lis' = lis \cup {d}
            /\ StatusGoto(d, "chmod") /\ UNCHANGED flock
       ELSE /\ BindPhaseFails(d)
            /\ UNCHANGED <<sock, lis>>
    /\ UNCHANGED <<outsideStatus, started, statusFailed, faults>>

(* Opening or locking the lock file, the dial or the removal fails otherwise.             *)
BindPhaseError(d) ==
    /\ statusG[d] \in {"lock", "detect", "unlink", "bind"}
    /\ BindPhaseFails(d)
    /\ Fault
    /\ UNCHANGED <<outsideStatus, sock, lis, started, statusFailed>>

Chmod(d) ==
    /\ statusG[d] = "chmod"
    /\ StatusGoto(d, "ready")
    /\ flock' = IF flock = d THEN None ELSE flock
    /\ UNCHANGED <<outsideStatus, sock, lis, started, statusFailed, faults>>

(* Chmod fails: lis.Close and os.Remove both take the name away.                          *)
ChmodFails(d) ==
    /\ statusG[d] = "chmod"
    /\ BindPhaseFails(d)
    /\ lis' = lis \ {d}
    /\ sock' = None
    /\ Fault
    /\ UNCHANGED <<outsideStatus, started, statusFailed>>

(* close(started) and server.Serve.                                                       *)
SignalStarted(d) ==
    /\ statusG[d] = "ready"
    /\ StatusGoto(d, "serving")
    /\ started' = [started EXCEPT ![d] = TRUE]
    /\ UNCHANGED <<outsideStatus, pathVars, lis, statusFailed, faults>>

(* coordinateStatusServerClose: closing a Unix listener unlinks its path, whoever owns    *)
(* the name now, and then closes the socket.                                              *)
CloseListener(d) ==
    /\ statusG[d] = "serving"
    /\ StatusCancelled(d)
    /\ StatusGoto(d, "closed")
    /\ lis' = lis \ {d}
    /\ sock' = None
    /\ UNCHANGED <<outsideStatus, flock, started, statusFailed, faults>>

(* server.Serve returns on its own: closeCancel runs the same close pass.                 *)
StatusServeFails(d) ==
    /\ statusG[d] = "serving"
    /\ ~StatusCancelled(d)
    /\ StatusGoto(d, "closed")
    /\ statusFailed' = [statusFailed EXCEPT ![d] = TRUE]
    /\ lis' = lis \ {d}
    /\ sock' = None
    /\ Fault
    /\ UNCHANGED <<outsideStatus, flock, started>>

(* The goroutine of maybeStartStatusServer removes the path once more and reports.        *)
GoroutineRemove(d) ==
    /\ statusG[d] = "closed"
    /\ StatusGoto(d, "done")
    /\ sock' = None
    /\ UNCHANGED <<outsideStatus, flock, lis, started, statusFailed, faults>>

-----------------------------------------------------------------------------
(* connections of the exporter *)

Free(c) == \A d \in Daemons : c \notin handshakes[d] \cup sessions[d]

(* The accept loop runs until Serve returns, also between a drain request and the         *)
(* cancellation that follows it.                                                          *)
AcceptConn(d, c) ==
    /\ main[d] = "serve"
    /\ armed[d]
    /\ Free(c)
    /\ handshakes' = [handshakes EXCEPT ![d] = @ \cup {c}]
    /\ UNCHANGED <<outsideExporter, accepting, armed, sessions, faults>>

RegisterSession(d, c) ==
    /\ c \in handshakes[d]
    /\ ~Refusing(d)
    /\ handshakes' = [handshakes EXCEPT ![d] = @ \ {c}]
    /\ sessions' = [sessions EXCEPT ![d] = @ \cup {c}]
    /\ UNCHANGED <<outsideExporter, accepting, armed, faults>>

(* A handshake fails or is refused, a session ends.                                       *)
ConnEnds(d, c) ==
    /\ c \in handshakes[d] \cup sessions[d]
    /\ handshakes' = [handshakes EXCEPT ![d] = @ \ {c}]
    /\ sessions' = [sessions EXCEPT ![d] = @ \ {c}]
    /\ UNCHANGED <<outsideExporter, accepting, armed, faults>>

-----------------------------------------------------------------------------
(* POST /drain in the daemon: statusExporter.Drain in its own goroutine *)

DrainFlag(d) ==
    /\ drain[d] = "flag"
    /\ drain' = [drain EXCEPT ![d] = "cancel"]
    /\ accepting' = [accepting EXCEPT ![d] = FALSE]
    /\ UNCHANGED <<procVars, cliVars, pathVars, serveCancelled, armed, handshakes,
                   sessions, faults>>

(* A cancel function that is only installed before Serve would be nil for an early POST.  *)
DrainCancel_InstalledLate(d) ==
    /\ drain[d] = "cancel"
    /\ drain' = [drain EXCEPT ![d] = "done"]
    /\ serveCancelled' = [serveCancelled EXCEPT ![d] = @ \/ main[d] # "await"]
    /\ UNCHANGED <<procVars, expVars, cliVars, pathVars, faults>>

DrainCancel(d) ==
    /\ drain[d] = "cancel"
    /\ drain' = [drain EXCEPT ![d] = "done"]
    /\ serveCancelled' = [serveCancelled EXCEPT ![d] = TRUE]
    /\ UNCHANGED <<procVars, expVars, cliVars, pathVars, faults>>

-----------------------------------------------------------------------------
(* runDrain *)

Reaches(d) == statusG[d] = "serving"

(* A request to d comes back with a response.                                             *)
Answers(d) == d \in lis /\ Reaches(d)

(* postDrain dials the path; handleStatusDrain spawns the drain goroutine once.           *)
Post(c) ==
    /\ client[c] = "idle"
    /\ Answers(sock)
    /\ client' = [client EXCEPT ![c] = "poll"]
    /\ posted' = [posted EXCEPT ![c] = sock]
    /\ drain' = [drain EXCEPT ![sock] = IF @ = "none" THEN "flag" ELSE @]
    /\ UNCHANGED <<daemonVars, seen, faults>>

(* The daemon a GET reaches: over the kept connection while the server that answered the  *)
(* POST serves it, else over a new one to whoever the path names.                         *)
ProbeTarget(c) == IF Reaches(posted[c]) THEN posted[c] ELSE sock

(* handleStatusGet reads the accepting flag first ...                                     *)
ProbeAccepting(c) ==
    /\ client[c] = "poll"
    /\ Answers(ProbeTarget(c))
    /\ seen' = [seen EXCEPT ![c] = accepting[ProbeTarget(c)]]
    /\ client' = [client EXCEPT ![c] = "reading"]
    /\ UNCHANGED <<daemonVars, drain, posted, faults>>

(* runDrain comes back; the operator may run drain again.                                 *)
Verdict(c) ==
    /\ client' = [client EXCEPT ![c] = "idle"]
    /\ posted' = [posted EXCEPT ![c] = None]
    /\ seen' = [seen EXCEPT ![c] = FALSE]

(* ... and the session list after it; probeStatusOnce is done when neither is left.       *)
ProbeSessions(c) ==
    /\ client[c] = "reading"
    /\ Answers(ProbeTarget(c))
    /\ IF ~seen[c] /\ sessions[ProbeTarget(c)] = {}
       THEN Verdict(c)
       ELSE /\ client' = [client EXCEPT ![c] = "poll"]
            /\ seen' = [seen EXCEPT ![c] = FALSE]
            /\ UNCHANGED posted
    /\ UNCHANGED <<daemonVars, drain, faults>>

(* isDaemonGoneError: the dial finds no name, or a name nobody listens on.                *)
ProbeGone(c) ==
    /\ client[c] = "poll"
    /\ ProbeTarget(c) \notin lis
    /\ Verdict(c)
    /\ UNCHANGED <<daemonVars, drain, faults>>

(* A connection that breaks under a request is none of the three gone signals.            *)
ProbeFails(c) ==
    /\ client[c] = "reading"
    /\ ~Reaches(posted[c])
    /\ Verdict(c)
    /\ UNCHANGED <<daemonVars, drain, faults>>

(* waitNextPoll or the request meets the deadline of --drain-timeout.                     *)
DrainTimeout(c) ==
    /\ client[c] \in {"poll", "reading"}
    /\ Verdict(c)
    /\ UNCHANGED <<daemonVars, drain, faults>>

-----------------------------------------------------------------------------
MainStep(d) ==
    \/ Start(d) \/ StartFails(d) \/ StatusReady(d) \/ ReadyTimeout(d) \/ StatusStartErr(d)
    \/ ArmAccept(d) \/ ServeReturns(d) \/ ServeFails(d)
    \/ ShutdownBegins(d) \/ ShutdownDrained(d) \/ ShutdownTimesOut(d) \/ CancelStatus(d)
    \/ StatusExited(d) \/ StatusExitTimeout(d) \/ DeferredUnlink(d) \/ Exit(d)

StatusStep(d) ==
    \/ TryLock(d) \/ Detect(d) \/ Unlink(d) \/ Bind(d) \/ BindPhaseError(d) \/ Chmod(d)
    \/ ChmodFails(d) \/ SignalStarted(d) \/ CloseListener(d) \/ StatusServeFails(d)
    \/ GoroutineRemove(d)

ConnStep(d, c) == AcceptConn(d, c) \/ RegisterSession(d, c) \/ ConnEnds(d, c)

DrainStep(d) == DrainFlag(d) \/ DrainCancel(d)

ClientStep(c) ==
    \/ Post(c) \/ ProbeAccepting(c) \/ ProbeSessions(c) \/ ProbeGone(c) \/ ProbeFails(c)
    \/ DrainTimeout(c)

Next ==
    \/ \E d \in Daemons : \/ MainStep(d) \/ StatusStep(d) \/ DrainStep(d)
                          \/ Signal(d) \/ Crash(d)
    \/ \E d \in Daemons, c \in Conns : ConnStep(d, c)
    \/ \E c \in Clients : ClientStep(c)

Spec == Init /\ [][Next]_vars

(* The goroutines of a daemon run until they block; both waits of the shutdown path have a *)
(* timer, so Shutdown and completeShutdown come back although a session or the status      *)
(* server hangs.  Nothing is assumed of peers, clients, signals and failures.              *)
Fairness ==
    \A d \in Daemons :
        /\ WF_vars(StatusReady(d) \/ ReadyTimeout(d) \/ StatusStartErr(d))
        /\ WF_vars(ServeReturns(d))
        /\ WF_vars(ShutdownBegins(d))
        /\ WF_vars(ShutdownDrained(d) \/ ShutdownTimesOut(d))
        /\ WF_vars(CancelStatus(d) \/ DeferredUnlink(d) \/ Exit(d))
        /\ WF_vars(StatusExited(d) \/ StatusExitTimeout(d))
        /\ WF_vars(DrainStep(d))

FairSpec == Spec /\ Fairness

-----------------------------------------------------------------------------
(* What the daemon and the drain client promise *)

ShutdownReturned(d) == main[d] \in {"shut", "waitStatus", "returning", "returned", "exited"}

(* A drain client that takes the missing socket for the end of the daemon is right: the   *)
(* exporter's bounded Shutdown had returned before the status server gave up the path     *)
(* (finishDaemonShutdown), unless the process died or its status server failed by itself. *)
GoneMeansShutdown ==
    [][\A c \in Clients : ProbeGone(c) =>
            ShutdownReturned(posted[c]) \/ statusFailed[posted[c]]]_vars

(* The name of a listening daemon is taken away only by a daemon that had announced its   *)
(* own socket: neither a daemon that is still binding nor one that lost the race for the  *)
(* lock, however slow, unlinks the incumbent (bindStatusSocket, maybeStartStatusServer).  *)
LiveNameLost == sock \in lis /\ sock' # sock

LosersSpareTheIncumbent ==
    [][LiveNameLost => \E d \in Daemons :
            /\ started[d] \/ sock = d
            /\ statusG'[d] # statusG[d] \/ main'[d] # main[d]]_vars

(* A daemon that returned from runDaemon leaves no socket file of its own behind once it  *)
(* had seen its status server start, although the status goroutine may have been wedged   *)
(* beyond ShutdownTimeout.                                                                *)
CleanExitLeavesNoSocket ==
    \A d \in Daemons :
        main[d] = "exited" /\ bound[d] => sock # d

(* Readiness and the status document stop saying "accepting" when Serve has returned,     *)
(* however the accept hook, a drain request and a signal were ordered.                    *)
AcceptingEndsWithServe ==
    \A d \in Daemons : accepting[d] => main[d] \in {"serve", "served"}

(* An accepted POST /drain ends the daemon, whenever it arrives: before Serve, before the *)
(* accept loop is armed or once more, and although sessions hang.                         *)
DrainEndsDaemon ==
    \A d \in Daemons : drain[d] # "none" ~> main[d] = "exited"

(* A daemon that ends takes its claims back: "accepting" with Serve, the socket with exit. *)
ExitIsClean == AcceptingEndsWithServe /\ CleanExitLeavesNoSocket
=============================================================================
