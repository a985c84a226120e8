------------------------------- MODULE Importer -------------------------------
(***************************************************************************)
(* The importer (internal/app/importer.go, reconnect.go): Attach reserves  *)
(* a vhci port, hands its socket to the kernel and publishes a handle;     *)
(* Detach tears a port down, sharing one attempt per handle; a reconnect   *)
(* watcher per handle attaches again when the kernel lost the port; Close  *)
(* cancels and drains.  Port numbers are reused, so the question is always *)
(* whose port a number names by the time it is used.                       *)
(*                                                                         *)
(* A call of attach, its reservation and the handle it publishes have one  *)
(* name; so have a detach attempt and its owner: the Detach call that runs *)
(* it, or the attach whose handle is torn down internally (compensation or *)
(* rollback).  A step is a critical section of Importer.mu, a kernel call  *)
(* under portMutationMu, or a channel operation.  i.inFlight and i.wg are  *)
(* derived from where the goroutines stand.                                *)
(***************************************************************************)
EXTENDS Naturals, FiniteSets

CONSTANTS
    Attaches,   \* calls of attach, by users and by reconnect watchers
    Detaches,   \* calls of Detach
    Ports,      \* the vhci ports of one hub; devices are of the speed it serves
    Keys,       \* attachKey: remote endpoint and busid
    AutoReconnect, \* values of AttachOptions.AutoReconnect
    Unbounded,  \* AttachOptions.ShutdownTimeout is negative: waits have no bound
    Free,       \* a port that is not in use
    Foreign,    \* a port that was attached by an earlier process
    Inherited,  \* the ports that were when the importer started
    None        \* a nil pointer

ASSUME ImporterAssumption ==
    /\ Attaches \cap Detaches = {}
    /\ {Free, Foreign, None} \cap (Attaches \cup Detaches) = {}
    /\ Ports \subseteq Nat
    /\ None \notin Ports
    /\ Inherited \subseteq Ports
    /\ Cardinality({Free, Foreign, None}) = 3
    /\ Unbounded \in BOOLEAN
    /\ AutoReconnect \subseteq BOOLEAN

VARIABLES
    (* Importer, under mu *)
    closed,            \* i.closed
    handles,           \* i.handles
    reservations,      \* i.reservations
    untracked,         \* i.untrackedDetaches, by the owner of the attempt
    (* attach calls *)
    apc,               \* where a call of attach stands
    port,              \* the port the adapter selected for it
    key,               \* its attachKey
    auto,              \* AttachOptions.AutoReconnect
    parent,            \* the handle whose watcher made the call; None for a user's
    outcome,           \* what it returned
    teardownRequested, \* of its reservation
    (* handles *)
    done,              \* handles whose done channel is closed
    detaching,         \* handles flagged detaching
    attempt,           \* h.detachAttempt, by its owner
    watcher,           \* the reconnect watcher; "off" is a nil watcherDone
    joined,            \* the attempt a watcher's rollback waits for
    (* detach attempts *)
    attState,          \* the future of an attempt
    bpc,               \* where its owner stands in detachHandle
    (* Detach calls *)
    dpc, dport, target,\* where a call stands, its argument and what it waits for
    result,            \* what it returned
    (* Close *)
    cpc, snapshot,
    (* the kernel *)
    live,              \* whose socket a port is attached with
    portMutationMu     \* the attach call that holds it; detaches hold it within a step

importerVars == <<closed, handles, reservations, untracked>>
attachVars   == <<apc, port, key, auto, parent, outcome, teardownRequested>>
handleVars   == <<done, detaching, attempt, watcher, joined>>
attemptVars  == <<attState, bpc>>
detachVars   == <<dpc, dport, target, result>>
closeVars    == <<cpc, snapshot>>
kernelVars   == <<live, portMutationMu>>

vars == <<importerVars, attachVars, handleVars, attemptVars, detachVars, closeVars,
          kernelVars>>

Owners == Attaches \cup Detaches

AttachStates == {"new", "dial", "write", "abort", "register", "closeRace", "finish",
                 "release", "returned", "done"}
WatcherStates == {"off", "spawning", "wait", "current", "gone", "backoff", "attaching",
                  "exhausted", "succeeded", "retire", "rollback", "locking", "rolling",
                  "done"}
BodyStates == {"off", "cancel", "wait", "recheck", "kernel", "deleteOK", "deleteErr"}
DetachStates == {"idle", "lookup", "waitPublication", "waitAttempt", "body", "untracked",
                 "forgetOK", "forgetErr", "returned"}

TypeOK ==
    /\ closed \in BOOLEAN
    /\ handles \in [Ports -> Attaches \cup {None}]
    /\ reservations \in [Ports -> Attaches \cup {None}]
    /\ untracked \in [Ports -> Detaches \cup {None}]
    /\ apc \in [Attaches -> AttachStates]
    /\ port \in [Attaches -> Ports \cup {None}]
    /\ key \in [Attaches -> Keys \cup {None}]
    /\ auto \in [Attaches -> BOOLEAN]
    /\ parent \in [Attaches -> Attaches \cup {None}]
    /\ outcome \in [Attaches -> {"none", "ok", "failed", "closed"}]
    /\ teardownRequested \subseteq Attaches
    /\ done \subseteq Attaches
    /\ detaching \subseteq Attaches
    /\ attempt \in [Attaches -> Owners \cup {None}]
    /\ watcher \in [Attaches -> WatcherStates]
    /\ joined \in [Attaches -> Owners \cup {None}]
    /\ attState \in [Owners -> {"none", "open", "nil", "err"}]
    /\ bpc \in [Owners -> BodyStates]
    /\ dpc \in [Detaches -> DetachStates]
    /\ dport \in [Detaches -> Ports \cup {None}]
    /\ target \in [Detaches -> Owners \cup {None}]
    /\ result \in [Detaches -> {"none", "nil", "err"}]
    /\ cpc \in {"open", "cancel", "wait", "drained", "gaveUp"}
    /\ snapshot \subseteq Attaches
    /\ live \in [Ports -> Attaches \cup {Free, Foreign}]
    /\ portMutationMu \in Attaches \cup {None}

Init ==
    /\ closed = FALSE
    /\ handles = [p \in Ports |-> None]
    /\ reservations = [p \in Ports |-> None]
    /\ untracked = [p \in Ports |-> None]
    /\ apc = [a \in Attaches |-> "new"]
    /\ port = [a \in Attaches |-> None]
    /\ key = [a \in Attaches |-> None]
    /\ auto = [a \in Attaches |-> FALSE]
    /\ parent = [a \in Attaches |-> None]
    /\ outcome = [a \in Attaches |-> "none"]
    /\ teardownRequested = {}
    /\ done = {}
    /\ detaching = {}
    /\ attempt = [a \in Attaches |-> None]
    /\ watcher = [a \in Attaches |-> "off"]
    /\ joined = [a \in Attaches |-> None]
    /\ attState = [o \in Owners |-> "none"]
    /\ bpc = [o \in Owners |-> "off"]
    /\ dpc = [d \in Detaches |-> "idle"]
    /\ dport = [d \in Detaches |-> None]
    /\ target = [d \in Detaches |-> None]
    /\ result = [d \in Detaches |-> "none"]
    /\ cpc = "open"
    /\ snapshot = {}
    /\ live = [p \in Ports |-> IF p \in Inherited THEN Foreign ELSE Free]
    /\ portMutationMu = None

-----------------------------------------------------------------------------
(* Attach.                                                                 *)

\* Calls that hold an entry of i.inFlight and count in i.wg.
InFlight == {a \in Attaches : apc[a] \notin {"new", "returned", "done"}}

\* acquireAttachSlot.
MayAttach(k) == ~closed /\ \A a \in InFlight : key[a] # k

\* A name for a call that was not made yet; which one makes no difference.
Fresh(a) == a = CHOOSE b \in Attaches : apc[b] = "new"

\* A user's call; one that is refused changes nothing.
Attach(a, k, r) ==
    /\ apc[a] = "new"
    /\ Fresh(a)
    /\ MayAttach(k)
    /\ apc' = [apc EXCEPT ![a] = "dial"]
    /\ key' = [key EXCEPT ![a] = k]
    /\ auto' = [auto EXCEPT ![a] = r]
    /\ UNCHANGED <<port, parent, outcome, teardownRequested, importerVars, handleVars,
                   attemptVars, detachVars, closeVars, kernelVars>>

\* attach returns to its caller and releases the slot; a watcher takes the result up.
Returns(a) == [apc EXCEPT ![a] = IF parent[a] = None THEN "done" ELSE "returned"]

\* Modules, dial, handshake or the search for a free port fail; ctx may be why.
AttachFails(a) ==
    /\ apc[a] = "dial"
    /\ apc' = Returns(a)
    /\ outcome' = [outcome EXCEPT ![a] = "failed"]
    /\ UNCHANGED <<port, key, auto, parent, teardownRequested, importerVars, handleVars,
                   attemptVars, detachVars, closeVars, kernelVars>>

\* The conditions of reserveAttachPort.
MayReserve(p) ==
    /\ ~closed
    /\ reservations[p] = None
    /\ untracked[p] = None
    /\ handles[p] = None \/ handles[p] \notin detaching

\* findFreePortWithTopology: the lowest free port of the hub.
LowestFree(p) == live[p] = Free /\ \A q \in Ports : live[q] = Free => p <= q

\* AttachRemote takes portMutationMu, selects a port and reserves it before the sysfs write.
ReserveAttachPort(a, p) ==
    /\ apc[a] = "dial"
    /\ portMutationMu = None
    /\ LowestFree(p)
    /\ \/ /\ MayReserve(p)
          /\ reservations' = [reservations EXCEPT ![p] = a]
          /\ port' = [port EXCEPT ![a] = p]
          /\ portMutationMu' = a
          /\ apc' = [apc EXCEPT ![a] = "write"]
          /\ UNCHANGED outcome
       \/ /\ ~MayReserve(p)
          /\ outcome' = [outcome EXCEPT ![a] = IF closed THEN "closed" ELSE "failed"]
          /\ apc' = Returns(a)
          /\ UNCHANGED <<reservations, port, portMutationMu>>
    /\ UNCHANGED <<closed, handles, untracked, key, auto, parent, teardownRequested, live,
                   handleVars, attemptVars, detachVars, closeVars>>

\* The sysfs write of attachAtPortWithTopology; it gives portMutationMu back either way.
AttachAtPort(a) ==
    /\ apc[a] = "write"
    /\ portMutationMu' = None
    /\ \/ /\ live' = [live EXCEPT ![port[a]] = a]
          /\ apc' = [apc EXCEPT ![a] = "register"]
       \/ /\ apc' = [apc EXCEPT ![a] = "abort"]
          /\ UNCHANGED live
    /\ UNCHANGED <<port, key, auto, parent, outcome, teardownRequested, importerVars,
                   handleVars, attemptVars, detachVars, closeVars>>

AbortAttachReservation(a) ==
    /\ apc[a] = "abort"
    /\ reservations' = [reservations EXCEPT ![port[a]] = None]
    /\ apc' = Returns(a)
    /\ outcome' = [outcome EXCEPT ![a] = "failed"]
    /\ UNCHANGED <<closed, handles, untracked, port, key, auto, parent, teardownRequested,
                   handleVars, attemptVars, detachVars, closeVars, kernelVars>>

\* prepareAttachCompensationLocked: a Detach asked for this port before the handle existed.
Compensate(a) == a \in teardownRequested

\* Fault: registerHandle cancels a handle that is not there.
Superseded_Unchecked(p) == {handles[p]}

\* The handle a port had.
Superseded(p) == {handles[p]} \ {None}

\* registerHandle publishes the handle in place of the reservation.
RegisterHandle(a) ==
    /\ apc[a] = "register"
    /\ ~closed
    /\ handles' = [handles EXCEPT ![port[a]] = a]
    /\ done' = done \cup Superseded(port[a])
    /\ reservations' = [reservations EXCEPT ![port[a]] = None]
    /\ \/ /\ Compensate(a)
          /\ attempt' = [attempt EXCEPT ![a] = a]
          /\ attState' = [attState EXCEPT ![a] = "open"]
          /\ detaching' = detaching \cup {a}
          /\ UNCHANGED watcher
       \/ /\ ~Compensate(a)
          /\ watcher' = [watcher EXCEPT ![a] = IF auto[a] THEN "spawning" ELSE "off"]
          /\ UNCHANGED <<attempt, attState, detaching>>
    /\ apc' = [apc EXCEPT ![a] = "finish"]
    /\ UNCHANGED <<closed, untracked, port, key, auto, parent, outcome, teardownRequested,
                   joined, bpc, detachVars, closeVars, kernelVars>>

\* The importer was closed since: nothing is published, and the port has to be given back.
RegisterAfterClose(a) ==
    /\ apc[a] = "register"
    /\ closed
    /\ reservations' = [reservations EXCEPT ![port[a]] = None]
    /\ apc' = [apc EXCEPT ![a] = "closeRace"]
    /\ UNCHANGED <<closed, handles, untracked, port, key, auto, parent, outcome,
                   teardownRequested, handleVars, attemptVars, detachVars, closeVars,
                   kernelVars>>

\* kernel.DetachPort, atomic under portMutationMu: an error, also because the port is free
\* (ErrDeviceNotBound), leaves the port alone.
DetachPort(p, ok) ==
    /\ portMutationMu = None
    /\ ok => live[p] # Free
    /\ live' = IF ok THEN [live EXCEPT ![p] = Free] ELSE live
    /\ UNCHANGED portMutationMu

\* The best-effort release of finishAttach; the attach failed either way.
ReleaseAfterCloseRace(a, ok) ==
    /\ apc[a] = "closeRace"
    /\ DetachPort(port[a], ok)
    /\ apc' = Returns(a)
    /\ outcome' = [outcome EXCEPT ![a] = "closed"]
    /\ UNCHANGED <<port, key, auto, parent, teardownRequested, importerVars, handleVars,
                   attemptVars, detachVars, closeVars>>

\* finishAttach after the publication starts the compensation or the watcher.
FinishAttach(a) ==
    /\ apc[a] = "finish"
    /\ outcome' = [outcome EXCEPT ![a] = "ok"]
    /\ bpc' = IF attempt[a] = a THEN [bpc EXCEPT ![a] = "cancel"] ELSE bpc
    /\ watcher' = IF watcher[a] = "spawning" THEN [watcher EXCEPT ![a] = "wait"] ELSE watcher
    /\ apc' = [apc EXCEPT ![a] = "release"]
    /\ UNCHANGED <<port, key, auto, parent, teardownRequested, importerVars, done, detaching,
                   attempt, joined, attState, detachVars, closeVars, kernelVars>>

ReleaseSlot(a) ==
    /\ apc[a] = "release"
    /\ apc' = Returns(a)
    /\ UNCHANGED <<port, key, auto, parent, outcome, teardownRequested, importerVars,
                   handleVars, attemptVars, detachVars, closeVars, kernelVars>>

-----------------------------------------------------------------------------
(* The reconnect watcher of a handle.                                      *)

Watch(f, from, to) ==
    /\ watcher[f] \in from
    /\ watcher' = [watcher EXCEPT ![f] = to]

\* waitForDetach and waitBackoffChan return on cancellation.  A goroutine carries handle.done
\* over to the watcher's ctx, so until it runs the watcher may still choose otherwise.
WatcherCancelled(f) ==
    /\ f \in done
    /\ Watch(f, {"wait", "backoff"}, "done")
    /\ UNCHANGED <<importerVars, attachVars, done, detaching, attempt, joined, attemptVars,
                   detachVars, closeVars, kernelVars>>

\* Subscribe fails or the event stream ends: the handle stays, unwatched.
EventsLost(f) ==
    /\ Watch(f, {"wait"}, "done")
    /\ UNCHANGED <<importerVars, attachVars, done, detaching, attempt, joined, attemptVars,
                   detachVars, closeVars, kernelVars>>

\* isDetachSignal asks for the handle first and for the port then; the poll of
\* waitForDetachTick asks in the other order.  Either answer may be old when used.
WatcherLooks(f) ==
    /\ \/ Watch(f, {"wait"}, "current") /\ handles[port[f]] = f
       \/ Watch(f, {"wait"}, "gone") /\ live[port[f]] = Free
    /\ UNCHANGED <<importerVars, attachVars, done, detaching, attempt, joined, attemptVars,
                   detachVars, closeVars, kernelVars>>

WatcherDecides(f) ==
    /\ \/ Watch(f, {"current"}, IF live[port[f]] = Free THEN "backoff" ELSE "wait")
       \/ Watch(f, {"gone"}, IF handles[port[f]] = f THEN "backoff" ELSE "wait")
    /\ UNCHANGED <<importerVars, attachVars, done, detaching, attempt, joined, attemptVars,
                   detachVars, closeVars, kernelVars>>

\* The backoff has elapsed and runReconnectLoop calls attach.
Reconnect(f, a) ==
    /\ Watch(f, {"backoff"}, "attaching")
    /\ apc[a] = "new"
    /\ Fresh(a)
    /\ MayAttach(key[f])
    /\ apc' = [apc EXCEPT ![a] = "dial"]
    /\ key' = [key EXCEPT ![a] = key[f]]
    /\ auto' = [auto EXCEPT ![a] = TRUE]
    /\ parent' = [parent EXCEPT ![a] = f]
    /\ UNCHANGED <<port, outcome, teardownRequested, importerVars, done, detaching, attempt, joined,
                   attemptVars, detachVars, closeVars, kernelVars>>

\* attach refuses: the watcher ends if the importer is closed; if the slot is taken this is a
\* failed attempt and may have been the last one.
ReconnectRefused(f) ==
    /\ ~MayAttach(key[f])
    /\ Watch(f, {"backoff"}, IF closed THEN "done" ELSE "exhausted")
    /\ UNCHANGED <<importerVars, attachVars, done, detaching, attempt, joined, attemptVars,
                   detachVars, closeVars, kernelVars>>

\* attach returned to the loop.
ReconnectReturned(f, a) ==
    /\ parent[a] = f
    /\ apc[a] = "returned"
    /\ apc' = [apc EXCEPT ![a] = "done"]
    /\ \/ outcome[a] = "ok" /\ Watch(f, {"attaching"}, "succeeded")
       \/ outcome[a] = "closed" /\ Watch(f, {"attaching"}, "done")
       \/ outcome[a] = "failed" /\ \E to \in {"backoff", "exhausted"} :
                                      Watch(f, {"attaching"}, to)
    /\ UNCHANGED <<port, key, auto, parent, outcome, teardownRequested, importerVars, done,
                   detaching, attempt, joined, attemptVars, detachVars, closeVars, kernelVars>>

\* Fault: the success of a reconnect is kept although its handle is being detached.
CheckDetaching_Skipped(f) ==
    /\ Watch(f, {"succeeded"}, "retire")
    /\ UNCHANGED <<importerVars, attachVars, done, detaching, attempt, joined, attemptVars,
                   detachVars, closeVars, kernelVars>>

\* finishReconnectSuccess loads p.handle.detaching and acts on what it read.
CheckDetaching(f) ==
    /\ Watch(f, {"succeeded"}, IF f \in detaching THEN "rollback" ELSE "retire")
    /\ UNCHANGED <<importerVars, attachVars, done, detaching, attempt, joined, attemptVars,
                   detachVars, closeVars, kernelVars>>

\* Fault: removeHandle does not look whose handle it removes.
RemoveExact_Any(h) == [handles EXCEPT ![port[h]] = None]

\* removeHandle, deleteExactHandle: a slot that was taken over is left alone.
RemoveExact(h) ==
    IF handles[port[h]] = h THEN [handles EXCEPT ![port[h]] = None] ELSE handles

\* After a success or after the last attempt the old handle goes.
RemoveHandle(f) ==
    /\ Watch(f, {"retire", "exhausted"}, "done")
    /\ handles' = RemoveExact(f)
    /\ UNCHANGED <<closed, reservations, untracked, attachVars, done, detaching, attempt, joined,
                   attemptVars, detachVars, closeVars, kernelVars>>

\* h.acquireDetachAttempt by somebody who then runs detachHandle.
Own(h, o) ==
    /\ attempt' = [attempt EXCEPT ![h] = o]
    /\ attState' = [attState EXCEPT ![o] = "open"]
    /\ bpc' = [bpc EXCEPT ![o] = "cancel"]
    /\ detaching' = detaching \cup {h}

\* rollbackSupersededReconnect leaves a fresh handle that is being detached to its owner.
CheckFresh(f, a) ==
    /\ parent[a] = f
    /\ outcome[a] = "ok"
    /\ Watch(f, {"rollback"}, IF a \in detaching THEN "done" ELSE "locking")
    /\ UNCHANGED <<importerVars, attachVars, done, detaching, attempt, joined, attemptVars,
                   detachVars, closeVars, kernelVars>>

\* detachExactHandle on the fresh handle: own the attempt or join it.
Rollback(f, a) ==
    /\ parent[a] = f
    /\ outcome[a] = "ok"
    /\ \/ /\ handles[port[a]] # a
          /\ Watch(f, {"locking"}, "done")
          /\ UNCHANGED <<attempt, joined, attState, bpc, detaching>>
       \/ /\ handles[port[a]] = a
          /\ attempt[a] = None
          /\ Own(a, a)
          /\ joined' = [joined EXCEPT ![f] = a]
          /\ Watch(f, {"locking"}, "rolling")
       \/ /\ handles[port[a]] = a
          /\ attempt[a] # None
          /\ joined' = [joined EXCEPT ![f] = attempt[a]]
          /\ Watch(f, {"locking"}, "rolling")
          /\ UNCHANGED <<attempt, attState, bpc, detaching>>
    /\ UNCHANGED <<importerVars, attachVars, done, detachVars, closeVars, kernelVars>>

\* Its detachHandle, or the one it joined, has finished.
RolledBack(f) ==
    /\ watcher[f] = "rolling"
    /\ attState[joined[f]] \in {"nil", "err"}
    /\ Watch(f, {"rolling"}, "done")
    /\ UNCHANGED <<importerVars, attachVars, done, detaching, attempt, joined, attemptVars,
                   detachVars, closeVars, kernelVars>>

-----------------------------------------------------------------------------
(* Detach.                                                                 *)

\* The handle an attempt tears down.
HandleOf(o) == IF o \in Attaches THEN o ELSE target[o]

Body(o, from, to) ==
    /\ bpc[o] = from
    /\ bpc' = [bpc EXCEPT ![o] = to]

\* detachHandle: cancel the watcher first ...
BodyCancel(o) ==
    /\ Body(o, "cancel", "wait")
    /\ done' = done \cup {HandleOf(o)}
    /\ UNCHANGED <<importerVars, attachVars, detaching, attempt, watcher, joined, attState,
                   detachVars, closeVars, kernelVars>>

WatcherGone(h) == watcher[h] \in {"off", "done"}

\* ... wait for it, unless the wait is bounded and a wedged watcher outlasts it ...
WaitWatcherBounded(o) ==
    /\ Body(o, "wait", "recheck")
    /\ WatcherGone(HandleOf(o)) \/ ~Unbounded
    /\ UNCHANGED <<importerVars, attachVars, handleVars, attState, detachVars, closeVars,
                   kernelVars>>

\* finishDetachAttempt: the future is resolved; a failed attempt makes room for a retry.
Finish(o, h, res) ==
    /\ bpc' = [bpc EXCEPT ![o] = "off"]
    /\ attState' = [attState EXCEPT ![o] = res]
    /\ attempt' = IF res = "err" /\ attempt[h] = o THEN [attempt EXCEPT ![h] = None]
                                                   ELSE attempt

\* ... recheck that the port is still this handle's ...
BodyRecheck(o) ==
    /\ bpc[o] = "recheck"
    /\ LET h == HandleOf(o) IN
          \/ /\ handles[port[h]] = h
             /\ Body(o, "recheck", "kernel")
             /\ UNCHANGED <<attState, attempt>>
          \/ /\ handles[port[h]] # h
             /\ Finish(o, h, "nil")
    /\ UNCHANGED <<importerVars, attachVars, done, detaching, watcher, joined, detachVars,
                   closeVars, kernelVars>>

\* ... and ask the kernel.  A port that is free already loses its handle, after another
\* error the handle stays for a retry.
BodyDetachPort(o) ==
    /\ bpc[o] = "kernel"
    /\ LET h == HandleOf(o) IN
          \/ /\ DetachPort(port[h], TRUE)
             /\ Body(o, "kernel", "deleteOK")
             /\ UNCHANGED <<attState, attempt>>
          \/ /\ live[port[h]] = Free
             /\ DetachPort(port[h], FALSE)
             /\ Body(o, "kernel", "deleteErr")
             /\ UNCHANGED <<attState, attempt>>
          \/ /\ DetachPort(port[h], FALSE)
             /\ Finish(o, h, "err")
    /\ UNCHANGED <<importerVars, attachVars, done, detaching, watcher, joined, detachVars,
                   closeVars>>

\* deleteExactHandle and the end of the attempt.
BodyDelete(o) ==
    /\ bpc[o] \in {"deleteOK", "deleteErr"}
    /\ LET h == HandleOf(o) IN
          /\ handles' = RemoveExact(h)
          /\ Finish(o, h, IF bpc[o] = "deleteOK" THEN "nil" ELSE "err")
    /\ UNCHANGED <<closed, reservations, untracked, attachVars, done, detaching, watcher,
                   joined, detachVars, closeVars, kernelVars>>

\* Detach(p) is called, or looks the port up again.
Looks(d, p) ==
    /\ dpc[d] = "idle" \/ (dpc[d] = "lookup" /\ dport[d] = p)
    /\ dport' = [dport EXCEPT ![d] = p]

DetachReturns(d, res) ==
    /\ dpc' = [dpc EXCEPT ![d] = "returned"]
    /\ result' = [result EXCEPT ![d] = res]

\* acquireDetachTarget ...
DetachClosed(d, p) ==
    /\ Looks(d, p)
    /\ closed
    /\ DetachReturns(d, "err")
    /\ UNCHANGED <<target, importerVars, attachVars, handleVars, attemptVars, closeVars,
                   kernelVars>>

\* ... a reservation wins over an older handle, and remembers that its port is to go.
RequestTeardown(d, p) ==
    LET r == reservations[p] IN
    /\ Looks(d, p)
    /\ ~closed
    /\ r # None
    /\ teardownRequested' = teardownRequested \cup {r}
    /\ detaching' = detaching \cup Superseded(p)
    /\ done' = done \cup Superseded(p)
    /\ target' = [target EXCEPT ![d] = r]
    /\ dpc' = [dpc EXCEPT ![d] = "waitPublication"]
    /\ UNCHANGED <<importerVars, apc, port, key, auto, parent, outcome, attempt, watcher,
                   joined, attemptVars, result, closeVars, kernelVars>>

\* Fault: a second Detach starts a second attempt for the handle.
MayOwn_Again(h) == TRUE

\* acquireDetachAttempt.
MayOwn(h) == attempt[h] = None

\* ... a handle is detached by one call, others wait for its result.
AcquireHandle(d, p) ==
    LET h == handles[p] IN
    /\ Looks(d, p)
    /\ ~closed
    /\ reservations[p] = None
    /\ h # None
    /\ \/ /\ MayOwn(h)
          /\ Own(h, d)
          /\ target' = [target EXCEPT ![d] = h]
          /\ dpc' = [dpc EXCEPT ![d] = "body"]
       \/ /\ ~MayOwn(h)
          /\ target' = [target EXCEPT ![d] = attempt[h]]
          /\ dpc' = [dpc EXCEPT ![d] = "waitAttempt"]
          /\ UNCHANGED <<attempt, attState, bpc, detaching>>
    /\ UNCHANGED <<importerVars, attachVars, done, watcher, joined, result, closeVars,
                   kernelVars>>

\* ... and a port this importer does not know is left to the kernel.
AcquireUntracked(d, p) ==
    /\ Looks(d, p)
    /\ ~closed
    /\ reservations[p] = None
    /\ handles[p] = None
    /\ \/ /\ untracked[p] = None
          /\ untracked' = [untracked EXCEPT ![p] = d]
          /\ attState' = [attState EXCEPT ![d] = "open"]
          /\ dpc' = [dpc EXCEPT ![d] = "untracked"]
          /\ UNCHANGED target
       \/ /\ untracked[p] # None
          /\ target' = [target EXCEPT ![d] = untracked[p]]
          /\ dpc' = [dpc EXCEPT ![d] = "waitAttempt"]
          /\ UNCHANGED <<untracked, attState>>
    /\ UNCHANGED <<closed, handles, reservations, attachVars, handleVars, bpc, result,
                   closeVars, kernelVars>>

\* detachUntrackedPort ...
DetachUntracked(d, ok) ==
    /\ dpc[d] = "untracked"
    /\ DetachPort(dport[d], ok)
    /\ dpc' = [dpc EXCEPT ![d] = IF ok THEN "forgetOK" ELSE "forgetErr"]
    /\ UNCHANGED <<importerVars, attachVars, handleVars, attemptVars, dport, target, result,
                   closeVars>>

\* ... and finishUntrackedDetach.
FinishUntracked(d) ==
    /\ dpc[d] \in {"forgetOK", "forgetErr"}
    /\ LET res == IF dpc[d] = "forgetOK" THEN "nil" ELSE "err" IN
          /\ attState' = [attState EXCEPT ![d] = res]
          /\ DetachReturns(d, res)
    /\ untracked' = [untracked EXCEPT ![dport[d]] = None]
    /\ UNCHANGED <<closed, handles, reservations, attachVars, handleVars, bpc, dport, target,
                   closeVars, kernelVars>>

\* The owner of an attempt returns its result.
BodyReturns(d) ==
    /\ dpc[d] = "body"
    /\ attState[d] \in {"nil", "err"}
    /\ DetachReturns(d, attState[d])
    /\ UNCHANGED <<dport, target, importerVars, attachVars, handleVars, attemptVars,
                   closeVars, kernelVars>>

\* Fault: finishDetachAttempt closes the channel before it stores the error.
SharedResult_ClosedFirst(o) == "nil"

\* What those who wait for an attempt read from it.
SharedResult(o) == attState[o]

\* waitDetachAttempt: completion, which wins over a cancelled ctx.
AttemptDone(d) ==
    /\ dpc[d] = "waitAttempt"
    /\ attState[target[d]] \in {"nil", "err"}
    /\ DetachReturns(d, SharedResult(target[d]))
    /\ UNCHANGED <<dport, target, importerVars, attachVars, handleVars, attemptVars,
                   closeVars, kernelVars>>

\* waitAttachPublication: the reservation is resolved.  A compensation is waited for,
\* otherwise the lookup starts over.
PublicationDone(d) ==
    LET r == target[d] IN
    /\ dpc[d] = "waitPublication"
    /\ reservations[dport[d]] # r
    /\ dpc' = [dpc EXCEPT ![d] = IF attState[r] # "none" THEN "waitAttempt" ELSE "lookup"]
    /\ UNCHANGED <<dport, target, result, importerVars, attachVars, handleVars, attemptVars,
                   closeVars, kernelVars>>

\* The caller's ctx, or the bound of the publication wait, ends before either.
DetachGivesUp(d) ==
    /\ \/ dpc[d] = "waitAttempt" /\ attState[target[d]] = "open"
       \/ dpc[d] = "waitPublication" /\ reservations[dport[d]] = target[d]
    /\ DetachReturns(d, "err")
    /\ UNCHANGED <<dport, target, importerVars, attachVars, handleVars, attemptVars,
                   closeVars, kernelVars>>

-----------------------------------------------------------------------------
(* Close and the kernel.                                                   *)

Close ==
    /\ cpc = "open"
    /\ closed' = TRUE
    /\ snapshot' = {handles[p] : p \in Ports} \ {None}
    /\ cpc' = "cancel"
    /\ UNCHANGED <<handles, reservations, untracked, attachVars, handleVars, attemptVars,
                   detachVars, kernelVars>>

CloseCancels ==
    /\ cpc = "cancel"
    /\ done' = done \cup snapshot
    /\ cpc' = "wait"
    /\ UNCHANGED <<importerVars, attachVars, detaching, attempt, watcher, joined, attemptVars,
                   detachVars, snapshot, kernelVars>>

\* Fault: reconnect watchers are not enrolled.
WgIdle_NoWatchers == InFlight = {} /\ \A o \in Owners : attState[o] # "open"

\* i.wg: attaches, the owners of detach attempts and the watchers are enrolled.
WgIdle ==
    /\ InFlight = {}
    /\ \A o \in Owners : attState[o] # "open"
    /\ \A a \in Attaches : watcher[a] \in {"off", "done"}

\* waitGroupBounded.
CloseDrains ==
    /\ cpc = "wait"
    /\ \/ WgIdle /\ cpc' = "drained"
       \/ ~(Unbounded /\ snapshot # {}) /\ ~WgIdle /\ cpc' = "gaveUp"
    /\ UNCHANGED <<importerVars, attachVars, handleVars, attemptVars, detachVars, snapshot,
                   kernelVars>>

\* The peer or the network ends the connection and vhci_hcd frees the port.
RemoteGone(p) ==
    /\ live[p] # Free
    /\ live' = [live EXCEPT ![p] = Free]
    /\ UNCHANGED <<importerVars, attachVars, handleVars, attemptVars, detachVars, closeVars,
                   portMutationMu>>

-----------------------------------------------------------------------------

AttachStep(a) ==
    \/ AttachFails(a) \/ (\E p \in Ports : ReserveAttachPort(a, p)) \/ AttachAtPort(a)
    \/ AbortAttachReservation(a) \/ RegisterHandle(a) \/ RegisterAfterClose(a)
    \/ (\E ok \in BOOLEAN : ReleaseAfterCloseRace(a, ok)) \/ FinishAttach(a) \/ ReleaseSlot(a)

\* What a watcher does that was woken.
WatcherStep(f) ==
    \/ WatcherCancelled(f) \/ WatcherDecides(f) \/ ReconnectRefused(f) \/ CheckDetaching(f)
    \/ RemoveHandle(f) \/ RolledBack(f)
    \/ \E a \in Attaches : Reconnect(f, a) \/ ReconnectReturned(f, a) \/ CheckFresh(f, a)
                           \/ Rollback(f, a)

BodyStep(o) ==
    BodyCancel(o) \/ WaitWatcherBounded(o) \/ BodyRecheck(o) \/ BodyDetachPort(o)
    \/ BodyDelete(o)

AcquireDetachTarget(d, p) ==
    DetachClosed(d, p) \/ RequestTeardown(d, p) \/ AcquireHandle(d, p) \/ AcquireUntracked(d, p)

\* A call of Detach.
Detach(d, p) == dpc[d] = "idle" /\ AcquireDetachTarget(d, p)

DetachStep(d) ==
    \/ (\E p \in Ports : dpc[d] = "lookup" /\ AcquireDetachTarget(d, p))
    \/ (\E ok \in BOOLEAN : DetachUntracked(d, ok)) \/ FinishUntracked(d)
    \/ BodyReturns(d) \/ AttemptDone(d) \/ PublicationDone(d)

\* Everything the bounds allow was done.
Finished ==
    /\ closed
    /\ WgIdle
    /\ UNCHANGED vars

Next ==
    \/ \E a \in Attaches :
          \/ \E k \in Keys, r \in AutoReconnect : Attach(a, k, r)
          \/ AttachStep(a) \/ EventsLost(a) \/ WatcherLooks(a) \/ WatcherStep(a)
    \/ \E o \in Owners : BodyStep(o)
    \/ \E d \in Detaches :
          (\E p \in Ports : Detach(d, p)) \/ DetachStep(d) \/ DetachGivesUp(d)
    \/ Close \/ CloseCancels \/ CloseDrains
    \/ \E p \in Ports : RemoteGone(p)
    \/ Finished

Spec == Init /\ [][Next]_vars

\* Goroutines run, kernel calls and dials return and backoffs elapse; a select that is offered
\* events again and again takes the cancelled ctx one time, since it chooses at random.  Nothing
\* makes a peer leave, a watcher notice it, a ctx expire or somebody call Attach, Detach, Close.
Fairness ==
    /\ \A a \in Attaches : WF_vars(AttachStep(a)) /\ WF_vars(WatcherStep(a))
    /\ \A a \in Attaches : SF_vars(WatcherCancelled(a))
    /\ \A o \in Owners : WF_vars(BodyStep(o))
    /\ \A d \in Detaches : WF_vars(DetachStep(d))
    /\ WF_vars(CloseCancels) /\ WF_vars(CloseDrains)

FairSpec == Spec /\ Fairness

-----------------------------------------------------------------------------
(* Properties.                                                             *)

\* A port the kernel has attached for a call of this importer can be released by somebody:
\* its handle or its reservation is registered, or the attach that lost against Close is
\* about to give it back, or tried to in vain (finishAttach, registerHandle, removeHandle).
PortsAreTracked ==
    \A p \in Ports : live[p] \in Attaches =>
       LET a == live[p] IN
          \/ handles[p] = a
          \/ apc[a] = "register" /\ reservations[p] = a
          \/ apc[a] = "closeRace"
          \/ closed /\ outcome[a] = "closed"

\* At most one call of detachHandle works on a handle, however public Detach calls, the
\* compensation of a late publication and the rollback of a reconnect meet.
OneDetachPerHandle ==
    \A o, q \in Owners :
       bpc[o] # "off" /\ bpc[q] # "off" /\ HandleOf(o) = HandleOf(q) => o = q

\* A Detach that returned nil after it found a handle or a reservation on its port left that
\* generation neither attached nor registered, also if it only shared the result of another
\* call: the handle's owner, or the compensation of a publication it had waited for.
DetachNilReleases ==
    \A d \in Detaches :
       result[d] = "nil" /\ target[d] # None =>
          LET t == target[d] h == IF t \in Attaches THEN t ELSE target[t] IN
             h # None => live[dport[d]] # h /\ handles[dport[d]] # h

\* Once Close has seen its goroutines drain, nothing of the importer runs any more: no late
\* attach, watcher or internal detach touches the kernel.
CloseIsFinal ==
    cpc = "drained" =>
       /\ \A a \in Attaches : apc[a] \in {"new", "done"} /\ watcher[a] \in {"off", "done"}
       /\ \A o \in Owners : bpc[o] = "off"
       /\ \A d \in Detaches : dpc[d] # "untracked"

\* Every call of Detach returns, although nobody cancels its ctx and waits are unbounded.
EveryDetachReturns ==
    \A d \in Detaches : (dpc[d] # "idle") ~> (dpc[d] = "returned")

\* A teardown that was requested before the handle existed is carried out, also when the
\* Detach that asked for it has given up waiting: the port of that generation is gone, or
\* the kernel refused and the handle is there for a retry.
TeardownIsHonoured ==
    \A a \in Attaches :
       (a \in teardownRequested /\ apc[a] = "register" /\ ~closed)
          ~> ((\A p \in Ports : live[p] # a) \/ attState[a] = "err" \/ outcome[a] = "closed")

\* A reconnect that was under way when Detach took the original handle does not leave the
\* device attached: its success is rolled back (finishReconnectSuccess), unless the kernel
\* refuses and the handle stays for a retry, or Close came in between.
ReconnectRollsBack ==
    \A a \in Attaches :
       (parent[a] \in detaching /\ apc[a] = "register" /\ ~closed)
          ~> \/ \A p \in Ports : live[p] # a
             \/ \E o \in Owners : attState[o] = "err"
             \/ outcome[a] = "closed"

\* detachHandle "rechecks exact handle identity immediately before asking the kernel adapter
\* to mutate the port": a superseded handle completes "without mutating the new owner".
DetachSparesNewOwner ==
    [][\A o \in Owners :
          bpc[o] = "kernel" /\ bpc'[o] = "deleteOK" =>
             live[port[HandleOf(o)]] = HandleOf(o)]_vars

\* Detach returns, and what it asked for happens: also to a port that was being attached or
\* reconnected when it was called.
DetachTakesEffect == EveryDetachReturns /\ TeardownIsHonoured /\ ReconnectRollsBack
=============================================================================
