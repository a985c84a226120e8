# A TLA+ verification of usbip-go

usbip-go is a pure Go implementation of the USB/IP tools and daemon. An *exporter* lets
remote hosts use local USB devices: it answers the USB/IP handshake on TCP and hands the
socket to the Linux module `usbip_host`. An *importer* connects to such an exporter and
hands the socket to `vhci_hcd`. Both sides follow the kernel through netlink uevents.

The code that moves USB traffic is the kernel's. What this repository must get right is
*who owns what*: a socket, a kernel export, a vhci port, a subscription, a goroutine, and
who releases it when a peer leaves, a call fails, a deadline passes or Shutdown arrives in
the middle. That is what the modules here model.

## 1. Inventory

Paths are relative to `src/`.

### Exporter sessions: `internal/app/exporter.go`, `internal/app/session.go`
* State: `sessions`, `perPeer`, `shutdown`, `shutdownHandles` under `Exporter.mu`; per
  connection a `sessionHandle` with `handoffState`, `cancelled`, `cleanupClaimed`,
  `cleanupDone`, `cleanupErr` under `handoffMu`, and the channel `done`.
* Operations: `handleConn` (rate limit and ACL, handshake with a timeout, lookup,
  `registerSession`, reply, `runHandoff`, `waitForSessionEnd`, `endSession`), `Shutdown`
  (`captureShutdownState`, `spawnGracefulDisconnects`, drain, `forceCloseSessionConns`,
  `waitCleanupBounded`, `closeAllSubscribers`), `Disconnect` of the kernel adapter.
* Hard: Shutdown may cancel a handle before, during or after `ExportOnConn`; natural end,
  failure, Shutdown and `endSession` all try to resolve the same future; `Disconnect` names
  a device, not a session; the unbind uevent may be lost, late or stale.
* Correct when: cleanup is resolved exactly once, `Shutdown` returning nil means that
  nothing is exported, no Disconnect hits somebody else's session, watchers hear of every
  end and the truth about it, and Shutdown returns.

### Serve lifecycle: `internal/app/exporter.go`, `pkg/usbip/usbip.go`
* State: `serving`, `listener`, `serveCancel`, `acceptLoopExited`, `sessionsWG` (a counter
  whose drain channel is replaced each time it leaves zero), `sessionsDrained`.
* Operations: `startServing`, the listener factory, `installServingListener`, `acceptLoop`,
  `spawnCtxListenerCloser`, `stopServing`, `captureShutdownState`, `drainFuture`.
* Hard: Shutdown may arrive before there is a listener; Serve may be called again; the
  drain channel must be captured only when no handler can start any more.

### Kernel event dispatcher: `internal/adapter/kernel/uevent.go`
* State: the current dispatcher under `dispMu`; per dispatcher its subscribers, stop
  channel, socket and the set `hostBound` of devices it saw bound.
* Operations: `Subscribe`, the unsubscribe func, `run`, `broadcast`, the cleanup goroutine.
* Hard: two parties close the same channels; the last unsubscribe races the next Subscribe;
  an unbind uevent does not name its driver.

### Importer and reconnect: `internal/app/importer.go`, `reconnect.go`, `backoff.go`
* State: handles and reservations by port, attaches in flight, detach attempts, `closed`.
* Operations: `Attach`, `Detach`, `Close`, the per-handle reconnect watcher.
* Hard: Detach of a port that is being attached or reconnected; bounded waits after which a
  late success has to be rolled back; port numbers are reused.
* Correct when: a live port can always be released by somebody, a handle is torn down by
  one owner, nil from Detach means gone, nothing runs after a drained Close, and a teardown
  somebody asked for happens although the attach or reconnect it met succeeds late.

### Event streams: `internal/app/exporter_watch.go`, `importer_watch.go`
* State: the subscriber list under the owner's mutex; per subscriber a bounded channel, the
  channel `done` and the flag `closed` under a mutex of its own.
* Operations: `WatchSessions`, `WatchWithErrors`, `publish...Event`, `tryPublish`,
  `removeSubscriber`, `closeAllSubscribers`, the iterators and their final drain.
* Hard: a publisher copies the list and sends without the owner's lock while the stream is
  closed: an event must not enter a buffer after the final drain of that buffer.

### Device bind and unbind: `internal/adapter/kernel/bind.go`
* State: one mutex per busid; everything else is the kernel's (driver, `match_busid`, stub,
  network interfaces, session).
* Operations: `Bind` (preflight, netdevs down, match add, driver off, usbip-host on with
  retries, rollback) and `Unbind` (preflight, disconnect, driver off, match del, rebind).
* Hard: each write may fail after the earlier ones took effect; the device may be unplugged
  between two; a rebind at the wrong moment oopses the kernel, an unbind without the
  disconnect hangs.

### vhci ports: `internal/adapter/kernel/{topology,ports,attach}.go`
* No state: every operation discovers the topology, reads one status file per controller and
  then decides. Hard: ports change hands and the module may be reloaded in between.

### Device enumeration: `internal/adapter/kernel/device.go`
* `ListLocalDevices` and `ListExportedDevices` read a bus that changes while they read it.

### Wire protocol: `internal/adapter/wire`, `pkg/domain/busid.go`
* Encoders and decoders of OP_DEVLIST and OP_IMPORT. Hard: counts chosen by the peer, a
  stream that ends anywhere, fields filled to the last byte, and the socket's position at the
  handover to the kernel.

### Daemon and drain: `cmd/usbip-go/{serve,status,status_exporter,drain,health}.go`
* State: the status socket path and its lock file, shared between processes; `accepting`,
  the drain flag, the contexts of Serve and of the status server; the kernel module cache;
  the readiness slot.
* Operations: `runDaemon` from start to its deferred calls, `serveStatus` with
  `bindStatusSocket`, `POST /drain`, `GET /`, `/readyz`, and `usbip-go drain`.
* Hard: two daemons for one path, a crash at any point, a status goroutine that is late or
  wedged, a drain that arrives early, clients that infer the daemon's end from the path.

### Connection history: `cmd/usbip-go/history.go`
* A file that several processes rewrite under a flock, with a temporary file and a rename.

### Without a protocol of their own
* sysfs access, transport and socket options, facade and domain types, flag parsing, output.

`PROJECT.json` lists every component with its status and, under `hazards`, the places in
this code that a test hardly reaches, each with its line.

## 2. Modules

| module | models | proofs |
|---|---|---|
| `ExporterSession` | session handlers, handles and Shutdown's cleanup | `ExporterSession_proofs` |
| `ExporterServe` | Serve, the accept loop and Shutdown's drain | `ExporterServe_proofs` |
| `EventDispatcher` | the netlink dispatcher and its subscribers | `EventDispatcher_proofs` |
| `Importer` | Attach, Detach, Close, reconnect watchers and the vhci ports | `Importer_proofs` |
| `Daemon` | serve, the status socket and drain, as processes that crash | `Daemon_proofs` |
| `EventStream` | *abstract*: what one event stream promises | `Host_proofs` (refinement) |
| `EventFanout` | the event streams of exporter and importer; implements `EventStream` | `Host_proofs` |
| `BindUnbind` | Bind and Unbind, sysfs write by sysfs write | `Host_proofs` |
| `VhciPorts` | topology, status files, port choice, attach and detach writes | `VhciPorts_proofs` |
| `Enumeration` | the listings of local and exported devices | `Host_proofs` |
| `Wire` | an OP_DEVLIST or OP_IMPORT exchange | `Host_proofs` |
| `History` | the connection history file | `History_proofs` |
| `ModuleCache` | the kernel module cache of the status endpoint | `Host_proofs` |
| `Readiness` | /readyz with its bounded probe | `Host_proofs` |

The `MC...` modules give the instances for TLC. In a specification an operator whose name
is that of the following definition with an underscored suffix (`Flock_Shared`, `Flock`) is
not part of the model: it is a plausible mistake in that definition, and the property it
should violate is checked to notice it (`mutants` in `PROJECT.json`).

`MCHost` composes the components that share no state (`EventFanout` down to `Readiness`, one
prefix of variable names each). A variable `part` says which of them a behaviour is about;
the others rest. That is exact for properties of one component, since no action of one reads
a variable of another, and keeps the state space the sum and not the product.

### ExporterSession
A connection, its session and its handle have one name `c`. `pc[c]` is where the handler
goroutine stands; `watcher[c]` the goroutine of `armHandshakeTimeout`; `disconnector[c]` the
goroutine Shutdown starts for it. The variables of the handle carry their Go names.
`cleanupDone` and `disconnects` are counters, not flags, so that a second close or call is
a reachable state and not absorbed by the model. One action is one critical section, one
kernel call or one observable channel operation: `BeginHandoff`, `ExportOnConn` and
`HandoffSucceeded`/`HandoffFailed` are separate because `runHandoff` gives up the lock for
the call, and that is where Shutdown's `SignalCancel` gets in.

`owner[b]` is the connection on whose socket the kernel exports device `b`. Peers leave at
any time without a uevent (`PeerGone`), an operator unbinds a device (`UnbindDevice`) and,
up to `MaxRebinds` times, binds it again; the event may be missed, delayed, or the whole
stream lost. Whether the client sends a good request, reads the reply, or does nothing is
nondeterministic. The accept loop is one flag here.

Not in the model: logging, metrics, deadlines as numbers (a deadline is an event that may
happen), the configuration `handshakeTimeout <= 0`, which arms no watcher, and panics of
handlers.

### ExporterServe
A call of Serve, its context, its listener and its `acceptLoopExited` have one name `v`.
Channels have identities: a Shutdown that holds the channel of another Serve, or an old
drain channel of `sessionsWG`, really waits for the wrong thing. Accept and the start of the
handler are two steps, between which the listener may be closed. A handler is started, arms
a watcher (which `sessionsWG` counts as well) and ends; ExporterSession is what it does in
between. The two modules share no variable: the interface between them is that Serve
returns once its context is cancelled (checked as `CancelledServeReturns`, assumed
in ExporterSession's fairness) and that no handler starts afterwards (`DrainIsComplete`,
`NoAcceptAfterShutdown`; `accepting = FALSE` in ExporterSession).

### EventDispatcher
Each dial makes a new dispatcher, so dispatchers are numbered. The kernel changes the driver
of a device and multicasts a uevent to the open sockets. `MapBind`, `MapUnbind`, `MapPort`
and `MapNothing` are what `mapEvent` does as far as it depends on state; the text of a
uevent is abstracted. An unbind carries no driver: the model's record remembers it only for
the properties, and no action reads it. Reading may fail at any time.
In ExporterSession a subscription is reduced to what this module allows: an unbind is
delivered, missed, or the stream ends.

### Importer
A call of `attach`, its reservation and the handle it publishes have one name `a`; a detach
attempt is named after its owner, a Detach call or the attach whose handle is torn down by a
compensation or a rollback. `apc`, `watcher`, `bpc`, `dpc` and `cpc` are where attach, the
reconnect watcher, the body `detachHandle`, Detach and Close stand. One action is a critical
section of `Importer.mu`, a kernel call or a channel operation; what the code reads outside
of the lock and uses later (`CheckDetaching`, `CheckFresh`, `BodyRecheck`, the two questions
of the watcher) is an action of its own. `live[p]` is whose socket port `p` is attached
with; the kernel frees a port at any time (`RemoteGone`), and a port may be `Foreign`, left
behind by an earlier process. Only an attach holds `portMutationMu` over two steps, since
its reservation lies between the choice of the port (the lowest free one) and the sysfs
write. `i.inFlight` and `i.wg` are derived from the positions.

Not in the model: the delays of the backoff and the number of attempts (after any failure
the loop may go on or be exhausted), the OnReconnect callbacks, hubs for other speeds (they
are in `VhciPorts`), and attaches made by other processes while the importer runs.

### Daemon
`main[d]` is where `runDaemon` stands, `statusG[d]` the goroutine of
`maybeStartStatusServer`, `sock` the daemon whose socket the status path names (a name can
be removed under a listener that stays open), `flock` the holder of `<path>.lock`. A crash
runs no deferred call and leaves the name. Status requests are two reads (`accepting`, then
the sessions), because that is how `handleStatusGet` is written. A drain client keeps its
connection while the server that answered it serves, and otherwise dials the path again. Of
Serve and Shutdown only their order and outcome are kept; the details are ExporterServe and
ExporterSession.

### EventFanout and EventStream
`EventStream` is the promise, in four variables: a stream accepts some of the events
published until it is barred, delivers them once each in the order it accepted them, and an
end that is neither the consumer's own nor a failure of the kernel source comes after
everything accepted was delivered. `EventFanout` is the code: the copied list, `tryPublish`
and `closeDone` under the subscriber's mutex, registration checked against `closed`, the
final drain, for the exporter's and the importer's variant (`evOwner`). `StreamsImplement`
says that every behaviour of EventFanout is one of EventStream under the mapping stated at
the end of the module.

### BindUnbind
The kernel's view of a device is `bdDriver` (`usb`, `usbip-host`, `none`, `gone`), its entry
in `bdMatch`, whether its stub has a live device (`bdLive`: a rebind without one is the oops
of kernels up to 6.8) and `bdSession`. The driver core probes usbip-host for a busid in the
table and gives any other device to `usb`. A caller of Bind or Unbind is at `bdPC[c]`; every
write succeeds or fails, also with EBUSY where the code retries. Devices leave and come back.
Sessions start and end at any time, since `ExportOnConn` does not take the busid's mutex: also
between Unbind's write to `usbip_sockfd` and its write to `unbind`. The former may fail with
the session still open; `bdHeld` remembers the sessions that outlasted it or began after it.
While a session is open the write to `unbind` may fail at once or wait for ever
(`UnbindBlocks`).

### VhciPorts
The kernel is a shape (controllers, ports per hub), a raw status per flat port and the bus
numbers of the root hubs; it may be unloaded and loaded with another shape, whose root hubs
register one by one. An operation (attach for a hub, detach of a port, list, bus map) keeps
nothing between calls, so a behaviour is one operation started in any kernel state. Each
sysfs attribute is one read. `vpWatched` and `vpAs` record, for one port, how it stood at
the moments of the operation, so that a property can say "was free at some moment of it".

### Enumeration
A device is a kind (readable, without configuration, with a broken interface, ...), a driver
and a usbip status, and may change between any two reads. `enSeen` records what each device
went through during the call.

### Wire
A message is a sequence of units (header, count, device, interface, bus id), not of bytes:
what the codec distinguishes is where a unit begins, whether it is whole, and what its
counts and fields hold. Only padded strings are sequences of characters (`FieldSize` of
them, three classes of byte), because truncation is about them. One side or both may be
foreign: a `Faulty` unit has a wrong version, opcode or count, `Cut` ends the stream
anywhere. After an import reply the exporting kernel writes on the same stream.

### History, ModuleCache, Readiness
History: a recorder is a process; every storage call may fail, `Killed` drops the flock and
keeps the temporary. ModuleCache: time is a counter, a module map is represented by the time
at which its probe looked, and a probe may take any time before and after that or never come
back. Readiness: a probe may hang for ever; each request has a result channel of its own.

## 3. Runs

| run | instance | what it shows |
|---|---|---|
| `session_safety` | 2 connections for 1 device, 2 Shutdown calls; or, with no Shutdown, 1 re-bind, a connection for a 2nd device, cap 1 | the safety properties of a session's life; registry, counters and caps agree |
| `session_liveness` | 1 connection, 2 Shutdown calls | Shutdown returns, cleanup resolves, a gone peer is noticed |
| `session_stale_unbind` | 1 connection, 1 re-bind | *finding*: a stale unbind ends a live session |
| `serve` | 2 Serve calls, 1 connection, 2 Shutdown calls | reservation, drain, and that both calls return |
| `events` | 2 subscribers, 2 dispatchers, 2 uevents, buffer 1 | channels, teardown, release, truthful unbind |
| `events_unbind_lost` | 1 subscriber, 1 uevent | *finding*: an unbind is dropped if the bind was not seen |
| `importer_safety` | 2 attaches of 1 key, 2 Detach calls, 2 ports, bounded waits | ownership of ports, handles and attempts |
| `importer_liveness` | 2 attaches, 1 Detach call, 2 ports, unbounded waits | Detach returns, teardown and rollback happen |
| `importer_new_owner` | 3 attaches, 1 Detach call, 2 ports, unbounded waits | *finding*: a rollback detaches a later attach |
| `daemon` | 2 daemons, 1 connection, 1 drain client, 1 fault | who may take the path, what its absence means, the drain ends the daemon |
| `module_cache_overwrite` | 2 calls, lifetime 1 | *finding*: a slow probe overwrites what a newer one found |
| `host` | see `Host.cfg` | each component of `MCHost` keeps its word, one safety property per component; the refinement; no call hangs, but for an unbind that waits for an importer |

A property a run checks is often the conjunction of named parts, each stated and commented
in the module of the code it is about:

| property | parts |
|---|---|
| `SessionsEnd` | `ShutdownReturns`, `CleanupResolves`, `GonePeerIsNoticed` |
| `ServeEnds` | `CancelledServeReturns`, `EndedServeReturns`, `ShutdownDrains` |
| `SubscriptionsEnd` | `LastUnsubReleases`, `StreamsEnd` |
| `DetachTakesEffect` | `EveryDetachReturns`, `TeardownIsHonoured`, `ReconnectRollsBack` |
| `ExitIsClean` | `AcceptingEndsWithServe`, `CleanExitLeavesNoSocket` |
| `BindIsSafe` | `MatchTableIsTrue`, `NoOrphans`, `NeverOopses`, `HubsKeepTheirDriver` |
| `HistoryIsKept` | `NoLostUpdate`, `TemporariesAreRemoved` |
| `StatusIsTimely` | `AnswersMoveForward`, `NoStaleReady` |
| `PortsAreTrue` | `EachPortListedOnce`, `ChoiceWasFree`, `NotBoundIsTrue`, `BusMapCoversPorts` |
| `OfferIsExact` | `OfferedIsHonest`, `OfferedIsComplete` |
| `ExchangeIsFaithful` | `DecodedIsSent`, `RefusalsAreTrue`, `HandoverLosesNothing`, `BusIDArrives` |
| `HostCallsReturn` | `EveryStreamEnds`, `BindCallsReturn`, `RecordersReturn`, `ReadyzAnswered`, `EveryExchangeEnds` |
| `HostTypeOK` | the type invariants of the host's components |

**Why the bounds are enough.** Two connections are what a race for a device needs; a third
one repeats the role of one of them. Two Shutdown calls are the first, which signals, and a
later one, which only waits. Two Serve calls are an overlap or a restart. Two dispatchers
are an old one being torn down and its successor. One re-bind is the least with which a
stale event can exist; in `session_safety` it comes only after the last unbind has been
announced and noticed (`RebindsAreSettled` of `MCExporterSession`), because otherwise
`ExportIsAccountedFor` fails, which is what `session_stale_unbind` shows. To stay small that
run looks at one story at a time (`StoriesApart`, an action constraint): either two
connections race for one device while two Shutdown calls run, or there is no Shutdown and
the device is bound again, or the peer asks for a second device and meets its cap. All its
connections are of one peer, so for two connections of one device the cap and the busid
check of `registerSession` refuse alike; the total cap `MaxSessions` is not reached. That
each check does its part alone, for any caps and any mix of stories, is the theorem
`RegistryExact`; `ExportsAccountedFor` and `NilReleases` put no stories apart either.
Two attaches are an attach and its reconnect, or two that meet at a key or a port; two
Detach calls are an owner and one that shares its result. With two ports, the lower one in
use at first, a reconnect may come back on another port than its predecessor, which is what
separates rollback from compensation. The third attach of `importer_new_owner` is the later
owner of the port. Names of attach calls are given out in a fixed order (`Fresh`), which
leaves out only renamings. Symmetry is used only in runs that check no liveness.

`daemon`: two daemons are an incumbent and a rival or successor; the drain client may run
again and again; `MaxFaults = 1` is one crash or failing call anywhere. `OneStoryAtATime`
(MCDaemon) limits what overlaps: importers connect while one daemon runs, and a drain meets
a second daemon only as a successor. It blocks no action that fairness is about.
`host`: one watcher suffices because streams share nothing but the list, whose copying two
publishers race; its buffer of 1 overflows with the second event. `BindUnbind` has a device
and an untouchable one, two callers and two attempts at the bind. `History` has two
processes, three hosts and a cap of two, so that entries are evicted. `ModuleCache` runs to
time 4 with a lifetime of 2, so that a cached map expires twice and probes come back within
the lifetime and after it.
`Readiness` has three requests: one whose probe hangs, a refused one and a later one.
`VhciPorts` has the shapes of 1 and 2 controllers with 1 and 2 ports, one port that changes
hands (`MaxMoves`) and one reload (`MaxLoads`), which is what two reads can straddle; other
bus numbers are only handed out where the operation reads them (`BusesMatterToMap`).
`Enumeration` has two devices, one change, three kinds. `Wire` has at most two devices, with
none, too few and too many interfaces and one that does not fit its field, and at most one
foreign or faulty end: two of them exercise none of this code. Behaviours of the host run
may stop (an operation ends, files are not rewritten), so deadlock is not checked there.

**Fairness.** ExporterSession: the goroutines of Shutdown and Serve run (`FairSpec`).
`ShutdownReturns` assumes in addition *either* that deadlines expire (the caller's context
or the `WithExporterShutdownTimeout` backstop), with handlers, clients and kernel calls
free to hang, *or* that handlers run and kernel calls return, with no deadline at all.
`CleanupResolves` and `GonePeerIsNoticed` assume the latter. Never assumed: that a client
sends or reads, that a peer leaves, that an event is delivered.
ExporterServe: Serve's own goroutines run, the factory returns once its context is
cancelled, Accept fails on a closed listener, and a connection it returned before is
dispatched or refused. A handler need not ever end, which is why
`ShutdownDrains` allows waiting while one runs.
EventDispatcher: an entered unsubscribe goes on, goroutines run, and a stopped dispatcher
gets out of Receive because its socket is closed or the receive timeout wakes it. Nobody
need unsubscribe or read, and reading need not fail.
Importer: goroutines run, dials and kernel calls return, backoffs elapse. Of a select that
is offered events again and again, strong fairness says that it takes the cancelled context
in the end; Go chooses among ready cases at random. Never assumed: that a peer leaves, that
a watcher notices, that a context or a bounded wait expires, or that anybody calls.

Daemon: the goroutines of a daemon run until they block; both waits of its shutdown have a
timer. Nothing is assumed of peers, clients, signals, or of the status goroutine, which may
be wedged. EventFanout: a consumer that iterates goes on, and Close or Shutdown, once begun,
goes through; publishers may stop. BindUnbind: a sysfs write returns, except the unbind of a
device whose importer's session is open, which the kernel makes wait (the NOTE at
`bind.go:339`); nothing is assumed of importers. `BindCallsReturn` is about a call that has
the busid's mutex, and says that it returns or waits for a session in `bdHeld`, one that
Unbind's disconnect could not have ended. History: processes run,
and whoever waits for the flock gets it if it becomes free again and again (strong fairness;
the kernel queues waiters). Readiness: the handler's deadline fires; the probe need not ever
return. Wire: both ends run and read what is there; a peer of ours closes what it has
answered, a cut may happen at any time.

## 4. Findings

Shown by a run:

1. **Stale unbind** (`session.go:732`). An unbind that was buffered before the handoff is
   taken as the end of a session that started after the device was bound again. The
   session leaves the registry while the kernel exports, and a later Shutdown returns nil
   without disconnecting it.
2. **Lost unbind** (`uevent.go:822`). A dispatcher announces an unbind only if it saw the
   bind, and starts with no memory of devices bound before its first subscriber came. The
   guarantee the comment in `session.go:445` builds on does not hold then; the session
   remains until Shutdown, as the status probe fails on an unbound device as well.
3. **New owner detached** (`importer.go:1024`). The rollback of a reconnect checks
   `i.handles` but not `i.reservations`. If the peer of the reconnected port has just left
   and another Attach has that port reserved and handed over, the rollback's `DetachPort`
   drops the new connection. The Attach then publishes a handle for a port that is gone.
   Detach itself is safe: `acquireDetachTarget` lets a reservation win over a handle.

4. **Overwritten modules** (`status_exporter.go:190`). The re-check after a probe keeps what a
   newer probe stored only until that expires. A probe that looked before and takes longer
   overwrites it with older data, which is then served for another lifetime; the comment
   says that the guard is what prevents this. `AnswersMoveForward` shows what it does
   prevent: answers go back in time only through a probe that took more than a lifetime from
   its look to its return.

Seen while modelling, allowed for in the statement of a property, without a run of their own:

* `uevent.go:125`: the cleanup goroutine closes the subscribers and then, in another critical
  section, clears the adapter's dispatcher. A Subscribe between the two joins a dead
  dispatcher, and its channel is neither fed nor closed. `StreamsEnd` is about streams that
  were there when the socket failed.
* `serve.go:487`: "the double-remove is benign". Closing the listener, the status goroutine
  and `runDaemon`'s defer each remove the path by name; a successor that binds it between
  two of them loses its name. `LosersSpareTheIncumbent` therefore lets a daemon that had
  announced its own socket take the name away.
* `drain.go:231`: *idle* (not accepting, no session) is a snapshot. A connection accepted
  before may still register a session; only *gone* is final (`GoneMeansShutdown`).
* `bind.go:112`: the godoc of Bind says step 2's unbind is preserved on failure, while
  `rollbackBind` asks the kernel to probe a driver again. Network interfaces taken down by
  `deactivateNetdevs` stay down after a failed Bind. The lock per busid is one process's.
* `status_exporter.go:154`: "last writer wins" describes the cache before its re-check.
* `bind.go:309`: the disconnect before the unbind is there because "operators saw
  `usbip-go unbind` hang". It does not help against an importer that connects between the
  two writes, or when it fails; the NOTE at `bind.go:339` says so. `BindCallsReturn` exempts
  these two cases and no other.
* `import_op.go:61`: bytes after the first NUL of the bus id field are ignored, not refused.

## 5. Proofs

Every theorem holds for every value of the constants under the assumptions named in the
modules: functions have their domains, bounds are natural numbers, `None`, `Free` and
`Nobody` are no members. Those that say more are `VhciAssumption` (vhci_hcd prints the
statuses 4 to 7 and there are bus numbers for the hubs of every shape, `ports.go:319`) and
`WireAssumption` (an exporter may have nothing to offer, no device is written as what a bad
speed stands for, and no list is longer than the cap, which `devlist.go:26` puts "well past
the plausible ceiling for any real USB hub topology": a longer one is announced in full and
refused by the importer). A component's theorems are about its `Spec` without fairness;
where an MC module narrows the next-state relation (`OneStoryAtATime`, `BusesMatterToMap`)
the theorem is about the unnarrowed one.

Every safety property of the passing runs is proved, the type invariants among them.

* `ExporterSession_proofs`. `TypeCorrect`: the type invariant. `SessionInvariant`: the
  inductive invariant `SessionInv`. `CleanupExactlyOnce` is not inductive, because it does
  not say who holds the claim. `PhaseInv` ties the handler's position to the handoff state
  and to the registry; `ClaimInv` counts: the claim is with nobody, with exactly one of
  handler and disconnect goroutine, or spent; `RegistryInv` says that a busid has one
  session at a time, also among the handles Shutdown retained, and that after Shutdown no
  session is outside of these; `OwnerInv` says that whoever may still disconnect finds its
  own export or none. From it `CleanupOnce` and the action property `DisconnectOwn` follow.
  `DrainInvariant` adds `DrainInv`: the handler leaves `stopTimeout` only after its watcher
  ended (`TimerInv`), only Shutdown claims a cleanup before a session ends (`CancelInv`),
  a handler on its way out has a reason (`ReasonInv`), an open stream that saw a start has
  the end still to come (`FeedInv`), and what a call of Shutdown has established by the time
  it gets somewhere (`CallerInv`). From it `TimerQuiet` and `WatchersSeeEnds`.
  `RegistryExact` counts each peer's share of the registry as a set and shows that
  `registerSession` and `endSession` move counter and set together.
  `ReleaseInvariant` (`KernelInv`, `ExportInv`) says who answers for what the kernel
  exports: a handler that has not ended its session, the goroutine that disconnects it, or
  the error stored in the handle. From it `ExportsAccountedFor`, `ReasonsTruthful` and
  `NilReleases`. These three assume `RebindsAreSettled`: a device is bound again only when
  its last unbind has been announced and no session still has it queued. Without the
  hypothesis they are false, which is finding 1 (`session_stale_unbind`); `session_safety`
  re-binds under the same hypothesis.
* `ExporterServe_proofs`. `ServeInvariant`: `ReserveInv` says that the reservation is held
  by one call, whose context and channel the exporter's fields name, and that
  `acceptLoopExited` is closed only by a call that is past accepting; `SnapshotInv` says
  that what Shutdown captured is the reservation that existed, and that no new one is given
  after `shutdown` is set. From it `ReservationExclusive` and `AcceptingIsOver`.
  `DrainInvariant`: the count of `sessionsWG` is the number of goroutines that run
  (`CountInv`), and the drain channel Shutdown captured is the current one for good, since
  after `NoAcceptAfterShutdown` the count cannot leave zero again (`ChannelInv`). From it
  `TypeCorrect` (the count is never negative) and `DrainComplete`.
* `EventDispatcher_proofs`. `FanoutInvariant`: `FreshInv` (what was not made is blank) and
  `DetachInv` (the adapter's dispatcher has its socket; one being torn down is no longer
  the adapter's or no longer runs) with the type invariant. From it `EventsTypeCorrect`,
  `ChannelsSafe` and `OneWorkingDispatcher`. `UnboundAnnouncedTruly` rests on an invariant
  of its own, `Ordered`: the uevents of a device still queued on a dispatcher's socket lead
  from what its `hostBound` tracks to the driver the device has now.
* `Importer_proofs`. `ImporterInvariant` has nine parts, because each property of the
  importer depends on what the others may do at the same time: `PortInv` (a call has its
  reservation from the write to the publication), `ReservedInv` and `UntrackedInv` (who a
  port belongs to meanwhile), `HandleInv` and `ChildInv` (handles, watchers and their one
  reconnect), `BodyInv`, `DetachInv` and `NilInv` (the owner of an attempt, those who wait
  for it and what its nil means), `CloseInv`. The argument is that a generation is named
  once: a port number may come back, the handle that had it does not. From it
  `TypeCorrect`, `PortsTracked`, `OneDetach`, `NilReleases` and `CloseFinal`, for any number
  of calls, keys and ports, with bounded or unbounded waits.
* `Daemon_proofs`. `DaemonInvariant`: the path's name is changed by whoever holds the lock
  file or by its owner, and what a daemon in its bind phase has found out about the name
  stays true until it acts on it (`NameInv`); a listener is open exactly from bind to close
  (`GoroutineInv`); "accepting" is said between the first Accept and the end of Serve
  (`AcceptingInv`); `ClientInv` says what a drain client may conclude. From it `CleanExit`
  and the action properties `GoneIsShutdown` and `LosersSpare`, for any number of daemons,
  crashes and failing calls.
* `History_proofs`. `NoLostUpdate` is an action property and not inductive: that the rename
  writes the right list needs `HiInv`, which says that whoever is inside the update holds
  the flock, and that from its read to its rename the list it carries is the update of what
  the file holds *now*. With several processes inside, the second half would break at the
  first rename; the flock is what makes it inductive. From it `NoUpdateIsLost`;
  `TemporariesGo` is inductive by itself given that temporaries belong to recorders.
  `HistoryKept` is both, the `HistoryIsKept` of the host run.
* `VhciPorts_proofs`. `FlatPortIsUnique` and `FlatPortInWindow` are about the arithmetic of
  topology.go for every number of controllers and every VHCI_HC_PORTS: two root ports never
  share a number, and a number lies in its controller's window, which is the check of
  parseStatusLine. The key fact is `BlocksDisjoint`, that a multiple of the width and a rest
  below it determine each other. `PortsTrue` is about the operations, with any number of
  reloads and port changes between two reads. `VpRowInv`: the rows read are of controllers
  already passed, each of its own port, and a free one was free when it was read;
  `VpSeenInv`: what the watched port is now has been recorded; `VpStableInv`: a port that
  was there and taken all along belongs to a module that was never reloaded, so its row was
  read as taken, which is why "not bound" is true. `VpMapInv` with `FlatPortIsOnto` makes
  the bus map cover every port once.
* `Host_proofs`. The components of `MCHost`, and the host.
  `StreamsRefine` is the refinement of `EventStream`: `EvListInv` says that a listed
  subscriber is being iterated and not barred and that the owner takes the list after nobody
  can register any more; with it every step of `EventFanout` is a step of the abstract
  stream or a stutter. `StatusTimely`: `KmCacheInv` says that no answered look is newer than
  the last store, and that what is cached is the newest answered unless it was stored late:
  whoever stores has found the last store a lifetime ago, and a look that is younger than a
  lifetime is newer than that. Nothing is assumed of how long a probe takes. `RdInv`: a
  request that waits while the daemon serves has seen it serve.
  `OfferExact`: `EnListInv`, the listing has not lost
  a steady device. `BindSafe`: `BdMatchInv` says, call by call and step by step, how the
  match table and the driver differ in the middle of a call, `BdLiveInv` that usbip-host
  keeps a live udev for a device it has let go of until the rebind, `BdDriverInv` that a
  device is without a driver only in the middle of a call that will ask for a probe.
  `ImportFaithful`: `WiReplyInv` and `WiStreamInv` say what of the reply is on the wire
  (header, device, then the kernel's own units, or part of the unit a cut left) and
  `WiDecodeInv` that the decoder has taken exactly what it decoded. `OurBusIDArrives` and
  `AcceptedBusID` are the padded field there and back, for every field size.
  `ExchangeFaithful` adds the list. Its reply has as many units as the devices have
  interfaces, so the proof first counts: `FlattenAppend` is the recursion of `FlattenSeq`,
  `SentFacts` and `ReplyFacts` say at which unit the i-th device and its j-th interface
  stand, by a least counterexample over the devices (`UpTo`). `ListStreamInv` says that the
  stream is the reply's beginning, with part of a unit after a cut; `ListDecodeInv` that the
  decoder holds the first k devices and j interfaces of the next and has read just their
  units, so that it can only end well at the last unit of a reply that was encoded in full.
  `HistoryTyped`, by the same counting: what `MRU` makes of a list without duplicates within
  the cap is such a list (`WithoutFacts`, `MRUKeepsHistories`), and with `HiInv` so is what
  is renamed over the file. `WireTyped` bounds what a decoder reads and holds.
  `HostIsItsParts`: in a behaviour of `HostSpec` every component behaves as its own
  specification says (each step is a step of one and leaves the others), so that all of
  these hold of the host the run checks (`HostTyped`, `HostIsSafe`).

Only model-checked: everything temporal under fairness (`SessionsEnd`, `ServeEnds`,
`SubscriptionsEnd`, `DetachTakesEffect`, `DrainEndsDaemon`, `HostCallsReturn`), which is out
of the prover's reach.

## 6. Plan

1. An abstract session (exported, released once) that ExporterSession implements.
2. The backoff's delays, the rate limiter and the ACL as operators against reference
   definitions; the choice among listeners passed by systemd.

## 7. Not modelled

The bytes of the wire protocol below the units of `Wire`, sysfs paths and the text of its
files, socket options, systemd activation, command line and output, metrics and logs: they
keep no state that two actors share. Rate limiter and ACL appear as a refusal that may
happen. A device that is replaced between two reads of its attributes is described by a
mixture of both; the code cannot know and promises nothing. The kernel's own USB/IP code is
represented by what the adapter can see of it.
