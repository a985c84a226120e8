--------------------------- MODULE EventDispatcher ---------------------------
(***************************************************************************)
(* EventsAdapter (internal/adapter/kernel/uevent.go): one netlink socket,  *)
(* opened by the first Subscribe, read by a dispatcher goroutine that maps *)
(* uevents and fans them out, and released by the last unsubscribe or when *)
(* reading fails.                                                          *)
(*                                                                         *)
(* Every dial makes a new dispatcher, so dispatchers are numbered.         *)
(* Subscribe holds dispMu throughout and is one step; so is every other    *)
(* critical section of dispMu or of a dispatcher's mu.                     *)
(***************************************************************************)
EXTENDS Integers, Sequences, FiniteSets

CONSTANTS
    Subs,        \* calls of Subscribe
    BusIDs,      \* devices
    BufSize,     \* subscriberChanBuffer
    MaxDials,    \* bound on the number of dispatchers
    MaxUevents   \* bound on the number of uevents the kernel emits

ASSUME DispatcherAssumption ==
    /\ BufSize \in Nat \ {0}
    /\ MaxDials \in Nat \ {0}
    /\ MaxUevents \in Nat

Dispatchers == 1 .. MaxDials
nil == 0

VARIABLES
    (* EventsAdapter, under dispMu *)
    disp,         \* a.disp
    dials,        \* dispatchers made so far
    (* eventDispatcher *)
    subscribers,  \* d.subscribers
    running,      \* the goroutine of run
    stop,         \* dispatchers whose stop channel is closed
    sockOpen,     \* dispatchers whose socket is open
    cleanup,      \* the cleanup goroutine of the first Subscribe
    hostBound,    \* mapper.hostBound
    (* subscriptions *)
    dispOf,       \* the dispatcher a subscription joined
    unsub,        \* where the body of its unsubscribe func stands
    ctxWatcher,   \* its ctx-watcher goroutine
    chan,         \* what its channel buffers
    closed,       \* how often its channel was closed; the second close panics
    (* the kernel *)
    driver,       \* the driver a device is bound to
    netlink,      \* uevents queued on a dispatcher's socket
    emitted       \* uevents emitted so far

adapterVars == <<disp, dials>>
dispVars    == <<subscribers, running, stop, sockOpen, cleanup, hostBound>>
subVars     == <<dispOf, unsub, ctxWatcher, chan, closed>>
kernelVars  == <<driver, netlink, emitted>>

vars == <<adapterVars, dispVars, subVars, kernelVars>>

\* A uevent: a driver-core bind or unbind of a device, or one that is mapped without state
\* ("port": a vhci_hcd port or a usbip-vudc controller, whose names are no busids).  `driver`
\* is the DRIVER field of a bind; an unbind carries none, and there the field records, for
\* the properties only, which driver let the device go.
Uevents == [action : {"bind", "unbind", "port"}, busid : BusIDs,
            driver : {"usbip-host", "other"}]

\* What a subscriber receives.  `of` is the uevent the event was made from.
Events == [kind : {"bound", "unbound", "port"}, of : Uevents]

TypeOK ==
    /\ disp \in Dispatchers \cup {nil}
    /\ dials \in 0 .. MaxDials
    /\ subscribers \in [Dispatchers -> SUBSET Subs]
    /\ running \in [Dispatchers -> {"off", "running", "exited"}]
    /\ stop \subseteq Dispatchers
    /\ sockOpen \subseteq Dispatchers
    /\ cleanup \in [Dispatchers -> {"off", "waiting", "clearing", "done"}]
    /\ hostBound \in [Dispatchers -> SUBSET BusIDs]
    /\ dispOf \in [Subs -> Dispatchers \cup {nil}]
    /\ unsub \in [Subs -> {"none", "remove", "stop", "wait", "done"}]
    /\ ctxWatcher \in [Subs -> {"off", "waiting", "done"}]
    /\ chan \in [Subs -> Seq(Events)]
    /\ \A s \in Subs : Len(chan[s]) <= BufSize
    /\ closed \in [Subs -> Nat]
    /\ driver \in [BusIDs -> {"none", "usbip-host", "other"}]
    /\ netlink \in [Dispatchers -> Seq(Uevents)]
    /\ emitted \in 0 .. MaxUevents

Init ==
    /\ disp = nil
    /\ dials = 0
    /\ subscribers = [d \in Dispatchers |-> {}]
    /\ running = [d \in Dispatchers |-> "off"]
    /\ stop = {}
    /\ sockOpen = {}
    /\ cleanup = [d \in Dispatchers |-> "off"]
    /\ hostBound = [d \in Dispatchers |-> {}]
    /\ dispOf = [s \in Subs |-> nil]
    /\ unsub = [s \in Subs |-> "none"]
    /\ ctxWatcher = [s \in Subs |-> "off"]
    /\ chan = [s \in Subs |-> <<>>]
    /\ closed = [s \in Subs |-> 0]
    /\ driver \in [BusIDs -> {"none", "usbip-host", "other"}]
    /\ netlink = [d \in Dispatchers |-> <<>>]
    /\ emitted = 0

-----------------------------------------------------------------------------
(* Subscribe.                                                              *)

Join(s, d) ==
    /\ dispOf' = [dispOf EXCEPT ![s] = d]
    /\ subscribers' = [subscribers EXCEPT ![d] = @ \cup {s}]
    /\ ctxWatcher' = [ctxWatcher EXCEPT ![s] = "waiting"]
    /\ UNCHANGED <<unsub, chan, closed>>

\* ensureDispatcher finds a dispatcher, whatever state it is in.
SubscribeJoins(s) ==
    /\ dispOf[s] = nil
    /\ disp # nil
    /\ Join(s, disp)
    /\ UNCHANGED <<adapterVars, running, stop, sockOpen, cleanup, hostBound, kernelVars>>

\* The first subscriber dials, is registered, and only then starts run and the cleanup
\* goroutine.  A failed dial changes nothing and is no step.
SubscribeDials(s) ==
    /\ dispOf[s] = nil
    /\ disp = nil
    /\ dials < MaxDials
    /\ LET d == dials + 1 IN
          /\ dials' = d
          /\ disp' = d
          /\ sockOpen' = sockOpen \cup {d}
          /\ Join(s, d)
          /\ running' = [running EXCEPT ![d] = "running"]
          /\ cleanup' = [cleanup EXCEPT ![d] = "waiting"]
    /\ UNCHANGED <<stop, hostBound, kernelVars>>

-----------------------------------------------------------------------------
(* unsub, once per subscription.                                           *)

\* The caller, or the ctx-watcher after a cancellation, enters unsub.
BeginUnsub(s) ==
    /\ dispOf[s] # nil
    /\ unsub[s] = "none"
    /\ unsub' = [unsub EXCEPT ![s] = "remove"]
    /\ UNCHANGED <<dispOf, ctxWatcher, chan, closed, adapterVars, dispVars, kernelVars>>

\* Fault: the ctx-watcher does not wait for the dispatcher's done.
CtxWatcherEnds_UnsubOnly(s) ==
    /\ ctxWatcher[s] = "waiting"
    /\ unsub[s] # "none"
    /\ ctxWatcher' = [ctxWatcher EXCEPT ![s] = "done"]
    /\ UNCHANGED <<dispOf, unsub, chan, closed, adapterVars, dispVars, kernelVars>>

\* The ctx-watcher ends when unsub has run or the dispatcher is done.
CtxWatcherEnds(s) ==
    /\ ctxWatcher[s] = "waiting"
    /\ unsub[s] # "none" \/ running[dispOf[s]] = "exited"
    /\ ctxWatcher' = [ctxWatcher EXCEPT ![s] = "done"]
    /\ UNCHANGED <<dispOf, unsub, chan, closed, adapterVars, dispVars, kernelVars>>

\* Fault: the channel is closed whether or not the subscriber is still registered.
RemoveSubscriber_Always(s) ==
    LET d == dispOf[s] IN
    /\ subscribers' = [subscribers EXCEPT ![d] = @ \ {s}]
    /\ closed' = [closed EXCEPT ![s] = @ + 1]

\* removeSubscriber: a subscriber the cleanup goroutine already dropped is not closed again.
RemoveSubscriber(s) ==
    LET d == dispOf[s] IN
    /\ subscribers' = [subscribers EXCEPT ![d] = @ \ {s}]
    /\ closed' = [closed EXCEPT ![s] = IF s \in subscribers[d] THEN @ + 1 ELSE @]

\* removeSubscriberAndDetach: the last subscriber takes the dispatcher from the adapter.
RemoveSubscriberAndDetach(s) ==
    /\ unsub[s] = "remove"
    /\ RemoveSubscriber(s)
    /\ \/ /\ subscribers[dispOf[s]] = {s}
          /\ disp = dispOf[s]
          /\ disp' = nil
          /\ unsub' = [unsub EXCEPT ![s] = "stop"]
       \/ /\ ~(subscribers[dispOf[s]] = {s} /\ disp = dispOf[s])
          /\ unsub' = [unsub EXCEPT ![s] = "done"]
          /\ UNCHANGED disp
    /\ UNCHANGED <<dials, running, stop, sockOpen, cleanup, hostBound, dispOf, ctxWatcher,
                   chan, kernelVars>>

\* tearDownDispatcher: stop, close the socket, then wait for run.
TearDownDispatcher(s) ==
    /\ unsub[s] = "stop"
    /\ stop' = stop \cup {dispOf[s]}
    /\ sockOpen' = sockOpen \ {dispOf[s]}
    /\ netlink' = [netlink EXCEPT ![dispOf[s]] = <<>>]
    /\ unsub' = [unsub EXCEPT ![s] = "wait"]
    /\ UNCHANGED <<dispOf, ctxWatcher, chan, closed, adapterVars, subscribers, running,
                   cleanup, hostBound, driver, emitted>>

TearDownDone(s) ==
    /\ unsub[s] = "wait"
    /\ running[dispOf[s]] = "exited"
    /\ unsub' = [unsub EXCEPT ![s] = "done"]
    /\ UNCHANGED <<dispOf, ctxWatcher, chan, closed, adapterVars, dispVars, kernelVars>>

-----------------------------------------------------------------------------
(* run and the cleanup goroutine.                                          *)

\* run returns: stop is closed, the socket is closed, or Receive failed.  What its socket
\* still queues, and what its mapper had tracked, nobody reads any more.
RunExits(d) ==
    /\ running[d] = "running"
    /\ running' = [running EXCEPT ![d] = "exited"]
    /\ stop' = stop \cup {d}
    /\ hostBound' = [hostBound EXCEPT ![d] = {}]
    /\ netlink' = [netlink EXCEPT ![d] = <<>>]
    /\ UNCHANGED <<adapterVars, subscribers, sockOpen, cleanup, subVars, driver, emitted>>

\* Fault: the buffer grows instead of dropping.
Broadcast_Unbounded(d, ev) ==
    chan' = [s \in Subs |-> IF s \in subscribers[d] THEN Append(chan[s], ev) ELSE chan[s]]

\* broadcast: a subscriber whose buffer is full misses the event.
Broadcast(d, ev) ==
    chan' = [s \in Subs |-> IF s \in subscribers[d] /\ Len(chan[s]) < BufSize
                            THEN Append(chan[s], ev) ELSE chan[s]]

\* Fault: an unbind is taken for one of usbip-host whether or not the bind was.
MapUnbind_Untracked(d, u) ==
    /\ u.action = "unbind"
    /\ hostBound' = [hostBound EXCEPT ![d] = @ \ {u.busid}]
    /\ Broadcast(d, [kind |-> "unbound", of |-> u])

\* mapUSBDriverEvent: a bind to usbip-host is tracked and announced.
MapBind(d, u) ==
    /\ u.action = "bind"
    /\ u.driver = "usbip-host"
    /\ hostBound' = [hostBound EXCEPT ![d] = @ \cup {u.busid}]
    /\ Broadcast(d, [kind |-> "bound", of |-> u])

\* An unbind names no driver: it counts if this dispatcher saw the bind.
MapUnbind(d, u) ==
    /\ u.action = "unbind"
    /\ u.busid \in hostBound[d]
    /\ hostBound' = [hostBound EXCEPT ![d] = @ \ {u.busid}]
    /\ Broadcast(d, [kind |-> "unbound", of |-> u])

\* mapUDCEvent, and mapVhciEvent when a fresh topology resolves the port in one of two
\* attempts.
MapPort(d, u) ==
    /\ u.action = "port"
    /\ Broadcast(d, [kind |-> "port", of |-> u])
    /\ UNCHANGED hostBound

\* Not one of ours, or a port that could not be resolved.
MapNothing(d, u) ==
    /\ \/ u.action = "bind" /\ u.driver # "usbip-host"
       \/ u.action = "unbind" /\ u.busid \notin hostBound[d]
       \/ u.action = "port"
    /\ UNCHANGED <<hostBound, chan>>

\* One turn of the loop of run.
RunReceives(d) ==
    /\ running[d] = "running"
    /\ d \in sockOpen
    /\ netlink[d] # <<>>
    /\ netlink' = [netlink EXCEPT ![d] = Tail(@)]
    /\ LET u == Head(netlink[d]) IN
          MapBind(d, u) \/ MapUnbind(d, u) \/ MapPort(d, u) \/ MapNothing(d, u)
    /\ UNCHANGED <<adapterVars, subscribers, running, stop, sockOpen, cleanup, dispOf,
                   unsub, ctxWatcher, closed, driver, emitted>>

CloseAllSubscribers(d) ==
    /\ subscribers' = [subscribers EXCEPT ![d] = {}]
    /\ closed' = [s \in Subs |-> IF s \in subscribers[d] THEN closed[s] + 1 ELSE closed[s]]

\* The cleanup goroutine after <-done.
CleanupCloses(d) ==
    /\ cleanup[d] = "waiting"
    /\ running[d] = "exited"
    /\ CloseAllSubscribers(d)
    /\ cleanup' = [cleanup EXCEPT ![d] = "clearing"]
    /\ UNCHANGED <<adapterVars, running, stop, sockOpen, hostBound, dispOf, unsub,
                   ctxWatcher, chan, kernelVars>>

\* Fault: the cleanup goroutine takes the adapter's dispatcher for its own.
CleanupDetaches_AnyDispatcher(d) ==
    /\ cleanup[d] = "clearing"
    /\ disp' = nil
    /\ sockOpen' = sockOpen \ {d}
    /\ cleanup' = [cleanup EXCEPT ![d] = "done"]
    /\ UNCHANGED <<dials, subscribers, running, stop, hostBound, subVars, kernelVars>>

\* Its critical section of dispMu: a dispatcher nobody tore down is detached here.
CleanupDetaches(d) ==
    /\ cleanup[d] = "clearing"
    /\ disp' = IF disp = d THEN nil ELSE disp
    /\ sockOpen' = IF disp = d THEN sockOpen \ {d} ELSE sockOpen
    /\ cleanup' = [cleanup EXCEPT ![d] = "done"]
    /\ UNCHANGED <<dials, subscribers, running, stop, hostBound, subVars, kernelVars>>

-----------------------------------------------------------------------------
(* Consumers and the kernel.                                               *)

Consume(s) ==
    /\ chan[s] # <<>>
    /\ chan' = [chan EXCEPT ![s] = Tail(@)]
    /\ UNCHANGED <<dispOf, unsub, ctxWatcher, closed, adapterVars, dispVars, kernelVars>>

\* A uevent is multicast to every open socket; one nobody reads is not kept.
Emit(u) ==
    /\ emitted < MaxUevents
    /\ emitted' = emitted + 1
    /\ netlink' = [d \in Dispatchers |->
                      IF d \in sockOpen /\ running[d] = "running"
                      THEN Append(netlink[d], u) ELSE netlink[d]]
    /\ UNCHANGED <<adapterVars, dispVars, subVars>>

BindDriver(b, drv) ==
    /\ driver[b] = "none"
    /\ driver' = [driver EXCEPT ![b] = drv]
    /\ Emit([action |-> "bind", busid |-> b, driver |-> drv])

UnbindDriver(b) ==
    /\ driver[b] # "none"
    /\ driver' = [driver EXCEPT ![b] = "none"]
    /\ Emit([action |-> "unbind", busid |-> b, driver |-> driver[b]])

VhciPortChanges(b) ==
    /\ Emit([action |-> "port", busid |-> b, driver |-> "other"])
    /\ UNCHANGED driver

-----------------------------------------------------------------------------

Unsubscribe(s) == RemoveSubscriberAndDetach(s) \/ TearDownDispatcher(s) \/ TearDownDone(s)

Cleanup(d) == CleanupCloses(d) \/ CleanupDetaches(d)

\* Every subscription was released and its dispatcher is gone; the kernel may go on.
Finished ==
    /\ \A s \in Subs : unsub[s] = "done"
    /\ UNCHANGED vars

Next ==
    \/ \E s \in Subs :
          \/ SubscribeJoins(s) \/ SubscribeDials(s)
          \/ BeginUnsub(s) \/ Unsubscribe(s) \/ CtxWatcherEnds(s) \/ Consume(s)
    \/ \E d \in Dispatchers : RunExits(d) \/ RunReceives(d) \/ Cleanup(d)
    \/ \E b \in BusIDs :
          \/ \E drv \in {"usbip-host", "other"} : BindDriver(b, drv)
          \/ UnbindDriver(b) \/ VhciPortChanges(b)
    \/ Finished

Spec == Init /\ [][Next]_vars

\* Goroutines run and an unsub that was entered is finished.  A stopped dispatcher returns
\* from Receive (the socket is closed or SO_RCVTIMEO wakes it) and sees stop.  Nobody need
\* unsubscribe or consume, and reading need not fail.
Fairness ==
    /\ \A s \in Subs : WF_vars(Unsubscribe(s)) /\ WF_vars(CtxWatcherEnds(s))
    /\ \A d \in Dispatchers : WF_vars(d \in stop /\ RunExits(d)) /\ WF_vars(Cleanup(d))

FairSpec == Spec /\ Fairness

-----------------------------------------------------------------------------
(* Properties.                                                             *)

\* A registered subscriber's channel is open, so broadcast never sends on a closed channel
\* and no channel is closed twice, whichever of unsub and the cleanup goroutine runs first.
RegisteredIsOpen ==
    /\ \A d \in Dispatchers : \A s \in subscribers[d] : dispOf[s] = d /\ closed[s] = 0
    /\ \A s \in Subs : closed[s] <= 1

\* A dispatcher that the last unsubscribe detached has no subscriber and gets none: nobody
\* joins it between the decision and the teardown (removeSubscriberAndDetach).  A
\* dispatcher that works for somebody is the adapter's, so there is at most one.
NobodyJoinsTornDown ==
    \A d \in Dispatchers :
       running[d] = "running" /\ subscribers[d] # {} => disp = d /\ d \in sockOpen

\* DeviceUnbound is announced only when usbip-host let the device go: an unbind of another
\* driver, which looks the same on the wire, ends no session (mapUSBDriverEvent).
UnboundIsTrue ==
    \A s \in Subs : \A i \in DOMAIN chan[s] :
       chan[s][i].kind = "unbound" => chan[s][i].of.driver = "usbip-host"

\* Once every subscription is released, the sockets are closed and the goroutines are gone.
LastUnsubReleases ==
    (\A s \in Subs : unsub[s] # "none") ~>
       /\ sockOpen = {}
       /\ \A d \in Dispatchers : running[d] # "running" /\ cleanup[d] \in {"off", "done"}

\* When reading fails, every subscription made before that sees its stream end, and its
\* ctx-watcher goroutine ends with it although nobody calls unsub.
StreamsEnd ==
    \A s \in Subs : \A d \in Dispatchers :
       [](dispOf[s] = d /\ running[d] = "running"
             => <>\/ closed[s] = 1 /\ ctxWatcher[s] = "done"
                  \/ [](running[d] = "running"))

\* runRegisteredSession: opening the subscription before the handoff "guarantees the event
\* is buffered into our channel regardless of timing".  Of the unbind of a device that was
\* exported while the subscription was open, that would mean: when run reads it off its
\* socket and goes on, every subscriber with room in its buffer gets it.  (What is lost
\* with a socket that fails or is torn down is another matter: there the stream ends.)
UnbindReachesSubscribers ==
    [][\A d \in Dispatchers : \A s \in subscribers[d] :
          /\ running'[d] = "running" /\ d \in sockOpen'
          /\ netlink[d] # <<>> /\ netlink'[d] = Tail(netlink[d])
          /\ Head(netlink[d]).action = "unbind"
          /\ Head(netlink[d]).driver = "usbip-host"
          /\ Len(chan[s]) < BufSize
          => chan'[s] # chan[s]]_vars

\* A subscription ends from either side: released by its last user, or by a failing socket.
SubscriptionsEnd == LastUnsubReleases /\ StreamsEnd
=============================================================================
