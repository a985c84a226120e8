------------------------ MODULE EventDispatcher_proofs ------------------------
(***************************************************************************)
(* Proofs about EventDispatcher: its types, that the fan-out neither sends *)
(* on a closed channel nor serves a subscriber from a dispatcher the       *)
(* adapter has let go, and that an announced unbind was one of usbip-host, *)
(* for any number of subscriptions, dials and uevents.                     *)
(***************************************************************************)
EXTENDS EventDispatcher, TLAPS

-----------------------------------------------------------------------------
(* The inductive invariant.                                                *)

\* Dispatchers and subscriptions that were not made yet are blank.
FreshInv ==
    /\ disp <= dials
    /\ \A d \in Dispatchers :
          d > dials => running[d] = "off" /\ subscribers[d] = {} /\ cleanup[d] = "off"
    /\ \A s \in Subs :
          /\ dispOf[s] <= dials
          /\ dispOf[s] = nil => /\ unsub[s] = "none" /\ closed[s] = 0
                                /\ ctxWatcher[s] = "off"
                                /\ \A d \in Dispatchers : s \notin subscribers[d]

\* The adapter's dispatcher has an open socket; one that is being torn down or that its
\* cleanup goroutine has closed is no longer the adapter's, or no longer runs.
DetachInv ==
    /\ disp # nil => disp \in sockOpen
    /\ \A s \in Subs : unsub[s] \in {"stop", "wait"} => disp # dispOf[s]
    /\ \A d \in Dispatchers : cleanup[d] \in {"clearing", "done"} => running[d] = "exited"

FanoutInv == TypeOK /\ FreshInv /\ DetachInv /\ RegisteredIsOpen /\ NobodyJoinsTornDown

-----------------------------------------------------------------------------

\* Init establishes the invariant.
LEMMA FanoutInit == Init => FanoutInv
  BY DispatcherAssumption DEF Init, FanoutInv, TypeOK, FreshInv, DetachInv,
     RegisteredIsOpen, NobodyJoinsTornDown, Dispatchers, nil

\* Broadcast keeps every buffer within its bound.
LEMMA BroadcastType ==
  ASSUME TypeOK, NEW d \in Dispatchers, NEW ev \in Events, Broadcast(d, ev)
  PROVE  /\ chan' \in [Subs -> Seq(Events)]
         /\ \A s \in Subs : Len(chan'[s]) <= BufSize
  <1>1. ASSUME NEW s \in Subs
        PROVE  chan'[s] \in Seq(Events) /\ Len(chan'[s]) <= BufSize
    <2>1. chan[s] \in Seq(Events) /\ Len(chan[s]) <= BufSize
      BY DEF TypeOK
    <2>2. CASE s \in subscribers[d] /\ Len(chan[s]) < BufSize
      <3>1. chan'[s] = Append(chan[s], ev)
        BY <2>2 DEF Broadcast
      <3>2. Append(chan[s], ev) \in Seq(Events) /\ Len(Append(chan[s], ev)) = Len(chan[s]) + 1
        BY <2>1
      <3> QED BY <3>1, <3>2, <2>1, <2>2, DispatcherAssumption
    <2>3. CASE ~(s \in subscribers[d] /\ Len(chan[s]) < BufSize)
      BY <2>1, <2>3 DEF Broadcast
    <2> QED BY <2>2, <2>3
  <1>2. DOMAIN chan' = Subs /\ chan' = [s \in Subs |-> chan'[s]]
    BY DEF Broadcast
  <1> QED BY <1>1, <1>2

\* Appending a uevent to the open sockets keeps their queues well typed.
LEMMA EmitType ==
  ASSUME TypeOK, NEW u \in Uevents, Emit(u)
  PROVE  netlink' \in [Dispatchers -> Seq(Uevents)] /\ emitted' \in 0 .. MaxUevents
  BY DispatcherAssumption DEF TypeOK, Emit

\* Every step preserves the invariant.
LEMMA FanoutStep == FanoutInv /\ [Next]_vars => FanoutInv'
  <1> SUFFICES ASSUME FanoutInv, [Next]_vars PROVE FanoutInv'
    OBVIOUS
  <1> USE DispatcherAssumption
  <1>1. ASSUME NEW s \in Subs, SubscribeJoins(s) PROVE FanoutInv'
    <2>1. TypeOK'
      BY <1>1 DEF FanoutInv, TypeOK, SubscribeJoins, Join, adapterVars, kernelVars
    <2>2. FreshInv'
      BY <1>1 DEF FanoutInv, FreshInv, TypeOK, Dispatchers, nil, SubscribeJoins, Join,
         adapterVars, kernelVars
    <2>3. DetachInv'
      BY <1>1 DEF FanoutInv, DetachInv, TypeOK, FreshInv, SubscribeJoins, Join,
         adapterVars, kernelVars
    <2>4. RegisteredIsOpen'
      BY <1>1 DEF FanoutInv, RegisteredIsOpen, TypeOK, FreshInv, SubscribeJoins, Join,
         adapterVars, kernelVars
    <2>5. NobodyJoinsTornDown'
      BY <1>1 DEF FanoutInv, NobodyJoinsTornDown, TypeOK, FreshInv, DetachInv,
         SubscribeJoins, Join, adapterVars, kernelVars
    <2> QED BY <2>1, <2>2, <2>3, <2>4, <2>5 DEF FanoutInv
  <1>2. ASSUME NEW s \in Subs, SubscribeDials(s) PROVE FanoutInv'
    <2>1. TypeOK'
      BY SMTT(60), <1>2
      DEF FanoutInv, TypeOK, FreshInv, Dispatchers, nil, SubscribeDials, Join, kernelVars
    <2>2. FreshInv'
      BY SMTT(60), <1>2
      DEF FanoutInv, FreshInv, TypeOK, Dispatchers, nil, SubscribeDials, Join, kernelVars
    <2>3. DetachInv'
      BY <1>2 DEF FanoutInv, DetachInv, TypeOK, FreshInv, SubscribeDials, Join,
         kernelVars
    <2>4. RegisteredIsOpen'
      BY <1>2 DEF FanoutInv, RegisteredIsOpen, TypeOK, FreshInv, SubscribeDials, Join,
         kernelVars
    <2>5. NobodyJoinsTornDown'
      BY <1>2 DEF FanoutInv, NobodyJoinsTornDown, TypeOK, FreshInv, Dispatchers, nil,
         SubscribeDials, Join, kernelVars
    <2> QED BY <2>1, <2>2, <2>3, <2>4, <2>5 DEF FanoutInv
  <1>3. ASSUME NEW s \in Subs, BeginUnsub(s) PROVE FanoutInv'
    <2>1. TypeOK'
      BY <1>3 DEF FanoutInv, TypeOK, BeginUnsub, adapterVars, dispVars, kernelVars
    <2>2. FreshInv'
      BY <1>3 DEF FanoutInv, FreshInv, BeginUnsub, adapterVars, dispVars, kernelVars
    <2>3. DetachInv'
      BY <1>3 DEF FanoutInv, DetachInv, BeginUnsub, adapterVars, dispVars, kernelVars
    <2>4. RegisteredIsOpen'
      BY <1>3 DEF FanoutInv, RegisteredIsOpen, BeginUnsub, adapterVars, dispVars,
         kernelVars
    <2>5. NobodyJoinsTornDown'
      BY <1>3 DEF FanoutInv, NobodyJoinsTornDown, BeginUnsub, adapterVars, dispVars,
         kernelVars
    <2> QED BY <2>1, <2>2, <2>3, <2>4, <2>5 DEF FanoutInv
  <1>4. ASSUME NEW s \in Subs, CtxWatcherEnds(s) PROVE FanoutInv'
    <2>1. TypeOK'
      BY <1>4 DEF FanoutInv, TypeOK, CtxWatcherEnds, adapterVars, dispVars, kernelVars
    <2>2. FreshInv'
      BY <1>4 DEF FanoutInv, FreshInv, CtxWatcherEnds, adapterVars, dispVars, kernelVars
    <2>3. DetachInv'
      BY <1>4 DEF FanoutInv, DetachInv, CtxWatcherEnds, adapterVars, dispVars, kernelVars
    <2>4. RegisteredIsOpen'
      BY <1>4 DEF FanoutInv, RegisteredIsOpen, CtxWatcherEnds, adapterVars, dispVars,
         kernelVars
    <2>5. NobodyJoinsTornDown'
      BY <1>4 DEF FanoutInv, NobodyJoinsTornDown, CtxWatcherEnds, adapterVars, dispVars,
         kernelVars
    <2> QED BY <2>1, <2>2, <2>3, <2>4, <2>5 DEF FanoutInv
  <1>5. ASSUME NEW s \in Subs, RemoveSubscriberAndDetach(s) PROVE FanoutInv'
    <2>1. TypeOK'
      <3>1. dispOf[s] \in Dispatchers /\ subscribers[dispOf[s]] \subseteq Subs
        BY <1>5 DEF FanoutInv, TypeOK, FreshInv, RemoveSubscriberAndDetach
      <3>2. subscribers' \in [Dispatchers -> SUBSET Subs] /\ closed' \in [Subs -> Nat]
        <4>1. RemoveSubscriber(s)
          BY <1>5 DEF RemoveSubscriberAndDetach
        <4> QED BY <3>1, <4>1 DEF FanoutInv, TypeOK, RemoveSubscriber
      <3>3. disp' \in Dispatchers \cup {nil}
        BY <1>5 DEF FanoutInv, TypeOK, RemoveSubscriberAndDetach
      <3>4. unsub' \in [Subs -> {"none", "remove", "stop", "wait", "done"}]
        <4>1. \/ unsub' = [unsub EXCEPT ![s] = "stop"]
              \/ unsub' = [unsub EXCEPT ![s] = "done"]
          BY <1>5 DEF RemoveSubscriberAndDetach
        <4> QED BY <4>1 DEF FanoutInv, TypeOK
      <3> QED BY <1>5, <3>2, <3>3, <3>4
              DEF FanoutInv, TypeOK, RemoveSubscriberAndDetach, kernelVars
    <2>2. FreshInv'
      BY <1>5 DEF FanoutInv, FreshInv, TypeOK, nil, RemoveSubscriberAndDetach,
         RemoveSubscriber, kernelVars
    <2>3. DetachInv'
      BY <1>5 DEF FanoutInv, DetachInv, TypeOK, FreshInv, RemoveSubscriberAndDetach,
         RemoveSubscriber, kernelVars
    <2>4. RegisteredIsOpen'
      BY <1>5 DEF FanoutInv, RegisteredIsOpen, TypeOK, FreshInv,
         RemoveSubscriberAndDetach, RemoveSubscriber, kernelVars
    <2>5. NobodyJoinsTornDown'
      BY <1>5 DEF FanoutInv, NobodyJoinsTornDown, TypeOK, RemoveSubscriberAndDetach,
         RemoveSubscriber, kernelVars
    <2> QED BY <2>1, <2>2, <2>3, <2>4, <2>5 DEF FanoutInv
  <1>6. ASSUME NEW s \in Subs, TearDownDispatcher(s) PROVE FanoutInv'
    <2>1. TypeOK'
      <3>1. dispOf[s] \in Dispatchers
        BY <1>6 DEF FanoutInv, TypeOK, FreshInv, TearDownDispatcher
      <3> QED BY <1>6, <3>1 DEF FanoutInv, TypeOK, TearDownDispatcher, adapterVars, kernelVars
    <2>2. FreshInv'
      BY <1>6 DEF FanoutInv, FreshInv, TearDownDispatcher, adapterVars, kernelVars
    <2>3. DetachInv'
      BY <1>6 DEF FanoutInv, DetachInv, TearDownDispatcher, adapterVars, kernelVars
    <2>4. RegisteredIsOpen'
      BY <1>6 DEF FanoutInv, RegisteredIsOpen, TearDownDispatcher, adapterVars,
         kernelVars
    <2>5. NobodyJoinsTornDown'
      BY <1>6 DEF FanoutInv, NobodyJoinsTornDown, TypeOK, FreshInv, DetachInv,
         TearDownDispatcher, adapterVars, kernelVars
    <2> QED BY <2>1, <2>2, <2>3, <2>4, <2>5 DEF FanoutInv
  <1>7. ASSUME NEW s \in Subs, TearDownDone(s) PROVE FanoutInv'
    <2>1. TypeOK'
      BY <1>7 DEF FanoutInv, TypeOK, TearDownDone, adapterVars, dispVars, kernelVars
    <2>2. FreshInv'
      <3>1. dispOf[s] # nil
        BY <1>7 DEF FanoutInv, FreshInv, TearDownDone
      <3> QED BY <1>7, <3>1 DEF FanoutInv, TypeOK, FreshInv, TearDownDone, adapterVars, dispVars
    <2>3. DetachInv'
      BY <1>7 DEF FanoutInv, DetachInv, TearDownDone, adapterVars, dispVars, kernelVars
    <2>4. RegisteredIsOpen'
      BY <1>7 DEF FanoutInv, RegisteredIsOpen, TearDownDone, adapterVars, dispVars,
         kernelVars
    <2>5. NobodyJoinsTornDown'
      BY <1>7 DEF FanoutInv, NobodyJoinsTornDown, TearDownDone, adapterVars, dispVars,
         kernelVars
    <2> QED BY <2>1, <2>2, <2>3, <2>4, <2>5 DEF FanoutInv
  <1>8. ASSUME NEW s \in Subs, Consume(s) PROVE FanoutInv'
    <2>1. TypeOK'
      BY <1>8 DEF FanoutInv, TypeOK, Consume, adapterVars, dispVars, kernelVars
    <2>2. FreshInv'
      BY <1>8 DEF FanoutInv, FreshInv, Consume, adapterVars, dispVars, kernelVars
    <2>3. DetachInv'
      BY <1>8 DEF FanoutInv, DetachInv, Consume, adapterVars, dispVars, kernelVars
    <2>4. RegisteredIsOpen'
      BY <1>8 DEF FanoutInv, RegisteredIsOpen, Consume, adapterVars, dispVars, kernelVars
    <2>5. NobodyJoinsTornDown'
      BY <1>8 DEF FanoutInv, NobodyJoinsTornDown, Consume, adapterVars, dispVars,
         kernelVars
    <2> QED BY <2>1, <2>2, <2>3, <2>4, <2>5 DEF FanoutInv
  <1>9. ASSUME NEW d \in Dispatchers, RunExits(d) PROVE FanoutInv'
    <2>1. TypeOK'
      BY <1>9 DEF FanoutInv, TypeOK, RunExits, adapterVars, subVars, kernelVars
    <2>2. FreshInv'
      BY <1>9 DEF FanoutInv, FreshInv, RunExits, adapterVars, subVars, kernelVars
    <2>3. DetachInv'
      BY <1>9 DEF FanoutInv, DetachInv, RunExits, adapterVars, subVars, kernelVars
    <2>4. RegisteredIsOpen'
      BY <1>9 DEF FanoutInv, RegisteredIsOpen, RunExits, adapterVars, subVars, kernelVars
    <2>5. NobodyJoinsTornDown'
      BY <1>9 DEF FanoutInv, NobodyJoinsTornDown, RunExits, adapterVars, subVars,
         kernelVars
    <2> QED BY <2>1, <2>2, <2>3, <2>4, <2>5 DEF FanoutInv
  <1>10. ASSUME NEW d \in Dispatchers, RunReceives(d) PROVE FanoutInv'
    <2>1. TypeOK'
      <3> DEFINE u == Head(netlink[d])
      <3>1. u \in Uevents /\ netlink' \in [Dispatchers -> Seq(Uevents)]
        BY <1>10 DEF FanoutInv, TypeOK, RunReceives
      <3>2. \A k \in {"bound", "unbound", "port"} : [kind |-> k, of |-> u] \in Events
        BY <3>1 DEF Events
      <3>3. /\ chan' \in [Subs -> Seq(Events)]
            /\ \A s \in Subs : Len(chan'[s]) <= BufSize
        <4>1. CASE MapNothing(d, u)
          BY <4>1 DEF FanoutInv, TypeOK, MapNothing
        <4>2. CASE MapBind(d, u)
          BY <4>2, <3>2, BroadcastType DEF FanoutInv, MapBind
        <4>3. CASE MapUnbind(d, u)
          BY <4>3, <3>2, BroadcastType DEF FanoutInv, MapUnbind
        <4>4. CASE MapPort(d, u)
          BY <4>4, <3>2, BroadcastType DEF FanoutInv, MapPort
        <4> QED BY <1>10, <4>1, <4>2, <4>3, <4>4 DEF RunReceives
      <3>4. hostBound' \in [Dispatchers -> SUBSET BusIDs]
        <4>1. u.busid \in BusIDs /\ hostBound \in [Dispatchers -> SUBSET BusIDs]
          BY <3>1 DEF FanoutInv, TypeOK, Uevents
        <4>2. MapBind(d, u) \/ MapUnbind(d, u) \/ MapPort(d, u) \/ MapNothing(d, u)
          BY <1>10 DEF RunReceives
        <4> HIDE DEF u
        <4> QED BY <4>1, <4>2 DEF MapBind, MapUnbind, MapPort, MapNothing
      <3> QED BY <1>10, <3>1, <3>3, <3>4 DEF FanoutInv, TypeOK, RunReceives, adapterVars
    <2>2. FreshInv'
      BY <1>10 DEF FanoutInv, FreshInv, RunReceives, adapterVars
    <2>3. DetachInv'
      BY <1>10 DEF FanoutInv, DetachInv, RunReceives, adapterVars
    <2>4. RegisteredIsOpen'
      BY <1>10 DEF FanoutInv, RegisteredIsOpen, RunReceives, adapterVars
    <2>5. NobodyJoinsTornDown'
      BY <1>10 DEF FanoutInv, NobodyJoinsTornDown, RunReceives, adapterVars
    <2> QED BY <2>1, <2>2, <2>3, <2>4, <2>5 DEF FanoutInv
  <1>11. ASSUME NEW d \in Dispatchers, CleanupCloses(d) PROVE FanoutInv'
    <2>1. TypeOK'
      BY <1>11 DEF FanoutInv, TypeOK, CleanupCloses, CloseAllSubscribers, adapterVars,
         kernelVars
    <2>2. FreshInv'
      BY <1>11 DEF FanoutInv, FreshInv, CleanupCloses, CloseAllSubscribers, adapterVars,
         kernelVars
    <2>3. DetachInv'
      BY <1>11 DEF FanoutInv, DetachInv, CleanupCloses, CloseAllSubscribers, adapterVars,
         kernelVars
    <2>4. RegisteredIsOpen'
      BY <1>11 DEF FanoutInv, RegisteredIsOpen, TypeOK, CleanupCloses,
         CloseAllSubscribers, adapterVars, kernelVars
    <2>5. NobodyJoinsTornDown'
      BY <1>11 DEF FanoutInv, NobodyJoinsTornDown, CleanupCloses, CloseAllSubscribers,
         adapterVars, kernelVars
    <2> QED BY <2>1, <2>2, <2>3, <2>4, <2>5 DEF FanoutInv
  <1>12. ASSUME NEW d \in Dispatchers, CleanupDetaches(d) PROVE FanoutInv'
    <2>1. TypeOK'
      BY <1>12 DEF FanoutInv, TypeOK, CleanupDetaches, subVars, kernelVars
    <2>2. FreshInv'
      BY <1>12 DEF FanoutInv, FreshInv, TypeOK, nil, CleanupDetaches, subVars, kernelVars
    <2>3. DetachInv'
      BY <1>12 DEF FanoutInv, DetachInv, TypeOK, FreshInv, CleanupDetaches, subVars,
         kernelVars
    <2>4. RegisteredIsOpen'
      BY <1>12 DEF FanoutInv, RegisteredIsOpen, CleanupDetaches, subVars, kernelVars
    <2>5. NobodyJoinsTornDown'
      BY <1>12 DEF FanoutInv, NobodyJoinsTornDown, TypeOK, FreshInv, DetachInv,
         CleanupDetaches, subVars, kernelVars
    <2> QED BY <2>1, <2>2, <2>3, <2>4, <2>5 DEF FanoutInv
  <1>13. ASSUME NEW b \in BusIDs, NEW drv \in {"usbip-host", "other"},
             BindDriver(b, drv)
        PROVE  FanoutInv'
    <2>1. TypeOK'
      <3> DEFINE u == [action |-> "bind", busid |-> b, driver |-> drv]
      <3>1. u \in Uevents
        BY <1>13 DEF FanoutInv, TypeOK, BindDriver, Uevents
      <3>2. netlink' \in [Dispatchers -> Seq(Uevents)] /\ emitted' \in 0 .. MaxUevents
        BY <1>13, <3>1, EmitType DEF FanoutInv, BindDriver
      <3> QED BY <1>13, <3>2 DEF FanoutInv, TypeOK, BindDriver, Emit, adapterVars, dispVars,
                subVars
    <2>2. FreshInv'
      BY <1>13 DEF FanoutInv, FreshInv, BindDriver, Emit, adapterVars, dispVars, subVars
    <2>3. DetachInv'
      BY <1>13 DEF FanoutInv, DetachInv, BindDriver, Emit, adapterVars, dispVars, subVars
    <2>4. RegisteredIsOpen'
      BY <1>13 DEF FanoutInv, RegisteredIsOpen, BindDriver, Emit, adapterVars, dispVars,
         subVars
    <2>5. NobodyJoinsTornDown'
      BY <1>13 DEF FanoutInv, NobodyJoinsTornDown, BindDriver, Emit, adapterVars,
         dispVars, subVars
    <2> QED BY <2>1, <2>2, <2>3, <2>4, <2>5 DEF FanoutInv
  <1>14. ASSUME NEW b \in BusIDs, UnbindDriver(b) PROVE FanoutInv'
    <2>1. TypeOK'
      <3> DEFINE u == [action |-> "unbind", busid |-> b, driver |-> driver[b]]
      <3>1. u \in Uevents
        BY <1>14 DEF FanoutInv, TypeOK, UnbindDriver, Uevents
      <3>2. netlink' \in [Dispatchers -> Seq(Uevents)] /\ emitted' \in 0 .. MaxUevents
        BY <1>14, <3>1, EmitType DEF FanoutInv, UnbindDriver
      <3> QED BY <1>14, <3>2 DEF FanoutInv, TypeOK, UnbindDriver, Emit, adapterVars, dispVars,
                subVars
    <2>2. FreshInv'
      BY <1>14 DEF FanoutInv, FreshInv, UnbindDriver, Emit, adapterVars, dispVars,
         subVars
    <2>3. DetachInv'
      BY <1>14 DEF FanoutInv, DetachInv, UnbindDriver, Emit, adapterVars, dispVars,
         subVars
    <2>4. RegisteredIsOpen'
      BY <1>14 DEF FanoutInv, RegisteredIsOpen, UnbindDriver, Emit, adapterVars,
         dispVars, subVars
    <2>5. NobodyJoinsTornDown'
      BY <1>14 DEF FanoutInv, NobodyJoinsTornDown, UnbindDriver, Emit, adapterVars,
         dispVars, subVars
    <2> QED BY <2>1, <2>2, <2>3, <2>4, <2>5 DEF FanoutInv
  <1>15. ASSUME NEW b \in BusIDs, VhciPortChanges(b) PROVE FanoutInv'
    <2>1. TypeOK'
      <3> DEFINE u == [action |-> "port", busid |-> b, driver |-> "other"]
      <3>1. u \in Uevents
        BY <1>15 DEF FanoutInv, TypeOK, VhciPortChanges, Uevents
      <3>2. netlink' \in [Dispatchers -> Seq(Uevents)] /\ emitted' \in 0 .. MaxUevents
        BY <1>15, <3>1, EmitType DEF FanoutInv, VhciPortChanges
      <3> QED BY <1>15, <3>2 DEF FanoutInv, TypeOK, VhciPortChanges, Emit, adapterVars,
                dispVars, subVars
    <2>2. FreshInv'
      BY <1>15 DEF FanoutInv, FreshInv, VhciPortChanges, Emit, adapterVars, dispVars,
         subVars
    <2>3. DetachInv'
      BY <1>15 DEF FanoutInv, DetachInv, VhciPortChanges, Emit, adapterVars, dispVars,
         subVars
    <2>4. RegisteredIsOpen'
      BY <1>15 DEF FanoutInv, RegisteredIsOpen, VhciPortChanges, Emit, adapterVars,
         dispVars, subVars
    <2>5. NobodyJoinsTornDown'
      BY <1>15 DEF FanoutInv, NobodyJoinsTornDown, VhciPortChanges, Emit, adapterVars,
         dispVars, subVars
    <2> QED BY <2>1, <2>2, <2>3, <2>4, <2>5 DEF FanoutInv
  <1>16. ASSUME UNCHANGED vars PROVE FanoutInv'
    BY <1>16 DEF FanoutInv, TypeOK, FreshInv, DetachInv, RegisteredIsOpen,
       NobodyJoinsTornDown, vars, adapterVars, dispVars, subVars, kernelVars
  <1> QED
    BY <1>1, <1>2, <1>3, <1>4, <1>5, <1>6, <1>7, <1>8, <1>9, <1>10, <1>11, <1>12,
       <1>13, <1>14, <1>15, <1>16 DEF Next, Unsubscribe, Cleanup, Finished

-----------------------------------------------------------------------------

\* The fan-out invariant holds in every reachable state of EventsAdapter.
THEOREM FanoutInvariant == Spec => []FanoutInv
  <1>1. Init => FanoutInv
    BY FanoutInit
  <1>2. FanoutInv /\ [Next]_vars => FanoutInv'
    BY FanoutStep
  <1> QED BY <1>1, <1>2, PTL DEF Spec

\* The variables of EventsAdapter keep their types and no buffer exceeds its bound.
THEOREM EventsTypeCorrect == Spec => []TypeOK
  <1>1. FanoutInv => TypeOK
    BY DEF FanoutInv
  <1> QED BY <1>1, FanoutInvariant, PTL

\* broadcast never sends on a closed channel and no channel is closed twice, however
\* unsub, a context cancellation and the death of the dispatcher interleave.
THEOREM ChannelsSafe == Spec => []RegisteredIsOpen
  <1>1. FanoutInv => RegisteredIsOpen
    BY DEF FanoutInv
  <1> QED BY <1>1, FanoutInvariant, PTL

\* No subscriber is served by a dispatcher the adapter has let go, and so at most one
\* dispatcher works at a time (removeSubscriberAndDetach decides under dispMu).
THEOREM OneWorkingDispatcher == Spec => []NobodyJoinsTornDown
  <1>1. FanoutInv => NobodyJoinsTornDown
    BY DEF FanoutInv
  <1> QED BY <1>1, FanoutInvariant, PTL
-----------------------------------------------------------------------------
(* The mapping of unbinds.  An unbind names no driver, so that it is taken *)
(* for one of usbip-host rests on the order of binds and unbinds in the    *)
(* queue of the socket and on what the dispatcher has tracked.             *)

HostBinds(u, b) == u.action = "bind" /\ u.busid = b /\ u.driver = "usbip-host"

Unbinds(u, b) == u.action = "unbind" /\ u.busid = b

\* In queue q an unbind of device b by another driver than usbip-host, queued or (when drv,
\* the driver b has now, is another) still to come, has an earlier unbind between it and
\* every bind to usbip-host, the tracked one included.
Ordered(q, b, tracked, drv) ==
    /\ \A i \in DOMAIN q :
          Unbinds(q[i], b) /\ q[i].driver # "usbip-host" =>
             /\ b \in tracked => \E j \in 1 .. i - 1 : Unbinds(q[j], b)
             /\ \A k \in 1 .. i - 1 :
                   HostBinds(q[k], b) => \E j \in k + 1 .. i - 1 : Unbinds(q[j], b)
    /\ drv # "usbip-host" =>
          /\ b \in tracked => \E j \in DOMAIN q : Unbinds(q[j], b)
          /\ \A k \in DOMAIN q :
                HostBinds(q[k], b) => \E j \in k + 1 .. Len(q) : Unbinds(q[j], b)

MappingInv ==
    /\ \A d \in Dispatchers :
          running[d] = "off" => netlink[d] = <<>> /\ hostBound[d] = {} /\ d \notin sockOpen
    /\ \A d \in sockOpen : running[d] = "running" =>
          \A b \in BusIDs :
             Ordered(netlink[d], b, hostBound[d], driver[b])

\* Receiving the head of the queue keeps the order: a bind to usbip-host makes the device
\* tracked, an unbind makes it untracked, anything else leaves that alone.
LEMMA OrderedPop ==
  ASSUME NEW q \in Seq(Uevents), q # <<>>, NEW b \in BusIDs,
         NEW T, NEW T2, NEW drv,
         Ordered(q, b, T, drv),
         \/ HostBinds(Head(q), b)
         \/ b \notin T2
         \/ (b \in T2 <=> b \in T) /\ ~Unbinds(Head(q), b)
  PROVE  Ordered(Tail(q), b, T2, drv)
  <1> DEFINE t == Tail(q)
  <1>1. /\ t \in Seq(Uevents) /\ Len(t) = Len(q) - 1 /\ Len(q) \in Nat \ {0}
        /\ Head(q) = q[1]
        /\ \A i \in 1 .. Len(q) - 1 : t[i] = q[i + 1]
    OBVIOUS
  <1>2. DOMAIN q = 1 .. Len(q) /\ DOMAIN t = 1 .. Len(q) - 1
    BY <1>1
  <1> HIDE DEF t
  <1>3. ASSUME NEW i \in DOMAIN t, Unbinds(t[i], b), t[i].driver # "usbip-host"
        PROVE  /\ b \in T2 => \E j \in 1 .. i - 1 : Unbinds(t[j], b)
               /\ \A k \in 1 .. i - 1 :
                     HostBinds(t[k], b) => \E j \in k + 1 .. i - 1 : Unbinds(t[j], b)
    <2>1. /\ i + 1 \in DOMAIN q /\ q[i + 1] = t[i]
          /\ b \in T => \E j \in 1 .. i : Unbinds(q[j], b)
          /\ \A k \in 1 .. i :
                HostBinds(q[k], b) => \E j \in k + 1 .. i : Unbinds(q[j], b)
      <3>1. i + 1 \in DOMAIN q /\ q[i + 1] = t[i] /\ (i + 1) - 1 = i
        BY <1>1, <1>2
      <3> QED BY <3>1, <1>3 DEF Ordered
    <2>2. ASSUME b \in T2 PROVE \E j \in 1 .. i - 1 : Unbinds(t[j], b)
      <3>1. \E j \in 2 .. i : Unbinds(q[j], b)
        <4>1. CASE HostBinds(q[1], b)
          BY <2>1, <4>1, <1>2
        <4>2. CASE b \in T /\ ~Unbinds(q[1], b)
          <5>1. PICK j \in 1 .. i : Unbinds(q[j], b)
            BY <2>1, <4>2
          <5>2. j # 1
            BY <5>1, <4>2
          <5> QED BY <5>1, <5>2, <1>2
        <4> QED BY <4>1, <4>2, <2>2, <1>1
      <3>2. PICK j \in 2 .. i : Unbinds(q[j], b)
        BY <3>1
      <3>3. j - 1 \in 1 .. i - 1 /\ t[j - 1] = q[j]
        BY <1>1, <1>2
      <3> QED BY <3>2, <3>3
    <2>3. ASSUME NEW k \in 1 .. i - 1, HostBinds(t[k], b)
          PROVE  \E j \in k + 1 .. i - 1 : Unbinds(t[j], b)
      <3>1. k + 1 \in 1 .. i /\ q[k + 1] = t[k]
        BY <1>1, <1>2
      <3>2. PICK j \in (k + 1) + 1 .. i : Unbinds(q[j], b)
        BY <3>1, <2>1, <2>3
      <3>3. j - 1 \in k + 1 .. i - 1 /\ t[j - 1] = q[j]
        BY <1>1, <1>2
      <3> QED BY <3>2, <3>3
    <2> QED BY <2>2, <2>3
  <1>4. ASSUME drv # "usbip-host"
        PROVE  /\ b \in T2 => \E j \in DOMAIN t : Unbinds(t[j], b)
               /\ \A k \in DOMAIN t :
                     HostBinds(t[k], b) => \E j \in k + 1 .. Len(t) : Unbinds(t[j], b)
    <2>1. /\ b \in T => \E j \in DOMAIN q : Unbinds(q[j], b)
          /\ \A k \in DOMAIN q :
                HostBinds(q[k], b) => \E j \in k + 1 .. Len(q) : Unbinds(q[j], b)
      BY <1>4 DEF Ordered
    <2>2. ASSUME b \in T2 PROVE \E j \in DOMAIN t : Unbinds(t[j], b)
      <3>1. \E j \in 2 .. Len(q) : Unbinds(q[j], b)
        <4>1. CASE HostBinds(q[1], b)
          <5>1. 1 \in DOMAIN q
            BY <1>1, <1>2
          <5> QED BY <2>1, <4>1, <5>1
        <4>2. CASE b \in T /\ ~Unbinds(q[1], b)
          <5>1. PICK j \in DOMAIN q : Unbinds(q[j], b)
            BY <2>1, <4>2
          <5>2. j # 1
            BY <5>1, <4>2
          <5> QED BY <5>1, <5>2, <1>2
        <4> QED BY <4>1, <4>2, <2>2, <1>1
      <3>2. PICK j \in 2 .. Len(q) : Unbinds(q[j], b)
        BY <3>1
      <3>3. j - 1 \in DOMAIN t /\ t[j - 1] = q[j]
        BY <1>1, <1>2
      <3> QED BY <3>2, <3>3
    <2>3. ASSUME NEW k \in DOMAIN t, HostBinds(t[k], b)
          PROVE  \E j \in k + 1 .. Len(t) : Unbinds(t[j], b)
      <3>1. k + 1 \in DOMAIN q /\ q[k + 1] = t[k]
        BY <1>1, <1>2
      <3>2. PICK j \in (k + 1) + 1 .. Len(q) : Unbinds(q[j], b)
        BY <3>1, <2>1, <2>3
      <3>3. j - 1 \in k + 1 .. Len(t) /\ t[j - 1] = q[j]
        BY <1>1, <1>2
      <3> QED BY <3>2, <3>3
    <2> QED BY <2>2, <2>3
  <1>5. /\ \A i \in DOMAIN t :
             Unbinds(t[i], b) /\ t[i].driver # "usbip-host" =>
             /\ b \in T2 => \E j \in 1 .. i - 1 : Unbinds(t[j], b)
             /\ \A k \in 1 .. i - 1 :
                   HostBinds(t[k], b) => \E j \in k + 1 .. i - 1 : Unbinds(t[j], b)
    BY <1>3
  <1> QED BY <1>4, <1>5 DEF Ordered, t

\* Queueing a uevent keeps the order, when an unbind of another driver is only queued
\* while the device is bound to it, and a driver of its own only follows an unbind.
LEMMA OrderedPush ==
  ASSUME NEW q \in Seq(Uevents), NEW b \in BusIDs, NEW u \in Uevents,
         NEW T, NEW drv, NEW drv2,
         Ordered(q, b, T, drv),
         Unbinds(u, b) /\ u.driver # "usbip-host" => drv # "usbip-host",
         drv2 # "usbip-host" =>
            (drv # "usbip-host" /\ ~HostBinds(u, b)) \/ Unbinds(u, b)
  PROVE  Ordered(Append(q, u), b, T, drv2)
  <1> DEFINE t == Append(q, u)
             n == Len(q)
  <1>1. /\ n \in Nat /\ DOMAIN q = 1 .. n /\ DOMAIN t = 1 .. n + 1 /\ Len(t) = n + 1
        /\ \A i \in 1 .. n : t[i] = q[i]
        /\ t[n + 1] = u
    OBVIOUS
  <1>2. u.action = "bind" => u.action # "unbind"
    OBVIOUS
  <1> HIDE DEF t, n
  <1>3. ASSUME NEW i \in DOMAIN t, Unbinds(t[i], b), t[i].driver # "usbip-host"
        PROVE  /\ b \in T => \E j \in 1 .. i - 1 : Unbinds(t[j], b)
               /\ \A k \in 1 .. i - 1 :
                     HostBinds(t[k], b) => \E j \in k + 1 .. i - 1 : Unbinds(t[j], b)
    <2>1. CASE i \in 1 .. n
      BY SMTT(60), <2>1, <1>1, <1>3 DEF Ordered
    <2>2. CASE i = n + 1
      <3>1. drv # "usbip-host"
        BY <2>2, <1>1, <1>3
      <3>2. i - 1 = n
        BY <2>2, <1>1
      <3> QED BY <3>1, <3>2, <1>1 DEF Ordered, n
    <2> QED BY <2>1, <2>2, <1>1
  <1>4. ASSUME drv2 # "usbip-host"
        PROVE  /\ b \in T => \E j \in DOMAIN t : Unbinds(t[j], b)
               /\ \A k \in DOMAIN t :
                     HostBinds(t[k], b) => \E j \in k + 1 .. Len(t) : Unbinds(t[j], b)
    <2>1. CASE Unbinds(u, b)
      <3>1. n + 1 \in DOMAIN t /\ Unbinds(t[n + 1], b)
        BY <2>1, <1>1
      <3>2. ASSUME NEW k \in DOMAIN t, HostBinds(t[k], b)
            PROVE  n + 1 \in k + 1 .. Len(t)
        <4>1. k # n + 1
          BY <3>2, <3>1 DEF HostBinds, Unbinds
        <4> QED BY <4>1, <1>1
      <3> QED BY <3>1, <3>2
    <2>2. CASE drv # "usbip-host" /\ ~HostBinds(u, b)
      <3>1. /\ b \in T => \E j \in 1 .. n : Unbinds(q[j], b)
            /\ \A k \in 1 .. n :
                  HostBinds(q[k], b) => \E j \in k + 1 .. n : Unbinds(q[j], b)
        BY <2>2, <1>1 DEF Ordered, n
      <3> QED BY <3>1, <2>2, <1>1
    <2> QED BY <2>1, <2>2, <1>4
  <1> QED BY <1>3, <1>4 DEF Ordered, t

\* What mapUSBDriverEvent announces was let go by usbip-host, and the order of the queues
\* that this rests on is kept.
LEMMA MappingStep ==
  FanoutInv /\ MappingInv /\ UnboundIsTrue /\ [Next]_vars => MappingInv' /\ UnboundIsTrue'
  <1> SUFFICES ASSUME FanoutInv, MappingInv, UnboundIsTrue, [Next]_vars
               PROVE  MappingInv' /\ UnboundIsTrue'
    OBVIOUS
  <1> USE DispatcherAssumption
  <1>1. ASSUME NEW s \in Subs, SubscribeJoins(s) PROVE MappingInv' /\ UnboundIsTrue'
    BY <1>1 DEF MappingInv, UnboundIsTrue, SubscribeJoins, Join, adapterVars, kernelVars
  <1>2. ASSUME NEW s \in Subs, SubscribeDials(s) PROVE MappingInv' /\ UnboundIsTrue'
    <2> DEFINE d0 == dials + 1
    <2>1. d0 \in Dispatchers /\ netlink[d0] = <<>> /\ hostBound[d0] = {}
      BY <1>2 DEF FanoutInv, TypeOK, FreshInv, MappingInv, SubscribeDials, Dispatchers
    <2>2. \A b \in BusIDs : Ordered(<<>>, b, {}, driver[b])
      BY DEF Ordered
    <2>3. /\ netlink' = netlink /\ hostBound' = hostBound /\ driver' = driver
          /\ sockOpen' = sockOpen \cup {d0}
          /\ running' = [running EXCEPT ![d0] = "running"]
      BY <1>2 DEF SubscribeDials, kernelVars
    <2>4. \A b \in BusIDs :
             Ordered(netlink[d0], b, hostBound[d0], driver[b])
      BY <2>1, <2>2
    <2>5. MappingInv'
      BY <2>1, <2>3, <2>4 DEF MappingInv, FanoutInv, TypeOK
    <2>6. UnboundIsTrue'
      BY <1>2 DEF UnboundIsTrue, SubscribeDials, Join
    <2> QED BY <2>5, <2>6
  <1>3. ASSUME NEW s \in Subs, BeginUnsub(s) \/ CtxWatcherEnds(s) \/ TearDownDone(s)
        PROVE  MappingInv' /\ UnboundIsTrue'
    BY <1>3 DEF MappingInv, UnboundIsTrue, BeginUnsub, CtxWatcherEnds, TearDownDone,
       adapterVars, dispVars, kernelVars
  <1>4. ASSUME NEW s \in Subs, RemoveSubscriberAndDetach(s)
        PROVE  MappingInv' /\ UnboundIsTrue'
    BY <1>4 DEF MappingInv, UnboundIsTrue, RemoveSubscriberAndDetach, kernelVars
  <1>5. ASSUME NEW s \in Subs, TearDownDispatcher(s) PROVE MappingInv' /\ UnboundIsTrue'
    <2>1. UnboundIsTrue'
      BY <1>5 DEF UnboundIsTrue, TearDownDispatcher
    <2>2. dispOf[s] \in Dispatchers
      BY <1>5 DEF FanoutInv, TypeOK, FreshInv, TearDownDispatcher
    <2>3. /\ running' = running /\ hostBound' = hostBound /\ driver' = driver
          /\ sockOpen' = sockOpen \ {dispOf[s]}
          /\ netlink' = [netlink EXCEPT ![dispOf[s]] = <<>>]
      BY <1>5 DEF TearDownDispatcher
    <2>4. MappingInv'
      BY <2>2, <2>3 DEF MappingInv, FanoutInv, TypeOK
    <2> QED BY <2>1, <2>4
  <1>6. ASSUME NEW s \in Subs, Consume(s) PROVE MappingInv' /\ UnboundIsTrue'
    <2>1. MappingInv'
      BY <1>6 DEF MappingInv, Consume, dispVars, kernelVars
    <2>2. chan[s] \in Seq(Events) /\ chan[s] # <<>>
          /\ chan' = [chan EXCEPT ![s] = Tail(chan[s])] /\ chan \in [Subs -> Seq(Events)]
      BY <1>6 DEF FanoutInv, TypeOK, Consume
    <2>3. \A i \in DOMAIN Tail(chan[s]) :
             i + 1 \in DOMAIN chan[s] /\ Tail(chan[s])[i] = chan[s][i + 1]
      BY <2>2
    <2>4. UnboundIsTrue'
      BY <2>2, <2>3 DEF UnboundIsTrue
    <2> QED BY <2>1, <2>4
  <1>7. ASSUME NEW d \in Dispatchers, RunExits(d) PROVE MappingInv' /\ UnboundIsTrue'
    <2>1. UnboundIsTrue'
      BY <1>7 DEF UnboundIsTrue, RunExits, subVars
    <2>2. /\ running' = [running EXCEPT ![d] = "exited"] /\ sockOpen' = sockOpen
          /\ driver' = driver
          /\ netlink' = [netlink EXCEPT ![d] = <<>>]
          /\ hostBound' = [hostBound EXCEPT ![d] = {}]
      BY <1>7 DEF RunExits
    <2>3. MappingInv'
      BY <2>2 DEF MappingInv, FanoutInv, TypeOK
    <2> QED BY <2>1, <2>3
  <1>8. ASSUME NEW d \in Dispatchers, RunReceives(d) PROVE MappingInv' /\ UnboundIsTrue'
    <2> DEFINE q == netlink[d]
               u == Head(netlink[d])
    <2>1. /\ q \in Seq(Uevents) /\ q # <<>> /\ u \in Uevents /\ d \in sockOpen
          /\ running[d] = "running" /\ running' = running /\ sockOpen' = sockOpen
          /\ driver' = driver
          /\ netlink' = [netlink EXCEPT ![d] = Tail(q)]
          /\ MapBind(d, u) \/ MapUnbind(d, u) \/ MapPort(d, u) \/ MapNothing(d, u)
      BY <1>8 DEF FanoutInv, TypeOK, RunReceives
    <2>2. \A b \in BusIDs : Ordered(q, b, hostBound[d], driver[b])
      BY <2>1 DEF MappingInv
    <2>3. /\ \A e \in Dispatchers \ {d} : hostBound'[e] = hostBound[e]
          /\ \A b \in BusIDs :
                \/ HostBinds(u, b)
                \/ b \notin hostBound'[d]
                \/ (b \in hostBound'[d] <=> b \in hostBound[d]) /\ ~Unbinds(u, b)
      <3> HIDE DEF u
      <3>1. hostBound \in [Dispatchers -> SUBSET BusIDs]
        BY DEF FanoutInv, TypeOK
      <3>2. CASE MapBind(d, u)
        BY <3>1, <3>2 DEF MapBind, HostBinds, Unbinds
      <3>3. CASE MapUnbind(d, u)
        BY <3>1, <3>3 DEF MapUnbind, HostBinds, Unbinds
      <3>4. CASE MapPort(d, u) \/ MapNothing(d, u)
        BY <3>1, <3>4 DEF MapPort, MapNothing, HostBinds, Unbinds
      <3> QED BY <2>1, <3>2, <3>3, <3>4
    <2>4. ASSUME NEW b \in BusIDs
          PROVE  Ordered(Tail(q), b, hostBound'[d], driver[b])
      <3> HIDE DEF q
      <3>1. Ordered(q, b, hostBound[d], driver[b])
        BY <2>2
      <3>2. \/ HostBinds(Head(q), b)
            \/ b \notin hostBound'[d]
            \/ (b \in hostBound'[d] <=> b \in hostBound[d]) /\ ~Unbinds(Head(q), b)
        BY <2>3 DEF q
      <3> QED BY <2>1, <3>1, <3>2, OrderedPop
    <2>5. MappingInv'
      <3>1. ASSUME NEW e \in sockOpen', running'[e] = "running", NEW b \in BusIDs
            PROVE  Ordered(netlink'[e], b, hostBound'[e], driver'[b])
        <4>0. e \in Dispatchers
          BY <3>1, <2>1 DEF FanoutInv, TypeOK
        <4>1. CASE e = d
          <5>1. netlink'[e] = Tail(q)
            BY <2>1, <4>1 DEF FanoutInv, TypeOK
          <5> HIDE DEF q
          <5> QED BY <4>1, <5>1, <2>1, <2>4
        <4>2. CASE e # d
          <5>1. netlink'[e] = netlink[e] /\ hostBound'[e] = hostBound[e] /\ driver' = driver
            BY <4>0, <4>2, <2>1, <2>3 DEF FanoutInv, TypeOK
          <5>2. Ordered(netlink[e], b, hostBound[e], driver[b])
            BY <3>1, <2>1 DEF MappingInv
          <5> QED BY <5>1, <5>2
        <4> QED BY <4>1, <4>2
      <3>2. ASSUME NEW e \in Dispatchers, running'[e] = "off"
            PROVE  netlink'[e] = <<>> /\ hostBound'[e] = {} /\ e \notin sockOpen'
        <4>1. e # d
          BY <3>2, <2>1
        <4> QED BY <4>1, <3>2, <2>1, <2>3 DEF MappingInv, FanoutInv, TypeOK
      <3> QED BY <3>1, <3>2 DEF MappingInv
    <2>6. UnboundIsTrue'
      <3>1. MapUnbind(d, u) => u.driver = "usbip-host"
        <4> SUFFICES ASSUME MapUnbind(d, u), u.driver # "usbip-host" PROVE FALSE
          OBVIOUS
        <4>1. u.busid \in BusIDs /\ u.busid \in hostBound[d] /\ Unbinds(u, u.busid)
          BY <2>1 DEF MapUnbind, Unbinds, Uevents
        <4>2. 1 \in DOMAIN q /\ q[1] = u
          BY <2>1
        <4>3. Ordered(q, u.busid, hostBound[d], driver[u.busid])
          BY <4>1, <2>2
        <4>4. \E j \in 1 .. 1 - 1 : Unbinds(q[j], u.busid)
          BY <4>1, <4>2, <4>3 DEF Ordered
        <4> QED BY <4>4
      <3> HIDE DEF u, q
      <3>2. ASSUME NEW ev \in Events, Broadcast(d, ev),
                   ev.kind = "unbound" => ev.of.driver = "usbip-host"
            PROVE  UnboundIsTrue'
        <4>1. ASSUME NEW s \in Subs, NEW i \in DOMAIN chan'[s], chan'[s][i].kind = "unbound"
              PROVE  chan'[s][i].of.driver = "usbip-host"
          <5>0. chan[s] \in Seq(Events)
            BY DEF FanoutInv, TypeOK
          <5>1. CASE chan'[s] = chan[s]
            BY <5>1, <4>1 DEF UnboundIsTrue
          <5>2. CASE chan'[s] = Append(chan[s], ev)
            <6>1. /\ i \in 1 .. Len(chan[s]) + 1
                  /\ i \in 1 .. Len(chan[s]) => chan'[s][i] = chan[s][i]
                  /\ i = Len(chan[s]) + 1 => chan'[s][i] = ev
              BY <5>0, <5>2, <4>1
            <6>2. CASE i \in 1 .. Len(chan[s])
              <7>1. i \in DOMAIN chan[s] /\ chan'[s][i] = chan[s][i]
                BY <6>1, <6>2, <5>0
              <7> QED BY <7>1, <4>1 DEF UnboundIsTrue
            <6>3. CASE i = Len(chan[s]) + 1
              BY <6>1, <6>3, <3>2, <4>1
            <6> QED BY <6>1, <6>2, <6>3, <5>0
          <5> QED BY <5>1, <5>2, <3>2 DEF Broadcast
        <4> QED BY <4>1 DEF UnboundIsTrue
      <3>3. \A k \in {"bound", "unbound", "port"} :
               /\ [kind |-> k, of |-> u] \in Events
               /\ [kind |-> k, of |-> u].kind = k
               /\ [kind |-> k, of |-> u].of = u
        BY <2>1 DEF Events
      <3>4. CASE MapBind(d, u)
        BY <3>2, <3>3, <3>4 DEF MapBind
      <3>5. CASE MapUnbind(d, u)
        <4>1. Broadcast(d, [kind |-> "unbound", of |-> u])
          BY <3>5 DEF MapUnbind
        <4> QED BY <3>1, <3>2, <3>3, <3>5, <4>1
      <3>6. CASE MapPort(d, u)
        BY <3>2, <3>3, <3>6 DEF MapPort
      <3>7. CASE MapNothing(d, u)
        BY <3>7 DEF MapNothing, UnboundIsTrue
      <3> QED BY <2>1, <3>4, <3>5, <3>6, <3>7
    <2> QED BY <2>5, <2>6
  <1>9. ASSUME NEW d \in Dispatchers, CleanupCloses(d) PROVE MappingInv' /\ UnboundIsTrue'
    BY <1>9 DEF MappingInv, UnboundIsTrue, CleanupCloses, adapterVars, kernelVars
  <1>10. ASSUME NEW d \in Dispatchers, CleanupDetaches(d)
         PROVE  MappingInv' /\ UnboundIsTrue'
    BY <1>10 DEF MappingInv, UnboundIsTrue, CleanupDetaches, subVars, kernelVars
  <1>11. ASSUME NEW u \in Uevents, Emit(u), driver' \in [BusIDs -> {"none", "usbip-host", "other"}],
                \A b \in BusIDs :
                   /\ Unbinds(u, b) /\ u.driver # "usbip-host" => driver[b] # "usbip-host"
                   /\ driver'[b] # "usbip-host" =>
                         (driver[b] # "usbip-host" /\ ~HostBinds(u, b)) \/ Unbinds(u, b)
         PROVE  MappingInv' /\ UnboundIsTrue'
    <2>1. UnboundIsTrue'
      BY <1>11 DEF UnboundIsTrue, Emit, subVars
    <2>2. running' = running /\ sockOpen' = sockOpen /\ hostBound' = hostBound
      BY <1>11 DEF Emit, dispVars
    <2>3. ASSUME NEW d \in sockOpen, running[d] = "running", NEW b \in BusIDs
          PROVE  Ordered(netlink'[d], b, hostBound[d], driver'[b])
      <3>1. netlink'[d] = Append(netlink[d], u) /\ netlink[d] \in Seq(Uevents)
        BY <1>11, <2>3 DEF Emit, FanoutInv, TypeOK
      <3>2. Ordered(netlink[d], b, hostBound[d], driver[b])
        BY <2>3 DEF MappingInv
      <3>3. /\ Unbinds(u, b) /\ u.driver # "usbip-host" => driver[b] # "usbip-host"
            /\ driver'[b] # "usbip-host" =>
                  (driver[b] # "usbip-host" /\ ~HostBinds(u, b)) \/ Unbinds(u, b)
        BY <1>11
      <3>4. Ordered(Append(netlink[d], u), b, hostBound[d], driver'[b])
        BY <3>1, <3>2, <3>3, OrderedPush
      <3> QED BY <3>1, <3>4
    <2>4. \A d \in Dispatchers : running[d] = "off" => netlink'[d] = netlink[d]
      BY <1>11 DEF Emit
    <2>5. MappingInv'
      BY <2>2, <2>3, <2>4 DEF MappingInv
    <2> QED BY <2>1, <2>5
  <1>12. ASSUME NEW b \in BusIDs, NEW drv \in {"usbip-host", "other"}, BindDriver(b, drv)
         PROVE  MappingInv' /\ UnboundIsTrue'
    <2> DEFINE u == [action |-> "bind", busid |-> b, driver |-> drv]
    <2>1. u \in Uevents /\ Emit(u) /\ driver[b] = "none"
          /\ driver' = [driver EXCEPT ![b] = drv]
          /\ driver \in [BusIDs -> {"none", "usbip-host", "other"}]
      BY <1>12 DEF BindDriver, Uevents, FanoutInv, TypeOK
    <2>2. driver' \in [BusIDs -> {"none", "usbip-host", "other"}]
      BY <2>1
    <2>3. \A c \in BusIDs :
             /\ ~Unbinds(u, c)
             /\ driver'[c] # "usbip-host" => driver[c] # "usbip-host" /\ ~HostBinds(u, c)
      BY <2>1 DEF Unbinds, HostBinds
    <2> HIDE DEF u
    <2> QED BY <2>1, <2>2, <2>3, <1>11
  <1>13. ASSUME NEW b \in BusIDs, UnbindDriver(b) PROVE MappingInv' /\ UnboundIsTrue'
    <2> DEFINE u == [action |-> "unbind", busid |-> b, driver |-> driver[b]]
    <2>1. u \in Uevents /\ Emit(u) /\ driver' = [driver EXCEPT ![b] = "none"]
          /\ driver \in [BusIDs -> {"none", "usbip-host", "other"}]
      BY <1>13 DEF UnbindDriver, Uevents, FanoutInv, TypeOK
    <2>2. driver' \in [BusIDs -> {"none", "usbip-host", "other"}]
      BY <2>1
    <2>3. \A c \in BusIDs :
             /\ Unbinds(u, c) /\ u.driver # "usbip-host" => driver[c] # "usbip-host"
             /\ driver'[c] # "usbip-host" =>
                   (driver[c] # "usbip-host" /\ ~HostBinds(u, c)) \/ Unbinds(u, c)
      BY <2>1 DEF Unbinds, HostBinds
    <2> HIDE DEF u
    <2> QED BY <2>1, <2>2, <2>3, <1>11
  <1>14. ASSUME NEW b \in BusIDs, VhciPortChanges(b) PROVE MappingInv' /\ UnboundIsTrue'
    <2> DEFINE u == [action |-> "port", busid |-> b, driver |-> "other"]
    <2>1. u \in Uevents /\ Emit(u) /\ driver' = driver
          /\ driver \in [BusIDs -> {"none", "usbip-host", "other"}]
      BY <1>14 DEF VhciPortChanges, Uevents, FanoutInv, TypeOK
    <2>2. \A c \in BusIDs : ~Unbinds(u, c) /\ ~HostBinds(u, c)
      BY DEF Unbinds, HostBinds
    <2> HIDE DEF u
    <2> QED BY <2>1, <2>2, <1>11
  <1>15. ASSUME UNCHANGED vars PROVE MappingInv' /\ UnboundIsTrue'
    BY <1>15 DEF MappingInv, UnboundIsTrue, vars, adapterVars, dispVars, subVars, kernelVars
  <1> QED
    BY <1>1, <1>2, <1>3, <1>4, <1>5, <1>6, <1>7, <1>8, <1>9, <1>10, <1>12, <1>13, <1>14,
       <1>15 DEF Next, Unsubscribe, Cleanup, Finished

\* DeviceUnbound is announced only for a device usbip-host let go, however binds and
\* unbinds of any drivers are queued and whenever the dispatcher started listening.
THEOREM UnboundAnnouncedTruly == Spec => []UnboundIsTrue
  <1>1. Init => MappingInv /\ UnboundIsTrue
    BY DEF Init, MappingInv, UnboundIsTrue, Dispatchers
  <1>2. FanoutInv /\ MappingInv /\ UnboundIsTrue /\ [Next]_vars
           => MappingInv' /\ UnboundIsTrue'
    BY MappingStep
  <1> QED BY <1>1, <1>2, FanoutInvariant, PTL DEF Spec
=============================================================================
