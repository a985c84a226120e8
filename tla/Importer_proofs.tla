--------------------------- MODULE Importer_proofs ---------------------------
(***************************************************************************)
(* Proofs about Importer for any number of calls, ports and keys, and for  *)
(* bounded and unbounded waits alike.                                      *)
(***************************************************************************)
EXTENDS Importer, TLAPS

\* A call that reserved its port and has not resolved the reservation.
Reserving(a) == apc[a] \in {"write", "abort", "register"}

\* A call that has published its handle.
Published(a) == apc[a] = "finish" \/ outcome[a] = "ok"

\* A Detach that is not the owner of an attempt, or not yet.
NotOwner(d) == dpc[d] \in {"idle", "lookup", "waitPublication", "waitAttempt"}

\* Neither attached nor registered any more.
Gone(h) == \A p \in Ports : live[p] # h /\ handles[p] # h

\* Gone, and nothing of the call is left that could bring it back.
Released(h) == Gone(h) /\ (Published(h) \/ outcome[h] = "failed")

\* A call has its reservation from the write to the publication, and its name is found in
\* the tables and in the kernel at the port it was given, and not before it got there.
PortInv(a) ==
    /\ Reserving(a) => port[a] \in Ports /\ reservations[port[a]] = a
    /\ Published(a) => port[a] \in Ports
    /\ apc[a] = "closeRace" => port[a] \in Ports /\ closed
    /\ outcome[a] # "none" => apc[a] \in {"release", "returned", "done"}
    /\ \A p \in Ports :
          /\ reservations[p] = a => port[a] = p /\ Reserving(a)
          /\ handles[p] = a => port[a] = p /\ Published(a)
          /\ live[p] = a => port[a] = p /\ apc[a] \notin {"new", "dial", "write", "abort"}

\* A handle that is not published has no attempt and no watcher; a watcher that has left its
\* wait saw the port of its handle free.
HandleInv(a) ==
    /\ ~Published(a) =>
          attempt[a] = None /\ watcher[a] = "off" /\ attState[a] = "none" /\ bpc[a] = "off"
    /\ watcher[a] \notin {"off", "spawning", "wait", "current", "done"} => live[port[a]] # a
    /\ apc[a] = "finish" =>
          /\ bpc[a] = "off"
          /\ attState[a] # "none" => attempt[a] = a /\ attState[a] = "open"
    /\ attempt[a] # None =>
          /\ HandleOf(attempt[a]) = a
          /\ attState[attempt[a]] \in {"open", "nil"}
          /\ attempt[a] \in Detaches => dpc[attempt[a]] \in {"body", "returned"}

\* The owner of an attempt works on a published handle as long as the future is open, and
\* deletes the handle after the port is free.
BodyInv(o) ==
    /\ bpc[o] # "off" =>
          /\ HandleOf(o) \in Attaches
          /\ Published(HandleOf(o))
          /\ attempt[HandleOf(o)] = o
          /\ attState[o] = "open"
          /\ o \in Detaches => dpc[o] = "body"
    /\ bpc[o] \in {"deleteOK", "deleteErr"} => live[port[HandleOf(o)]] # HandleOf(o)

\* The future of an attempt says nil when the handle is gone for good.
NilInv(o) ==
    attState[o] = "nil" /\ HandleOf(o) # None =>
       HandleOf(o) \in Attaches /\ Released(HandleOf(o))

\* What a Detach waits for, and what it knows when it looks the port up again.
DetachInv(d) ==
    /\ dpc[d] # "idle" => dport[d] \in Ports
    /\ dpc[d] = "idle" => target[d] = None
    /\ NotOwner(d) => attState[d] = "none"
    /\ attState[d] # "none" => target[d] \in Attaches \cup {None}
    /\ dpc[d] = "waitPublication" =>
          /\ target[d] \in teardownRequested
          /\ \/ reservations[dport[d]] = target[d]
             \/ closed
             \/ outcome[target[d]] = "failed"
             \/ attState[target[d]] # "none"
    /\ dpc[d] = "lookup" =>
          target[d] \in Attaches /\ (closed \/ outcome[target[d]] = "failed")
    /\ dpc[d] \in {"untracked", "forgetOK", "forgetErr"} =>
          /\ attState[d] = "open"
          /\ target[d] # None => target[d] \in Attaches /\ outcome[target[d]] = "failed"
    /\ dpc[d] = "body" => target[d] \in Attaches
    /\ dpc[d] = "waitAttempt" => target[d] \in Owners
    /\ target[d] \in Detaches => attState[target[d]] # "none"
    /\ result[d] # "none" => dpc[d] = "returned"
    /\ result[d] = "nil" /\ target[d] # None =>
          \/ target[d] \in Attaches /\ Released(target[d])
          \/ /\ target[d] \in Detaches
             /\ target[target[d]] # None => Released(target[target[d]])

\* A port that is detached untracked belongs to the call that does it.
UntrackedInv(p) ==
    untracked[p] # None =>
       /\ dport[untracked[p]] = p
       /\ dpc[untracked[p]] \in {"untracked", "forgetOK", "forgetErr"}

\* A watcher has one reconnect under way, and takes its result up.
ChildInv(a) ==
    /\ apc[a] = "new" => parent[a] = None
    /\ apc[a] = "returned" => parent[a] # None
    /\ parent[a] # None /\ apc[a] # "done" =>
          /\ watcher[parent[a]] = "attaching"
          /\ \A b \in Attaches : parent[b] = parent[a] /\ apc[b] # "done" => b = a

\* A port that is reserved is free or has been attached for the reservation.
ReservedInv == \A p \in Ports : reservations[p] # None => live[p] \in {reservations[p], Free}

\* After Close nothing starts, and after the drain nothing is left to run.
CloseInv ==
    /\ cpc # "open" => closed
    /\ cpc = "drained" =>
          /\ \A a \in Attaches : apc[a] \in {"new", "done"} /\ watcher[a] \in {"off", "done"}
          /\ \A o \in Owners : attState[o] # "open"

ImporterInv ==
    /\ TypeOK
    /\ \A a \in Attaches : PortInv(a)
    /\ \A a \in Attaches : HandleInv(a)
    /\ \A o \in Owners : BodyInv(o)
    /\ \A o \in Owners : NilInv(o)
    /\ \A d \in Detaches : DetachInv(d)
    /\ \A p \in Ports : UntrackedInv(p)
    /\ \A a \in Attaches : ChildInv(a)
    /\ ReservedInv
    /\ PortsAreTracked
    /\ CloseInv

\* Every step leaves a well-formed state; a body needs a handle to cancel its watcher.
LEMMA TypeStep ==
  ASSUME TypeOK, \A a \in Attaches : PortInv(a), \A o \in Owners : BodyInv(o), [Next]_vars
  PROVE  TypeOK'
<1> USE ImporterAssumption DEF TypeOK, AttachStates, WatcherStates, BodyStates,
        DetachStates, Owners, importerVars, attachVars, handleVars, attemptVars, detachVars,
        closeVars, kernelVars
<1>1. CASE UNCHANGED vars
  BY <1>1 DEF vars
<1>2. ASSUME NEW a \in Attaches, NEW k \in Keys, NEW r \in AutoReconnect, Attach(a, k, r)
     PROVE  TypeOK'
  BY <1>2 DEF Attach
<1>3. ASSUME NEW a \in Attaches, AttachFails(a) PROVE TypeOK'
  BY <1>3 DEF AttachFails, Returns
<1>4. ASSUME NEW a \in Attaches, AttachAtPort(a) PROVE TypeOK'
  BY SMTT(60), <1>4 DEF AttachAtPort
<1>5. ASSUME NEW a \in Attaches, AbortAttachReservation(a) PROVE TypeOK'
  BY <1>5 DEF AbortAttachReservation, Returns
<1>6. ASSUME NEW a \in Attaches, RegisterHandle(a) PROVE TypeOK'
  <2>1. Superseded(port[a]) \subseteq Attaches
    <3>1. port[a] \in Ports
      BY <1>6 DEF RegisterHandle, PortInv, Reserving
    <3>2. handles[port[a]] \in Attaches \cup {None}
      BY <3>1
    <3>3. QED BY <3>2 DEF Superseded
  <2>2. /\ handles' \in [Ports -> Attaches \cup {None}]
        /\ reservations' \in [Ports -> Attaches \cup {None}]
        /\ done' \subseteq Attaches
        /\ apc' \in [Attaches -> AttachStates]
    BY <1>6, <2>1 DEF RegisterHandle
  <2>3. /\ attempt' \in [Attaches -> Owners \cup {None}]
        /\ attState' \in [Owners -> {"none", "open", "nil", "err"}]
        /\ detaching' \subseteq Attaches
        /\ watcher' \in [Attaches -> WatcherStates]
    BY SMTT(60), <1>6 DEF RegisterHandle
  <2>4. QED BY <1>6, <2>2, <2>3 DEF RegisterHandle
<1>7. ASSUME NEW a \in Attaches, RegisterAfterClose(a) PROVE TypeOK'
  BY <1>7 DEF RegisterAfterClose
<1>8. ASSUME NEW a \in Attaches, FinishAttach(a) PROVE TypeOK'
  BY <1>8 DEF FinishAttach
<1>9. ASSUME NEW a \in Attaches, ReleaseSlot(a) PROVE TypeOK'
  BY <1>9 DEF ReleaseSlot, Returns
<1>10. ASSUME NEW a \in Attaches, NEW p \in Ports, ReserveAttachPort(a, p) PROVE TypeOK'
  BY SMTT(60), <1>10 DEF ReserveAttachPort, Returns
<1>11. ASSUME NEW a \in Attaches, NEW ok \in BOOLEAN, ReleaseAfterCloseRace(a, ok)
     PROVE  TypeOK'
  BY <1>11 DEF ReleaseAfterCloseRace, DetachPort, Returns
<1>12. ASSUME NEW f \in Attaches, EventsLost(f) PROVE TypeOK'
  BY <1>12 DEF EventsLost, Watch
<1>13. ASSUME NEW f \in Attaches, WatcherLooks(f) PROVE TypeOK'
  BY SMTT(60), <1>13 DEF WatcherLooks, Watch
<1>14. ASSUME NEW f \in Attaches, WatcherCancelled(f) PROVE TypeOK'
  BY <1>14 DEF WatcherCancelled, Watch
<1>15. ASSUME NEW f \in Attaches, WatcherDecides(f) PROVE TypeOK'
  BY <1>15 DEF WatcherDecides, Watch
<1>16. ASSUME NEW f \in Attaches, ReconnectRefused(f) PROVE TypeOK'
  BY <1>16 DEF ReconnectRefused, Watch
<1>17. ASSUME NEW f \in Attaches, CheckDetaching(f) PROVE TypeOK'
  BY <1>17 DEF CheckDetaching, Watch
<1>18. ASSUME NEW f \in Attaches, RemoveHandle(f) PROVE TypeOK'
  BY <1>18 DEF RemoveHandle, Watch, RemoveExact
<1>19. ASSUME NEW f \in Attaches, RolledBack(f) PROVE TypeOK'
  BY <1>19 DEF RolledBack, Watch
<1>20. ASSUME NEW f \in Attaches, NEW a \in Attaches, Reconnect(f, a) PROVE TypeOK'
  BY <1>20 DEF Reconnect, Watch
<1>21. ASSUME NEW f \in Attaches, NEW a \in Attaches, ReconnectReturned(f, a) PROVE TypeOK'
  BY <1>21 DEF ReconnectReturned, Watch
<1>22. ASSUME NEW f \in Attaches, NEW a \in Attaches, CheckFresh(f, a) PROVE TypeOK'
  BY <1>22 DEF CheckFresh, Watch
<1>23. ASSUME NEW f \in Attaches, NEW a \in Attaches, Rollback(f, a) PROVE TypeOK'
  <2>1. /\ attempt' \in [Attaches -> Owners \cup {None}]
        /\ attState' \in [Owners -> {"none", "open", "nil", "err"}]
        /\ bpc' \in [Owners -> BodyStates]
        /\ detaching' \subseteq Attaches
    BY SMTT(60), <1>23 DEF Rollback, Own
  <2>2. /\ watcher' \in [Attaches -> WatcherStates]
        /\ joined' \in [Attaches -> Owners \cup {None}]
    BY SMTT(60), <1>23 DEF Rollback, Watch
  <2>3. QED BY <1>23, <2>1, <2>2 DEF Rollback
<1>24. ASSUME NEW o \in Owners, BodyCancel(o) PROVE TypeOK'
  <2>1. HandleOf(o) \in Attaches
    BY <1>24 DEF BodyCancel, Body, BodyInv
  <2>2. QED BY <1>24, <2>1 DEF BodyCancel, Body
<1>25. ASSUME NEW o \in Owners, WaitWatcherBounded(o) PROVE TypeOK'
  BY <1>25 DEF WaitWatcherBounded, Body, HandleOf
<1>26. ASSUME NEW o \in Owners, BodyRecheck(o) PROVE TypeOK'
  BY SMTT(60), <1>26 DEF BodyRecheck, Body, Finish, HandleOf
<1>27. ASSUME NEW o \in Owners, BodyDetachPort(o) PROVE TypeOK'
  BY SMTT(60), <1>27 DEF BodyDetachPort, DetachPort, Body, Finish, HandleOf
<1>28. ASSUME NEW o \in Owners, BodyDelete(o) PROVE TypeOK'
  BY <1>28 DEF BodyDelete, Finish, HandleOf, RemoveExact
<1>29. ASSUME NEW d \in Detaches, NEW p \in Ports, DetachClosed(d, p) PROVE TypeOK'
  BY <1>29 DEF DetachClosed, Looks, DetachReturns
<1>30. ASSUME NEW d \in Detaches, NEW p \in Ports, RequestTeardown(d, p) PROVE TypeOK'
  BY <1>30 DEF RequestTeardown, Looks, Superseded
<1>31. ASSUME NEW d \in Detaches, NEW p \in Ports, AcquireHandle(d, p) PROVE TypeOK'
  <2>1. /\ attempt' \in [Attaches -> Owners \cup {None}]
        /\ attState' \in [Owners -> {"none", "open", "nil", "err"}]
        /\ bpc' \in [Owners -> BodyStates]
        /\ detaching' \subseteq Attaches
    <3>1. CASE MayOwn(handles[p])
      <4>1. handles[p] \in Attaches
        BY <1>31 DEF AcquireHandle
      <4>2. Own(handles[p], d)
        BY <1>31, <3>1 DEF AcquireHandle
      <4>3. attempt' \in [Attaches -> Owners \cup {None}]
        BY <4>2 DEF Own
      <4>4. attState' \in [Owners -> {"none", "open", "nil", "err"}]
        BY <4>2 DEF Own
      <4>5. bpc' \in [Owners -> BodyStates]
        BY <4>2 DEF Own
      <4>6. detaching' \subseteq Attaches
        BY <4>1, <4>2 DEF Own
      <4>7. QED BY <4>3, <4>4, <4>5, <4>6
    <3>2. CASE ~MayOwn(handles[p])
      <4>1. UNCHANGED <<attempt, attState, bpc, detaching>>
        BY <1>31, <3>2 DEF AcquireHandle
      <4>2. QED BY <4>1
    <3>3. QED BY <3>1, <3>2
  <2>2. /\ dpc' \in [Detaches -> DetachStates]
        /\ dport' \in [Detaches -> Ports \cup {None}]
        /\ target' \in [Detaches -> Owners \cup {None}]
    BY SMTT(60), <1>31 DEF AcquireHandle, Looks
  <2>3. QED BY <1>31, <2>1, <2>2 DEF AcquireHandle
<1>32. ASSUME NEW d \in Detaches, NEW p \in Ports, AcquireUntracked(d, p) PROVE TypeOK'
  BY SMTT(60), <1>32 DEF AcquireUntracked, Looks
<1>33. ASSUME NEW d \in Detaches, NEW ok \in BOOLEAN, DetachUntracked(d, ok) PROVE TypeOK'
  BY <1>33 DEF DetachUntracked, DetachPort
<1>34. ASSUME NEW d \in Detaches, FinishUntracked(d) PROVE TypeOK'
  BY <1>34 DEF FinishUntracked, DetachReturns
<1>35. ASSUME NEW d \in Detaches, BodyReturns(d) PROVE TypeOK'
  BY <1>35 DEF BodyReturns, DetachReturns
<1>36. ASSUME NEW d \in Detaches, AttemptDone(d) PROVE TypeOK'
  BY <1>36 DEF AttemptDone, DetachReturns, SharedResult
<1>37. ASSUME NEW d \in Detaches, PublicationDone(d) PROVE TypeOK'
  BY <1>37 DEF PublicationDone
<1>38. ASSUME NEW d \in Detaches, DetachGivesUp(d) PROVE TypeOK'
  BY <1>38 DEF DetachGivesUp, DetachReturns
<1>39. ASSUME Close PROVE TypeOK'
  BY <1>39 DEF Close
<1>40. ASSUME CloseCancels PROVE TypeOK'
  BY <1>40 DEF CloseCancels
<1>41. ASSUME CloseDrains PROVE TypeOK'
  BY <1>41 DEF CloseDrains
<1>42. ASSUME NEW p \in Ports, RemoteGone(p) PROVE TypeOK'
  BY <1>42 DEF RemoteGone
<1>43. ASSUME Finished
     PROVE  UNCHANGED vars
  BY <1>43 DEF Finished, vars
<1>44. ASSUME UNCHANGED vars PROVE UNCHANGED vars
  BY SMTT(60), <1>44 DEF vars
<1> HIDE DEF TypeOK
<1>45. QED
  BY <1>1, <1>2, <1>3, <1>4, <1>5, <1>6, <1>7, <1>8, <1>9, <1>10, <1>11, <1>12, <1>13,
     <1>14, <1>15, <1>16, <1>17, <1>18, <1>19, <1>20, <1>21, <1>22, <1>23, <1>24, <1>25,
     <1>26, <1>27, <1>28, <1>29, <1>30, <1>31, <1>32, <1>33, <1>34, <1>35, <1>36, <1>37,
     <1>38, <1>39, <1>40, <1>41, <1>42, <1>43, <1>44
  DEF Next, AttachStep, WatcherStep, BodyStep, AcquireDetachTarget, Detach, DetachStep

\* Every step keeps a name at its port.
LEMMA PortStep ==
  ASSUME TypeOK, \A a \in Attaches : PortInv(a), NEW x \in Attaches, [Next]_vars
  PROVE  PortInv(x)'
<1> USE ImporterAssumption DEF TypeOK, PortInv, Reserving, Published, Owners, importerVars,
        attachVars, handleVars, attemptVars, detachVars, closeVars, kernelVars
<1>1. CASE UNCHANGED <<apc, outcome, port, closed, reservations, handles, live>>
  BY <1>1
<1>2. ASSUME NEW a \in Attaches, NEW k \in Keys, NEW r \in AutoReconnect, Attach(a, k, r)
     PROVE  PortInv(x)'
  BY <1>2 DEF Attach
<1>3. ASSUME NEW a \in Attaches, AttachFails(a) PROVE PortInv(x)'
  BY <1>3 DEF AttachFails, Returns
<1>4. ASSUME NEW a \in Attaches, AttachAtPort(a) PROVE PortInv(x)'
  BY <1>4 DEF AttachAtPort
<1>5. ASSUME NEW a \in Attaches, AbortAttachReservation(a) PROVE PortInv(x)'
  BY <1>5 DEF AbortAttachReservation, Returns
<1>6. ASSUME NEW a \in Attaches, RegisterHandle(a) PROVE PortInv(x)'
  BY <1>6 DEF RegisterHandle, Superseded, Compensate
<1>7. ASSUME NEW a \in Attaches, RegisterAfterClose(a) PROVE PortInv(x)'
  BY <1>7 DEF RegisterAfterClose
<1>8. ASSUME NEW a \in Attaches, FinishAttach(a) PROVE PortInv(x)'
  BY <1>8 DEF FinishAttach
<1>9. ASSUME NEW a \in Attaches, ReleaseSlot(a) PROVE PortInv(x)'
  BY <1>9 DEF ReleaseSlot, Returns
<1>10. ASSUME NEW a \in Attaches, NEW p \in Ports, ReserveAttachPort(a, p)
     PROVE  PortInv(x)'
  <2>1. CASE MayReserve(p) /\ x = a
    <3>1. /\ reservations' = [reservations EXCEPT ![p] = a]
          /\ port' = [port EXCEPT ![a] = p]
          /\ apc' = [apc EXCEPT ![a] = "write"]
          /\ UNCHANGED <<outcome, closed, handles, live>>
      BY <1>10, <2>1 DEF ReserveAttachPort
    <3>2. apc[a] = "dial" /\ outcome[a] = "none"
      BY <1>10 DEF ReserveAttachPort
    <3>3. \A q \in Ports : handles[q] # a /\ live[q] # a /\ reservations[q] # a
      BY SMTT(60), <3>2
    <3>4. QED BY <2>1, <3>1, <3>2, <3>3
  <2>2. CASE MayReserve(p) /\ x # a
    <3>1. /\ reservations' = [reservations EXCEPT ![p] = a]
          /\ reservations[p] = None
          /\ port'[x] = port[x]
          /\ apc'[x] = apc[x]
          /\ UNCHANGED <<outcome, closed, handles, live>>
      BY <1>10, <2>2 DEF ReserveAttachPort, MayReserve
    <3>2. \A q \in Ports : reservations'[q] = x <=> reservations[q] = x
      BY <2>2, <3>1
    <3>3. QED BY <3>1, <3>2
  <2>3. CASE ~MayReserve(p)
    BY <1>10, <2>3 DEF ReserveAttachPort, Returns
  <2>4. QED BY <2>1, <2>2, <2>3
<1>11. ASSUME NEW a \in Attaches, NEW ok \in BOOLEAN, ReleaseAfterCloseRace(a, ok)
     PROVE  PortInv(x)'
  BY <1>11 DEF ReleaseAfterCloseRace, DetachPort, Returns
<1>12. ASSUME NEW f \in Attaches, RemoveHandle(f) PROVE PortInv(x)'
  BY <1>12 DEF RemoveHandle, Watch, RemoveExact
<1>13. ASSUME NEW f \in Attaches, NEW a \in Attaches, Reconnect(f, a) PROVE PortInv(x)'
  BY <1>13 DEF Reconnect, Watch
<1>14. ASSUME NEW f \in Attaches, NEW a \in Attaches, ReconnectReturned(f, a)
     PROVE  PortInv(x)'
  BY <1>14 DEF ReconnectReturned, Watch
<1>15. ASSUME NEW o \in Owners, BodyDetachPort(o) PROVE PortInv(x)'
  BY <1>15 DEF BodyDetachPort, DetachPort, Body, Finish
<1>16. ASSUME NEW o \in Owners, BodyDelete(o) PROVE PortInv(x)'
  BY <1>16 DEF BodyDelete, Finish, RemoveExact
<1>17. ASSUME NEW d \in Detaches, NEW ok \in BOOLEAN, DetachUntracked(d, ok)
     PROVE  PortInv(x)'
  BY <1>17 DEF DetachUntracked, DetachPort
<1>18. ASSUME Close PROVE PortInv(x)'
  BY <1>18 DEF Close
<1>19. ASSUME NEW p \in Ports, RemoteGone(p) PROVE PortInv(x)'
  BY <1>19 DEF RemoteGone
<1>20. ASSUME NEW f \in Attaches, 
               EventsLost(f) \/ WatcherLooks(f) \/ WatcherCancelled(f)
            \/ WatcherDecides(f) \/ ReconnectRefused(f) \/ CheckDetaching(f)
            \/ RolledBack(f)
     PROVE  UNCHANGED <<apc, outcome, port, closed, reservations, handles, live>>
  BY <1>20 DEF EventsLost, WatcherLooks, WatcherCancelled, WatcherDecides, ReconnectRefused,
     CheckDetaching, RolledBack, vars
<1>21. ASSUME NEW f \in Attaches, NEW a \in Attaches, 
               CheckFresh(f, a) \/ Rollback(f, a)
     PROVE  UNCHANGED <<apc, outcome, port, closed, reservations, handles, live>>
  BY <1>21 DEF CheckFresh, Rollback, vars
<1>22. ASSUME NEW o \in Owners, 
               BodyCancel(o) \/ WaitWatcherBounded(o) \/ BodyRecheck(o)
     PROVE  UNCHANGED <<apc, outcome, port, closed, reservations, handles, live>>
  BY <1>22 DEF BodyCancel, WaitWatcherBounded, BodyRecheck, vars
<1>23. ASSUME NEW d \in Detaches, NEW p \in Ports, 
               DetachClosed(d, p) \/ RequestTeardown(d, p) \/ AcquireHandle(d, p)
            \/ AcquireUntracked(d, p)
     PROVE  UNCHANGED <<apc, outcome, port, closed, reservations, handles, live>>
  BY <1>23 DEF DetachClosed, RequestTeardown, AcquireHandle, AcquireUntracked, vars
<1>24. ASSUME NEW d \in Detaches, 
               FinishUntracked(d) \/ BodyReturns(d) \/ AttemptDone(d)
            \/ PublicationDone(d) \/ DetachGivesUp(d)
     PROVE  UNCHANGED <<apc, outcome, port, closed, reservations, handles, live>>
  BY <1>24 DEF FinishUntracked, BodyReturns, AttemptDone, PublicationDone, DetachGivesUp,
     vars
<1>25. ASSUME CloseCancels \/ CloseDrains
     PROVE  UNCHANGED <<apc, outcome, port, closed, reservations, handles, live>>
  BY <1>25 DEF CloseCancels, CloseDrains, vars
<1>26. ASSUME Finished
     PROVE  UNCHANGED <<apc, outcome, port, closed, reservations, handles, live>>
  BY <1>26 DEF Finished, vars
<1>27. ASSUME UNCHANGED vars PROVE UNCHANGED <<apc, outcome, port, closed, reservations, handles, live>>
  BY <1>27 DEF vars
<1>28. QED
  BY <1>1, <1>2, <1>3, <1>4, <1>5, <1>6, <1>7, <1>8, <1>9, <1>10, <1>11, <1>12, <1>13,
     <1>14, <1>15, <1>16, <1>17, <1>18, <1>19, <1>20, <1>21, <1>22, <1>23, <1>24, <1>25,
     <1>26, <1>27
  DEF Next, AttachStep, WatcherStep, BodyStep, AcquireDetachTarget, Detach, DetachStep

\* Nobody attaches or takes over a port that is reserved.
LEMMA ReservedStep ==
  ASSUME TypeOK, \A a \in Attaches : PortInv(a), ReservedInv, [Next]_vars
  PROVE  ReservedInv'
<1> USE ImporterAssumption DEF TypeOK, PortInv, ReservedInv, Reserving, Owners,
        importerVars, attachVars, handleVars, attemptVars, detachVars, closeVars, kernelVars
<1>1. CASE UNCHANGED <<apc, reservations, live, port>>
  BY <1>1
<1>2. ASSUME NEW a \in Attaches, NEW k \in Keys, NEW r \in AutoReconnect, Attach(a, k, r)
     PROVE  ReservedInv'
  BY <1>2 DEF Attach
<1>3. ASSUME NEW a \in Attaches, AttachFails(a) PROVE ReservedInv'
  BY <1>3 DEF AttachFails, Returns
<1>4. ASSUME NEW a \in Attaches, AttachAtPort(a) PROVE ReservedInv'
  BY <1>4 DEF AttachAtPort
<1>5. ASSUME NEW a \in Attaches, AbortAttachReservation(a) PROVE ReservedInv'
  BY <1>5 DEF AbortAttachReservation, Returns
<1>6. ASSUME NEW a \in Attaches, RegisterHandle(a) PROVE ReservedInv'
  BY <1>6 DEF RegisterHandle, Superseded, Compensate
<1>7. ASSUME NEW a \in Attaches, RegisterAfterClose(a) PROVE ReservedInv'
  BY <1>7 DEF RegisterAfterClose
<1>8. ASSUME NEW a \in Attaches, FinishAttach(a) PROVE ReservedInv'
  BY <1>8 DEF FinishAttach
<1>9. ASSUME NEW a \in Attaches, ReleaseSlot(a) PROVE ReservedInv'
  BY <1>9 DEF ReleaseSlot, Returns
<1>10. ASSUME NEW a \in Attaches, NEW p \in Ports, ReserveAttachPort(a, p)
     PROVE  ReservedInv'
  BY <1>10 DEF ReserveAttachPort, LowestFree, MayReserve, Returns
<1>11. ASSUME NEW a \in Attaches, NEW ok \in BOOLEAN, ReleaseAfterCloseRace(a, ok)
     PROVE  ReservedInv'
  BY <1>11 DEF ReleaseAfterCloseRace, DetachPort, Returns
<1>12. ASSUME NEW f \in Attaches, NEW a \in Attaches, Reconnect(f, a) PROVE ReservedInv'
  BY <1>12 DEF Reconnect, Watch
<1>13. ASSUME NEW f \in Attaches, NEW a \in Attaches, ReconnectReturned(f, a)
     PROVE  ReservedInv'
  BY <1>13 DEF ReconnectReturned, Watch
<1>14. ASSUME NEW o \in Owners, BodyDetachPort(o) PROVE ReservedInv'
  BY <1>14 DEF BodyDetachPort, DetachPort, Body, Finish
<1>15. ASSUME NEW d \in Detaches, NEW ok \in BOOLEAN, DetachUntracked(d, ok)
     PROVE  ReservedInv'
  BY <1>15 DEF DetachUntracked, DetachPort
<1>16. ASSUME NEW p \in Ports, RemoteGone(p) PROVE ReservedInv'
  BY <1>16 DEF RemoteGone
<1>17. ASSUME NEW f \in Attaches, 
               EventsLost(f) \/ WatcherLooks(f) \/ WatcherCancelled(f)
            \/ WatcherDecides(f) \/ ReconnectRefused(f) \/ CheckDetaching(f)
            \/ RemoveHandle(f) \/ RolledBack(f)
     PROVE  UNCHANGED <<apc, reservations, live, port>>
  BY <1>17 DEF EventsLost, WatcherLooks, WatcherCancelled, WatcherDecides, ReconnectRefused,
     CheckDetaching, RemoveHandle, RolledBack, vars
<1>18. ASSUME NEW f \in Attaches, NEW a \in Attaches, 
               CheckFresh(f, a) \/ Rollback(f, a)
     PROVE  UNCHANGED <<apc, reservations, live, port>>
  BY <1>18 DEF CheckFresh, Rollback, vars
<1>19. ASSUME NEW o \in Owners, 
               BodyCancel(o) \/ WaitWatcherBounded(o) \/ BodyRecheck(o) \/ BodyDelete(o)
     PROVE  UNCHANGED <<apc, reservations, live, port>>
  BY <1>19 DEF BodyCancel, WaitWatcherBounded, BodyRecheck, BodyDelete, vars
<1>20. ASSUME NEW d \in Detaches, NEW p \in Ports, 
               DetachClosed(d, p) \/ RequestTeardown(d, p) \/ AcquireHandle(d, p)
            \/ AcquireUntracked(d, p)
     PROVE  UNCHANGED <<apc, reservations, live, port>>
  BY <1>20 DEF DetachClosed, RequestTeardown, AcquireHandle, AcquireUntracked, vars
<1>21. ASSUME NEW d \in Detaches, 
               FinishUntracked(d) \/ BodyReturns(d) \/ AttemptDone(d)
            \/ PublicationDone(d) \/ DetachGivesUp(d)
     PROVE  UNCHANGED <<apc, reservations, live, port>>
  BY <1>21 DEF FinishUntracked, BodyReturns, AttemptDone, PublicationDone, DetachGivesUp,
     vars
<1>22. ASSUME Close \/ CloseCancels \/ CloseDrains
     PROVE  UNCHANGED <<apc, reservations, live, port>>
  BY <1>22 DEF Close, CloseCancels, CloseDrains, vars
<1>23. ASSUME Finished
     PROVE  UNCHANGED <<apc, reservations, live, port>>
  BY <1>23 DEF Finished, vars
<1>24. ASSUME UNCHANGED vars PROVE UNCHANGED <<apc, reservations, live, port>>
  BY SMTT(60), <1>24 DEF vars
<1>25. QED
  BY <1>1, <1>2, <1>3, <1>4, <1>5, <1>6, <1>7, <1>8, <1>9, <1>10, <1>11, <1>12, <1>13,
     <1>14, <1>15, <1>16, <1>17, <1>18, <1>19, <1>20, <1>21, <1>22, <1>23, <1>24
  DEF Next, AttachStep, WatcherStep, BodyStep, AcquireDetachTarget, Detach, DetachStep

\* Every step keeps a handle, its attempt and its watcher in step.
LEMMA HandleStep ==
  ASSUME TypeOK, \A a \in Attaches : PortInv(a), \A a \in Attaches : HandleInv(a), \A o \in
         Owners : BodyInv(o), \A d \in Detaches : DetachInv(d), NEW x \in Attaches,
         [Next]_vars
  PROVE  HandleInv(x)'
<1> USE ImporterAssumption DEF TypeOK, PortInv, HandleInv, HandleOf, Published, NotOwner,
        Owners, importerVars, attachVars, handleVars, attemptVars, detachVars, closeVars,
        kernelVars
<1>1. CASE UNCHANGED <<apc, outcome, attempt, watcher, attState, bpc, live, port, dpc, target>>
  BY <1>1
<1>2. ASSUME NEW a \in Attaches, NEW k \in Keys, NEW r \in AutoReconnect, Attach(a, k, r)
     PROVE  HandleInv(x)'
  BY <1>2 DEF Attach
<1>3. ASSUME NEW a \in Attaches, AttachFails(a) PROVE HandleInv(x)'
  BY <1>3 DEF AttachFails, Returns
<1>4. ASSUME NEW a \in Attaches, AttachAtPort(a) PROVE HandleInv(x)'
  <2>1. port[a] \in Ports /\ ~Published(a)
    BY <1>4 DEF AttachAtPort, Reserving
  <2>2. Published(x) /\ x # a => live'[port[x]] # x \/ live'[port[x]] = live[port[x]]
    <3>1. Published(x) => port[x] \in Ports
      OBVIOUS
    <3>2. live' = live \/ live' = [live EXCEPT ![port[a]] = a]
      BY <1>4 DEF AttachAtPort
    <3> HIDE DEF Published, PortInv, HandleInv
    <3>3. QED BY <2>1, <3>1, <3>2
  <2>3. UNCHANGED <<outcome, attempt, watcher, attState, bpc, port, dpc, target>>
    BY <1>4 DEF AttachAtPort
  <2>4. (apc[x] # "finish" /\ apc'[x] # "finish") \/ apc'[x] = apc[x]
    BY <1>4 DEF AttachAtPort
  <2>5. QED BY <2>1, <2>2, <2>3, <2>4
<1>5. ASSUME NEW a \in Attaches, AbortAttachReservation(a) PROVE HandleInv(x)'
  BY SMTT(60), <1>5 DEF AbortAttachReservation, Returns
<1>6. ASSUME NEW a \in Attaches, RegisterHandle(a) PROVE HandleInv(x)'
  BY SMTT(60), <1>6 DEF RegisterHandle, Superseded, Compensate, BodyInv, DetachInv
<1>7. ASSUME NEW a \in Attaches, RegisterAfterClose(a) PROVE HandleInv(x)'
  BY <1>7 DEF RegisterAfterClose
<1>8. ASSUME NEW a \in Attaches, FinishAttach(a) PROVE HandleInv(x)'
  BY <1>8 DEF FinishAttach, BodyInv, DetachInv
<1>9. ASSUME NEW a \in Attaches, ReleaseSlot(a) PROVE HandleInv(x)'
  BY <1>9 DEF ReleaseSlot, Returns
<1>10. ASSUME NEW a \in Attaches, NEW p \in Ports, ReserveAttachPort(a, p)
     PROVE  HandleInv(x)'
  BY <1>10 DEF ReserveAttachPort, Returns
<1>11. ASSUME NEW a \in Attaches, NEW ok \in BOOLEAN, ReleaseAfterCloseRace(a, ok)
     PROVE  HandleInv(x)'
  BY SMTT(60), <1>11 DEF ReleaseAfterCloseRace, DetachPort, Returns
<1>12. ASSUME NEW f \in Attaches, EventsLost(f) PROVE HandleInv(x)'
  BY <1>12 DEF EventsLost, Watch
<1>13. ASSUME NEW f \in Attaches, WatcherLooks(f) PROVE HandleInv(x)'
  BY <1>13 DEF WatcherLooks, Watch
<1>14. ASSUME NEW f \in Attaches, WatcherCancelled(f) PROVE HandleInv(x)'
  BY <1>14 DEF WatcherCancelled, Watch
<1>15. ASSUME NEW f \in Attaches, WatcherDecides(f) PROVE HandleInv(x)'
  BY <1>15 DEF WatcherDecides, Watch
<1>16. ASSUME NEW f \in Attaches, ReconnectRefused(f) PROVE HandleInv(x)'
  BY <1>16 DEF ReconnectRefused, Watch
<1>17. ASSUME NEW f \in Attaches, CheckDetaching(f) PROVE HandleInv(x)'
  BY <1>17 DEF CheckDetaching, Watch
<1>18. ASSUME NEW f \in Attaches, RemoveHandle(f) PROVE HandleInv(x)'
  BY <1>18 DEF RemoveHandle, Watch, RemoveExact
<1>19. ASSUME NEW f \in Attaches, RolledBack(f) PROVE HandleInv(x)'
  BY <1>19 DEF RolledBack, Watch
<1>20. ASSUME NEW f \in Attaches, NEW a \in Attaches, Reconnect(f, a) PROVE HandleInv(x)'
  BY <1>20 DEF Reconnect, Watch
<1>21. ASSUME NEW f \in Attaches, NEW a \in Attaches, ReconnectReturned(f, a)
     PROVE  HandleInv(x)'
  BY <1>21 DEF ReconnectReturned, Watch
<1>22. ASSUME NEW f \in Attaches, NEW a \in Attaches, CheckFresh(f, a) PROVE HandleInv(x)'
  BY <1>22 DEF CheckFresh, Watch
<1>23. ASSUME NEW f \in Attaches, NEW a \in Attaches, Rollback(f, a) PROVE HandleInv(x)'
  BY SMTT(60), <1>23 DEF Rollback, Watch, Own, BodyInv, DetachInv
<1>24. ASSUME NEW o \in Owners, BodyCancel(o) PROVE HandleInv(x)'
  BY <1>24 DEF BodyCancel, Body, BodyInv, DetachInv
<1>25. ASSUME NEW o \in Owners, WaitWatcherBounded(o) PROVE HandleInv(x)'
  BY <1>25 DEF WaitWatcherBounded, Body
<1>26. ASSUME NEW o \in Owners, BodyRecheck(o) PROVE HandleInv(x)'
  BY <1>26 DEF BodyRecheck, Body, Finish, BodyInv, DetachInv
<1>27. ASSUME NEW o \in Owners, BodyDetachPort(o) PROVE HandleInv(x)'
  <2> DEFINE h == HandleOf(o)
  <2>1. h \in Attaches /\ Published(h) /\ attempt[h] = o /\ attState[o] = "open"
    BY <1>27 DEF BodyDetachPort, BodyInv
  <2>2. UNCHANGED <<apc, outcome, watcher, port, dpc, target>>
    BY <1>27 DEF BodyDetachPort
  <2>3. x = o => Published(x) /\ apc[x] # "finish"
    BY <1>27 DEF BodyDetachPort
  <2>4. bpc'[x] = bpc[x] \/ x = o
    <3>1. \/ bpc' = [bpc EXCEPT ![o] = "deleteOK"]
          \/ bpc' = [bpc EXCEPT ![o] = "deleteErr"]
          \/ bpc' = [bpc EXCEPT ![o] = "off"]
      BY <1>27 DEF BodyDetachPort, Body, Finish
    <3> HIDE DEF PortInv, HandleInv
    <3>2. QED BY <3>1
  <2>5. \A q \in Ports : live'[q] = x => live[q] = x
    BY <1>27 DEF BodyDetachPort, DetachPort
  <2>6. watcher[x] # "off" => port[x] \in Ports
    OBVIOUS
  <2>7. CASE UNCHANGED <<attState, attempt>>
    <3>1. watcher[x] # "off" /\ live[port[x]] # x => live'[port[x]] # x
      BY <2>5, <2>6
    <3>2. QED BY <2>2, <2>3, <2>4, <2>7, <3>1
  <2>8. CASE Finish(o, h, "err")
    <3>1. attState'[x] = attState[x] \/ x = o
      BY <2>8 DEF Finish
    <3>2. attempt'[x] # None => attempt'[x] = attempt[x] /\ attempt[x] # o
      BY <2>1, <2>8 DEF Finish
    <3>3. attempt'[x] # None => attState'[attempt[x]] = attState[attempt[x]]
      BY <3>2, <2>8 DEF Finish
    <3>4. attempt'[x] = attempt[x] \/ x = h
      BY <2>1, <2>8 DEF Finish
    <3>5. x = h /\ apc[x] = "finish" => x # o /\ attState[x] = "none"
      BY <2>1, <2>3
    <3>6. watcher[x] # "off" /\ live[port[x]] # x => live'[port[x]] # x
      BY <2>5, <2>6
    <3>7. ~Published(x) => x # h /\ x # o
      BY <2>1, <2>3
    <3>8. QED BY <2>2, <2>3, <2>4, <3>1, <3>2, <3>3, <3>4, <3>5, <3>6, <3>7
  <2>9. QED BY <1>27, <2>7, <2>8 DEF BodyDetachPort
<1>28. ASSUME NEW o \in Owners, BodyDelete(o) PROVE HandleInv(x)'
  BY <1>28 DEF BodyDelete, Finish, RemoveExact, BodyInv, DetachInv
<1>29. ASSUME NEW d \in Detaches, NEW p \in Ports, DetachClosed(d, p) PROVE HandleInv(x)'
  BY <1>29 DEF DetachClosed, Looks, DetachReturns, BodyInv, DetachInv
<1>30. ASSUME NEW d \in Detaches, NEW p \in Ports, RequestTeardown(d, p)
     PROVE  HandleInv(x)'
  BY <1>30 DEF RequestTeardown, Looks, Superseded, BodyInv, DetachInv
<1>31. ASSUME NEW d \in Detaches, NEW p \in Ports, AcquireHandle(d, p) PROVE HandleInv(x)'
  BY <1>31 DEF AcquireHandle, Looks, Own, MayOwn, BodyInv, DetachInv
<1>32. ASSUME NEW d \in Detaches, NEW p \in Ports, AcquireUntracked(d, p)
     PROVE  HandleInv(x)'
  BY <1>32 DEF AcquireUntracked, Looks, BodyInv, DetachInv
<1>33. ASSUME NEW d \in Detaches, NEW ok \in BOOLEAN, DetachUntracked(d, ok)
     PROVE  HandleInv(x)'
  BY <1>33 DEF DetachUntracked, DetachPort, BodyInv, DetachInv
<1>34. ASSUME NEW d \in Detaches, FinishUntracked(d) PROVE HandleInv(x)'
  BY <1>34 DEF FinishUntracked, DetachReturns, BodyInv, DetachInv
<1>35. ASSUME NEW d \in Detaches, BodyReturns(d) PROVE HandleInv(x)'
  BY <1>35 DEF BodyReturns, DetachReturns, BodyInv, DetachInv
<1>36. ASSUME NEW d \in Detaches, AttemptDone(d) PROVE HandleInv(x)'
  BY <1>36 DEF AttemptDone, DetachReturns, SharedResult, BodyInv, DetachInv
<1>37. ASSUME NEW d \in Detaches, PublicationDone(d) PROVE HandleInv(x)'
  BY <1>37 DEF PublicationDone, BodyInv, DetachInv
<1>38. ASSUME NEW d \in Detaches, DetachGivesUp(d) PROVE HandleInv(x)'
  BY <1>38 DEF DetachGivesUp, DetachReturns, BodyInv, DetachInv
<1>39. ASSUME NEW p \in Ports, RemoteGone(p) PROVE HandleInv(x)'
  BY <1>39 DEF RemoteGone
<1>40. ASSUME Close \/ CloseCancels \/ CloseDrains
     PROVE  UNCHANGED <<apc, outcome, attempt, watcher, attState, bpc, live, port, dpc, target>>
  BY <1>40 DEF Close, CloseCancels, CloseDrains, vars
<1>41. ASSUME Finished
     PROVE  UNCHANGED <<apc, outcome, attempt, watcher, attState, bpc, live, port, dpc, target>>
  BY <1>41 DEF Finished, vars
<1>42. ASSUME UNCHANGED vars PROVE UNCHANGED <<apc, outcome, attempt, watcher, attState, bpc, live, port, dpc, target>>
  BY <1>42 DEF vars
<1>43. QED
  BY <1>1, <1>2, <1>3, <1>4, <1>5, <1>6, <1>7, <1>8, <1>9, <1>10, <1>11, <1>12, <1>13,
     <1>14, <1>15, <1>16, <1>17, <1>18, <1>19, <1>20, <1>21, <1>22, <1>23, <1>24, <1>25,
     <1>26, <1>27, <1>28, <1>29, <1>30, <1>31, <1>32, <1>33, <1>34, <1>35, <1>36, <1>37,
     <1>38, <1>39, <1>40, <1>41, <1>42
  DEF Next, AttachStep, WatcherStep, BodyStep, AcquireDetachTarget, Detach, DetachStep

\* No step loses an attached port: what unregisters a name comes after the port is free.
LEMMA TrackedStep ==
  ASSUME TypeOK, \A a \in Attaches : PortInv(a), \A a \in Attaches : HandleInv(a), \A o \in
         Owners : BodyInv(o), ReservedInv, PortsAreTracked, [Next]_vars
  PROVE  PortsAreTracked'
<1> USE ImporterAssumption DEF TypeOK, PortInv, ReservedInv, Reserving, Published,
        PortsAreTracked, Owners, importerVars, attachVars, handleVars, attemptVars,
        detachVars, closeVars, kernelVars
<1>1. CASE UNCHANGED <<apc, outcome, port, closed, reservations, handles, live>>
  BY <1>1
<1>2. ASSUME NEW a \in Attaches, NEW k \in Keys, NEW r \in AutoReconnect, Attach(a, k, r)
     PROVE  PortsAreTracked'
  BY <1>2 DEF Attach
<1>3. ASSUME NEW a \in Attaches, AttachFails(a) PROVE PortsAreTracked'
  BY <1>3 DEF AttachFails, Returns
<1>4. ASSUME NEW a \in Attaches, AttachAtPort(a) PROVE PortsAreTracked'
  BY <1>4 DEF AttachAtPort
<1>5. ASSUME NEW a \in Attaches, AbortAttachReservation(a) PROVE PortsAreTracked'
  BY <1>5 DEF AbortAttachReservation, Returns
<1>6. ASSUME NEW a \in Attaches, RegisterHandle(a) PROVE PortsAreTracked'
  BY <1>6 DEF RegisterHandle, Superseded, Compensate
<1>7. ASSUME NEW a \in Attaches, RegisterAfterClose(a) PROVE PortsAreTracked'
  BY <1>7 DEF RegisterAfterClose
<1>8. ASSUME NEW a \in Attaches, FinishAttach(a) PROVE PortsAreTracked'
  BY SMTT(60), <1>8 DEF FinishAttach
<1>9. ASSUME NEW a \in Attaches, ReleaseSlot(a) PROVE PortsAreTracked'
  BY <1>9 DEF ReleaseSlot, Returns
<1>10. ASSUME NEW a \in Attaches, NEW p \in Ports, ReserveAttachPort(a, p)
     PROVE  PortsAreTracked'
  BY <1>10 DEF ReserveAttachPort, MayReserve, Returns
<1>11. ASSUME NEW a \in Attaches, NEW ok \in BOOLEAN, ReleaseAfterCloseRace(a, ok)
     PROVE  PortsAreTracked'
  BY <1>11 DEF ReleaseAfterCloseRace, DetachPort, Returns
<1>12. ASSUME NEW f \in Attaches, RemoveHandle(f) PROVE PortsAreTracked'
  BY <1>12 DEF RemoveHandle, Watch, RemoveExact, HandleInv
<1>13. ASSUME NEW f \in Attaches, NEW a \in Attaches, Reconnect(f, a)
     PROVE  PortsAreTracked'
  BY <1>13 DEF Reconnect, Watch
<1>14. ASSUME NEW f \in Attaches, NEW a \in Attaches, ReconnectReturned(f, a)
     PROVE  PortsAreTracked'
  BY <1>14 DEF ReconnectReturned, Watch
<1>15. ASSUME NEW o \in Owners, BodyDetachPort(o) PROVE PortsAreTracked'
  BY <1>15 DEF BodyDetachPort, DetachPort, Body, Finish, HandleOf
<1>16. ASSUME NEW o \in Owners, BodyDelete(o) PROVE PortsAreTracked'
  BY <1>16 DEF BodyDelete, Finish, HandleOf, RemoveExact, BodyInv
<1>17. ASSUME NEW d \in Detaches, NEW ok \in BOOLEAN, DetachUntracked(d, ok)
     PROVE  PortsAreTracked'
  BY <1>17 DEF DetachUntracked, DetachPort
<1>18. ASSUME Close PROVE PortsAreTracked'
  BY <1>18 DEF Close
<1>19. ASSUME NEW p \in Ports, RemoteGone(p) PROVE PortsAreTracked'
  BY <1>19 DEF RemoteGone
<1>20. ASSUME NEW f \in Attaches, 
               EventsLost(f) \/ WatcherLooks(f) \/ WatcherCancelled(f)
            \/ WatcherDecides(f) \/ ReconnectRefused(f) \/ CheckDetaching(f)
            \/ RolledBack(f)
     PROVE  UNCHANGED <<apc, outcome, port, closed, reservations, handles, live>>
  BY <1>20 DEF EventsLost, WatcherLooks, WatcherCancelled, WatcherDecides, ReconnectRefused,
     CheckDetaching, RolledBack, vars
<1>21. ASSUME NEW f \in Attaches, NEW a \in Attaches, 
               CheckFresh(f, a) \/ Rollback(f, a)
     PROVE  UNCHANGED <<apc, outcome, port, closed, reservations, handles, live>>
  BY <1>21 DEF CheckFresh, Rollback, vars
<1>22. ASSUME NEW o \in Owners, 
               BodyCancel(o) \/ WaitWatcherBounded(o) \/ BodyRecheck(o)
     PROVE  UNCHANGED <<apc, outcome, port, closed, reservations, handles, live>>
  BY <1>22 DEF BodyCancel, WaitWatcherBounded, BodyRecheck, vars
<1>23. ASSUME NEW d \in Detaches, NEW p \in Ports, 
               DetachClosed(d, p) \/ RequestTeardown(d, p) \/ AcquireHandle(d, p)
            \/ AcquireUntracked(d, p)
     PROVE  UNCHANGED <<apc, outcome, port, closed, reservations, handles, live>>
  BY <1>23 DEF DetachClosed, RequestTeardown, AcquireHandle, AcquireUntracked, vars
<1>24. ASSUME NEW d \in Detaches, 
               FinishUntracked(d) \/ BodyReturns(d) \/ AttemptDone(d)
            \/ PublicationDone(d) \/ DetachGivesUp(d)
     PROVE  UNCHANGED <<apc, outcome, port, closed, reservations, handles, live>>
  BY <1>24 DEF FinishUntracked, BodyReturns, AttemptDone, PublicationDone, DetachGivesUp,
     vars
<1>25. ASSUME CloseCancels \/ CloseDrains
     PROVE  UNCHANGED <<apc, outcome, port, closed, reservations, handles, live>>
  BY <1>25 DEF CloseCancels, CloseDrains, vars
<1>26. ASSUME Finished
     PROVE  UNCHANGED <<apc, outcome, port, closed, reservations, handles, live>>
  BY <1>26 DEF Finished, vars
<1>27. ASSUME UNCHANGED vars PROVE UNCHANGED <<apc, outcome, port, closed, reservations, handles, live>>
  BY <1>27 DEF vars
<1>28. QED
  BY <1>1, <1>2, <1>3, <1>4, <1>5, <1>6, <1>7, <1>8, <1>9, <1>10, <1>11, <1>12, <1>13,
     <1>14, <1>15, <1>16, <1>17, <1>18, <1>19, <1>20, <1>21, <1>22, <1>23, <1>24, <1>25,
     <1>26, <1>27
  DEF Next, AttachStep, WatcherStep, BodyStep, AcquireDetachTarget, Detach, DetachStep

\* Every step keeps a reconnect with its watcher.
LEMMA ChildStep ==
  ASSUME TypeOK, \A a \in Attaches : PortInv(a), \A a \in Attaches : HandleInv(a), \A a \in
         Attaches : ChildInv(a), NEW x \in Attaches, [Next]_vars
  PROVE  ChildInv(x)'
<1> USE ImporterAssumption DEF TypeOK, ChildInv, Owners, importerVars, attachVars,
        handleVars, attemptVars, detachVars, closeVars, kernelVars
<1>1. CASE UNCHANGED <<apc, parent, watcher>>
  BY <1>1
<1>2. ASSUME NEW a \in Attaches, NEW k \in Keys, NEW r \in AutoReconnect, Attach(a, k, r)
     PROVE  ChildInv(x)'
  BY <1>2 DEF Attach
<1>3. ASSUME NEW a \in Attaches, AttachFails(a) PROVE ChildInv(x)'
  BY <1>3 DEF AttachFails, Returns
<1>4. ASSUME NEW a \in Attaches, AttachAtPort(a) PROVE ChildInv(x)'
  BY <1>4 DEF AttachAtPort
<1>5. ASSUME NEW a \in Attaches, AbortAttachReservation(a) PROVE ChildInv(x)'
  BY <1>5 DEF AbortAttachReservation, Returns
<1>6. ASSUME NEW a \in Attaches, RegisterHandle(a) PROVE ChildInv(x)'
  BY SMTT(60), <1>6 DEF RegisterHandle, Superseded, Compensate, PortInv, HandleInv, Published
<1>7. ASSUME NEW a \in Attaches, RegisterAfterClose(a) PROVE ChildInv(x)'
  BY <1>7 DEF RegisterAfterClose
<1>8. ASSUME NEW a \in Attaches, FinishAttach(a) PROVE ChildInv(x)'
  BY <1>8 DEF FinishAttach, HandleInv, Published
<1>9. ASSUME NEW a \in Attaches, ReleaseSlot(a) PROVE ChildInv(x)'
  BY <1>9 DEF ReleaseSlot, Returns
<1>10. ASSUME NEW a \in Attaches, NEW p \in Ports, ReserveAttachPort(a, p)
     PROVE  ChildInv(x)'
  BY <1>10 DEF ReserveAttachPort, Returns
<1>11. ASSUME NEW a \in Attaches, NEW ok \in BOOLEAN, ReleaseAfterCloseRace(a, ok)
     PROVE  ChildInv(x)'
  BY <1>11 DEF ReleaseAfterCloseRace, DetachPort, Returns
<1>12. ASSUME NEW f \in Attaches, EventsLost(f) PROVE ChildInv(x)'
  BY <1>12 DEF EventsLost, Watch
<1>13. ASSUME NEW f \in Attaches, WatcherLooks(f) PROVE ChildInv(x)'
  BY <1>13 DEF WatcherLooks, Watch
<1>14. ASSUME NEW f \in Attaches, WatcherCancelled(f) PROVE ChildInv(x)'
  BY <1>14 DEF WatcherCancelled, Watch
<1>15. ASSUME NEW f \in Attaches, WatcherDecides(f) PROVE ChildInv(x)'
  BY <1>15 DEF WatcherDecides, Watch
<1>16. ASSUME NEW f \in Attaches, ReconnectRefused(f) PROVE ChildInv(x)'
  BY <1>16 DEF ReconnectRefused, Watch
<1>17. ASSUME NEW f \in Attaches, CheckDetaching(f) PROVE ChildInv(x)'
  BY <1>17 DEF CheckDetaching, Watch
<1>18. ASSUME NEW f \in Attaches, RemoveHandle(f) PROVE ChildInv(x)'
  BY <1>18 DEF RemoveHandle, Watch, RemoveExact
<1>19. ASSUME NEW f \in Attaches, RolledBack(f) PROVE ChildInv(x)'
  BY <1>19 DEF RolledBack, Watch
<1>20. ASSUME NEW f \in Attaches, NEW a \in Attaches, Reconnect(f, a) PROVE ChildInv(x)'
  BY <1>20 DEF Reconnect, Watch
<1>21. ASSUME NEW f \in Attaches, NEW a \in Attaches, ReconnectReturned(f, a)
     PROVE  ChildInv(x)'
  BY <1>21 DEF ReconnectReturned, Watch
<1>22. ASSUME NEW f \in Attaches, NEW a \in Attaches, CheckFresh(f, a) PROVE ChildInv(x)'
  BY <1>22 DEF CheckFresh, Watch
<1>23. ASSUME NEW f \in Attaches, NEW a \in Attaches, Rollback(f, a) PROVE ChildInv(x)'
  BY <1>23 DEF Rollback, Watch, Own
<1>24. ASSUME NEW o \in Owners, 
               BodyCancel(o) \/ WaitWatcherBounded(o) \/ BodyRecheck(o)
            \/ BodyDetachPort(o) \/ BodyDelete(o)
     PROVE  UNCHANGED <<apc, parent, watcher>>
  BY <1>24 DEF BodyCancel, WaitWatcherBounded, BodyRecheck, BodyDetachPort, BodyDelete, vars
<1>25. ASSUME NEW d \in Detaches, NEW p \in Ports, 
               DetachClosed(d, p) \/ RequestTeardown(d, p) \/ AcquireHandle(d, p)
            \/ AcquireUntracked(d, p)
     PROVE  UNCHANGED <<apc, parent, watcher>>
  BY <1>25 DEF DetachClosed, RequestTeardown, AcquireHandle, AcquireUntracked, vars
<1>26. ASSUME NEW d \in Detaches, NEW ok \in BOOLEAN, 
               DetachUntracked(d, ok)
     PROVE  UNCHANGED <<apc, parent, watcher>>
  BY <1>26 DEF DetachUntracked, vars
<1>27. ASSUME NEW d \in Detaches, 
               FinishUntracked(d) \/ BodyReturns(d) \/ AttemptDone(d)
            \/ PublicationDone(d) \/ DetachGivesUp(d)
     PROVE  UNCHANGED <<apc, parent, watcher>>
  BY <1>27 DEF FinishUntracked, BodyReturns, AttemptDone, PublicationDone, DetachGivesUp,
     vars
<1>28. ASSUME Close \/ CloseCancels \/ CloseDrains
     PROVE  UNCHANGED <<apc, parent, watcher>>
  BY <1>28 DEF Close, CloseCancels, CloseDrains, vars
<1>29. ASSUME NEW p \in Ports, 
               RemoteGone(p)
     PROVE  UNCHANGED <<apc, parent, watcher>>
  BY <1>29 DEF RemoteGone, vars
<1>30. ASSUME Finished
     PROVE  UNCHANGED <<apc, parent, watcher>>
  BY <1>30 DEF Finished, vars
<1>31. ASSUME UNCHANGED vars PROVE UNCHANGED <<apc, parent, watcher>>
  BY <1>31 DEF vars
<1>32. QED
  BY <1>1, <1>2, <1>3, <1>4, <1>5, <1>6, <1>7, <1>8, <1>9, <1>10, <1>11, <1>12, <1>13,
     <1>14, <1>15, <1>16, <1>17, <1>18, <1>19, <1>20, <1>21, <1>22, <1>23, <1>24, <1>25,
     <1>26, <1>27, <1>28, <1>29, <1>30, <1>31
  DEF Next, AttachStep, WatcherStep, BodyStep, AcquireDetachTarget, Detach, DetachStep

\* Nothing starts once the importer is closed.
LEMMA CloseStep ==
  ASSUME TypeOK, \A o \in Owners : BodyInv(o), \A d \in Detaches : DetachInv(d), \A a \in
         Attaches : ChildInv(a), CloseInv, [Next]_vars
  PROVE  CloseInv'
<1> USE ImporterAssumption DEF TypeOK, CloseInv, Owners, importerVars, attachVars,
        handleVars, attemptVars, detachVars, closeVars, kernelVars
<1>1. CASE UNCHANGED <<apc, cpc, closed, watcher, attState>>
  BY <1>1
<1>2. ASSUME NEW a \in Attaches, NEW k \in Keys, NEW r \in AutoReconnect, Attach(a, k, r)
     PROVE  CloseInv'
  BY <1>2 DEF Attach, MayAttach, InFlight
<1>3. ASSUME NEW a \in Attaches, AttachFails(a) PROVE CloseInv'
  BY <1>3 DEF AttachFails, Returns
<1>4. ASSUME NEW a \in Attaches, AttachAtPort(a) PROVE CloseInv'
  BY <1>4 DEF AttachAtPort
<1>5. ASSUME NEW a \in Attaches, AbortAttachReservation(a) PROVE CloseInv'
  BY <1>5 DEF AbortAttachReservation, Returns
<1>6. ASSUME NEW a \in Attaches, RegisterHandle(a) PROVE CloseInv'
  BY <1>6 DEF RegisterHandle, Superseded, Compensate
<1>7. ASSUME NEW a \in Attaches, RegisterAfterClose(a) PROVE CloseInv'
  BY <1>7 DEF RegisterAfterClose
<1>8. ASSUME NEW a \in Attaches, FinishAttach(a) PROVE CloseInv'
  BY <1>8 DEF FinishAttach
<1>9. ASSUME NEW a \in Attaches, ReleaseSlot(a) PROVE CloseInv'
  BY <1>9 DEF ReleaseSlot, Returns
<1>10. ASSUME NEW a \in Attaches, NEW p \in Ports, ReserveAttachPort(a, p) PROVE CloseInv'
  BY <1>10 DEF ReserveAttachPort, Returns
<1>11. ASSUME NEW a \in Attaches, NEW ok \in BOOLEAN, ReleaseAfterCloseRace(a, ok)
     PROVE  CloseInv'
  BY <1>11 DEF ReleaseAfterCloseRace, DetachPort, Returns
<1>12. ASSUME NEW f \in Attaches, EventsLost(f) PROVE CloseInv'
  BY <1>12 DEF EventsLost, Watch
<1>13. ASSUME NEW f \in Attaches, WatcherLooks(f) PROVE CloseInv'
  BY <1>13 DEF WatcherLooks, Watch
<1>14. ASSUME NEW f \in Attaches, WatcherCancelled(f) PROVE CloseInv'
  BY <1>14 DEF WatcherCancelled, Watch
<1>15. ASSUME NEW f \in Attaches, WatcherDecides(f) PROVE CloseInv'
  BY <1>15 DEF WatcherDecides, Watch
<1>16. ASSUME NEW f \in Attaches, ReconnectRefused(f) PROVE CloseInv'
  BY <1>16 DEF ReconnectRefused, Watch, MayAttach, InFlight
<1>17. ASSUME NEW f \in Attaches, CheckDetaching(f) PROVE CloseInv'
  BY <1>17 DEF CheckDetaching, Watch
<1>18. ASSUME NEW f \in Attaches, RemoveHandle(f) PROVE CloseInv'
  BY <1>18 DEF RemoveHandle, Watch, RemoveExact
<1>19. ASSUME NEW f \in Attaches, RolledBack(f) PROVE CloseInv'
  BY <1>19 DEF RolledBack, Watch
<1>20. ASSUME NEW f \in Attaches, NEW a \in Attaches, Reconnect(f, a) PROVE CloseInv'
  BY <1>20 DEF Reconnect, Watch, MayAttach, InFlight
<1>21. ASSUME NEW f \in Attaches, NEW a \in Attaches, ReconnectReturned(f, a)
     PROVE  CloseInv'
  BY <1>21 DEF ReconnectReturned, Watch
<1>22. ASSUME NEW f \in Attaches, NEW a \in Attaches, CheckFresh(f, a) PROVE CloseInv'
  BY <1>22 DEF CheckFresh, Watch
<1>23. ASSUME NEW f \in Attaches, NEW a \in Attaches, Rollback(f, a) PROVE CloseInv'
  BY <1>23 DEF Rollback, Watch, Own
<1>24. ASSUME NEW o \in Owners, BodyRecheck(o) PROVE CloseInv'
  BY <1>24 DEF BodyRecheck, Body, Finish, BodyInv
<1>25. ASSUME NEW o \in Owners, BodyDetachPort(o) PROVE CloseInv'
  BY <1>25 DEF BodyDetachPort, DetachPort, Body, Finish, BodyInv
<1>26. ASSUME NEW o \in Owners, BodyDelete(o) PROVE CloseInv'
  BY <1>26 DEF BodyDelete, Finish, RemoveExact, BodyInv
<1>27. ASSUME NEW d \in Detaches, NEW p \in Ports, AcquireHandle(d, p) PROVE CloseInv'
  BY <1>27 DEF AcquireHandle, Looks, Own, MayOwn
<1>28. ASSUME NEW d \in Detaches, NEW p \in Ports, AcquireUntracked(d, p) PROVE CloseInv'
  BY <1>28 DEF AcquireUntracked, Looks
<1>29. ASSUME NEW d \in Detaches, FinishUntracked(d) PROVE CloseInv'
  BY <1>29 DEF FinishUntracked, DetachReturns
<1>30. ASSUME Close PROVE CloseInv'
  BY <1>30 DEF Close
<1>31. ASSUME CloseCancels PROVE CloseInv'
  BY <1>31 DEF CloseCancels
<1>32. ASSUME CloseDrains PROVE CloseInv'
  BY <1>32 DEF CloseDrains, WgIdle, InFlight, ChildInv
<1>33. ASSUME NEW o \in Owners, 
               BodyCancel(o) \/ WaitWatcherBounded(o)
     PROVE  UNCHANGED <<apc, cpc, closed, watcher, attState>>
  BY <1>33 DEF BodyCancel, WaitWatcherBounded, vars
<1>34. ASSUME NEW d \in Detaches, NEW p \in Ports, 
               DetachClosed(d, p) \/ RequestTeardown(d, p)
     PROVE  UNCHANGED <<apc, cpc, closed, watcher, attState>>
  BY <1>34 DEF DetachClosed, RequestTeardown, vars
<1>35. ASSUME NEW d \in Detaches, NEW ok \in BOOLEAN, 
               DetachUntracked(d, ok)
     PROVE  UNCHANGED <<apc, cpc, closed, watcher, attState>>
  BY <1>35 DEF DetachUntracked, vars
<1>36. ASSUME NEW d \in Detaches, 
               BodyReturns(d) \/ AttemptDone(d) \/ PublicationDone(d) \/ DetachGivesUp(d)
     PROVE  UNCHANGED <<apc, cpc, closed, watcher, attState>>
  BY <1>36 DEF BodyReturns, AttemptDone, PublicationDone, DetachGivesUp, vars
<1>37. ASSUME NEW p \in Ports, 
               RemoteGone(p)
     PROVE  UNCHANGED <<apc, cpc, closed, watcher, attState>>
  BY <1>37 DEF RemoteGone, vars
<1>38. ASSUME Finished
     PROVE  UNCHANGED <<apc, cpc, closed, watcher, attState>>
  BY <1>38 DEF Finished, vars
<1>39. ASSUME UNCHANGED vars PROVE UNCHANGED <<apc, cpc, closed, watcher, attState>>
  BY <1>39 DEF vars
<1>40. QED
  BY <1>1, <1>2, <1>3, <1>4, <1>5, <1>6, <1>7, <1>8, <1>9, <1>10, <1>11, <1>12, <1>13,
     <1>14, <1>15, <1>16, <1>17, <1>18, <1>19, <1>20, <1>21, <1>22, <1>23, <1>24, <1>25,
     <1>26, <1>27, <1>28, <1>29, <1>30, <1>31, <1>32, <1>33, <1>34, <1>35, <1>36, <1>37,
     <1>38, <1>39
  DEF Next, AttachStep, WatcherStep, BodyStep, AcquireDetachTarget, Detach, DetachStep

\* A generation that is gone stays gone, also when its port number is used again.
LEMMA ReleasedStep ==
  ASSUME TypeOK, \A a \in Attaches : PortInv(a), NEW x \in Attaches, Released(x),
         [Next]_vars
  PROVE  Released(x)'
<1> USE ImporterAssumption DEF TypeOK, PortInv, Released, Gone, Published, Owners,
        importerVars, attachVars, handleVars, attemptVars, detachVars, closeVars, kernelVars
<1>1. CASE UNCHANGED <<apc, outcome, handles, live>>
  BY <1>1
<1>2. ASSUME NEW a \in Attaches, NEW k \in Keys, NEW r \in AutoReconnect, Attach(a, k, r)
     PROVE  Released(x)'
  BY <1>2 DEF Attach
<1>3. ASSUME NEW a \in Attaches, AttachFails(a) PROVE Released(x)'
  BY <1>3 DEF AttachFails, Returns
<1>4. ASSUME NEW a \in Attaches, AttachAtPort(a) PROVE Released(x)'
  BY <1>4 DEF AttachAtPort
<1>5. ASSUME NEW a \in Attaches, AbortAttachReservation(a) PROVE Released(x)'
  BY <1>5 DEF AbortAttachReservation, Returns
<1>6. ASSUME NEW a \in Attaches, RegisterHandle(a) PROVE Released(x)'
  BY SMTT(60), <1>6 DEF RegisterHandle, Superseded, Compensate
<1>7. ASSUME NEW a \in Attaches, RegisterAfterClose(a) PROVE Released(x)'
  BY <1>7 DEF RegisterAfterClose
<1>8. ASSUME NEW a \in Attaches, FinishAttach(a) PROVE Released(x)'
  BY <1>8 DEF FinishAttach
<1>9. ASSUME NEW a \in Attaches, ReleaseSlot(a) PROVE Released(x)'
  BY <1>9 DEF ReleaseSlot, Returns
<1>10. ASSUME NEW a \in Attaches, NEW p \in Ports, ReserveAttachPort(a, p)
     PROVE  Released(x)'
  BY <1>10 DEF ReserveAttachPort, Returns
<1>11. ASSUME NEW a \in Attaches, NEW ok \in BOOLEAN, ReleaseAfterCloseRace(a, ok)
     PROVE  Released(x)'
  BY <1>11 DEF ReleaseAfterCloseRace, DetachPort, Returns
<1>12. ASSUME NEW f \in Attaches, RemoveHandle(f) PROVE Released(x)'
  BY <1>12 DEF RemoveHandle, Watch, RemoveExact
<1>13. ASSUME NEW f \in Attaches, NEW a \in Attaches, Reconnect(f, a) PROVE Released(x)'
  BY <1>13 DEF Reconnect, Watch
<1>14. ASSUME NEW f \in Attaches, NEW a \in Attaches, ReconnectReturned(f, a)
     PROVE  Released(x)'
  BY <1>14 DEF ReconnectReturned, Watch
<1>15. ASSUME NEW o \in Owners, BodyDetachPort(o) PROVE Released(x)'
  BY <1>15 DEF BodyDetachPort, DetachPort, Body, Finish
<1>16. ASSUME NEW o \in Owners, BodyDelete(o) PROVE Released(x)'
  BY <1>16 DEF BodyDelete, Finish, RemoveExact
<1>17. ASSUME NEW d \in Detaches, NEW ok \in BOOLEAN, DetachUntracked(d, ok)
     PROVE  Released(x)'
  BY <1>17 DEF DetachUntracked, DetachPort
<1>18. ASSUME NEW p \in Ports, RemoteGone(p) PROVE Released(x)'
  BY <1>18 DEF RemoteGone
<1>19. ASSUME NEW f \in Attaches, 
               EventsLost(f) \/ WatcherLooks(f) \/ WatcherCancelled(f)
            \/ WatcherDecides(f) \/ ReconnectRefused(f) \/ CheckDetaching(f)
            \/ RolledBack(f)
     PROVE  UNCHANGED <<apc, outcome, handles, live>>
  BY <1>19 DEF EventsLost, WatcherLooks, WatcherCancelled, WatcherDecides, ReconnectRefused,
     CheckDetaching, RolledBack, vars
<1>20. ASSUME NEW f \in Attaches, NEW a \in Attaches, 
               CheckFresh(f, a) \/ Rollback(f, a)
     PROVE  UNCHANGED <<apc, outcome, handles, live>>
  BY <1>20 DEF CheckFresh, Rollback, vars
<1>21. ASSUME NEW o \in Owners, 
               BodyCancel(o) \/ WaitWatcherBounded(o) \/ BodyRecheck(o)
     PROVE  UNCHANGED <<apc, outcome, handles, live>>
  BY <1>21 DEF BodyCancel, WaitWatcherBounded, BodyRecheck, vars
<1>22. ASSUME NEW d \in Detaches, NEW p \in Ports, 
               DetachClosed(d, p) \/ RequestTeardown(d, p) \/ AcquireHandle(d, p)
            \/ AcquireUntracked(d, p)
     PROVE  UNCHANGED <<apc, outcome, handles, live>>
  BY <1>22 DEF DetachClosed, RequestTeardown, AcquireHandle, AcquireUntracked, vars
<1>23. ASSUME NEW d \in Detaches, 
               FinishUntracked(d) \/ BodyReturns(d) \/ AttemptDone(d)
            \/ PublicationDone(d) \/ DetachGivesUp(d)
     PROVE  UNCHANGED <<apc, outcome, handles, live>>
  BY <1>23 DEF FinishUntracked, BodyReturns, AttemptDone, PublicationDone, DetachGivesUp,
     vars
<1>24. ASSUME Close \/ CloseCancels \/ CloseDrains
     PROVE  UNCHANGED <<apc, outcome, handles, live>>
  BY <1>24 DEF Close, CloseCancels, CloseDrains, vars
<1>25. ASSUME Finished
     PROVE  UNCHANGED <<apc, outcome, handles, live>>
  BY <1>25 DEF Finished, vars
<1>26. ASSUME UNCHANGED vars PROVE UNCHANGED <<apc, outcome, handles, live>>
  BY <1>26 DEF vars
<1>27. QED
  BY <1>1, <1>2, <1>3, <1>4, <1>5, <1>6, <1>7, <1>8, <1>9, <1>10, <1>11, <1>12, <1>13,
     <1>14, <1>15, <1>16, <1>17, <1>18, <1>19, <1>20, <1>21, <1>22, <1>23, <1>24, <1>25,
     <1>26
  DEF Next, AttachStep, WatcherStep, BodyStep, AcquireDetachTarget, Detach, DetachStep

\* What an attach returned stays.
LEMMA FailedStep ==
  ASSUME TypeOK, \A a \in Attaches : PortInv(a), NEW x \in Attaches, outcome[x] = "failed",
         [Next]_vars
  PROVE  outcome'[x] = "failed"
<1> USE ImporterAssumption DEF TypeOK, PortInv, Owners, importerVars, attachVars,
        handleVars, attemptVars, detachVars, closeVars, kernelVars
<1>1. CASE UNCHANGED <<outcome>>
  BY <1>1
<1>2. ASSUME NEW a \in Attaches, AttachFails(a) PROVE outcome'[x] = "failed"
  BY <1>2 DEF AttachFails, Returns
<1>3. ASSUME NEW a \in Attaches, AbortAttachReservation(a) PROVE outcome'[x] = "failed"
  BY <1>3 DEF AbortAttachReservation, Returns
<1>4. ASSUME NEW a \in Attaches, FinishAttach(a) PROVE outcome'[x] = "failed"
  BY <1>4 DEF FinishAttach
<1>5. ASSUME NEW a \in Attaches, NEW p \in Ports, ReserveAttachPort(a, p)
     PROVE  outcome'[x] = "failed"
  BY <1>5 DEF ReserveAttachPort, Returns
<1>6. ASSUME NEW a \in Attaches, NEW ok \in BOOLEAN, ReleaseAfterCloseRace(a, ok)
     PROVE  outcome'[x] = "failed"
  BY <1>6 DEF ReleaseAfterCloseRace, DetachPort, Returns
<1>7. ASSUME NEW a \in Attaches, NEW k \in Keys, NEW r \in AutoReconnect, 
               Attach(a, k, r)
     PROVE  UNCHANGED <<outcome>>
  BY <1>7 DEF Attach, vars
<1>8. ASSUME NEW a \in Attaches, 
               AttachAtPort(a) \/ RegisterHandle(a) \/ RegisterAfterClose(a)
            \/ ReleaseSlot(a)
     PROVE  UNCHANGED <<outcome>>
  BY <1>8 DEF AttachAtPort, RegisterHandle, RegisterAfterClose, ReleaseSlot, vars
<1>9. ASSUME NEW f \in Attaches, 
               EventsLost(f) \/ WatcherLooks(f) \/ WatcherCancelled(f)
            \/ WatcherDecides(f) \/ ReconnectRefused(f) \/ CheckDetaching(f)
            \/ RemoveHandle(f) \/ RolledBack(f)
     PROVE  UNCHANGED <<outcome>>
  BY <1>9 DEF EventsLost, WatcherLooks, WatcherCancelled, WatcherDecides, ReconnectRefused,
     CheckDetaching, RemoveHandle, RolledBack, vars
<1>10. ASSUME NEW f \in Attaches, NEW a \in Attaches, 
               Reconnect(f, a) \/ ReconnectReturned(f, a) \/ CheckFresh(f, a)
            \/ Rollback(f, a)
     PROVE  UNCHANGED <<outcome>>
  BY <1>10 DEF Reconnect, ReconnectReturned, CheckFresh, Rollback, vars
<1>11. ASSUME NEW o \in Owners, 
               BodyCancel(o) \/ WaitWatcherBounded(o) \/ BodyRecheck(o)
            \/ BodyDetachPort(o) \/ BodyDelete(o)
     PROVE  UNCHANGED <<outcome>>
  BY <1>11 DEF BodyCancel, WaitWatcherBounded, BodyRecheck, BodyDetachPort, BodyDelete, vars
<1>12. ASSUME NEW d \in Detaches, NEW p \in Ports, 
               DetachClosed(d, p) \/ RequestTeardown(d, p) \/ AcquireHandle(d, p)
            \/ AcquireUntracked(d, p)
     PROVE  UNCHANGED <<outcome>>
  BY <1>12 DEF DetachClosed, RequestTeardown, AcquireHandle, AcquireUntracked, vars
<1>13. ASSUME NEW d \in Detaches, NEW ok \in BOOLEAN, 
               DetachUntracked(d, ok)
     PROVE  UNCHANGED <<outcome>>
  BY <1>13 DEF DetachUntracked, vars
<1>14. ASSUME NEW d \in Detaches, 
               FinishUntracked(d) \/ BodyReturns(d) \/ AttemptDone(d)
            \/ PublicationDone(d) \/ DetachGivesUp(d)
     PROVE  UNCHANGED <<outcome>>
  BY <1>14 DEF FinishUntracked, BodyReturns, AttemptDone, PublicationDone, DetachGivesUp,
     vars
<1>15. ASSUME Close \/ CloseCancels \/ CloseDrains
     PROVE  UNCHANGED <<outcome>>
  BY <1>15 DEF Close, CloseCancels, CloseDrains, vars
<1>16. ASSUME NEW p \in Ports, 
               RemoteGone(p)
     PROVE  UNCHANGED <<outcome>>
  BY <1>16 DEF RemoteGone, vars
<1>17. ASSUME Finished
     PROVE  UNCHANGED <<outcome>>
  BY <1>17 DEF Finished, vars
<1>18. ASSUME UNCHANGED vars PROVE UNCHANGED <<outcome>>
  BY <1>18 DEF vars
<1>19. QED
  BY <1>1, <1>2, <1>3, <1>4, <1>5, <1>6, <1>7, <1>8, <1>9, <1>10, <1>11, <1>12, <1>13,
     <1>14, <1>15, <1>16, <1>17, <1>18
  DEF Next, AttachStep, WatcherStep, BodyStep, AcquireDetachTarget, Detach, DetachStep

\* A call that has published its handle has.
LEMMA PublishedStep ==
  ASSUME TypeOK, \A a \in Attaches : PortInv(a), NEW x \in Attaches, Published(x),
         [Next]_vars
  PROVE  Published(x)'
<1> USE ImporterAssumption DEF TypeOK, PortInv, Published, Owners, importerVars, attachVars,
        handleVars, attemptVars, detachVars, closeVars, kernelVars
<1>1. CASE UNCHANGED <<apc, outcome>>
  BY <1>1
<1>2. ASSUME NEW a \in Attaches, NEW k \in Keys, NEW r \in AutoReconnect, Attach(a, k, r)
     PROVE  Published(x)'
  BY <1>2 DEF Attach
<1>3. ASSUME NEW a \in Attaches, AttachFails(a) PROVE Published(x)'
  BY <1>3 DEF AttachFails, Returns
<1>4. ASSUME NEW a \in Attaches, AttachAtPort(a) PROVE Published(x)'
  BY <1>4 DEF AttachAtPort
<1>5. ASSUME NEW a \in Attaches, AbortAttachReservation(a) PROVE Published(x)'
  BY <1>5 DEF AbortAttachReservation, Returns
<1>6. ASSUME NEW a \in Attaches, RegisterHandle(a) PROVE Published(x)'
  BY <1>6 DEF RegisterHandle, Superseded, Compensate
<1>7. ASSUME NEW a \in Attaches, RegisterAfterClose(a) PROVE Published(x)'
  BY <1>7 DEF RegisterAfterClose
<1>8. ASSUME NEW a \in Attaches, FinishAttach(a) PROVE Published(x)'
  BY <1>8 DEF FinishAttach
<1>9. ASSUME NEW a \in Attaches, ReleaseSlot(a) PROVE Published(x)'
  BY <1>9 DEF ReleaseSlot, Returns
<1>10. ASSUME NEW a \in Attaches, NEW p \in Ports, ReserveAttachPort(a, p)
     PROVE  Published(x)'
  BY <1>10 DEF ReserveAttachPort, Returns
<1>11. ASSUME NEW a \in Attaches, NEW ok \in BOOLEAN, ReleaseAfterCloseRace(a, ok)
     PROVE  Published(x)'
  BY <1>11 DEF ReleaseAfterCloseRace, DetachPort, Returns
<1>12. ASSUME NEW f \in Attaches, NEW a \in Attaches, Reconnect(f, a) PROVE Published(x)'
  BY <1>12 DEF Reconnect, Watch
<1>13. ASSUME NEW f \in Attaches, NEW a \in Attaches, ReconnectReturned(f, a)
     PROVE  Published(x)'
  BY <1>13 DEF ReconnectReturned, Watch
<1>14. ASSUME NEW f \in Attaches, 
               EventsLost(f) \/ WatcherLooks(f) \/ WatcherCancelled(f)
            \/ WatcherDecides(f) \/ ReconnectRefused(f) \/ CheckDetaching(f)
            \/ RemoveHandle(f) \/ RolledBack(f)
     PROVE  UNCHANGED <<apc, outcome>>
  BY <1>14 DEF EventsLost, WatcherLooks, WatcherCancelled, WatcherDecides, ReconnectRefused,
     CheckDetaching, RemoveHandle, RolledBack, vars
<1>15. ASSUME NEW f \in Attaches, NEW a \in Attaches, 
               CheckFresh(f, a) \/ Rollback(f, a)
     PROVE  UNCHANGED <<apc, outcome>>
  BY <1>15 DEF CheckFresh, Rollback, vars
<1>16. ASSUME NEW o \in Owners, 
               BodyCancel(o) \/ WaitWatcherBounded(o) \/ BodyRecheck(o)
            \/ BodyDetachPort(o) \/ BodyDelete(o)
     PROVE  UNCHANGED <<apc, outcome>>
  BY <1>16 DEF BodyCancel, WaitWatcherBounded, BodyRecheck, BodyDetachPort, BodyDelete, vars
<1>17. ASSUME NEW d \in Detaches, NEW p \in Ports, 
               DetachClosed(d, p) \/ RequestTeardown(d, p) \/ AcquireHandle(d, p)
            \/ AcquireUntracked(d, p)
     PROVE  UNCHANGED <<apc, outcome>>
  BY <1>17 DEF DetachClosed, RequestTeardown, AcquireHandle, AcquireUntracked, vars
<1>18. ASSUME NEW d \in Detaches, NEW ok \in BOOLEAN, 
               DetachUntracked(d, ok)
     PROVE  UNCHANGED <<apc, outcome>>
  BY <1>18 DEF DetachUntracked, vars
<1>19. ASSUME NEW d \in Detaches, 
               FinishUntracked(d) \/ BodyReturns(d) \/ AttemptDone(d)
            \/ PublicationDone(d) \/ DetachGivesUp(d)
     PROVE  UNCHANGED <<apc, outcome>>
  BY <1>19 DEF FinishUntracked, BodyReturns, AttemptDone, PublicationDone, DetachGivesUp,
     vars
<1>20. ASSUME Close \/ CloseCancels \/ CloseDrains
     PROVE  UNCHANGED <<apc, outcome>>
  BY <1>20 DEF Close, CloseCancels, CloseDrains, vars
<1>21. ASSUME NEW p \in Ports, 
               RemoteGone(p)
     PROVE  UNCHANGED <<apc, outcome>>
  BY <1>21 DEF RemoteGone, vars
<1>22. ASSUME Finished
     PROVE  UNCHANGED <<apc, outcome>>
  BY <1>22 DEF Finished, vars
<1>23. ASSUME UNCHANGED vars PROVE UNCHANGED <<apc, outcome>>
  BY <1>23 DEF vars
<1>24. QED
  BY <1>1, <1>2, <1>3, <1>4, <1>5, <1>6, <1>7, <1>8, <1>9, <1>10, <1>11, <1>12, <1>13,
     <1>14, <1>15, <1>16, <1>17, <1>18, <1>19, <1>20, <1>21, <1>22, <1>23
  DEF Next, AttachStep, WatcherStep, BodyStep, AcquireDetachTarget, Detach, DetachStep

\* A published handle that is not registered any more is not attached either: what took it
\* out of the table came after the kernel gave its port back.
LEMMA UnregisteredIsReleased ==
  ASSUME TypeOK, \A a \in Attaches : PortInv(a), PortsAreTracked,
         NEW h \in Attaches, Published(h), handles[port[h]] # h
  PROVE  Released(h)
<1>1. \A p \in Ports : handles[p] # h
  BY DEF PortInv
<1>2. apc[h] \notin {"register", "closeRace"} /\ outcome[h] # "closed"
  BY DEF PortInv, Published
<1>3. ASSUME NEW p \in Ports PROVE live[p] # h
  BY <1>1, <1>2 DEF PortsAreTracked
<1>4. QED BY <1>1, <1>3 DEF Released, Gone

\* An attach that failed is not registered and not attached.
LEMMA FailedIsReleased ==
  ASSUME TypeOK, \A a \in Attaches : PortInv(a), PortsAreTracked,
         NEW h \in Attaches, outcome[h] = "failed"
  PROVE  Released(h)
<1>1. \A p \in Ports : handles[p] # h
  BY DEF PortInv, Published
<1>2. apc[h] \notin {"register", "closeRace"} /\ outcome[h] # "closed"
  BY DEF PortInv
<1>3. ASSUME NEW p \in Ports PROVE live[p] # h
  BY <1>1, <1>2 DEF PortsAreTracked
<1>4. QED BY <1>1, <1>3 DEF Released, Gone

\* Every step keeps an untracked detach with its call.
LEMMA UntrackedStep ==
  ASSUME TypeOK, NEW q \in Ports, \A p \in Ports : UntrackedInv(p), [Next]_vars
  PROVE  UntrackedInv(q)'
<1> USE ImporterAssumption DEF TypeOK, UntrackedInv, Owners, importerVars, attachVars,
        handleVars, attemptVars, detachVars, closeVars, kernelVars
<1>1. CASE UNCHANGED <<untracked, dpc, dport>>
  BY <1>1
<1>2. ASSUME NEW d \in Detaches, NEW p \in Ports, DetachClosed(d, p) PROVE UntrackedInv(q)'
  BY <1>2 DEF DetachClosed, Looks, DetachReturns
<1>3. ASSUME NEW d \in Detaches, NEW p \in Ports, RequestTeardown(d, p)
     PROVE  UntrackedInv(q)'
  BY <1>3 DEF RequestTeardown, Looks, Superseded
<1>4. ASSUME NEW d \in Detaches, NEW p \in Ports, AcquireHandle(d, p)
     PROVE  UntrackedInv(q)'
  BY SMTT(60), <1>4 DEF AcquireHandle, Looks, Own, MayOwn
<1>5. ASSUME NEW d \in Detaches, NEW p \in Ports, AcquireUntracked(d, p)
     PROVE  UntrackedInv(q)'
  BY <1>5 DEF AcquireUntracked, Looks
<1>6. ASSUME NEW d \in Detaches, NEW ok \in BOOLEAN, DetachUntracked(d, ok)
     PROVE  UntrackedInv(q)'
  BY <1>6 DEF DetachUntracked, DetachPort
<1>7. ASSUME NEW d \in Detaches, FinishUntracked(d) PROVE UntrackedInv(q)'
  BY <1>7 DEF FinishUntracked, DetachReturns
<1>8. ASSUME NEW d \in Detaches, BodyReturns(d) PROVE UntrackedInv(q)'
  BY <1>8 DEF BodyReturns, DetachReturns
<1>9. ASSUME NEW d \in Detaches, AttemptDone(d) PROVE UntrackedInv(q)'
  BY <1>9 DEF AttemptDone, DetachReturns, SharedResult
<1>10. ASSUME NEW d \in Detaches, PublicationDone(d) PROVE UntrackedInv(q)'
  BY <1>10 DEF PublicationDone
<1>11. ASSUME NEW d \in Detaches, DetachGivesUp(d) PROVE UntrackedInv(q)'
  BY <1>11 DEF DetachGivesUp, DetachReturns
<1>12. ASSUME NEW a \in Attaches, NEW k \in Keys, NEW r \in AutoReconnect, 
               Attach(a, k, r)
     PROVE  UNCHANGED <<untracked, dpc, dport>>
  BY <1>12 DEF Attach, vars
<1>13. ASSUME NEW a \in Attaches, 
               AttachFails(a) \/ AttachAtPort(a) \/ AbortAttachReservation(a)
            \/ RegisterHandle(a) \/ RegisterAfterClose(a) \/ FinishAttach(a)
            \/ ReleaseSlot(a)
     PROVE  UNCHANGED <<untracked, dpc, dport>>
  BY <1>13 DEF AttachFails, AttachAtPort, AbortAttachReservation, RegisterHandle,
     RegisterAfterClose, FinishAttach, ReleaseSlot, vars
<1>14. ASSUME NEW a \in Attaches, NEW p \in Ports, 
               ReserveAttachPort(a, p)
     PROVE  UNCHANGED <<untracked, dpc, dport>>
  BY <1>14 DEF ReserveAttachPort, vars
<1>15. ASSUME NEW a \in Attaches, NEW ok \in BOOLEAN, 
               ReleaseAfterCloseRace(a, ok)
     PROVE  UNCHANGED <<untracked, dpc, dport>>
  BY <1>15 DEF ReleaseAfterCloseRace, vars
<1>16. ASSUME NEW f \in Attaches, 
               EventsLost(f) \/ WatcherLooks(f) \/ WatcherCancelled(f)
            \/ WatcherDecides(f) \/ ReconnectRefused(f) \/ CheckDetaching(f)
            \/ RemoveHandle(f) \/ RolledBack(f)
     PROVE  UNCHANGED <<untracked, dpc, dport>>
  BY <1>16 DEF EventsLost, WatcherLooks, WatcherCancelled, WatcherDecides, ReconnectRefused,
     CheckDetaching, RemoveHandle, RolledBack, vars
<1>17. ASSUME NEW f \in Attaches, NEW a \in Attaches, 
               Reconnect(f, a) \/ ReconnectReturned(f, a) \/ CheckFresh(f, a)
            \/ Rollback(f, a)
     PROVE  UNCHANGED <<untracked, dpc, dport>>
  BY <1>17 DEF Reconnect, ReconnectReturned, CheckFresh, Rollback, vars
<1>18. ASSUME NEW o \in Owners, 
               BodyCancel(o) \/ WaitWatcherBounded(o) \/ BodyRecheck(o)
            \/ BodyDetachPort(o) \/ BodyDelete(o)
     PROVE  UNCHANGED <<untracked, dpc, dport>>
  BY <1>18 DEF BodyCancel, WaitWatcherBounded, BodyRecheck, BodyDetachPort, BodyDelete, vars
<1>19. ASSUME Close \/ CloseCancels \/ CloseDrains
     PROVE  UNCHANGED <<untracked, dpc, dport>>
  BY <1>19 DEF Close, CloseCancels, CloseDrains, vars
<1>20. ASSUME NEW p \in Ports, 
               RemoteGone(p)
     PROVE  UNCHANGED <<untracked, dpc, dport>>
  BY <1>20 DEF RemoteGone, vars
<1>21. ASSUME Finished
     PROVE  UNCHANGED <<untracked, dpc, dport>>
  BY <1>21 DEF Finished, vars
<1>22. ASSUME UNCHANGED vars PROVE UNCHANGED <<untracked, dpc, dport>>
  BY SMTT(60), <1>22 DEF vars
<1>23. QED
  BY <1>1, <1>2, <1>3, <1>4, <1>5, <1>6, <1>7, <1>8, <1>9, <1>10, <1>11, <1>12, <1>13,
     <1>14, <1>15, <1>16, <1>17, <1>18, <1>19, <1>20, <1>21, <1>22
  DEF Next, AttachStep, WatcherStep, BodyStep, AcquireDetachTarget, Detach, DetachStep

\* Every step keeps the owner of an attempt on its handle.
LEMMA BodyStepInv ==
  ASSUME TypeOK, \A a \in Attaches : PortInv(a), \A a \in Attaches : HandleInv(a), \A o \in
         Owners : BodyInv(o), \A d \in Detaches : DetachInv(d), \A h \in Attaches :
         Published(h) => Published(h)', NEW y \in Owners, [Next]_vars
  PROVE  BodyInv(y)'
<1> USE ImporterAssumption DEF TypeOK, BodyInv, HandleOf, Owners, importerVars, attachVars,
        handleVars, attemptVars, detachVars, closeVars, kernelVars
<1>0. ASSUME NEW d \in Detaches, bpc[d] = "off",
             UNCHANGED <<bpc, attempt, live, port>>,
             \A o \in Owners \ {d} : attState'[o] = attState[o],
             \A e \in Detaches \ {d} : dpc'[e] = dpc[e] /\ target'[e] = target[e]
     PROVE  BodyInv(y)'
  <2>1. CASE y = d
    BY <1>0, <2>1
  <2>2. CASE y # d
    <3>1. HandleOf(y)' = HandleOf(y) /\ bpc'[y] = bpc[y] /\ attState'[y] = attState[y]
      BY <1>0, <2>2
    <3>2. y \in Detaches => dpc'[y] = dpc[y]
      BY <1>0, <2>2
    <3>3. bpc[y] # "off" => Published(HandleOf(y))'
      BY <3>1 DEF Published
    <3>4. QED BY <1>0, <3>1, <3>2, <3>3
  <2>3. QED BY <2>1, <2>2
<1>1. CASE UNCHANGED <<bpc, attempt, attState, dpc, target, live, port>>
  BY <1>1
<1>2. ASSUME NEW a \in Attaches, AttachAtPort(a) PROVE BodyInv(y)'
  <2>1. port[a] \in Ports /\ ~Published(a)
    BY <1>2 DEF AttachAtPort, PortInv, Reserving, Published
  <2>2. UNCHANGED <<bpc, attempt, attState, dpc, target, port>>
    BY <1>2 DEF AttachAtPort
  <2>3. live' = live \/ live' = [live EXCEPT ![port[a]] = a]
    BY <1>2 DEF AttachAtPort
  <2>4. ASSUME NEW h \in Attaches, Published(h), live[port[h]] # h PROVE live'[port[h]] # h
    <3>1. port[h] \in Ports /\ h # a
      BY <2>1, <2>4 DEF PortInv
    <3>2. live \in [Ports -> Attaches \cup {Free, Foreign}]
      OBVIOUS
    <3>3. QED BY ONLY <2>1, <2>3, <2>4, <3>1, <3>2
  <2>5. QED BY <2>2, <2>4
<1>3. ASSUME NEW a \in Attaches, RegisterHandle(a) PROVE BodyInv(y)'
  <2>1. ~Published(a)
    BY <1>3 DEF RegisterHandle, PortInv, Published
  <2>2. /\ UNCHANGED <<bpc, dpc, target, live, port>>
        /\ \/ UNCHANGED <<attempt, attState>>
           \/ /\ attempt' = [attempt EXCEPT ![a] = a]
              /\ attState' = [attState EXCEPT ![a] = "open"]
    BY <1>3 DEF RegisterHandle
  <2>3. QED BY <2>1, <2>2
<1>4. ASSUME NEW a \in Attaches, FinishAttach(a) PROVE BodyInv(y)'
  BY <1>4 DEF FinishAttach, HandleInv, DetachInv, NotOwner
<1>5. ASSUME NEW a \in Attaches, NEW p \in Ports, ReserveAttachPort(a, p) PROVE BodyInv(y)'
  <2>1. ~Published(a)
    BY <1>5 DEF ReserveAttachPort, PortInv, Published
  <2>2. /\ UNCHANGED <<bpc, attempt, attState, dpc, target, live>>
        /\ port' = port \/ port' = [port EXCEPT ![a] = p]
    BY <1>5 DEF ReserveAttachPort
  <2>3. QED BY <2>1, <2>2
<1>6. ASSUME NEW a \in Attaches, NEW ok \in BOOLEAN, ReleaseAfterCloseRace(a, ok)
     PROVE  BodyInv(y)'
  BY <1>6 DEF ReleaseAfterCloseRace, DetachPort, Returns
<1>7. ASSUME NEW f \in Attaches, NEW a \in Attaches, Rollback(f, a) PROVE BodyInv(y)'
  <2>1. Published(a) /\ UNCHANGED <<dpc, target, live, port>>
    BY <1>7 DEF Rollback, Published
  <2>2. CASE UNCHANGED <<bpc, attempt, attState>>
    BY <2>1, <2>2
  <2>3. CASE attempt[a] = None /\ Own(a, a)
    <3>1. CASE y = a
      BY <2>1, <2>3, <3>1 DEF Own
    <3>2. CASE y # a
      <4>1. bpc'[y] = bpc[y] /\ attState'[y] = attState[y]
        BY <2>3, <3>2 DEF Own
      <4>2. bpc[y] # "off" => attempt'[HandleOf(y)] = y
        BY <2>3, <3>2 DEF Own
      <4>3. QED BY <2>1, <4>1, <4>2
    <3>3. QED BY <3>1, <3>2
  <2>4. QED BY <1>7, <2>2, <2>3 DEF Rollback
<1>8. ASSUME NEW o \in Owners, BodyCancel(o) PROVE BodyInv(y)'
  BY <1>8 DEF BodyCancel, Body
<1>9. ASSUME NEW o \in Owners, WaitWatcherBounded(o) PROVE BodyInv(y)'
  BY <1>9 DEF WaitWatcherBounded, Body
<1>10. ASSUME NEW o \in Owners, BodyRecheck(o) PROVE BodyInv(y)'
  BY <1>10 DEF BodyRecheck, Body, Finish, HandleInv, DetachInv, NotOwner
<1>11. ASSUME NEW o \in Owners, BodyDetachPort(o) PROVE BodyInv(y)'
  <2>1. PICK h \in Attaches : h = HandleOf(o) /\ Published(h) /\ attempt[h] = o
    BY <1>11 DEF BodyDetachPort
  <2>2. /\ UNCHANGED <<dpc, target, port>>
        /\ live' = live \/ live' = [live EXCEPT ![port[h]] = Free]
    BY <1>11, <2>1 DEF BodyDetachPort, DetachPort
  <2>3. ASSUME NEW g \in Attaches, Published(g), live[port[g]] # g PROVE live'[port[g]] # g
    <3>1. port[g] \in Ports /\ g # Free
      BY <2>3 DEF PortInv
    <3>2. live \in [Ports -> Attaches \cup {Free, Foreign}]
      OBVIOUS
    <3>3. QED BY ONLY <2>2, <2>3, <3>1, <3>2
  <2>4. port[h] \in Ports
    BY <2>1 DEF PortInv
  <2>5. CASE /\ UNCHANGED <<attState, attempt>>
             /\ bpc' = [bpc EXCEPT ![o] = "deleteOK"] \/ bpc' = [bpc EXCEPT ![o] = "deleteErr"]
             /\ live'[port[h]] # h
    <3>1. bpc[o] # "off"
      BY <1>11 DEF BodyDetachPort
    <3>2. CASE y = o
      BY <2>1, <2>2, <2>5, <3>1, <3>2
    <3>3. CASE y # o
      BY <2>2, <2>3, <2>5, <3>3
    <3>4. QED BY <3>2, <3>3
  <2>6. CASE Finish(o, h, "err")
    <3>1. CASE y = o
      BY <2>6, <3>1 DEF Finish
    <3>2. CASE y # o
      <4>1. bpc'[y] = bpc[y] /\ attState'[y] = attState[y]
        BY <2>6, <3>2 DEF Finish
      <4>2. bpc[y] # "off" => attempt'[HandleOf(y)] = y
        BY <2>1, <2>6, <3>2 DEF Finish
      <4>3. QED BY <2>2, <2>3, <4>1, <4>2
    <3>3. QED BY <3>1, <3>2
  <2>7. QED BY <1>11, <2>1, <2>4, <2>5, <2>6 DEF BodyDetachPort, DetachPort, Body
<1>12. ASSUME NEW o \in Owners, BodyDelete(o) PROVE BodyInv(y)'
  BY <1>12 DEF BodyDelete, Finish, RemoveExact, HandleInv, DetachInv, NotOwner
<1>13. ASSUME NEW d \in Detaches, NEW p \in Ports, DetachClosed(d, p) PROVE BodyInv(y)'
  <2>1. bpc[d] = "off"
    BY <1>13 DEF DetachClosed, Looks, DetachInv, NotOwner
  <2>2. UNCHANGED <<bpc, attempt, live, port>>
    BY <1>13 DEF DetachClosed
  <2>3. \A o \in Owners \ {d} : attState'[o] = attState[o]
    BY <1>13 DEF DetachClosed
  <2>4. \A e \in Detaches \ {d} : dpc'[e] = dpc[e] /\ target'[e] = target[e]
    BY <1>13 DEF DetachClosed, DetachReturns
  <2>5. QED BY <1>0, <2>1, <2>2, <2>3, <2>4
<1>14. ASSUME NEW d \in Detaches, NEW p \in Ports, RequestTeardown(d, p) PROVE BodyInv(y)'
  <2>1. bpc[d] = "off"
    BY <1>14 DEF RequestTeardown, Looks, DetachInv, NotOwner
  <2>2. UNCHANGED <<bpc, attempt, live, port>>
    BY <1>14 DEF RequestTeardown
  <2>3. \A o \in Owners \ {d} : attState'[o] = attState[o]
    BY <1>14 DEF RequestTeardown
  <2>4. \A e \in Detaches \ {d} : dpc'[e] = dpc[e] /\ target'[e] = target[e]
    BY <1>14 DEF RequestTeardown
  <2>5. QED BY <1>0, <2>1, <2>2, <2>3, <2>4
<1>15. ASSUME NEW d \in Detaches, NEW p \in Ports, AcquireHandle(d, p) PROVE BodyInv(y)'
  <2>1. PICK h \in Attaches : h = handles[p]
    BY <1>15 DEF AcquireHandle
  <2>2. Published(h) /\ UNCHANGED <<live, port>>
    BY <1>15, <2>1 DEF AcquireHandle, PortInv
  <2>3. bpc[d] = "off" /\ \A g \in Attaches : attempt[g] # d
    BY <1>15 DEF AcquireHandle, Looks, DetachInv, NotOwner, HandleInv
  <2>4. CASE /\ attempt[h] = None /\ Own(h, d)
             /\ target' = [target EXCEPT ![d] = h]
             /\ dpc' = [dpc EXCEPT ![d] = "body"]
    <3>1. CASE y = d
      BY <2>2, <2>4, <3>1 DEF Own
    <3>2. CASE y # d
      <4>1. /\ bpc'[y] = bpc[y] /\ attState'[y] = attState[y]
            /\ y \in Detaches => dpc'[y] = dpc[y] /\ target'[y] = target[y]
        BY <2>4, <3>2 DEF Own
      <4>2. bpc[y] # "off" => attempt'[HandleOf(y)] = y
        BY <2>4, <3>2 DEF Own
      <4>3. QED BY <2>2, <4>1, <4>2
    <3>3. QED BY <3>1, <3>2
  <2>5. CASE /\ UNCHANGED <<attempt, attState, bpc>>
             /\ target' = [target EXCEPT ![d] = attempt[h]]
             /\ dpc' = [dpc EXCEPT ![d] = "waitAttempt"]
    BY <2>2, <2>3, <2>5
  <2>6. QED BY <1>15, <2>1, <2>4, <2>5 DEF AcquireHandle, MayOwn
<1>16. ASSUME NEW d \in Detaches, NEW p \in Ports, AcquireUntracked(d, p) PROVE BodyInv(y)'
  <2>1. bpc[d] = "off"
    BY <1>16 DEF AcquireUntracked, Looks, DetachInv, NotOwner
  <2>2. UNCHANGED <<bpc, attempt, live, port>>
    BY <1>16 DEF AcquireUntracked
  <2>3. \A o \in Owners \ {d} : attState'[o] = attState[o]
    BY <1>16 DEF AcquireUntracked
  <2>4. \A e \in Detaches \ {d} : dpc'[e] = dpc[e] /\ target'[e] = target[e]
    BY <1>16 DEF AcquireUntracked
  <2>5. QED BY <1>0, <2>1, <2>2, <2>3, <2>4
<1>17. ASSUME NEW d \in Detaches, NEW ok \in BOOLEAN, DetachUntracked(d, ok)
     PROVE  BodyInv(y)'
  BY <1>17 DEF DetachUntracked, DetachPort
<1>18. ASSUME NEW d \in Detaches, FinishUntracked(d) PROVE BodyInv(y)'
  <2>1. bpc[d] = "off"
    BY <1>18 DEF FinishUntracked
  <2>2. UNCHANGED <<bpc, attempt, live, port>>
    BY <1>18 DEF FinishUntracked
  <2>3. \A o \in Owners \ {d} : attState'[o] = attState[o]
    BY <1>18 DEF FinishUntracked
  <2>4. \A e \in Detaches \ {d} : dpc'[e] = dpc[e] /\ target'[e] = target[e]
    BY <1>18 DEF FinishUntracked, DetachReturns
  <2>5. QED BY <1>0, <2>1, <2>2, <2>3, <2>4
<1>19. ASSUME NEW d \in Detaches, BodyReturns(d) PROVE BodyInv(y)'
  BY <1>19 DEF BodyReturns, DetachReturns
<1>20. ASSUME NEW d \in Detaches, AttemptDone(d) PROVE BodyInv(y)'
  BY <1>20 DEF AttemptDone, DetachReturns, SharedResult
<1>21. ASSUME NEW d \in Detaches, PublicationDone(d) PROVE BodyInv(y)'
  BY <1>21 DEF PublicationDone
<1>22. ASSUME NEW d \in Detaches, DetachGivesUp(d) PROVE BodyInv(y)'
  BY <1>22 DEF DetachGivesUp, DetachReturns
<1>23. ASSUME NEW p \in Ports, RemoteGone(p) PROVE BodyInv(y)'
  BY <1>23 DEF RemoteGone
<1>24. ASSUME NEW a \in Attaches, NEW k \in Keys, NEW r \in AutoReconnect, 
               Attach(a, k, r)
     PROVE  UNCHANGED <<bpc, attempt, attState, dpc, target, live, port>>
  BY <1>24 DEF Attach, vars
<1>25. ASSUME NEW a \in Attaches, 
               AttachFails(a) \/ AbortAttachReservation(a) \/ RegisterAfterClose(a)
            \/ ReleaseSlot(a)
     PROVE  UNCHANGED <<bpc, attempt, attState, dpc, target, live, port>>
  BY <1>25 DEF AttachFails, AbortAttachReservation, RegisterAfterClose, ReleaseSlot, vars
<1>26. ASSUME NEW f \in Attaches, 
               EventsLost(f) \/ WatcherLooks(f) \/ WatcherCancelled(f)
            \/ WatcherDecides(f) \/ ReconnectRefused(f) \/ CheckDetaching(f)
            \/ RemoveHandle(f) \/ RolledBack(f)
     PROVE  UNCHANGED <<bpc, attempt, attState, dpc, target, live, port>>
  BY <1>26 DEF EventsLost, WatcherLooks, WatcherCancelled, WatcherDecides, ReconnectRefused,
     CheckDetaching, RemoveHandle, RolledBack, vars
<1>27. ASSUME NEW f \in Attaches, NEW a \in Attaches, 
               Reconnect(f, a) \/ ReconnectReturned(f, a) \/ CheckFresh(f, a)
     PROVE  UNCHANGED <<bpc, attempt, attState, dpc, target, live, port>>
  BY <1>27 DEF Reconnect, ReconnectReturned, CheckFresh, vars
<1>28. ASSUME Close \/ CloseCancels \/ CloseDrains
     PROVE  UNCHANGED <<bpc, attempt, attState, dpc, target, live, port>>
  BY <1>28 DEF Close, CloseCancels, CloseDrains, vars
<1>29. ASSUME Finished
     PROVE  UNCHANGED <<bpc, attempt, attState, dpc, target, live, port>>
  BY <1>29 DEF Finished, vars
<1>30. ASSUME UNCHANGED vars PROVE UNCHANGED <<bpc, attempt, attState, dpc, target, live, port>>
  BY <1>30 DEF vars
<1>31. QED
  BY <1>1, <1>2, <1>3, <1>4, <1>5, <1>6, <1>7, <1>8, <1>9, <1>10, <1>11, <1>12, <1>13,
     <1>14, <1>15, <1>16, <1>17, <1>18, <1>19, <1>20, <1>21, <1>22, <1>23, <1>24, <1>25,
     <1>26, <1>27, <1>28, <1>29, <1>30
  DEF Next, AttachStep, WatcherStep, BodyStep, AcquireDetachTarget, Detach, DetachStep

\* An attempt is resolved with nil after its handle is gone.
LEMMA NilStep ==
  ASSUME TypeOK, \A a \in Attaches : PortInv(a), \A a \in Attaches : HandleInv(a), \A o \in
         Owners : BodyInv(o), \A d \in Detaches : DetachInv(d), PortsAreTracked, \A h \in
         Attaches : Released(h) => Released(h)', \A h \in Attaches : Published(h) =>
         Published(h)', NEW y \in Owners, NilInv(y), [Next]_vars
  PROVE  NilInv(y)'
<1> USE ImporterAssumption DEF TypeOK, NilInv, HandleOf, Owners, importerVars, attachVars,
        handleVars, attemptVars, detachVars, closeVars, kernelVars
<1>1. CASE UNCHANGED <<attState, target>>
  BY <1>1
<1>2. ASSUME NEW a \in Attaches, RegisterHandle(a) PROVE NilInv(y)'
  BY <1>2 DEF RegisterHandle, Superseded, Compensate
<1>3. ASSUME NEW f \in Attaches, NEW a \in Attaches, Rollback(f, a) PROVE NilInv(y)'
  BY <1>3 DEF Rollback, Watch, Own
<1>4. ASSUME NEW o \in Owners, BodyRecheck(o) PROVE NilInv(y)'
  <2>1. PICK h \in Attaches : h = HandleOf(o) /\ Published(h)
    BY <1>4 DEF BodyRecheck, BodyInv
  <2>2. /\ UNCHANGED target
        /\ \/ attState' = attState
           \/ attState' = [attState EXCEPT ![o] = "nil"] /\ handles[port[h]] # h
    BY <1>4, <2>1 DEF BodyRecheck, Body, Finish
  <2>3. handles[port[h]] # h => Released(h)'
    BY <2>1, UnregisteredIsReleased
  <2>4. QED BY <2>1, <2>2, <2>3
<1>5. ASSUME NEW o \in Owners, BodyDetachPort(o) PROVE NilInv(y)'
  BY <1>5 DEF BodyDetachPort, DetachPort, Body, Finish, BodyInv
<1>6. ASSUME NEW o \in Owners, BodyDelete(o) PROVE NilInv(y)'
  <2>1. PICK h \in Attaches : h = HandleOf(o) /\ Published(h) /\ live[port[h]] # h
    BY <1>6 DEF BodyDelete, BodyInv
  <2>2. UNCHANGED <<target, live>> /\ handles' = RemoveExact(h)
    BY <1>6, <2>1 DEF BodyDelete
  <2>3. Released(h)'
    <3>1. ASSUME NEW p \in Ports PROVE live'[p] # h /\ handles'[p] # h
      BY <2>1, <2>2 DEF RemoveExact, PortInv
    <3>2. QED BY <2>1, <3>1 DEF Released, Gone
  <2>4. attState' = [attState EXCEPT ![o] = "nil"] \/ attState' = [attState EXCEPT ![o] = "err"]
    BY <1>6 DEF BodyDelete, Finish
  <2>5. QED BY <2>1, <2>2, <2>3, <2>4
<1>7. ASSUME NEW d \in Detaches, NEW p \in Ports, RequestTeardown(d, p) PROVE NilInv(y)'
  BY <1>7 DEF RequestTeardown, Looks, Superseded, DetachInv, NotOwner
<1>8. ASSUME NEW d \in Detaches, NEW p \in Ports, AcquireHandle(d, p) PROVE NilInv(y)'
  BY <1>8 DEF AcquireHandle, Looks, Own, MayOwn, DetachInv, NotOwner
<1>9. ASSUME NEW d \in Detaches, NEW p \in Ports, AcquireUntracked(d, p) PROVE NilInv(y)'
  BY <1>9 DEF AcquireUntracked, Looks, DetachInv, NotOwner
<1>10. ASSUME NEW d \in Detaches, FinishUntracked(d) PROVE NilInv(y)'
  <2>1. target[d] # None => target[d] \in Attaches /\ Released(target[d])'
    BY <1>10, FailedIsReleased DEF FinishUntracked, DetachInv
  <2>2. UNCHANGED target /\ \/ attState' = [attState EXCEPT ![d] = "nil"]
                            \/ attState' = [attState EXCEPT ![d] = "err"]
    BY <1>10 DEF FinishUntracked
  <2>3. QED BY <2>1, <2>2
<1>11. ASSUME NEW a \in Attaches, NEW k \in Keys, NEW r \in AutoReconnect, 
               Attach(a, k, r)
     PROVE  UNCHANGED <<attState, target>>
  BY <1>11 DEF Attach, vars
<1>12. ASSUME NEW a \in Attaches, 
               AttachFails(a) \/ AttachAtPort(a) \/ AbortAttachReservation(a)
            \/ RegisterAfterClose(a) \/ FinishAttach(a) \/ ReleaseSlot(a)
     PROVE  UNCHANGED <<attState, target>>
  BY <1>12 DEF AttachFails, AttachAtPort, AbortAttachReservation, RegisterAfterClose,
     FinishAttach, ReleaseSlot, vars
<1>13. ASSUME NEW a \in Attaches, NEW p \in Ports, 
               ReserveAttachPort(a, p)
     PROVE  UNCHANGED <<attState, target>>
  BY <1>13 DEF ReserveAttachPort, vars
<1>14. ASSUME NEW a \in Attaches, NEW ok \in BOOLEAN, 
               ReleaseAfterCloseRace(a, ok)
     PROVE  UNCHANGED <<attState, target>>
  BY <1>14 DEF ReleaseAfterCloseRace, vars
<1>15. ASSUME NEW f \in Attaches, 
               EventsLost(f) \/ WatcherLooks(f) \/ WatcherCancelled(f)
            \/ WatcherDecides(f) \/ ReconnectRefused(f) \/ CheckDetaching(f)
            \/ RemoveHandle(f) \/ RolledBack(f)
     PROVE  UNCHANGED <<attState, target>>
  BY <1>15 DEF EventsLost, WatcherLooks, WatcherCancelled, WatcherDecides, ReconnectRefused,
     CheckDetaching, RemoveHandle, RolledBack, vars
<1>16. ASSUME NEW f \in Attaches, NEW a \in Attaches, 
               Reconnect(f, a) \/ ReconnectReturned(f, a) \/ CheckFresh(f, a)
     PROVE  UNCHANGED <<attState, target>>
  BY <1>16 DEF Reconnect, ReconnectReturned, CheckFresh, vars
<1>17. ASSUME NEW o \in Owners, 
               BodyCancel(o) \/ WaitWatcherBounded(o)
     PROVE  UNCHANGED <<attState, target>>
  BY <1>17 DEF BodyCancel, WaitWatcherBounded, vars
<1>18. ASSUME NEW d \in Detaches, NEW p \in Ports, 
               DetachClosed(d, p)
     PROVE  UNCHANGED <<attState, target>>
  BY <1>18 DEF DetachClosed, vars
<1>19. ASSUME NEW d \in Detaches, NEW ok \in BOOLEAN, 
               DetachUntracked(d, ok)
     PROVE  UNCHANGED <<attState, target>>
  BY <1>19 DEF DetachUntracked, vars
<1>20. ASSUME NEW d \in Detaches, 
               BodyReturns(d) \/ AttemptDone(d) \/ PublicationDone(d) \/ DetachGivesUp(d)
     PROVE  UNCHANGED <<attState, target>>
  BY <1>20 DEF BodyReturns, AttemptDone, PublicationDone, DetachGivesUp, vars
<1>21. ASSUME Close \/ CloseCancels \/ CloseDrains
     PROVE  UNCHANGED <<attState, target>>
  BY <1>21 DEF Close, CloseCancels, CloseDrains, vars
<1>22. ASSUME NEW p \in Ports, 
               RemoteGone(p)
     PROVE  UNCHANGED <<attState, target>>
  BY <1>22 DEF RemoteGone, vars
<1>23. ASSUME Finished
     PROVE  UNCHANGED <<attState, target>>
  BY <1>23 DEF Finished, vars
<1>24. ASSUME UNCHANGED vars PROVE UNCHANGED <<attState, target>>
  BY <1>24 DEF vars
<1>25. QED
  BY <1>1, <1>2, <1>3, <1>4, <1>5, <1>6, <1>7, <1>8, <1>9, <1>10, <1>11, <1>12, <1>13,
     <1>14, <1>15, <1>16, <1>17, <1>18, <1>19, <1>20, <1>21, <1>22, <1>23, <1>24
  DEF Next, AttachStep, WatcherStep, BodyStep, AcquireDetachTarget, Detach, DetachStep

\* Every step keeps what a Detach waits for and what it reports true.
LEMMA DetachStepInv ==
  ASSUME TypeOK, \A a \in Attaches : PortInv(a), \A a \in Attaches : HandleInv(a), \A o \in
         Owners : BodyInv(o), \A d \in Detaches : DetachInv(d), \A o \in Owners : NilInv(o),
         \A p \in Ports : UntrackedInv(p), PortsAreTracked, \A h \in Attaches : Released(h)
         => Released(h)', \A h \in Attaches : outcome[h] = "failed" => outcome'[h] =
         "failed", NEW e \in Detaches, [Next]_vars
  PROVE  DetachInv(e)'
<1> USE ImporterAssumption DEF TypeOK, DetachInv, NotOwner, Owners, importerVars,
        attachVars, handleVars, attemptVars, detachVars, closeVars, kernelVars
<1>1. CASE UNCHANGED <<dpc, dport, target, attState, teardownRequested, reservations, closed, result, outcome>>
  BY <1>1
<1>2. ASSUME NEW a \in Attaches, AttachFails(a) PROVE DetachInv(e)'
  BY <1>2 DEF AttachFails, Returns
<1>3. ASSUME NEW a \in Attaches, AbortAttachReservation(a) PROVE DetachInv(e)'
  BY <1>3 DEF AbortAttachReservation, Returns, PortInv, Reserving
<1>4. ASSUME NEW a \in Attaches, RegisterHandle(a) PROVE DetachInv(e)'
  BY <1>4 DEF RegisterHandle, Superseded, Compensate, PortInv, Reserving
<1>5. ASSUME NEW a \in Attaches, RegisterAfterClose(a) PROVE DetachInv(e)'
  BY <1>5 DEF RegisterAfterClose
<1>6. ASSUME NEW a \in Attaches, FinishAttach(a) PROVE DetachInv(e)'
  BY <1>6 DEF FinishAttach
<1>7. ASSUME NEW a \in Attaches, NEW p \in Ports, ReserveAttachPort(a, p)
     PROVE  DetachInv(e)'
  <2>1. /\ UNCHANGED <<dpc, dport, target, attState, teardownRequested, closed, result>>
        /\ \/ reservations' = reservations
           \/ reservations' = [reservations EXCEPT ![p] = a] /\ reservations[p] = None
    BY <1>7 DEF ReserveAttachPort, MayReserve
  <2>2. dpc[e] = "waitPublication" /\ reservations[dport[e]] = target[e] =>
           reservations'[dport[e]] = target[e]
    <3>1. dpc[e] = "waitPublication" => dport[e] \in Ports /\ target[e] # None
      OBVIOUS
    <3>2. reservations \in [Ports -> Attaches \cup {None}]
      OBVIOUS
    <3>3. QED BY ONLY <2>1, <3>1, <3>2
  <2>3. QED BY <2>1, <2>2
<1>8. ASSUME NEW a \in Attaches, NEW ok \in BOOLEAN, ReleaseAfterCloseRace(a, ok)
     PROVE  DetachInv(e)'
  BY <1>8 DEF ReleaseAfterCloseRace, DetachPort, Returns
<1>9. ASSUME NEW f \in Attaches, NEW a \in Attaches, Rollback(f, a) PROVE DetachInv(e)'
  BY <1>9 DEF Rollback, Watch, Own
<1>10. ASSUME NEW o \in Owners, BodyRecheck(o) PROVE DetachInv(e)'
  BY <1>10 DEF BodyRecheck, Body, Finish, BodyInv
<1>11. ASSUME NEW o \in Owners, BodyDetachPort(o) PROVE DetachInv(e)'
  BY <1>11 DEF BodyDetachPort, DetachPort, Body, Finish, BodyInv
<1>12. ASSUME NEW o \in Owners, BodyDelete(o) PROVE DetachInv(e)'
  BY <1>12 DEF BodyDelete, Finish, RemoveExact, BodyInv
<1>13. ASSUME NEW d \in Detaches, NEW p \in Ports, DetachClosed(d, p) PROVE DetachInv(e)'
  BY <1>13 DEF DetachClosed, Looks, DetachReturns
<1>14. ASSUME NEW d \in Detaches, NEW p \in Ports, RequestTeardown(d, p)
     PROVE  DetachInv(e)'
  BY <1>14 DEF RequestTeardown, Looks, Superseded
<1>15. ASSUME NEW d \in Detaches, NEW p \in Ports, AcquireHandle(d, p) PROVE DetachInv(e)'
  BY <1>15 DEF AcquireHandle, Looks, Own, MayOwn, HandleInv
<1>16. ASSUME NEW d \in Detaches, NEW p \in Ports, AcquireUntracked(d, p)
     PROVE  DetachInv(e)'
  BY <1>16 DEF AcquireUntracked, Looks, UntrackedInv
<1>17. ASSUME NEW d \in Detaches, NEW ok \in BOOLEAN, DetachUntracked(d, ok)
     PROVE  DetachInv(e)'
  BY <1>17 DEF DetachUntracked, DetachPort
<1>18. ASSUME NEW d \in Detaches, FinishUntracked(d) PROVE DetachInv(e)'
  <2>1. target[d] # None => target[d] \in Attaches /\ Released(target[d])'
    BY <1>18, FailedIsReleased DEF FinishUntracked
  <2>2. QED BY <1>18, <2>1 DEF FinishUntracked, DetachReturns
<1>19. ASSUME NEW d \in Detaches, BodyReturns(d) PROVE DetachInv(e)'
  <2>1. attState[d] = "nil" => Released(target[d])'
    BY <1>19 DEF BodyReturns, NilInv, HandleOf
  <2>2. QED BY <1>19, <2>1 DEF BodyReturns, DetachReturns
<1>20. ASSUME NEW d \in Detaches, AttemptDone(d) PROVE DetachInv(e)'
  <2>1. /\ target[d] \in Owners
        /\ UNCHANGED <<dport, target, attState, teardownRequested, reservations, closed, outcome>>
        /\ dpc' = [dpc EXCEPT ![d] = "returned"]
        /\ result' = [result EXCEPT ![d] = attState[target[d]]]
        /\ dpc[d] = "waitAttempt"
    BY <1>20 DEF AttemptDone, SharedResult, DetachReturns
  <2>2. PICK t \in Owners : t = target[d]
    BY <2>1
  <2>3. CASE t \in Attaches
    <3>1. attState[t] = "nil" => Released(t)'
      BY <2>2, <2>3 DEF NilInv, HandleOf
    <3>2. QED BY <2>1, <2>2, <2>3, <3>1
  <2>4. CASE t \in Detaches
    <3>1. ASSUME NEW g \in Attaches, g = target[t], attState[t] = "nil" PROVE Released(g)'
      BY <2>4, <3>1 DEF NilInv, HandleOf
    <3>2. QED BY <2>1, <2>2, <2>4, <3>1
  <2>5. QED BY <2>3, <2>4
<1>21. ASSUME NEW d \in Detaches, PublicationDone(d) PROVE DetachInv(e)'
  BY <1>21 DEF PublicationDone
<1>22. ASSUME NEW d \in Detaches, DetachGivesUp(d) PROVE DetachInv(e)'
  BY <1>22 DEF DetachGivesUp, DetachReturns
<1>23. ASSUME Close PROVE DetachInv(e)'
  BY <1>23 DEF Close
<1>24. ASSUME NEW a \in Attaches, NEW k \in Keys, NEW r \in AutoReconnect, 
               Attach(a, k, r)
     PROVE  UNCHANGED <<dpc, dport, target, attState, teardownRequested, reservations, closed, result, outcome>>
  BY <1>24 DEF Attach, vars
<1>25. ASSUME NEW a \in Attaches, 
               AttachAtPort(a) \/ ReleaseSlot(a)
     PROVE  UNCHANGED <<dpc, dport, target, attState, teardownRequested, reservations, closed, result, outcome>>
  BY <1>25 DEF AttachAtPort, ReleaseSlot, vars
<1>26. ASSUME NEW f \in Attaches, 
               EventsLost(f) \/ WatcherLooks(f) \/ WatcherCancelled(f)
            \/ WatcherDecides(f) \/ ReconnectRefused(f) \/ CheckDetaching(f)
            \/ RemoveHandle(f) \/ RolledBack(f)
     PROVE  UNCHANGED <<dpc, dport, target, attState, teardownRequested, reservations, closed, result, outcome>>
  BY <1>26 DEF EventsLost, WatcherLooks, WatcherCancelled, WatcherDecides, ReconnectRefused,
     CheckDetaching, RemoveHandle, RolledBack, vars
<1>27. ASSUME NEW f \in Attaches, NEW a \in Attaches, 
               Reconnect(f, a) \/ ReconnectReturned(f, a) \/ CheckFresh(f, a)
     PROVE  UNCHANGED <<dpc, dport, target, attState, teardownRequested, reservations, closed, result, outcome>>
  BY <1>27 DEF Reconnect, ReconnectReturned, CheckFresh, vars
<1>28. ASSUME NEW o \in Owners, 
               BodyCancel(o) \/ WaitWatcherBounded(o)
     PROVE  UNCHANGED <<dpc, dport, target, attState, teardownRequested, reservations, closed, result, outcome>>
  BY <1>28 DEF BodyCancel, WaitWatcherBounded, vars
<1>29. ASSUME CloseCancels \/ CloseDrains
     PROVE  UNCHANGED <<dpc, dport, target, attState, teardownRequested, reservations, closed, result, outcome>>
  BY <1>29 DEF CloseCancels, CloseDrains, vars
<1>30. ASSUME NEW p \in Ports, 
               RemoteGone(p)
     PROVE  UNCHANGED <<dpc, dport, target, attState, teardownRequested, reservations, closed, result, outcome>>
  BY <1>30 DEF RemoteGone, vars
<1>31. ASSUME Finished
     PROVE  UNCHANGED <<dpc, dport, target, attState, teardownRequested, reservations, closed, result, outcome>>
  BY <1>31 DEF Finished, vars
<1>32. ASSUME UNCHANGED vars PROVE UNCHANGED <<dpc, dport, target, attState, teardownRequested, reservations, closed, result, outcome>>
  BY <1>32 DEF vars
<1> HIDE DEF DetachInv, NotOwner
<1>33. QED
  BY <1>1, <1>2, <1>3, <1>4, <1>5, <1>6, <1>7, <1>8, <1>9, <1>10, <1>11, <1>12, <1>13,
     <1>14, <1>15, <1>16, <1>17, <1>18, <1>19, <1>20, <1>21, <1>22, <1>23, <1>24, <1>25,
     <1>26, <1>27, <1>28, <1>29, <1>30, <1>31, <1>32
  DEF Next, AttachStep, WatcherStep, BodyStep, AcquireDetachTarget, Detach, DetachStep

\* The importer starts with nothing attached by it and nothing under way.
LEMMA InitInv == Init => ImporterInv
<1> SUFFICES ASSUME Init PROVE ImporterInv
  OBVIOUS
<1> USE ImporterAssumption DEF Init, Owners
<1>1. TypeOK
  BY DEF TypeOK, AttachStates, WatcherStates, BodyStates, DetachStates
<1>2. ASSUME NEW p \in Ports PROVE live[p] \notin Attaches
  OBVIOUS
<1>3. ASSUME NEW a \in Attaches PROVE PortInv(a) /\ HandleInv(a) /\ ChildInv(a)
  <2>1. PortInv(a)
    BY <1>2 DEF PortInv, Reserving, Published
  <2>2. HandleInv(a)
    BY DEF HandleInv, Published
  <2>3. ChildInv(a)
    BY DEF ChildInv
  <2>4. QED BY <2>1, <2>2, <2>3
<1>4. ASSUME NEW o \in Owners PROVE BodyInv(o) /\ NilInv(o)
  BY DEF BodyInv, NilInv
<1>5. ASSUME NEW d \in Detaches PROVE DetachInv(d)
  BY DEF DetachInv, NotOwner
<1>6. (\A p \in Ports : UntrackedInv(p)) /\ ReservedInv /\ PortsAreTracked /\ CloseInv
  BY <1>2 DEF UntrackedInv, ReservedInv, PortsAreTracked, CloseInv
<1>7. QED BY <1>1, <1>3, <1>4, <1>5, <1>6 DEF ImporterInv

\* ImporterInv is an invariant.
THEOREM ImporterInvariant == Spec => []ImporterInv
<1>1. ImporterInv /\ [Next]_vars => ImporterInv'
  <2> SUFFICES ASSUME ImporterInv, [Next]_vars PROVE ImporterInv'
    OBVIOUS
  <2> USE DEF ImporterInv
  <2>1. TypeOK'
    BY TypeStep
  <2>2. ASSUME NEW x \in Attaches PROVE PortInv(x)'
    BY PortStep
  <2>3. ASSUME NEW x \in Attaches PROVE HandleInv(x)'
    BY HandleStep
  <2>4. ASSUME NEW h \in Attaches, Released(h) PROVE Released(h)'
    BY <2>4, ReleasedStep
  <2>5. ASSUME NEW h \in Attaches, Published(h) PROVE Published(h)'
    BY <2>5, PublishedStep
  <2>6. ASSUME NEW h \in Attaches, outcome[h] = "failed" PROVE outcome'[h] = "failed"
    BY <2>6, FailedStep
  <2>7. ASSUME NEW y \in Owners PROVE BodyInv(y)'
    BY <2>5, BodyStepInv
  <2>8. ASSUME NEW y \in Owners PROVE NilInv(y)'
    BY <2>4, <2>5, NilStep
  <2>9. ASSUME NEW e \in Detaches PROVE DetachInv(e)'
    BY <2>4, <2>6, DetachStepInv
  <2>10. ASSUME NEW q \in Ports PROVE UntrackedInv(q)'
    BY UntrackedStep
  <2>11. ASSUME NEW x \in Attaches PROVE ChildInv(x)'
    BY ChildStep
  <2>12. ReservedInv'
    BY ReservedStep
  <2>13. PortsAreTracked'
    BY TrackedStep
  <2>14. CloseInv'
    BY CloseStep
  <2>15. QED
    BY <2>1, <2>2, <2>3, <2>7, <2>8, <2>9, <2>10, <2>11, <2>12, <2>13, <2>14
<1>2. QED
  BY <1>1, InitInv, PTL DEF Spec

\* The importer's state stays well formed: in particular whoever runs detachHandle has a
\* handle to run it on.
THEOREM TypeCorrect == Spec => []TypeOK
<1>1. ImporterInv => TypeOK
  BY DEF ImporterInv
<1>2. QED
  BY <1>1, ImporterInvariant, PTL

\* Whatever attaches, detaches, reconnects, losses and Close do, a port the kernel has
\* attached for this importer is registered, about to be, or lost to the race against Close.
THEOREM PortsTracked == Spec => []PortsAreTracked
<1>1. ImporterInv => PortsAreTracked
  BY DEF ImporterInv
<1>2. QED
  BY <1>1, ImporterInvariant, PTL

\* Two bodies of detachHandle never work on one handle: the owner of each is the attempt
\* the handle names.
THEOREM OneDetach == Spec => []OneDetachPerHandle
<1>1. ImporterInv => OneDetachPerHandle
  <2> SUFFICES ASSUME ImporterInv, NEW o \in Owners, NEW q \in Owners,
                      bpc[o] # "off", bpc[q] # "off", HandleOf(o) = HandleOf(q)
               PROVE  o = q
    BY DEF OneDetachPerHandle
  <2>1. attempt[HandleOf(o)] = o /\ attempt[HandleOf(q)] = q
    BY DEF ImporterInv, BodyInv
  <2>2. QED BY <2>1
<1>2. QED
  BY <1>1, ImporterInvariant, PTL

\* A nil result of Detach is true of the generation it found, for owners, for those who
\* share the result and for those who waited for a publication; that generation never
\* comes back, however often its port number is used again.
THEOREM NilReleases == Spec => []DetachNilReleases
<1>1. ImporterInv => DetachNilReleases
  <2> SUFFICES ASSUME ImporterInv, NEW d \in Detaches, result[d] = "nil", target[d] # None,
                      NEW h \in Owners \cup {None}, h # None,
                      h = IF target[d] \in Attaches THEN target[d] ELSE target[target[d]]
               PROVE  live[dport[d]] # h /\ handles[dport[d]] # h
    <3>1. ASSUME NEW d \in Detaches, ImporterInv, target[d] # None
          PROVE  (IF target[d] \in Attaches THEN target[d] ELSE target[target[d]])
                    \in Owners \cup {None}
      BY <3>1 DEF ImporterInv, TypeOK, Owners
    <3>2. QED BY <3>1 DEF DetachNilReleases
  <2>1. DetachInv(d) /\ dport[d] \in Ports
    BY DEF ImporterInv, DetachInv
  <2>2. Released(h)
    BY <2>1, ImporterAssumption DEF DetachInv
  <2>3. QED BY <2>1, <2>2 DEF Released, Gone
<1>2. QED
  BY <1>1, ImporterInvariant, PTL

\* A Close that returned after the drain left nothing behind that runs, also no attach a
\* watcher was about to take up.
THEOREM CloseFinal == Spec => []CloseIsFinal
<1>1. ImporterInv => CloseIsFinal
  <2> SUFFICES ASSUME ImporterInv, cpc = "drained"
               PROVE  /\ \A a \in Attaches : /\ apc[a] \in {"new", "done"}
                                             /\ watcher[a] \in {"off", "done"}
                      /\ \A o \in Owners : bpc[o] = "off"
                      /\ \A d \in Detaches : dpc[d] # "untracked"
    BY DEF CloseIsFinal
  <2>1. CloseInv
    BY DEF ImporterInv
  <2>2. ASSUME NEW o \in Owners PROVE bpc[o] = "off"
    BY <2>1 DEF ImporterInv, BodyInv, CloseInv
  <2>3. ASSUME NEW d \in Detaches PROVE dpc[d] # "untracked"
    BY <2>1 DEF ImporterInv, DetachInv, CloseInv, Owners
  <2>4. QED BY <2>1, <2>2, <2>3 DEF CloseInv
<1>2. QED
  BY <1>1, ImporterInvariant, PTL

=============================================================================
