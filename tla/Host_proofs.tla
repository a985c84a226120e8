----------------------------- MODULE Host_proofs -----------------------------
(***************************************************************************)
(* Proofs about the components of a host that run by themselves: the event *)
(* streams implement EventStream, the cached module states and /readyz are *)
(* timely, the device list is exact, Bind and Unbind are safe, and an OP   *)
(* exchange says on one side what was said on the other.  Each proof is    *)
(* about the component's own specification, for any number of watchers,    *)
(* calls, requests and devices; the last section shows that a host is      *)
(* these components and has their properties.                              *)
(***************************************************************************)
EXTENDS MCHost, History_proofs, VhciPorts_proofs, SequenceTheorems, FiniteSetTheorems, TLAPS

-----------------------------------------------------------------------------
(* The event streams.                                                      *)

EvSpec == EvInit /\ [][EvNextStep]_evVars

\* The list, the closer and the barrier: who is listed is being iterated and not barred, and
\* the owner takes the list once, after nobody can register any more.
EvListInv ==
    /\ evShut <=> evCloserPC # "open"
    /\ evCloserPC # "closing" => evCloser = {}
    /\ evCloserPC = "closing" => evSubs = {}
    /\ \A w \in evSubs : evIter[w] \in {"subscribe", "loop", "drain", "remove"}
    /\ \A w \in Watchers : evBarred[w] \/ w \in evCloser => evIter[w] \notin {"idle", "made"}

\* An iterator that has not ended has no verdict, and one that drains is behind the barrier.
EvIterInv ==
    \A w \in Watchers :
       /\ evIter[w] \in {"idle", "made", "subscribe", "loop", "drain"} => evEnded[w] = "no"
       /\ evIter[w] = "drain" => evBarred[w]

EvInv == EvTypeOK /\ EvListInv /\ EvIterInv

\* Every step leaves a well-formed state: no buffer overflows, and who is listed is live.
LEMMA EvTypeStep ==
  ASSUME EvInv, [EvNextStep]_evVars
  PROVE  EvTypeOK'
<1> USE FanoutAssumption DEF EvInv, EvTypeOK, EvListInv, EvIterStates, evOwnerVars,
        evSubVars, evIterVars, evPubVars
<1>1. CASE UNCHANGED evVars
  BY <1>1 DEF evVars
<1>2. ASSUME NEW w \in Watchers, EvWatch(w) PROVE EvTypeOK'
  BY <1>2 DEF EvWatch, EvGoto
<1>3. ASSUME NEW w \in Watchers, EvRegister(w) PROVE EvTypeOK'
  <2>1. CASE evShut
    BY <1>3, <2>1 DEF EvRegister, EvGoto
  <2>2. CASE ~evShut
    <3>1. evSubs' = evSubs \cup {w} /\ UNCHANGED evBarred
      BY <1>3, <2>2 DEF EvRegister
    <3>2. \A v \in evSubs' : ~evBarred'[v]
      BY <1>3, <3>1 DEF EvRegister
    <3>3. evIter' \in [Watchers -> EvIterStates]
      BY <1>3, <2>2 DEF EvRegister, EvGoto
    <3>4. QED BY <1>3, <3>1, <3>2, <3>3 DEF EvRegister
  <2>3. QED BY <2>1, <2>2
<1>4. ASSUME NEW w \in Watchers, EvSubscribe(w) PROVE EvTypeOK'
  <2>1. evIter' \in [Watchers -> EvIterStates]
    BY <1>4 DEF EvSubscribe, EvGoto
  <2>2. evEnded' \in [Watchers -> {"no", "drained", "stopped"}]
    BY <1>4 DEF EvSubscribe
  <2>3. QED BY <1>4, <2>1, <2>2 DEF EvSubscribe
<1>5. ASSUME NEW w \in Watchers, EvSeesCancel(w) PROVE EvTypeOK'
  BY <1>5 DEF EvSeesCancel, EvEnd, EvGoto
<1>6. ASSUME NEW w \in Watchers, EvSeesDone(w) PROVE EvTypeOK'
  BY <1>6 DEF EvSeesDone, EvGoto
<1>7. ASSUME NEW w \in Watchers, EvYield(w) PROVE EvTypeOK'
  <2>1. /\ evCh[w] \in Seq(1..MaxEvents) /\ evCh[w] # << >>
        /\ evDelivered[w] \in Seq(1..MaxEvents)
    BY <1>7 DEF EvYield
  <2>2. /\ Head(evCh[w]) \in 1..MaxEvents
        /\ Tail(evCh[w]) \in Seq(1..MaxEvents)
        /\ Len(Tail(evCh[w])) = Len(evCh[w]) - 1
    BY <2>1, HeadTailProperties
  <2>3. Append(evDelivered[w], Head(evCh[w])) \in Seq(1..MaxEvents)
    BY <2>1, <2>2
  <2>4. /\ evCh' = [evCh EXCEPT ![w] = Tail(evCh[w])]
        /\ evDelivered' = [evDelivered EXCEPT ![w] = Append(evDelivered[w], Head(evCh[w]))]
    BY <1>7 DEF EvYield
  <2>5. /\ evCh' \in [Watchers -> Seq(1..MaxEvents)]
        /\ evDelivered' \in [Watchers -> Seq(1..MaxEvents)]
    BY <2>2, <2>3, <2>4
  <2>6. ASSUME NEW v \in Watchers PROVE Len(evCh'[v]) <= StreamBuf
    <3>1. Len(evCh[v]) \in Nat /\ Len(evCh[v]) <= StreamBuf
      BY LenProperties
    <3>2. QED BY <2>2, <2>4, <3>1
  <2>7. /\ evIter' \in [Watchers -> EvIterStates]
        /\ evEnded' \in [Watchers -> {"no", "drained", "stopped"}]
    BY <1>7 DEF EvYield, EvEnd, EvGoto
  <2>8. QED BY <1>7, <2>5, <2>6, <2>7 DEF EvYield
<1>8. ASSUME NEW w \in Watchers, EvDrained(w) PROVE EvTypeOK'
  BY <1>8 DEF EvDrained, EvEnd, EvGoto
<1>9. ASSUME NEW w \in Watchers, EvRemove(w) PROVE EvTypeOK'
  BY <1>9 DEF EvRemove, EvGoto
<1>10. ASSUME NEW w \in Watchers, EvBarrier(w) PROVE EvTypeOK'
  BY <1>10 DEF EvBarrier, EvGoto
<1>11. ASSUME NEW w \in Watchers, EvKernelStops(w) PROVE EvTypeOK'
  BY <1>11 DEF EvKernelStops, EvEnd, EvGoto
<1>12. ASSUME NEW w \in Watchers, EvCancel(w) PROVE EvTypeOK'
  BY <1>12 DEF EvCancel
<1>13. ASSUME NEW w \in Watchers, EvCloseDone(w) PROVE EvTypeOK'
  BY <1>13 DEF EvCloseDone
<1>14. ASSUME NEW p \in Publishers, EvCopyList(p) PROVE EvTypeOK'
  BY <1>14 DEF EvCopyList
<1>15. ASSUME NEW p \in Publishers, EvPublished(p) PROVE EvTypeOK'
  BY <1>15 DEF EvPublished
<1>16. ASSUME NEW p \in Publishers, NEW w \in Watchers, EvPublish(p, w) PROVE EvTypeOK'
  <2> DEFINE e == evEvent[p]
             new == IF evBarred[w] \/ Len(evCh[w]) = StreamBuf THEN evCh[w] ELSE Append(evCh[w], e)
  <2>1. e \in 1..MaxEvents /\ evCh[w] \in Seq(1..MaxEvents)
    BY <1>16 DEF EvPublish
  <2>2. /\ Len(evCh[w]) \in Nat /\ Len(evCh[w]) <= StreamBuf
        /\ Append(evCh[w], e) \in Seq(1..MaxEvents)
        /\ Len(Append(evCh[w], e)) = Len(evCh[w]) + 1
    BY <2>1, LenProperties
  <2>3. new \in Seq(1..MaxEvents) /\ Len(new) <= StreamBuf
    <3>1. CASE evBarred[w] \/ Len(evCh[w]) = StreamBuf
      <4>1. new = evCh[w]
        BY <3>1
      <4>2. QED BY ONLY <2>1, <2>2, <4>1
    <3>2. CASE ~(evBarred[w] \/ Len(evCh[w]) = StreamBuf)
      <4>1. new = Append(evCh[w], e)
        BY <3>2
      <4>2. Len(evCh[w]) + 1 <= StreamBuf
        BY <2>2, <3>2
      <4>3. QED BY ONLY <2>2, <4>1, <4>2
    <3>3. QED BY <3>1, <3>2
  <2>4. evCh' = [evCh EXCEPT ![w] = new]
    BY <1>16 DEF EvPublish, EvTryPublish
  <2>5. evCh' \in [Watchers -> Seq(1..MaxEvents)] /\ \A v \in Watchers : Len(evCh'[v]) <= StreamBuf
    BY <2>3, <2>4
  <2>6. evPending' \in [Publishers -> SUBSET Watchers]
    BY <1>16 DEF EvPublish
  <2>7. QED BY <1>16, <2>5, <2>6 DEF EvPublish
<1>17. ASSUME EvShut PROVE EvTypeOK'
  BY <1>17 DEF EvShut
<1>18. ASSUME EvTakeList PROVE EvTypeOK'
  BY <1>18 DEF EvTakeList
<1>19. ASSUME UNCHANGED evVars PROVE UNCHANGED evVars
  BY <1>19 DEF evVars
<1> HIDE DEF EvTypeOK
<1>20. QED
  BY <1>1, <1>2, <1>3, <1>4, <1>5, <1>6, <1>7, <1>8, <1>9, <1>10, <1>11, <1>12, <1>13,
     <1>14, <1>15, <1>16, <1>17, <1>18, <1>19
  DEF EvNextStep, EvIterate, EvClose

\* Every step keeps the list, the closer and the barrier in step.
LEMMA EvListStep ==
  ASSUME EvInv, [EvNextStep]_evVars
  PROVE  EvListInv'
<1> USE FanoutAssumption DEF EvInv, EvTypeOK, EvListInv, evOwnerVars, evSubVars, evIterVars,
        evPubVars
<1>1. CASE UNCHANGED <<evShut, evCloserPC, evCloser, evSubs, evIter, evBarred>>
  BY <1>1
<1>2. ASSUME NEW w \in Watchers, EvWatch(w) PROVE EvListInv'
  BY <1>2 DEF EvWatch, EvGoto
<1>3. ASSUME NEW w \in Watchers, EvRegister(w) PROVE EvListInv'
  BY <1>3 DEF EvRegister, EvGoto
<1>4. ASSUME NEW w \in Watchers, EvSubscribe(w) PROVE EvListInv'
  BY ZenonT(60), <1>4 DEF EvSubscribe, EvGoto
<1>5. ASSUME NEW w \in Watchers, EvSeesCancel(w) PROVE EvListInv'
  BY <1>5 DEF EvSeesCancel, EvEnd, EvGoto
<1>6. ASSUME NEW w \in Watchers, EvSeesDone(w) PROVE EvListInv'
  BY <1>6 DEF EvSeesDone, EvGoto
<1>7. ASSUME NEW w \in Watchers, EvYield(w) PROVE EvListInv'
  BY ZenonT(60), <1>7 DEF EvYield, EvEnd, EvGoto
<1>8. ASSUME NEW w \in Watchers, EvDrained(w) PROVE EvListInv'
  BY <1>8 DEF EvDrained, EvEnd, EvGoto
<1>9. ASSUME NEW w \in Watchers, EvRemove(w) PROVE EvListInv'
  BY <1>9 DEF EvRemove, EvGoto
<1>10. ASSUME NEW w \in Watchers, EvBarrier(w) PROVE EvListInv'
  BY <1>10 DEF EvBarrier, EvGoto
<1>11. ASSUME NEW w \in Watchers, EvKernelStops(w) PROVE EvListInv'
  BY <1>11 DEF EvKernelStops, EvEnd, EvGoto
<1>12. ASSUME NEW w \in Watchers, EvCloseDone(w) PROVE EvListInv'
  BY <1>12 DEF EvCloseDone
<1>13. ASSUME EvShut PROVE EvListInv'
  BY <1>13 DEF EvShut
<1>14. ASSUME EvTakeList PROVE EvListInv'
  BY <1>14 DEF EvTakeList
<1>15. ASSUME NEW w \in Watchers, 
               EvCancel(w)
     PROVE  UNCHANGED <<evShut, evCloserPC, evCloser, evSubs, evIter, evBarred>>
  BY <1>15 DEF EvCancel
<1>16. ASSUME NEW p \in Publishers, 
               EvCopyList(p) \/ EvPublished(p)
     PROVE  UNCHANGED <<evShut, evCloserPC, evCloser, evSubs, evIter, evBarred>>
  BY <1>16 DEF EvCopyList, EvPublished
<1>17. ASSUME NEW p \in Publishers, NEW w \in Watchers, 
               EvPublish(p, w)
     PROVE  UNCHANGED <<evShut, evCloserPC, evCloser, evSubs, evIter, evBarred>>
  BY <1>17 DEF EvPublish
<1>18. ASSUME UNCHANGED evVars PROVE UNCHANGED <<evShut, evCloserPC, evCloser, evSubs, evIter, evBarred>>
  BY <1>18 DEF evVars
<1>19. QED
  BY <1>1, <1>2, <1>3, <1>4, <1>5, <1>6, <1>7, <1>8, <1>9, <1>10, <1>11, <1>12, <1>13,
     <1>14, <1>15, <1>16, <1>17, <1>18
  DEF EvNextStep, EvIterate, EvClose

\* Every step keeps an iterator's verdict for its end.
LEMMA EvIterStep ==
  ASSUME EvInv, [EvNextStep]_evVars
  PROVE  EvIterInv'
<1> USE FanoutAssumption DEF EvInv, EvTypeOK, EvIterInv, evOwnerVars, evSubVars, evIterVars,
        evPubVars
<1>1. CASE UNCHANGED <<evIter, evEnded, evBarred>>
  BY <1>1
<1>2. ASSUME NEW w \in Watchers, EvWatch(w) PROVE EvIterInv'
  BY <1>2 DEF EvWatch, EvGoto
<1>3. ASSUME NEW w \in Watchers, EvRegister(w) PROVE EvIterInv'
  BY <1>3 DEF EvRegister, EvGoto
<1>4. ASSUME NEW w \in Watchers, EvSubscribe(w) PROVE EvIterInv'
  BY <1>4 DEF EvSubscribe, EvGoto
<1>5. ASSUME NEW w \in Watchers, EvSeesCancel(w) PROVE EvIterInv'
  BY <1>5 DEF EvSeesCancel, EvEnd, EvGoto
<1>6. ASSUME NEW w \in Watchers, EvSeesDone(w) PROVE EvIterInv'
  BY <1>6 DEF EvSeesDone, EvGoto
<1>7. ASSUME NEW w \in Watchers, EvYield(w) PROVE EvIterInv'
  BY <1>7 DEF EvYield, EvEnd, EvGoto
<1>8. ASSUME NEW w \in Watchers, EvDrained(w) PROVE EvIterInv'
  BY <1>8 DEF EvDrained, EvEnd, EvGoto
<1>9. ASSUME NEW w \in Watchers, EvRemove(w) PROVE EvIterInv'
  BY <1>9 DEF EvRemove, EvGoto
<1>10. ASSUME NEW w \in Watchers, EvBarrier(w) PROVE EvIterInv'
  BY <1>10 DEF EvBarrier, EvGoto
<1>11. ASSUME NEW w \in Watchers, EvKernelStops(w) PROVE EvIterInv'
  BY <1>11 DEF EvKernelStops, EvEnd, EvGoto
<1>12. ASSUME NEW w \in Watchers, EvCloseDone(w) PROVE EvIterInv'
  BY <1>12 DEF EvCloseDone
<1>13. ASSUME NEW w \in Watchers, 
               EvCancel(w)
     PROVE  UNCHANGED <<evIter, evEnded, evBarred>>
  BY <1>13 DEF EvCancel
<1>14. ASSUME NEW p \in Publishers, 
               EvCopyList(p) \/ EvPublished(p)
     PROVE  UNCHANGED <<evIter, evEnded, evBarred>>
  BY <1>14 DEF EvCopyList, EvPublished
<1>15. ASSUME NEW p \in Publishers, NEW w \in Watchers, 
               EvPublish(p, w)
     PROVE  UNCHANGED <<evIter, evEnded, evBarred>>
  BY <1>15 DEF EvPublish
<1>16. ASSUME EvShut \/ EvTakeList
     PROVE  UNCHANGED <<evIter, evEnded, evBarred>>
  BY <1>16 DEF EvShut, EvTakeList
<1>17. ASSUME UNCHANGED evVars PROVE UNCHANGED <<evIter, evEnded, evBarred>>
  BY <1>17 DEF evVars
<1>18. QED
  BY <1>1, <1>2, <1>3, <1>4, <1>5, <1>6, <1>7, <1>8, <1>9, <1>10, <1>11, <1>12, <1>13,
     <1>14, <1>15, <1>16, <1>17
  DEF EvNextStep, EvIterate, EvClose

\* EvInv is an invariant.
LEMMA EvInvariant == EvSpec => []EvInv
<1>1. EvInit => EvInv
  <2> SUFFICES ASSUME EvInit PROVE EvInv
    OBVIOUS
  <2>1. << >> \in Seq(1..MaxEvents) /\ Len(<< >>) = 0
    BY EmptySeq
  <2>2. EvTypeOK
    <3>1. /\ evCh \in [Watchers -> Seq(1..MaxEvents)]
          /\ evDelivered \in [Watchers -> Seq(1..MaxEvents)]
      BY <2>1 DEF EvInit
    <3>2. \A w \in Watchers : Len(evCh[w]) <= StreamBuf
      <4>1. 0 <= StreamBuf
        BY FanoutAssumption
      <4>2. QED BY <2>1, <4>1 DEF EvInit
    <3>3. 0 \in 0..MaxEvents
      BY FanoutAssumption
    <3>4. QED BY <3>1, <3>2, <3>3 DEF EvInit, EvTypeOK, EvIterStates
  <2>3. EvListInv /\ EvIterInv
    BY DEF EvInit, EvListInv, EvIterInv
  <2>4. QED BY <2>2, <2>3 DEF EvInv
<1>2. EvInv /\ [EvNextStep]_evVars => EvInv'
  BY EvTypeStep, EvListStep, EvIterStep DEF EvInv
<1>3. QED
  BY <1>1, <1>2, PTL DEF EvSpec

\* Appending to what is buffered appends to what was accepted.
LEMMA AcceptAppends ==
  ASSUME NEW S, NEW d \in Seq(S), NEW c \in Seq(S), NEW e \in S
  PROVE  d \o Append(c, e) = Append(d \o c, e)
  OBVIOUS

\* Handing the first buffered event over leaves what was accepted alone, and it is the
\* first one that was not handed over.
LEMMA YieldMoves ==
  ASSUME NEW S, NEW d \in Seq(S), NEW c \in Seq(S), c # << >>
  PROVE  /\ Append(d, Head(c)) \o Tail(c) = d \o c
         /\ Head(c) = (d \o c)[Len(d) + 1]
         /\ Len(d) < Len(d \o c)
  BY SMTT(60)

\* Every step of the fan-out is a step of EventStream, or changes nothing of it.
LEMMA StreamStep ==
  ASSUME EvInv, [EvNextStep]_evVars
  PROVE  [Stream!Next]_<<[w \in Watchers |-> evDelivered[w] \o evCh[w]], evDelivered, evBarred, evEnded>>
<1> DEFINE accepted == [w \in Watchers |-> evDelivered[w] \o evCh[w]]
           stay == UNCHANGED <<evDelivered, evCh, evBarred, evEnded>>
<1> USE DEF evOwnerVars, evSubVars, evIterVars, evPubVars
<1>0. ASSUME NEW w \in Watchers
      PROVE  /\ evDelivered[w] \in Seq(1..MaxEvents) /\ evCh[w] \in Seq(1..MaxEvents)
             /\ evIter[w] \in {"subscribe", "loop", "drain"} => evEnded[w] = "no"
             /\ evIter[w] = "drain" => evBarred[w]
  BY DEF EvInv, EvTypeOK, EvIterInv
<1>1. CASE stay
  BY <1>1
<1>2. ASSUME NEW w \in Watchers,
               EvWatch(w) \/ EvRegister(w) \/ EvSeesDone(w) \/ EvRemove(w) \/ EvCancel(w)
     PROVE  stay
  BY <1>2 DEF EvWatch, EvRegister, EvSeesDone, EvRemove, EvCancel
<1>3. ASSUME NEW p \in Publishers,
               EvCopyList(p) \/ EvPublished(p)
     PROVE  stay
  BY <1>3 DEF EvCopyList, EvPublished
<1>4. ASSUME EvShut \/ EvTakeList
     PROVE  stay
  BY <1>4 DEF EvShut, EvTakeList
<1>5. ASSUME NEW w \in Watchers, EvSubscribe(w) PROVE stay \/ Stream!Next
  <2>1. CASE UNCHANGED evEnded
    BY <1>5, <2>1 DEF EvSubscribe
  <2>2. CASE evEnded' = [evEnded EXCEPT ![w] = "stopped"]
    <3>1. Stream!EndStopped(w)
      BY <1>5, <1>0, <2>2 DEF EvSubscribe, Stream!EndStopped
    <3>2. QED BY <3>1 DEF Stream!Next
  <2>3. QED BY <1>5, <2>1, <2>2 DEF EvSubscribe
<1>6. ASSUME NEW w \in Watchers, EvSeesCancel(w) PROVE stay \/ Stream!Next
  <2>1. Stream!EndStopped(w)
    BY <1>6, <1>0 DEF EvSeesCancel, EvEnd, Stream!EndStopped
  <2>2. QED BY <2>1 DEF Stream!Next
<1>7. ASSUME NEW w \in Watchers, EvKernelStops(w) PROVE stay \/ Stream!Next
  <2>1. Stream!EndStopped(w)
    BY <1>7, <1>0 DEF EvKernelStops, EvEnd, Stream!EndStopped
  <2>2. QED BY <2>1 DEF Stream!Next
<1>8. ASSUME NEW w \in Watchers, EvDrained(w) PROVE stay \/ Stream!Next
  <2>1. evDelivered[w] = accepted[w]
    BY <1>8, <1>0, ConcatEmptySeq DEF EvDrained
  <2>2. Stream!EndDrained(w)
    BY <1>8, <1>0, <2>1 DEF EvDrained, EvEnd, Stream!EndDrained
  <2>3. QED BY <2>2 DEF Stream!Next
<1>9. ASSUME NEW w \in Watchers, EvBarrier(w) PROVE stay \/ Stream!Next
  <2>1. Stream!Bar(w)
    BY <1>9 DEF EvBarrier, Stream!Bar
  <2>2. QED BY <2>1 DEF Stream!Next
<1>10. ASSUME NEW w \in Watchers, EvCloseDone(w) PROVE stay \/ Stream!Next
  <2>1. Stream!Bar(w)
    BY <1>10 DEF EvCloseDone, Stream!Bar
  <2>2. QED BY <2>1 DEF Stream!Next
<1>11. ASSUME NEW w \in Watchers, EvYield(w) PROVE stay \/ Stream!Next
  <2>1. /\ evCh[w] # << >> /\ evEnded[w] = "no" /\ UNCHANGED evBarred
        /\ evCh' = [evCh EXCEPT ![w] = Tail(evCh[w])]
        /\ evDelivered' = [evDelivered EXCEPT ![w] = Append(evDelivered[w], Head(evCh[w]))]
    BY <1>11, <1>0 DEF EvYield
  <2>2. /\ Append(evDelivered[w], Head(evCh[w])) \o Tail(evCh[w]) = evDelivered[w] \o evCh[w]
        /\ Head(evCh[w]) = Stream!NextUp(w)
        /\ Len(evDelivered[w]) < Len(accepted[w])
    BY ZenonT(60), <1>0, <2>1, YieldMoves DEF Stream!NextUp
  <2>3. evDelivered \in [Watchers -> Seq(1..MaxEvents)] /\ evCh \in [Watchers -> Seq(1..MaxEvents)]
    BY DEF EvInv, EvTypeOK
  <2>4. accepted' = accepted
    BY <2>1, <2>2, <2>3
  <2>5. evEnded' = [evEnded EXCEPT ![w] = "no"] \/ evEnded' = [evEnded EXCEPT ![w] = "stopped"]
    BY SMTT(60), <1>11, <2>1 DEF EvYield, EvEnd, EvInv, EvTypeOK
  <2>6. Stream!Deliver(w)
    BY <2>1, <2>2, <2>4, <2>5 DEF Stream!Deliver
  <2>7. QED BY <2>6 DEF Stream!Next
<1>12. ASSUME NEW p \in Publishers, NEW w \in Watchers, EvPublish(p, w) PROVE stay \/ Stream!Next
  <2>0. PICK e \in 1..MaxEvents : e = evEvent[p]
    BY <1>12 DEF EvPublish, EvInv, EvTypeOK
  <2>1. UNCHANGED <<evDelivered, evBarred, evEnded>>
    BY <1>12 DEF EvPublish
  <2>2. evDelivered \in [Watchers -> Seq(1..MaxEvents)] /\ evCh \in [Watchers -> Seq(1..MaxEvents)]
    BY DEF EvInv, EvTypeOK
  <2>3. CASE evBarred[w] \/ Len(evCh[w]) = StreamBuf
    <3>1. UNCHANGED evCh
      BY <1>12, <2>2, <2>3 DEF EvPublish, EvTryPublish
    <3>2. QED BY <2>1, <3>1
  <2>4. CASE ~(evBarred[w] \/ Len(evCh[w]) = StreamBuf)
    <3>1. evCh' = [evCh EXCEPT ![w] = Append(evCh[w], e)]
      BY <1>12, <2>0, <2>4 DEF EvPublish, EvTryPublish
    <3>2. evDelivered[w] \o Append(evCh[w], e) = Append(evDelivered[w] \o evCh[w], e)
      <4>1. evDelivered[w] \in Seq(1..MaxEvents) /\ evCh[w] \in Seq(1..MaxEvents)
        BY <1>0
      <4>2. ASSUME NEW d \in Seq(1..MaxEvents), NEW c \in Seq(1..MaxEvents)
            PROVE  d \o Append(c, e) = Append(d \o c, e)
        BY AcceptAppends
      <4>3. QED BY ONLY <4>1, <4>2
    <3>3. accepted' = [accepted EXCEPT ![w] = Append(accepted[w], e)]
      BY <2>1, <2>2, <3>1, <3>2
    <3>4. Stream!Accept(w, e)
      BY <2>1, <2>4, <3>3 DEF Stream!Accept
    <3>5. QED BY <2>1, <3>4 DEF Stream!Next
  <2>5. QED BY <2>3, <2>4
<1>13. ASSUME UNCHANGED evVars PROVE stay
  BY <1>13 DEF evVars
<1>14. stay \/ Stream!Next
  BY <1>1, <1>2, <1>3, <1>4, <1>5, <1>6, <1>7, <1>8, <1>9, <1>10, <1>11, <1>12, <1>13
  DEF EvNextStep, EvIterate, EvClose
<1>15. QED BY <1>1, <1>14

\* A consumer of WatchSessions or Watch sees what EventStream promises, for any number of
\* watchers, publishers and events and any buffer size: what is accepted is handed over once
\* and in order, and a stream its owner ended has been drained to the last accepted event.
THEOREM StreamsRefine == EvSpec => StreamsImplement
<1>1. EvInit => Stream!Init
  <2> SUFFICES ASSUME EvInit PROVE Stream!Init
    OBVIOUS
  <2>1. << >> \o << >> = << >>
    OBVIOUS
  <2>2. QED BY <2>1 DEF EvInit, Stream!Init
<1>2. QED
  BY <1>1, EvInvariant, StreamStep, PTL DEF EvSpec, StreamsImplement, Stream!Spec

-----------------------------------------------------------------------------
(* The cached module states.                                               *)

\* No look that was answered is newer than the last store, and what is cached is the newest
\* of them unless it was stored late: whoever overwrites it has found it expired, so the
\* last store is a lifetime ago, and a look younger than that is newer than all answers.
KmCacheInv ==
    /\ kmTop = NoLook \/ (kmValue # NoLook /\ kmTop <= kmExpiry - TTL)
    /\ kmValue <= kmNow
    /\ ~StoredLate => kmTop <= kmValue

\* A probe has looked before now, and a call that returns has what is cached.
KmCallInv(c) ==
    /\ kmFloor[c] <= kmTop
    /\ kmPC[c] = "store" => kmLook[c] # NoLook /\ kmLook[c] <= kmNow
    /\ kmPC[c] = "done" => kmValue # NoLook /\ kmLook[c] = kmValue /\ kmNow < kmExpiry

KmInv == KmTypeOK /\ KmCacheInv /\ \A c \in ModuleCalls : KmCallInv(c)

\* Every step leaves a well-formed state: what is cached expires in time.
LEMMA KmTypeStep ==
  ASSUME KmInv, [KmNext]_kmVars
  PROVE  KmTypeOK'
<1> USE ModuleCacheAssumption DEF KmInv, KmTypeOK, Times, Looks, NoLook
<1>1. ASSUME NEW c \in ModuleCalls, KernelModules(c) PROVE KmTypeOK'
  BY <1>1 DEF KernelModules, Answer
<1>2. ASSUME NEW c \in ModuleCalls, Probe(c) PROVE KmTypeOK'
  BY <1>2 DEF Probe, Forget
<1>3. ASSUME NEW c \in ModuleCalls, StoreProbe(c) PROVE KmTypeOK'
  BY <1>3 DEF StoreProbe, Answer, KmCallInv
<1>4. ASSUME NEW c \in ModuleCalls, Returned(c) PROVE KmTypeOK'
  BY <1>4 DEF Returned, Forget
<1>5. CASE Tick
  BY <1>5 DEF Tick
<1>6. CASE UNCHANGED kmVars
  BY <1>6 DEF kmVars
<1> HIDE DEF KmTypeOK
<1>7. QED BY <1>1, <1>2, <1>3, <1>4, <1>5, <1>6 DEF KmNext

\* Every step keeps the cache at the newest answer, unless it stores late.
LEMMA KmCacheStep ==
  ASSUME KmInv, [KmNext]_kmVars
  PROVE  KmCacheInv'
<1> USE ModuleCacheAssumption DEF KmInv, KmTypeOK, KmCacheInv, StoredLate, Times, Looks, NoLook
<1>1. ASSUME NEW c \in ModuleCalls, KernelModules(c) PROVE KmCacheInv'
  BY <1>1 DEF KernelModules, Answer
<1>2. ASSUME NEW c \in ModuleCalls, Probe(c) PROVE KmCacheInv'
  BY <1>2 DEF Probe, Forget
<1>3. ASSUME NEW c \in ModuleCalls, StoreProbe(c) PROVE KmCacheInv'
  BY <1>3 DEF StoreProbe, Answer, KmCallInv, CacheHit
<1>4. ASSUME NEW c \in ModuleCalls, Returned(c) PROVE KmCacheInv'
  BY <1>4 DEF Returned, Forget
<1>5. CASE Tick
  BY <1>5 DEF Tick
<1>6. CASE UNCHANGED kmVars
  BY <1>6 DEF kmVars
<1>7. QED BY <1>1, <1>2, <1>3, <1>4, <1>5, <1>6 DEF KmNext

\* Every step keeps a call's floor below what was answered and its answer in the cache.
LEMMA KmCallStep ==
  ASSUME KmInv, [KmNext]_kmVars, NEW e \in ModuleCalls
  PROVE  KmCallInv(e)'
<1> USE ModuleCacheAssumption DEF KmInv, KmTypeOK, KmCacheInv, KmCallInv, StoredLate, Times,
        Looks, NoLook
<1>1. ASSUME NEW c \in ModuleCalls, KernelModules(c) PROVE KmCallInv(e)'
  BY <1>1 DEF KernelModules, Answer, CacheHit
<1>2. ASSUME NEW c \in ModuleCalls, Probe(c) PROVE KmCallInv(e)'
  BY <1>2 DEF Probe, Forget
<1>3. ASSUME NEW c \in ModuleCalls, StoreProbe(c) PROVE KmCallInv(e)'
  BY <1>3 DEF StoreProbe, Answer, CacheHit
<1>4. ASSUME NEW c \in ModuleCalls, Returned(c) PROVE KmCallInv(e)'
  BY <1>4 DEF Returned, Forget
<1>5. CASE Tick
  BY <1>5 DEF Tick
<1>6. CASE UNCHANGED kmVars
  BY <1>6 DEF kmVars
<1>7. QED BY <1>1, <1>2, <1>3, <1>4, <1>5, <1>6 DEF KmNext

\* KmInv is an invariant.
LEMMA KmInvariant == KmSpec => []KmInv
<1>1. KmInit => KmInv
  BY ModuleCacheAssumption
  DEF KmInit, KmInv, KmTypeOK, KmCacheInv, KmCallInv, StoredLate, Times, Looks, NoLook
<1>2. KmInv /\ [KmNext]_kmVars => KmInv'
  BY KmTypeStep, KmCacheStep, KmCallStep DEF KmInv
<1>3. QED
  BY <1>1, <1>2, PTL DEF KmSpec

-----------------------------------------------------------------------------
(* The readiness endpoint.                                                 *)

RdSpec == RdInit /\ [][RdNext]_rdVars

\* A request that waits while the daemon serves has seen it serve, and so has one whose own
\* channel says "ready".
RdInv ==
    /\ RdTypeOK
    /\ IsFiniteSet(rdSlots)
    /\ \A r \in rdWait : rdServing \/ rdResult[r] = "ready" => r \in rdSince
    /\ NoStaleReady

\* Every step of the endpoint keeps RdInv.
LEMMA RdStep ==
  ASSUME RdInv, [RdNext]_rdVars
  PROVE  RdInv'
<1> USE ReadinessAssumption DEF RdInv, RdTypeOK, NoStaleReady, Channel
<1>1. ASSUME NEW r \in Requests, Readyz(r) PROVE RdInv'
  <2>1. /\ IsFiniteSet(rdSlots') /\ Cardinality(rdSlots') <= ProbeConcurrency
    <3>1. r \notin rdSlots /\ rdSlots' = rdSlots \cup {r} /\ Cardinality(rdSlots) < ProbeConcurrency
      BY <1>1 DEF Readyz
    <3>2. /\ IsFiniteSet(rdSlots \cup {r}) /\ Cardinality(rdSlots) \in Nat
          /\ Cardinality(rdSlots \cup {r}) = Cardinality(rdSlots) + 1
      BY <3>1, FS_AddElement, FS_CardinalityType
    <3>3. QED BY <3>1, <3>2
  <2>2. QED BY <1>1, <2>1 DEF Readyz
<1>2. ASSUME NEW r \in Requests, FinishProbe(r) PROVE RdInv'
  <2>1. /\ IsFiniteSet(rdSlots') /\ Cardinality(rdSlots') <= ProbeConcurrency
    <3>1. r \in rdSlots /\ rdSlots' = rdSlots \ {r}
      BY <1>2 DEF FinishProbe
    <3>2. /\ IsFiniteSet(rdSlots \ {r}) /\ Cardinality(rdSlots) \in Nat
          /\ Cardinality(rdSlots \ {r}) = Cardinality(rdSlots) - 1
      BY <3>1, FS_RemoveElement, FS_CardinalityType
    <3>3. QED BY <3>1, <3>2
  <2>2. QED BY <1>2, <2>1 DEF FinishProbe, Ready
<1>3. ASSUME NEW r \in Requests, ProbeHangs(r) PROVE RdInv'
  BY <1>3 DEF ProbeHangs
<1>4. ASSUME NEW r \in Requests, ReadyzAnswer(r) PROVE RdInv'
  BY <1>4 DEF ReadyzAnswer
<1>5. ASSUME NEW r \in Requests, Responded(r) PROVE RdInv'
  BY <1>5 DEF Responded
<1>6. CASE ServingChanges
  BY <1>6 DEF ServingChanges
<1>7. CASE ModulesChange
  BY <1>7 DEF ModulesChange
<1>8. CASE UNCHANGED rdVars
  BY <1>8 DEF rdVars
<1> HIDE DEF RdInv
<1>9. QED BY <1>1, <1>2, <1>3, <1>4, <1>5, <1>6, <1>7, <1>8 DEF RdNext

\* RdInv is an invariant.
LEMMA RdInvariant == RdSpec => []RdInv
<1>1. RdInit => RdInv
  <2>1. IsFiniteSet({}) /\ Cardinality({}) = 0
    BY FS_EmptySet
  <2>2. 0 <= ProbeConcurrency
    BY ReadinessAssumption
  <2>3. QED
    BY <2>1, <2>2 DEF RdInit, RdInv, RdTypeOK, NoStaleReady
<1>2. QED
  BY <1>1, RdStep, PTL DEF RdSpec

\* Probes take any time, overlap and end in any order, and any number of them hangs: an
\* answer about the kernel modules is older than one a finished call had only if its probe
\* outlasted the cache's lifetime, and a 200 of /readyz is about a moment since that request
\* arrived.
THEOREM StatusTimely == KmSpec /\ RdSpec => []StatusIsTimely
<1>1. KmInv => AnswersMoveForward
  BY DEF KmInv, KmTypeOK, KmCacheInv, KmCallInv, AnswersMoveForward, Looks, Times, NoLook
<1>2. RdInv => NoStaleReady
  BY DEF RdInv
<1>3. KmInv /\ RdInv => StatusIsTimely
  BY <1>1, <1>2 DEF StatusIsTimely
<1>4. QED
  BY <1>3, KmInvariant, RdInvariant, PTL

-----------------------------------------------------------------------------
(* The device list.                                                        *)

EnSpec == EnInit /\ [][EnNext]_enVars

\* At most one device is being read, between its two reads and not otherwise, and it is not
\* visited again.
EnAtInv ==
    /\ enAt \cap enPending = {}
    /\ enPC \notin {"ifaces", "status"} => enAt = {}
    /\ enPC \in {"ifaces", "status"} => \E b \in BusIDs : enAt = {b}
    /\ enPC \in {"names", "core", "ifaces"} => enExported = {}
    /\ enPC = "names" => enPending = {} /\ enLocal = {}
    /\ enPC \in {"driver", "status"} => enPending \cup enAt \subseteq enLocal

\* Readable, bound and idle in every state since the call began.
Steady(b) ==
    \A d \in enSeen[b] : d.driver = "usbip-host" /\ ~d.used /\ d.kind \notin {"garbled", "badiface"}

\* The listing has not lost a steady device, and what it answers it has seen.
EnListInv ==
    /\ \A b \in BusIDs : enDev[b] \in enSeen[b]
    /\ OfferedIsHonest
    /\ \A b \in BusIDs : Steady(b) =>
          /\ enPC \in {"core", "ifaces"} => b \in enPending \cup enAt \cup enLocal
          /\ enPC \in {"driver", "status"} => b \in enPending \cup enAt \cup enExported
          /\ enPC = "done" => b \in enExported

EnInv == EnTypeOK /\ EnAtInv /\ EnListInv

\* The sizes the type of enAt is about.
LEMMA AtMostOne == Cardinality({}) = 0 /\ \A b \in BusIDs : Cardinality({b}) = 1
  BY FS_EmptySet, FS_Singleton

\* A steady device can be read.
LEMMA SteadyReadable ==
  ASSUME EnInv, NEW b \in BusIDs, Steady(b)
  PROVE  CoreReadable(enDev[b]) /\ enDev[b].kind # "badiface" /\ DrivenByUs(enDev[b]) /\ StatusIdle(enDev[b])
<1>1. enDev[b] \in DeviceStates /\ enDev[b] \in enSeen[b]
  BY DEF EnInv, EnTypeOK, EnListInv
<1>2. enDev[b].driver = "usbip-host" /\ ~enDev[b].used /\ enDev[b].kind \notin {"garbled", "badiface"}
  BY <1>1 DEF Steady
<1>3. enDev[b].kind \in DeviceKinds
  BY <1>1, <1>2 DEF DeviceStates, Gone
<1>4. QED BY <1>2, <1>3, EnumerationAssumption DEF CoreReadable, DrivenByUs, StatusIdle

\* Every step leaves a well-formed state: one device at a time, each answered for once.
LEMMA EnTypeStep ==
  ASSUME EnInv, [EnNext]_enVars
  PROVE  EnTypeOK'
<1> USE EnumerationAssumption, AtMostOne DEF EnInv, EnTypeOK, EnAtInv, enCall, NoDevice
<1>1. CASE UNCHANGED enVars
  BY <1>1 DEF enVars
<1>2. ASSUME NEW b \in BusIDs, NEW d \in DeviceStates, BusChanges(b, d) PROVE EnTypeOK'
  BY <1>2 DEF BusChanges
<1>3. ASSUME ListNames PROVE EnTypeOK'
  BY <1>3 DEF ListNames
<1>4. ASSUME ListedLocal PROVE EnTypeOK'
  BY <1>4 DEF ListedLocal
<1>5. ASSUME ListedExported PROVE EnTypeOK'
  BY <1>5 DEF ListedExported
<1>6. ASSUME NEW b \in BusIDs, ReadDeviceCore(b) PROVE EnTypeOK'
  BY <1>6 DEF ReadDeviceCore, SkipDevice, CoreReadable
<1>7. ASSUME NEW b \in BusIDs, ReadInterfaces(b) PROVE EnTypeOK'
  <2>1. /\ enAt' = {} /\ enPC' = "core" /\ enPending' = enPending /\ enExported = {}
        /\ UNCHANGED <<enDev, enChanges, enSeen, enExported>>
    BY <1>7 DEF ReadInterfaces, SkipDevice
  <2>2. enLocal' \in {enLocal, enLocal \cup {b}}
    BY <1>7 DEF ReadInterfaces, SkipDevice
  <2>3. enLocal \cap enPending = {}
    BY <1>7 DEF ReadInterfaces
  <2>4. b \notin enPending
    BY <1>7 DEF ReadInterfaces
  <2>5. Cardinality(enAt') <= 1
    BY <2>1
  <2>6. QED BY <2>1, <2>2, <2>3, <2>4, <2>5
<1>8. ASSUME NEW b \in BusIDs, CheckDriver(b) PROVE EnTypeOK'
  BY <1>8 DEF CheckDriver, DrivenByUs
<1>9. ASSUME NEW b \in BusIDs, CheckStatus(b) PROVE EnTypeOK'
  <2>1. /\ enAt' = {} /\ enPC' = "driver" /\ enAt = {b} /\ b \in enLocal
        /\ UNCHANGED <<enDev, enChanges, enSeen, enPending, enLocal>>
    BY <1>9 DEF CheckStatus
  <2>2. enExported' \in {enExported, enExported \cup {b}}
    BY <1>9 DEF CheckStatus
  <2>3. enExported \cap enPending = {}
    BY <1>9 DEF CheckStatus
  <2>4. b \notin enPending
    BY <1>9 DEF CheckStatus
  <2>5. Cardinality(enAt') <= 1
    BY <2>1
  <2>6. QED BY <2>1, <2>2, <2>3, <2>4, <2>5
<1>10. ASSUME UNCHANGED enVars PROVE UNCHANGED enVars
  BY <1>10 DEF enVars
<1> HIDE DEF EnTypeOK
<1>11. QED
  BY <1>1, <1>2, <1>3, <1>4, <1>5, <1>6, <1>7, <1>8, <1>9, <1>10
  DEF EnNext

\* Every step keeps the listing at one device.
LEMMA EnAtStep ==
  ASSUME EnInv, [EnNext]_enVars
  PROVE  EnAtInv'
<1> USE EnumerationAssumption DEF EnInv, EnTypeOK, EnAtInv, enCall, NoDevice
<1>1. CASE UNCHANGED <<enPC, enAt, enPending, enLocal, enExported>>
  BY <1>1
<1>2. ASSUME ListNames PROVE EnAtInv'
  BY <1>2 DEF ListNames
<1>3. ASSUME ListedLocal PROVE EnAtInv'
  BY <1>3 DEF ListedLocal
<1>4. ASSUME ListedExported PROVE EnAtInv'
  BY <1>4 DEF ListedExported
<1>5. ASSUME NEW b \in BusIDs, ReadDeviceCore(b) PROVE EnAtInv'
  BY <1>5 DEF ReadDeviceCore, SkipDevice, CoreReadable
<1>6. ASSUME NEW b \in BusIDs, ReadInterfaces(b) PROVE EnAtInv'
  BY <1>6 DEF ReadInterfaces, SkipDevice
<1>7. ASSUME NEW b \in BusIDs, CheckDriver(b) PROVE EnAtInv'
  BY <1>7 DEF CheckDriver, DrivenByUs
<1>8. ASSUME NEW b \in BusIDs, CheckStatus(b) PROVE EnAtInv'
  BY <1>8 DEF CheckStatus, StatusIdle
<1>9. ASSUME NEW b \in BusIDs, NEW d \in DeviceStates, 
               BusChanges(b, d)
     PROVE  UNCHANGED <<enPC, enAt, enPending, enLocal, enExported>>
  BY <1>9 DEF BusChanges
<1>10. ASSUME UNCHANGED enVars PROVE UNCHANGED <<enPC, enAt, enPending, enLocal, enExported>>
  BY <1>10 DEF enVars
<1>11. QED
  BY <1>1, <1>2, <1>3, <1>4, <1>5, <1>6, <1>7, <1>8, <1>9, <1>10
  DEF EnNext

\* No step loses a steady device or offers one that was never free to be offered.
LEMMA EnListStep ==
  ASSUME EnInv, [EnNext]_enVars
  PROVE  EnListInv'
<1> USE EnumerationAssumption DEF EnInv, EnTypeOK, EnAtInv, EnListInv, OfferedIsHonest,
        Steady, DeviceStates, Gone, enCall, NoDevice
<1>1. CASE UNCHANGED enVars
  BY <1>1 DEF enVars
<1>2. ASSUME NEW b \in BusIDs, NEW d \in DeviceStates, BusChanges(b, d) PROVE EnListInv'
  BY <1>2 DEF BusChanges
<1>3. ASSUME ListNames PROVE EnListInv'
  BY <1>3 DEF ListNames
<1>4. ASSUME ListedLocal PROVE EnListInv'
  BY <1>4 DEF ListedLocal
<1>5. ASSUME ListedExported PROVE EnListInv'
  BY <1>5 DEF ListedExported
<1>6. ASSUME NEW b \in BusIDs, ReadDeviceCore(b) PROVE EnListInv'
  <2>1. UNCHANGED <<enDev, enSeen, enLocal, enExported>> /\ enPC = "core" /\ b \in enPending
    BY <1>6 DEF ReadDeviceCore
  <2>2. Steady(b) => CoreReadable(enDev[b])
    BY SteadyReadable
  <2>3. enPC' \in {"core", "ifaces"} /\ enPending' = enPending \ {b}
    BY <1>6 DEF ReadDeviceCore, SkipDevice
  <2>4. CoreReadable(enDev[b]) => enAt' = {b}
    BY <1>6 DEF ReadDeviceCore
  <2>5. QED BY <2>1, <2>2, <2>3, <2>4
<1>7. ASSUME NEW b \in BusIDs, ReadInterfaces(b) PROVE EnListInv'
  BY <1>7 DEF ReadInterfaces, SkipDevice
<1>8. ASSUME NEW b \in BusIDs, CheckDriver(b) PROVE EnListInv'
  BY <1>8 DEF CheckDriver, DrivenByUs
<1>9. ASSUME NEW b \in BusIDs, CheckStatus(b) PROVE EnListInv'
  BY <1>9 DEF CheckStatus, StatusIdle
<1>10. ASSUME UNCHANGED enVars PROVE UNCHANGED enVars
  BY <1>10 DEF enVars
<1> HIDE DEF EnListInv
<1>11. QED
  BY <1>1, <1>2, <1>3, <1>4, <1>5, <1>6, <1>7, <1>8, <1>9, <1>10
  DEF EnNext

\* EnInv is an invariant.
LEMMA EnInvariant == EnSpec => []EnInv
<1>1. EnInit => EnInv
  <2> SUFFICES ASSUME EnInit PROVE EnInv
    OBVIOUS
  <2>1. Cardinality({}) = 0
    BY FS_EmptySet
  <2>2. enDev \in [BusIDs -> DeviceStates] /\ enSeen = [b \in BusIDs |-> {enDev[b]}]
    BY DEF EnInit, EnInitFrom
  <2>3. EnTypeOK
    BY <2>1, <2>2, EnumerationAssumption DEF EnInit, EnInitFrom, EnTypeOK, NoDevice
  <2>4. EnAtInv /\ EnListInv
    BY <2>2 DEF EnInit, EnInitFrom, EnAtInv, EnListInv, OfferedIsHonest, NoDevice
  <2>5. QED BY <2>3, <2>4 DEF EnInv
<1>2. EnInv /\ [EnNext]_enVars => EnInv'
  BY EnTypeStep, EnAtStep, EnListStep DEF EnInv
<1>3. QED
  BY <1>1, <1>2, PTL DEF EnSpec

\* However the bus changes during a listing, and however often: what is offered was bound
\* and idle at one moment, and what was steadily so is offered.
THEOREM OfferExact == EnSpec => []OfferIsExact
<1>1. EnInv => OfferIsExact
  BY DEF EnInv, EnListInv, Steady, OfferIsExact, OfferedIsComplete
<1>2. QED
  BY <1>1, EnInvariant, PTL

-----------------------------------------------------------------------------
(* Bind and Unbind.                                                        *)

BdSpec == BdInit /\ [][BdNext]_bdVars

\* Where a Bind stands: before its entry in match_busid, and with it.
BeforeMatch(c) == bdPC[c] = "add" \/ (bdPC[c] = "netdevs" /\ bdTry[c] = 0)
WithMatch(c) == bdPC[c] \in {"detach", "attach"} \/ (bdPC[c] = "netdevs" /\ bdTry[c] > 0)

\* A call that has not taken its device's driver.
Untouched(c) ==
    \/ bdPC[c] \in {"bind", "unbind", "sockfd", "release"} \/ BeforeMatch(c)
    \/ (bdPC[c] = "unmatch" /\ ~bdUnbound[c])

\* The state in which the kernel's table and what callers were told agree.
Agreed(b) ==
    /\ b \in bdMatch <=> b \in bdExported
    /\ b \in bdExported /\ Plugged(b) => bdDriver[b] = "usbip-host"

\* A retry is one of the attach loop, and only a finished unbind write says so.
BdTryInv ==
    \A c \in BindCalls :
        /\ bdTry[c] > 0 => bdPC[c] \in {"attach", "netdevs", "del", "probe"}
        /\ bdUnbound[c] => bdPC[c] \in {"unmatch", "rebind"}

\* Calls past their checks are about a device that may be touched; the others are left alone.
BdHubInv ==
    /\ \A c \in BindCalls : bdPC[c] \notin {"idle", "bind", "unbind"} => bdDev[c] \notin Untouchable
    /\ \A b \in Untouchable : b \notin bdMatch /\ bdDriver[b] \in {"usb", "gone"}

\* usbip-host has a live udev for what it drives, and keeps it for a device it has let go of
\* until the rebind.
BdLiveInv ==
    /\ bdOops = FALSE
    /\ \A b \in Devices : bdDriver[b] = "usbip-host" => b \in bdLive
    /\ \A c \in BindCalls :
          /\ BeforeMatch(c) /\ bdDriver[bdDev[c]] = "usbip-host" => bdDev[c] \in bdMatch
          /\ bdUnbound[c] => bdDriver[bdDev[c]] \in {"none", "gone"} /\ bdDev[c] \in bdLive
          /\ bdPC[c] = "rebind" => bdUnbound[c]

\* The table agrees with the callers, call by call and step by step.
BdMatchInv ==
    /\ \A b \in Devices \ bdInDoubt : Quiet(b) => Agreed(b)
    /\ \A c \in BindCalls : bdDev[c] \notin bdInDoubt =>
          /\ bdPC[c] \in {"bind", "unbind", "sockfd", "release"} => Agreed(bdDev[c])
          /\ BeforeMatch(c) => bdDev[c] \notin bdMatch /\ bdDev[c] \notin bdExported
          /\ WithMatch(c) => bdDev[c] \in bdMatch /\ bdDev[c] \notin bdExported
          /\ bdPC[c] = "del" => bdDev[c] \notin bdExported
          /\ bdPC[c] = "probe" => bdDev[c] \notin bdMatch /\ bdDev[c] \notin bdExported
          /\ bdPC[c] = "rebind" => bdDev[c] \notin bdMatch

\* A device is without a driver only in the middle of a call that will ask for a probe.
BdDriverInv ==
    /\ NoOrphans
    /\ \A c \in BindCalls : bdDev[c] \notin bdNoProbe /\ Untouched(c) => bdDriver[bdDev[c]] # "none"

BdInv == BdTypeOK /\ BdTryInv /\ BdHubInv /\ BdLiveInv /\ BdMatchInv /\ BdDriverInv

\* The part of the types that is about the calls and their mutexes.
BdCallsTyped ==
    /\ bdLock \in [Devices -> BindCalls \cup {Free}]
    /\ bdPC \in [BindCalls -> BdStates]
    /\ bdDev \in [BindCalls -> Devices]
    /\ bdTry \in [BindCalls -> 0..RetryAttempts]
    /\ bdUnbound \in [BindCalls -> BOOLEAN]
    /\ \A c \in BindCalls : bdPC[c] # "idle" <=> bdLock[bdDev[c]] = c

\* A call that returns gives its mutex back.
LEMMA ReturnTyped ==
  ASSUME BdCallsTyped, NEW c \in BindCalls, bdPC[c] # "idle", Return(c)
  PROVE  BdCallsTyped'
  BY BindAssumption DEF BdCallsTyped, BdStates, Return, BdGoto

\* A call that goes on keeps it.
LEMMA ContinueTyped ==
  ASSUME BdCallsTyped, NEW c \in BindCalls, NEW pc \in BdStates \ {"idle"}, bdPC[c] # "idle", Continue(c, pc)
  PROVE  BdCallsTyped'
  BY BindAssumption DEF BdCallsTyped, BdStates, Continue, BdGoto

\* Every step is well typed, and a mutex goes from free to one call and back.
LEMMA BdTypeStep ==
  ASSUME BdTypeOK, [BdNext]_bdVars
  PROVE  BdTypeOK'
<1> USE BindAssumption DEF BdTypeOK, Drivers, BdStates
<1>1. CASE UNCHANGED bdVars
  BY <1>1 DEF bdVars, bdKernel, bdCall, bdTold
<1>2. ASSUME NEW c \in BindCalls, NEW b \in Devices, CallBind(c, b) PROVE BdTypeOK'
  BY <1>2 DEF CallBind, LockBusID, BdGoto, bdKernel, bdTold
<1>3. ASSUME NEW c \in BindCalls, NEW b \in Devices, CallUnbind(c, b) PROVE BdTypeOK'
  BY <1>3 DEF CallUnbind, LockBusID, BdGoto, bdKernel, bdTold
<1>4. ASSUME NEW c \in BindCalls, PreflightBind(c) PROVE BdTypeOK'
  <2>1. BdCallsTyped /\ bdPC[c] # "idle"
    BY <1>4 DEF BdCallsTyped, PreflightBind
  <2>2. Return(c) \/ \E pc \in {"netdevs"} : Continue(c, pc)
    BY <1>4 DEF PreflightBind
  <2>3. BdCallsTyped'
    BY <2>1, <2>2, ReturnTyped, ContinueTyped DEF BdStates
  <2>4. QED BY <1>4, <2>3 DEF PreflightBind, BdCallsTyped, bdKernel, bdTold
<1>5. ASSUME NEW c \in BindCalls, DeactivateNetdevs(c) PROVE BdTypeOK'
  BY <1>5 DEF DeactivateNetdevs, BdGoto, Continue, bdTold
<1>6. ASSUME NEW c \in BindCalls, AddMatch(c) PROVE BdTypeOK'
  <2>1. BdCallsTyped /\ bdPC[c] # "idle"
    BY <1>6 DEF BdCallsTyped, AddMatch
  <2>2. Return(c) \/ \E pc \in {"detach"} : Continue(c, pc)
    BY <1>6 DEF AddMatch
  <2>3. BdCallsTyped'
    BY <2>1, <2>2, ReturnTyped, ContinueTyped DEF BdStates
  <2>4. QED BY <1>6, <2>3 DEF AddMatch, BdCallsTyped, bdTold
<1>7. ASSUME NEW c \in BindCalls, DetachDriver(c) PROVE BdTypeOK'
  BY <1>7 DEF DetachDriver, BdGoto, SetDriver, Continue, Plugged, bdTold
<1>8. ASSUME NEW c \in BindCalls, AttachHost(c) PROVE BdTypeOK'
  <2>1. BdCallsTyped /\ bdPC[c] # "idle"
    BY <1>8 DEF BdCallsTyped, AttachHost
  <2>2. \/ Return(c) \/ Continue(c, "del")
        \/ /\ bdTry[c] + 1 < RetryAttempts /\ bdTry' = [bdTry EXCEPT ![c] = @ + 1] /\ BdGoto(c, "netdevs")
           /\ UNCHANGED <<bdLock, bdDev, bdUnbound>>
    BY <1>8 DEF AttachHost
  <2>3. BdCallsTyped'
    BY <2>1, <2>2, ReturnTyped, ContinueTyped DEF BdStates, BdGoto, BdCallsTyped
  <2>4. QED BY <1>8, <2>3 DEF AttachHost, BdCallsTyped, SetDriver
<1>9. ASSUME NEW c \in BindCalls, RollbackMatch(c) PROVE BdTypeOK'
  BY <1>9 DEF RollbackMatch, BdGoto, Continue
<1>10. ASSUME NEW c \in BindCalls, RollbackProbe(c) PROVE BdTypeOK'
  BY <1>10 DEF RollbackProbe, SetDriver, Return, BdGoto, Picked
<1>11. ASSUME NEW c \in BindCalls, PreflightUnbind(c) PROVE BdTypeOK'
  <2>1. BdCallsTyped /\ bdPC[c] # "idle"
    BY <1>11 DEF BdCallsTyped, PreflightUnbind
  <2>2. Return(c) \/ \E pc \in {"sockfd"} : Continue(c, pc)
    BY <1>11 DEF PreflightUnbind
  <2>3. BdCallsTyped'
    BY <2>1, <2>2, ReturnTyped, ContinueTyped DEF BdStates
  <2>4. QED BY <1>11, <2>3 DEF PreflightUnbind, BdCallsTyped, bdKernel, bdTold
<1>12. ASSUME NEW c \in BindCalls, PreDisconnect(c) PROVE BdTypeOK'
  BY <1>12 DEF PreDisconnect, BdGoto, Continue, bdTold
<1>13. ASSUME NEW c \in BindCalls, ReleaseHost(c) PROVE BdTypeOK'
  <2>1. /\ bdPC' = [bdPC EXCEPT ![c] = "unmatch"] /\ bdPC[c] = "release" /\ bdDev[c] \in Devices
        /\ UNCHANGED <<bdMatch, bdSession, bdHeld, bdNetUp, bdOops, bdLock, bdDev, bdTry,
                       bdExported, bdNoProbe>>
    BY <1>13 DEF ReleaseHost, BdGoto
  <2>2. bdUnbound' \in [BindCalls -> BOOLEAN] /\ bdInDoubt' \subseteq Devices
    BY <1>13, <2>1 DEF ReleaseHost
  <2>3. bdDriver' \in [Devices -> Drivers] /\ bdLive' \subseteq Devices
    BY <1>13, <2>1 DEF ReleaseHost, SetDriver
  <2>4. QED BY <2>1, <2>2, <2>3
<1>14. ASSUME NEW c \in BindCalls, RemoveMatch(c) PROVE BdTypeOK'
  <2>1. BdCallsTyped /\ bdPC[c] # "idle"
    BY <1>14 DEF BdCallsTyped, RemoveMatch
  <2>2. Return(c) \/ \E pc \in {"rebind"} : Continue(c, pc)
    BY <1>14 DEF RemoveMatch
  <2>3. BdCallsTyped'
    BY <2>1, <2>2, ReturnTyped, ContinueTyped DEF BdStates
  <2>4. QED BY <1>14, <2>3 DEF RemoveMatch, BdCallsTyped
<1>15. ASSUME NEW c \in BindCalls, TriggerRebind(c) PROVE BdTypeOK'
  BY <1>15 DEF TriggerRebind, SetDriver, Return, BdGoto, Picked
<1>16. ASSUME NEW b \in Devices, Unplug(b) PROVE BdTypeOK'
  BY <1>16 DEF Unplug, SetDriver, Plugged, bdCall, bdTold
<1>17. ASSUME NEW b \in Devices, Plug(b) PROVE BdTypeOK'
  BY <1>17 DEF Plug, SetDriver, Plugged, Picked, bdCall
<1>18. ASSUME NEW b \in Devices, SessionStarts(b) \/ SessionEnds(b) PROVE BdTypeOK'
  BY <1>18 DEF SessionStarts, SessionEnds, bdCall, bdTold
<1>19. ASSUME UNCHANGED bdVars PROVE UNCHANGED bdVars
  BY <1>19 DEF bdVars, bdKernel, bdCall, bdTold
<1> HIDE DEF BdTypeOK
<1>20. QED
  BY <1>1, <1>2, <1>3, <1>4, <1>5, <1>6, <1>7, <1>8, <1>9, <1>10, <1>11, <1>12, <1>13,
     <1>14, <1>15, <1>16, <1>17, <1>18, <1>19
  DEF BdNext, BdStep

\* Retries and finished unbind writes stay where they belong.
LEMMA BdTryStep ==
  ASSUME BdTypeOK, BdTryInv, [BdNext]_bdVars
  PROVE  BdTryInv'
<1> USE BindAssumption DEF BdTypeOK, BdTryInv
<1>1. CASE UNCHANGED <<bdPC, bdTry, bdUnbound>>
  BY <1>1
<1>2. ASSUME NEW c \in BindCalls, NEW b \in Devices, CallBind(c, b) PROVE BdTryInv'
  BY <1>2 DEF CallBind, LockBusID, BdGoto, bdKernel, bdTold
<1>3. ASSUME NEW c \in BindCalls, NEW b \in Devices, CallUnbind(c, b) PROVE BdTryInv'
  BY <1>3 DEF CallUnbind, LockBusID, BdGoto, bdKernel, bdTold
<1>4. ASSUME NEW c \in BindCalls, PreflightBind(c) PROVE BdTryInv'
  BY <1>4 DEF PreflightBind, BdGoto, Return, MayBind, Continue, bdKernel, bdTold
<1>5. ASSUME NEW c \in BindCalls, DeactivateNetdevs(c) PROVE BdTryInv'
  BY <1>5 DEF DeactivateNetdevs, BdGoto, Continue, bdTold
<1>6. ASSUME NEW c \in BindCalls, AddMatch(c) PROVE BdTryInv'
  BY <1>6 DEF AddMatch, BdGoto, Return, Continue, bdTold
<1>7. ASSUME NEW c \in BindCalls, DetachDriver(c) PROVE BdTryInv'
  BY <1>7 DEF DetachDriver, BdGoto, SetDriver, Continue, Plugged, bdTold
<1>8. ASSUME NEW c \in BindCalls, AttachHost(c) PROVE BdTryInv'
  BY <1>8 DEF AttachHost, SetDriver, Return, BdGoto, Plugged, Continue
<1>9. ASSUME NEW c \in BindCalls, RollbackMatch(c) PROVE BdTryInv'
  BY <1>9 DEF RollbackMatch, BdGoto, Continue
<1>10. ASSUME NEW c \in BindCalls, RollbackProbe(c) PROVE BdTryInv'
  BY <1>10 DEF RollbackProbe, SetDriver, Return, BdGoto, Picked
<1>11. ASSUME NEW c \in BindCalls, PreflightUnbind(c) PROVE BdTryInv'
  BY <1>11 DEF PreflightUnbind, BdGoto, Return, Continue, bdKernel, bdTold
<1>12. ASSUME NEW c \in BindCalls, PreDisconnect(c) PROVE BdTryInv'
  BY <1>12 DEF PreDisconnect, BdGoto, Continue, bdTold
<1>13. ASSUME NEW c \in BindCalls, ReleaseHost(c) PROVE BdTryInv'
  BY <1>13 DEF ReleaseHost, SetDriver, BdGoto
<1>14. ASSUME NEW c \in BindCalls, RemoveMatch(c) PROVE BdTryInv'
  BY <1>14 DEF RemoveMatch, BdGoto, Return, MayRebind, Continue
<1>15. ASSUME NEW c \in BindCalls, TriggerRebind(c) PROVE BdTryInv'
  BY <1>15 DEF TriggerRebind, SetDriver, Return, BdGoto, Picked
<1>16. ASSUME NEW b \in Devices, 
               Unplug(b) \/ Plug(b) \/ SessionStarts(b) \/ SessionEnds(b)
     PROVE  UNCHANGED <<bdPC, bdTry, bdUnbound>>
  BY <1>16 DEF Unplug, Plug, SessionStarts, SessionEnds, Return, Continue, BdGoto, LockBusID,
     SetDriver, bdKernel, bdCall, bdTold
<1>17. ASSUME UNCHANGED bdVars PROVE UNCHANGED <<bdPC, bdTry, bdUnbound>>
  BY <1>17 DEF bdVars, bdKernel, bdCall, bdTold
<1> HIDE DEF BdTryInv
<1>18. QED
  BY <1>1, <1>2, <1>3, <1>4, <1>5, <1>6, <1>7, <1>8, <1>9, <1>10, <1>11, <1>12, <1>13,
     <1>14, <1>15, <1>16, <1>17
  DEF BdNext, BdStep

\* No step touches what must not be touched.
LEMMA BdHubStep ==
  ASSUME BdTypeOK, BdHubInv, [BdNext]_bdVars
  PROVE  BdHubInv'
<1> USE BindAssumption DEF BdTypeOK, BdHubInv
<1>1. CASE UNCHANGED <<bdPC, bdDev, bdMatch, bdDriver>>
  BY <1>1
<1>2. ASSUME NEW c \in BindCalls, NEW b \in Devices, CallBind(c, b) PROVE BdHubInv'
  BY <1>2 DEF CallBind, LockBusID, BdGoto, bdKernel, bdTold
<1>3. ASSUME NEW c \in BindCalls, NEW b \in Devices, CallUnbind(c, b) PROVE BdHubInv'
  BY <1>3 DEF CallUnbind, LockBusID, BdGoto, bdKernel, bdTold
<1>4. ASSUME NEW c \in BindCalls, PreflightBind(c) PROVE BdHubInv'
  BY <1>4 DEF PreflightBind, BdGoto, Return, MayBind, Continue, bdKernel, bdTold
<1>5. ASSUME NEW c \in BindCalls, DeactivateNetdevs(c) PROVE BdHubInv'
  BY <1>5 DEF DeactivateNetdevs, BdGoto, Continue, bdTold
<1>6. ASSUME NEW c \in BindCalls, AddMatch(c) PROVE BdHubInv'
  BY <1>6 DEF AddMatch, BdGoto, Return, Continue, bdTold
<1>7. ASSUME NEW c \in BindCalls, DetachDriver(c) PROVE BdHubInv'
  BY <1>7 DEF DetachDriver, BdGoto, SetDriver, Continue, Plugged, bdTold
<1>8. ASSUME NEW c \in BindCalls, AttachHost(c) PROVE BdHubInv'
  BY <1>8 DEF AttachHost, SetDriver, Return, BdGoto, Plugged, Continue
<1>9. ASSUME NEW c \in BindCalls, RollbackMatch(c) PROVE BdHubInv'
  BY <1>9 DEF RollbackMatch, BdGoto, Continue
<1>10. ASSUME NEW c \in BindCalls, RollbackProbe(c) PROVE BdHubInv'
  BY <1>10 DEF RollbackProbe, SetDriver, Return, BdGoto, Picked
<1>11. ASSUME NEW c \in BindCalls, PreflightUnbind(c) PROVE BdHubInv'
  BY <1>11 DEF PreflightUnbind, BdGoto, Return, Continue, bdKernel, bdTold
<1>12. ASSUME NEW c \in BindCalls, PreDisconnect(c) PROVE BdHubInv'
  BY <1>12 DEF PreDisconnect, BdGoto, Continue, bdTold
<1>13. ASSUME NEW c \in BindCalls, ReleaseHost(c) PROVE BdHubInv'
  BY <1>13 DEF ReleaseHost, SetDriver, BdGoto
<1>14. ASSUME NEW c \in BindCalls, RemoveMatch(c) PROVE BdHubInv'
  BY <1>14 DEF RemoveMatch, BdGoto, Return, MayRebind, Continue
<1>15. ASSUME NEW c \in BindCalls, TriggerRebind(c) PROVE BdHubInv'
  BY <1>15 DEF TriggerRebind, SetDriver, Return, BdGoto, Picked
<1>16. ASSUME NEW b \in Devices, Unplug(b) PROVE BdHubInv'
  BY <1>16 DEF Unplug, SetDriver, Plugged, bdCall, bdTold
<1>17. ASSUME NEW b \in Devices, Plug(b) PROVE BdHubInv'
  BY <1>17 DEF Plug, SetDriver, Plugged, Picked, bdCall
<1>18. ASSUME NEW b \in Devices, 
               SessionStarts(b) \/ SessionEnds(b)
     PROVE  UNCHANGED <<bdPC, bdDev, bdMatch, bdDriver>>
  BY <1>18 DEF SessionStarts, SessionEnds, Return, Continue, BdGoto, LockBusID, SetDriver,
     bdKernel, bdCall, bdTold
<1>19. ASSUME UNCHANGED bdVars PROVE UNCHANGED <<bdPC, bdDev, bdMatch, bdDriver>>
  BY <1>19 DEF bdVars, bdKernel, bdCall, bdTold
<1> HIDE DEF BdHubInv
<1>20. QED
  BY <1>1, <1>2, <1>3, <1>4, <1>5, <1>6, <1>7, <1>8, <1>9, <1>10, <1>11, <1>12, <1>13,
     <1>14, <1>15, <1>16, <1>17, <1>18, <1>19
  DEF BdNext, BdStep

\* No step drives or rebinds a device whose stub is dead.
LEMMA BdLiveStep ==
  ASSUME BdTypeOK, BdTryInv, BdLiveInv, [BdNext]_bdVars
  PROVE  BdLiveInv'
<1> USE BindAssumption DEF BdTypeOK, BdTryInv, BdLiveInv, BeforeMatch
<1>1. CASE UNCHANGED <<bdOops, bdDriver, bdLive, bdPC, bdDev, bdTry, bdMatch, bdUnbound>>
  BY <1>1
<1>2. ASSUME NEW c \in BindCalls, NEW b \in Devices, CallBind(c, b) PROVE BdLiveInv'
  BY <1>2 DEF CallBind, LockBusID, BdGoto, bdKernel, bdTold
<1>3. ASSUME NEW c \in BindCalls, NEW b \in Devices, CallUnbind(c, b) PROVE BdLiveInv'
  BY <1>3 DEF CallUnbind, LockBusID, BdGoto, bdKernel, bdTold
<1>4. ASSUME NEW c \in BindCalls, PreflightBind(c) PROVE BdLiveInv'
  BY <1>4 DEF PreflightBind, BdGoto, Return, MayBind, Continue, bdKernel, bdTold
<1>5. ASSUME NEW c \in BindCalls, DeactivateNetdevs(c) PROVE BdLiveInv'
  BY <1>5 DEF DeactivateNetdevs, BdGoto, Continue, bdTold
<1>6. ASSUME NEW c \in BindCalls, AddMatch(c) PROVE BdLiveInv'
  BY <1>6 DEF AddMatch, BdGoto, Return, Continue, bdTold
<1>7. ASSUME NEW c \in BindCalls, DetachDriver(c) PROVE BdLiveInv'
  BY <1>7 DEF DetachDriver, BdGoto, SetDriver, Continue, Plugged, bdTold
<1>8. ASSUME NEW c \in BindCalls, AttachHost(c) PROVE BdLiveInv'
  BY <1>8 DEF AttachHost, SetDriver, Return, BdGoto, Plugged, Continue
<1>9. ASSUME NEW c \in BindCalls, RollbackMatch(c) PROVE BdLiveInv'
  BY <1>9 DEF RollbackMatch, BdGoto, Continue
<1>10. ASSUME NEW c \in BindCalls, RollbackProbe(c) PROVE BdLiveInv'
  BY <1>10 DEF RollbackProbe, SetDriver, Return, BdGoto, Picked
<1>11. ASSUME NEW c \in BindCalls, PreflightUnbind(c) PROVE BdLiveInv'
  BY <1>11 DEF PreflightUnbind, BdGoto, Return, Continue, bdKernel, bdTold
<1>12. ASSUME NEW c \in BindCalls, PreDisconnect(c) PROVE BdLiveInv'
  BY <1>12 DEF PreDisconnect, BdGoto, Continue, bdTold
<1>13. ASSUME NEW c \in BindCalls, ReleaseHost(c) PROVE BdLiveInv'
  BY <1>13 DEF ReleaseHost, SetDriver, BdGoto
<1>14. ASSUME NEW c \in BindCalls, RemoveMatch(c) PROVE BdLiveInv'
  BY <1>14 DEF RemoveMatch, BdGoto, Return, MayRebind, Continue
<1>15. ASSUME NEW c \in BindCalls, TriggerRebind(c) PROVE BdLiveInv'
  BY <1>15 DEF TriggerRebind, SetDriver, Return, BdGoto, Picked
<1>16. ASSUME NEW b \in Devices, Unplug(b) PROVE BdLiveInv'
  BY <1>16 DEF Unplug, SetDriver, Plugged, bdCall, bdTold
<1>17. ASSUME NEW b \in Devices, Plug(b) PROVE BdLiveInv'
  BY <1>17 DEF Plug, SetDriver, Plugged, Picked, bdCall
<1>18. ASSUME NEW b \in Devices, 
               SessionStarts(b) \/ SessionEnds(b)
     PROVE  UNCHANGED <<bdOops, bdDriver, bdLive, bdPC, bdDev, bdTry, bdMatch, bdUnbound>>
  BY <1>18 DEF SessionStarts, SessionEnds, Return, Continue, BdGoto, LockBusID, SetDriver,
     bdKernel, bdCall, bdTold
<1>19. ASSUME UNCHANGED bdVars PROVE UNCHANGED <<bdOops, bdDriver, bdLive, bdPC, bdDev, bdTry, bdMatch, bdUnbound>>
  BY <1>19 DEF bdVars, bdKernel, bdCall, bdTold
<1> HIDE DEF BdLiveInv
<1>20. QED
  BY <1>1, <1>2, <1>3, <1>4, <1>5, <1>6, <1>7, <1>8, <1>9, <1>10, <1>11, <1>12, <1>13,
     <1>14, <1>15, <1>16, <1>17, <1>18, <1>19
  DEF BdNext, BdStep

\* Every step keeps the table and the callers in agreement.
LEMMA BdMatchStep ==
  ASSUME BdTypeOK, BdTryInv, BdMatchInv, [BdNext]_bdVars
  PROVE  BdMatchInv'
<1> USE BindAssumption DEF BdTypeOK, BdTryInv, BdMatchInv, BeforeMatch, WithMatch, Agreed,
        Quiet, Plugged
<1>1. CASE UNCHANGED <<bdDriver, bdMatch, bdExported, bdInDoubt, bdPC, bdDev, bdTry, bdLock>>
  BY <1>1
<1>2. ASSUME NEW c \in BindCalls, NEW b \in Devices, CallBind(c, b) PROVE BdMatchInv'
  BY <1>2 DEF CallBind, LockBusID, BdGoto, bdKernel, bdTold
<1>3. ASSUME NEW c \in BindCalls, NEW b \in Devices, CallUnbind(c, b) PROVE BdMatchInv'
  BY <1>3 DEF CallUnbind, LockBusID, BdGoto, bdKernel, bdTold
<1>4. ASSUME NEW c \in BindCalls, PreflightBind(c) PROVE BdMatchInv'
  BY <1>4 DEF PreflightBind, BdGoto, Return, MayBind, Continue, bdKernel, bdTold
<1>5. ASSUME NEW c \in BindCalls, DeactivateNetdevs(c) PROVE BdMatchInv'
  BY <1>5 DEF DeactivateNetdevs, BdGoto, Continue, bdTold
<1>6. ASSUME NEW c \in BindCalls, AddMatch(c) PROVE BdMatchInv'
  BY <1>6 DEF AddMatch, BdGoto, Return, Continue, bdTold
<1>7. ASSUME NEW c \in BindCalls, DetachDriver(c) PROVE BdMatchInv'
  BY <1>7 DEF DetachDriver, BdGoto, SetDriver, Continue, Plugged, bdTold
<1>8. ASSUME NEW c \in BindCalls, AttachHost(c) PROVE BdMatchInv'
  BY <1>8 DEF AttachHost, SetDriver, Return, BdGoto, Plugged, Continue
<1>9. ASSUME NEW c \in BindCalls, RollbackMatch(c) PROVE BdMatchInv'
  BY <1>9 DEF RollbackMatch, BdGoto, Continue
<1>10. ASSUME NEW c \in BindCalls, RollbackProbe(c) PROVE BdMatchInv'
  BY <1>10 DEF RollbackProbe, SetDriver, Return, BdGoto, Picked
<1>11. ASSUME NEW c \in BindCalls, PreflightUnbind(c) PROVE BdMatchInv'
  BY <1>11 DEF PreflightUnbind, BdGoto, Return, Continue, bdKernel, bdTold
<1>12. ASSUME NEW c \in BindCalls, PreDisconnect(c) PROVE BdMatchInv'
  BY <1>12 DEF PreDisconnect, BdGoto, Continue, bdTold
<1>13. ASSUME NEW c \in BindCalls, ReleaseHost(c) PROVE BdMatchInv'
  BY <1>13 DEF ReleaseHost, SetDriver, BdGoto
<1>14. ASSUME NEW c \in BindCalls, RemoveMatch(c) PROVE BdMatchInv'
  BY <1>14 DEF RemoveMatch, BdGoto, Return, MayRebind, Continue
<1>15. ASSUME NEW c \in BindCalls, TriggerRebind(c) PROVE BdMatchInv'
  BY <1>15 DEF TriggerRebind, SetDriver, Return, BdGoto, Picked
<1>16. ASSUME NEW b \in Devices, Unplug(b) PROVE BdMatchInv'
  BY <1>16 DEF Unplug, SetDriver, Plugged, bdCall, bdTold
<1>17. ASSUME NEW b \in Devices, Plug(b) PROVE BdMatchInv'
  BY <1>17 DEF Plug, SetDriver, Plugged, Picked, bdCall
<1>18. ASSUME NEW b \in Devices, 
               SessionStarts(b) \/ SessionEnds(b)
     PROVE  UNCHANGED <<bdDriver, bdMatch, bdExported, bdInDoubt, bdPC, bdDev, bdTry, bdLock>>
  BY <1>18 DEF SessionStarts, SessionEnds, Return, Continue, BdGoto, LockBusID, SetDriver,
     bdKernel, bdCall, bdTold
<1>19. ASSUME UNCHANGED bdVars PROVE UNCHANGED <<bdDriver, bdMatch, bdExported, bdInDoubt, bdPC, bdDev, bdTry, bdLock>>
  BY <1>19 DEF bdVars, bdKernel, bdCall, bdTold
<1> HIDE DEF BdMatchInv
<1>20. QED
  BY <1>1, <1>2, <1>3, <1>4, <1>5, <1>6, <1>7, <1>8, <1>9, <1>10, <1>11, <1>12, <1>13,
     <1>14, <1>15, <1>16, <1>17, <1>18, <1>19
  DEF BdNext, BdStep

\* No step leaves a device without a driver unless a probe failed or is still to come.
LEMMA BdDriverStep ==
  ASSUME BdTypeOK, BdTryInv, BdDriverInv, [BdNext]_bdVars
  PROVE  BdDriverInv'
<1> USE BindAssumption DEF BdTypeOK, BdTryInv, BdDriverInv, NoOrphans, BeforeMatch,
        Untouched, Quiet
<1>1. CASE UNCHANGED <<bdDriver, bdNoProbe, bdPC, bdDev, bdTry, bdLock, bdUnbound>>
  BY <1>1
<1>2. ASSUME NEW c \in BindCalls, NEW b \in Devices, CallBind(c, b) PROVE BdDriverInv'
  BY <1>2 DEF CallBind, LockBusID, BdGoto, bdKernel, bdTold
<1>3. ASSUME NEW c \in BindCalls, NEW b \in Devices, CallUnbind(c, b) PROVE BdDriverInv'
  BY <1>3 DEF CallUnbind, LockBusID, BdGoto, bdKernel, bdTold
<1>4. ASSUME NEW c \in BindCalls, PreflightBind(c) PROVE BdDriverInv'
  BY <1>4 DEF PreflightBind, BdGoto, Return, MayBind, Continue, bdKernel, bdTold
<1>5. ASSUME NEW c \in BindCalls, DeactivateNetdevs(c) PROVE BdDriverInv'
  BY <1>5 DEF DeactivateNetdevs, BdGoto, Continue, bdTold
<1>6. ASSUME NEW c \in BindCalls, AddMatch(c) PROVE BdDriverInv'
  BY <1>6 DEF AddMatch, BdGoto, Return, Continue, bdTold
<1>7. ASSUME NEW c \in BindCalls, DetachDriver(c) PROVE BdDriverInv'
  BY <1>7 DEF DetachDriver, BdGoto, SetDriver, Continue, Plugged, bdTold
<1>8. ASSUME NEW c \in BindCalls, AttachHost(c) PROVE BdDriverInv'
  BY <1>8 DEF AttachHost, SetDriver, Return, BdGoto, Plugged, Continue
<1>9. ASSUME NEW c \in BindCalls, RollbackMatch(c) PROVE BdDriverInv'
  BY <1>9 DEF RollbackMatch, BdGoto, Continue
<1>10. ASSUME NEW c \in BindCalls, RollbackProbe(c) PROVE BdDriverInv'
  BY <1>10 DEF RollbackProbe, SetDriver, Return, BdGoto, Picked
<1>11. ASSUME NEW c \in BindCalls, PreflightUnbind(c) PROVE BdDriverInv'
  BY <1>11 DEF PreflightUnbind, BdGoto, Return, Continue, bdKernel, bdTold
<1>12. ASSUME NEW c \in BindCalls, PreDisconnect(c) PROVE BdDriverInv'
  BY <1>12 DEF PreDisconnect, BdGoto, Continue, bdTold
<1>13. ASSUME NEW c \in BindCalls, ReleaseHost(c) PROVE BdDriverInv'
  BY <1>13 DEF ReleaseHost, SetDriver, BdGoto
<1>14. ASSUME NEW c \in BindCalls, RemoveMatch(c) PROVE BdDriverInv'
  BY <1>14 DEF RemoveMatch, BdGoto, Return, MayRebind, Continue
<1>15. ASSUME NEW c \in BindCalls, TriggerRebind(c) PROVE BdDriverInv'
  BY <1>15 DEF TriggerRebind, SetDriver, Return, BdGoto, Picked
<1>16. ASSUME NEW b \in Devices, Unplug(b) PROVE BdDriverInv'
  BY <1>16 DEF Unplug, SetDriver, Plugged, bdCall, bdTold
<1>17. ASSUME NEW b \in Devices, Plug(b) PROVE BdDriverInv'
  BY <1>17 DEF Plug, SetDriver, Plugged, Picked, bdCall
<1>18. ASSUME NEW b \in Devices, 
               SessionStarts(b) \/ SessionEnds(b)
     PROVE  UNCHANGED <<bdDriver, bdNoProbe, bdPC, bdDev, bdTry, bdLock, bdUnbound>>
  BY <1>18 DEF SessionStarts, SessionEnds, Return, Continue, BdGoto, LockBusID, SetDriver,
     bdKernel, bdCall, bdTold
<1>19. ASSUME UNCHANGED bdVars PROVE UNCHANGED <<bdDriver, bdNoProbe, bdPC, bdDev, bdTry, bdLock, bdUnbound>>
  BY <1>19 DEF bdVars, bdKernel, bdCall, bdTold
<1> HIDE DEF BdDriverInv
<1>20. QED
  BY <1>1, <1>2, <1>3, <1>4, <1>5, <1>6, <1>7, <1>8, <1>9, <1>10, <1>11, <1>12, <1>13,
     <1>14, <1>15, <1>16, <1>17, <1>18, <1>19
  DEF BdNext, BdStep

\* BdInv is an invariant.
LEMMA BdInvariant == BdSpec => []BdInv
<1>1. BdInit => BdInv
  <2> SUFFICES ASSUME BdInit PROVE BdInv
    OBVIOUS
  <2>1. (CHOOSE b \in Devices : TRUE) \in Devices
    BY BindAssumption
  <2>2. BdTypeOK
    <3>1. bdDev \in [BindCalls -> Devices] /\ bdPC \in [BindCalls -> BdStates]
      BY <2>1 DEF BdInit, BdStates
    <3>2. bdTry \in [BindCalls -> 0..RetryAttempts] /\ bdUnbound \in [BindCalls -> BOOLEAN]
      BY BindAssumption DEF BdInit
    <3>3. bdDriver \in [Devices -> Drivers] /\ bdLock \in [Devices -> BindCalls \cup {Free}]
      BY DEF BdInit, Drivers
    <3>4. \A c \in BindCalls : bdPC[c] = "idle" /\ bdLock[bdDev[c]] = Free /\ c # Free
      BY <3>1, BindAssumption DEF BdInit
    <3>5. QED BY <3>1, <3>2, <3>3, <3>4 DEF BdInit, BdTypeOK
  <2>3. BdTryInv /\ BdHubInv /\ BdLiveInv
    BY <2>1, BindAssumption DEF BdInit, BdTryInv, BdHubInv, BdLiveInv, BeforeMatch
  <2>4. BdMatchInv /\ BdDriverInv
    BY <2>1 DEF BdInit, BdMatchInv, BdDriverInv, BeforeMatch, WithMatch, Agreed, Untouched, NoOrphans
  <2>5. QED BY <2>2, <2>3, <2>4 DEF BdInv
<1>2. BdInv /\ [BdNext]_bdVars => BdInv'
  BY BdTypeStep, BdTryStep, BdHubStep, BdLiveStep, BdMatchStep, BdDriverStep DEF BdInv
<1>3. QED
  BY <1>1, <1>2, PTL DEF BdSpec

\* Whatever writes fail, whatever is unplugged, plugged in again or imported meanwhile, and
\* however many calls of Bind and Unbind run for however many devices: the match_busid table
\* says what callers were told, no device is left without a driver, rebind never reaches a
\* dead stub, and hubs keep their driver.
THEOREM BindSafe == BdSpec => BindIsSafe
<1>1. BdInv => MatchTableIsTrue /\ NoOrphans /\ NeverOopses
  BY DEF BdInv, BdMatchInv, BdDriverInv, BdLiveInv, MatchTableIsTrue, Agreed, NeverOopses
<1>2. BdInv /\ BdInv' => \A b \in Untouchable : bdDriver'[b] # bdDriver[b] =>
                            bdDriver[b] = "gone" \/ bdDriver'[b] = "gone"
  BY DEF BdInv, BdHubInv
<1>3. QED
  BY <1>1, <1>2, BdInvariant, PTL DEF BindIsSafe, HubsKeepTheirDriver

-----------------------------------------------------------------------------
(* The import exchange.                                                    *)

WiSpec == WiInit /\ [][WiNext]_wiVars

\* The peers of an import: one device, one reason, and a field our client padded.
Device == wiDevices[1]

WiPeerInv ==
    /\ wiOp \in {"devlist", "import"} /\ wiFault \in Faults /\ wiOurs \in BOOLEAN
    /\ wiReason \in {"ok", "notfound", "busy", "error"}
    /\ wiOp = "import" =>
          /\ DOMAIN wiDevices = {1} /\ Device.id # "badspeed"
          /\ wiSentBusID \in RawBusIDs
          /\ wiField \in [1..FieldSize -> Bytes]
          /\ wiOurs => wiField = Padded(wiSentBusID)

\* The reply to an import, as it stands on the wire.
ReplyStatus == IF wiReason = "ok" THEN 0 ELSE ImportStatus(wiReason)
ReplyHeader == Unit("hdr", ReplyStatus, "import")
ReplyDevice == Unit("dev", Device.num, Device.id)
HeaderUnit == Faulty(ReplyHeader)
DeviceUnit == Faulty(ReplyDevice)
Urb == Unit("urb", 0, "none")
HasDevice == wiReason = "ok" /\ ~Device.long

\* The request on its way to the exporter.
WiRequestInv ==
    /\ wiExp = "hdr" => wiUp = << >> \/ wiUp = <<Unit("hdr", 0, "import"), Unit("field", 0, "none")>>
    /\ wiExp = "body" => wiUp = <<Unit("field", 0, "none")>>
    /\ wiImp = "idle" => wiExp = "hdr" /\ wiUp = << >>

\* What the exporter has written of its reply, and what it has still to write.
WiReplyInv ==
    /\ wiExp \in {"hdr", "body", "reply", "kernel", "closed"}
    /\ wiExp \in {"hdr", "body"} => wiDown = << >> /\ wiReply = << >> /\ wiBusID = << >>
    /\ wiExp = "reply" =>
          \/ wiDown = << >> /\ wiReply = IF HasDevice THEN <<ReplyHeader, ReplyDevice>> ELSE <<ReplyHeader>>
          \/ wiDown = <<HeaderUnit>> /\ wiReply = IF HasDevice THEN <<ReplyDevice>> ELSE << >>
          \/ wiDown = <<HeaderUnit, DeviceUnit>> /\ wiReply = << >> /\ HasDevice
    /\ wiExp = "kernel" => HasDevice /\ Len(wiDown) >= 2 /\ wiReply = << >>
    /\ wiExp = "closed" => wiReply = << >>
    /\ wiDownEnd <=> wiExp = "closed"
    /\ wiCut => wiExp = "closed"

\* The stream towards the importer: the header, the device, then the kernel's own units; a cut
\* leaves part of the unit that was under way.
WiStreamInv ==
    /\ wiDown \in Seq({HeaderUnit, DeviceUnit, Part, Urb})
    /\ Len(wiDown) >= 1 => wiDown[1] = HeaderUnit \/ (wiDown = <<Part>> /\ wiCut)
    /\ Len(wiDown) >= 2 => \/ HasDevice /\ wiDown[2] = DeviceUnit
                           \/ HasDevice /\ wiDown[2] = Part /\ Len(wiDown) = 2 /\ wiCut
    /\ \A i \in DOMAIN wiDown : i > 2 => wiDown[i] = Urb
    /\ wiExp = "closed" /\ ~wiCut =>
          \/ wiDown = << >> /\ ~wiOurs
          \/ wiDown = <<HeaderUnit>> /\ ~HasDevice

\* Where the importer's decoder is in it.
WiDecodeInv ==
    /\ wiRead = wiFetched
    /\ wiImp \in {"idle", "hdr"} => wiRead = 0 /\ wiGot = << >>
    /\ wiImp \notin {"count", "intf"}
    /\ wiImp = "dev" => /\ wiRead = 1 /\ wiGot = << >> /\ Len(wiDown) >= 1
                        /\ wiDown[1] = ReplyHeader /\ wiReason = "ok"
    /\ wiImp = "ok" => /\ wiRead = 2 /\ Len(wiDown) >= 2 /\ HasDevice
                       /\ wiGot = <<[id |-> Device.id, num |-> Device.num, ifs |-> << >>]>>

WiInv ==
    /\ WiPeerInv
    /\ wiOp = "import" =>
          WiRequestInv /\ WiReplyInv /\ WiStreamInv /\ WiDecodeInv /\ RefusalsAreTrue /\ BusIDArrives

\* The peers do not change, nor does what they would say.
LEMMA WiPeerStep ==
  ASSUME WiPeerInv, [WiNext]_wiVars
  PROVE  /\ UNCHANGED wiPeer /\ WiPeerInv'
         /\ UNCHANGED <<Device, ReplyHeader, ReplyDevice, HeaderUnit, DeviceUnit, HasDevice>>
<1>1. UNCHANGED wiPeer
  BY DEF WiNext, wiVars, SendRequest, Cut, ReadRequestHeader, ReadImportBody, WriteUnit, Replied,
         KernelSends, StreamEnds, DecodeHeader, DecodeCount, DecodeDevice, DecodeInterface
<1>2. UNCHANGED <<wiOp, wiSentBusID, wiField, wiOurs, wiFault, wiDevices, wiReason>>
  BY <1>1 DEF wiPeer
<1>3. WiPeerInv'
  BY <1>2 DEF WiPeerInv, Device
<1>4. UNCHANGED <<Device, ReplyHeader, ReplyDevice, HasDevice>>
  BY <1>2 DEF Device, ReplyHeader, ReplyDevice, HasDevice, ReplyStatus
<1>5. UNCHANGED <<HeaderUnit, DeviceUnit>>
  BY <1>2, <1>4 DEF HeaderUnit, DeviceUnit, Faulty
<1>6. QED BY <1>1, <1>3, <1>4, <1>5

\* What the importer makes of the header it may meet.
LEMMA HeaderFacts ==
  ASSUME WiPeerInv, wiOp = "import"
  PROVE  /\ HeaderUnit.t = "hdr"
         /\ HeaderVerdict(HeaderUnit) \in {"mismatch", "protoerr", "notfound", "busy", "unavailable", "dev"}
         /\ HeaderVerdict(HeaderUnit) \in {"mismatch", "protoerr"} => wiFault # "none"
         /\ HeaderVerdict(HeaderUnit) = "notfound" => wiReason = "notfound"
         /\ HeaderVerdict(HeaderUnit) = "busy" => wiReason = "busy"
         /\ HeaderVerdict(HeaderUnit) = "unavailable" => wiReason = "error"
         /\ HeaderVerdict(HeaderUnit) = "dev" => HeaderUnit = ReplyHeader /\ wiReason = "ok"
<1>1. /\ ReplyHeader = [t |-> "hdr", n |-> ReplyStatus, v |-> "import"]
      /\ wiReason = "ok" => ReplyStatus = 0
      /\ wiReason = "notfound" => ReplyStatus = 1
      /\ wiReason = "busy" => ReplyStatus = 2
      /\ wiReason = "error" => ReplyStatus = 3
  BY DEF ReplyHeader, Unit, ReplyStatus, ImportStatus
<1>2. wiReason \in {"ok", "notfound", "busy", "error"}
  BY DEF WiPeerInv
<1>3. CASE wiFault = "version"
  <2>1. HeaderUnit = [t |-> "hdr", n |-> ReplyStatus, v |-> "version"]
    BY <1>1, <1>3 DEF HeaderUnit, Faulty
  <2> QED BY <1>3, <2>1 DEF HeaderVerdict
<1>4. CASE wiFault = "opcode"
  <2>1. HeaderUnit = [t |-> "hdr", n |-> ReplyStatus, v |-> "other"]
    BY <1>1, <1>4 DEF HeaderUnit, Faulty
  <2> QED BY <1>4, <2>1 DEF HeaderVerdict
<1>5. CASE wiFault = "status"
  <2>1. HeaderUnit = [t |-> "hdr", n |-> 9, v |-> "import"]
    BY <1>1, <1>5 DEF HeaderUnit, Faulty
  <2> QED BY <1>5, <2>1 DEF HeaderVerdict, MapImportStatus
<1>6. CASE wiFault \notin {"version", "opcode", "status"}
  <2>1. HeaderUnit = ReplyHeader
    BY <1>1, <1>6 DEF HeaderUnit, Faulty
  <2> QED BY <1>1, <1>2, <2>1 DEF HeaderVerdict, MapImportStatus
<1>7. QED BY <1>3, <1>4, <1>5, <1>6

\* And of the device.
LEMMA DeviceFacts ==
  ASSUME WiPeerInv, wiOp = "import"
  PROVE  /\ DeviceUnit.t = "dev"
         /\ DeviceUnit.v = "badspeed" => wiFault # "none"
         /\ DeviceUnit.v # "badspeed" => DeviceUnit = ReplyDevice
         /\ ReplyDevice = [t |-> "dev", n |-> Device.num, v |-> Device.id]
<1>1. ReplyDevice = [t |-> "dev", n |-> Device.num, v |-> Device.id] /\ Device.id # "badspeed"
  BY DEF ReplyDevice, Unit, WiPeerInv
<1>2. CASE wiFault = "speed"
  <2>1. DeviceUnit = [t |-> "dev", n |-> Device.num, v |-> "badspeed"]
    BY <1>1, <1>2 DEF DeviceUnit, Faulty
  <2> QED BY <1>1, <1>2, <2>1
<1>3. CASE wiFault # "speed"
  <2>1. DeviceUnit = ReplyDevice
    BY <1>1, <1>3 DEF DeviceUnit, Faulty
  <2> QED BY <1>1, <2>1
<1>4. QED BY <1>2, <1>3

\* The units differ in type.
LEMMA UnitTypes == Part.t = "part" /\ Urb.t = "urb"
  BY DEF Part, Urb, Unit

\* Sequences of one or two.
LEMMA ShortSequences ==
  ASSUME NEW a, NEW b
  PROVE  /\ <<a>> \o <<b>> = <<a, b>> /\ <<a>> \o << >> = <<a>>
         /\ Append(<<a>>, b) = <<a, b>> /\ Append(<< >>, a) = <<a>>
         /\ Head(<<a, b>>) = a /\ Tail(<<a, b>>) = <<b>> /\ Head(<<a>>) = a /\ Tail(<<a>>) = << >>
<1>1. <<a>> \in Seq({a, b}) /\ <<b>> \in Seq({a, b}) /\ << >> \in Seq({a, b})
  OBVIOUS
<1>2. <<a>> \o << >> = <<a>>
  BY <1>1, ConcatEmptySeq
<1>3. <<a>> \o <<b>> = Append(<<a>>, b)
  BY <1>1, AppendIsConcat
<1>4. Append(<<a>>, b) = <<a, b>>
  <2> DEFINE s == Append(<<a>>, b)
  <2>1. s \in Seq({a, b}) /\ Len(s) = 2 /\ s[1] = a /\ s[2] = b
    BY <1>1, AppendProperties
  <2>2. <<a, b>> \in Seq({a, b}) /\ Len(<<a, b>>) = 2
    OBVIOUS
  <2> HIDE DEF s
  <2>3. \A i \in 1..2 : s[i] = <<a, b>>[i]
    BY <2>1
  <2> QED BY <2>1, <2>2, <2>3, SeqEqual DEF s
<1>5. Append(<< >>, a) = <<a>> /\ Head(<<a>>) = a /\ Tail(<<a>>) = << >>
  OBVIOUS
<1>6. Head(<<a, b>>) = a /\ Tail(<<a, b>>) = <<b>>
  OBVIOUS
<1>7. QED BY <1>2, <1>3, <1>4, <1>5, <1>6

\* The exporter's reply to an import, as the encoders build it.
LEMMA ReplyUnits ==
  ASSUME WiPeerInv, wiOp = "import"
  PROVE  /\ Encodable(wiDevices) <=> ~Device.long
         /\ (IF wiReason = "ok" THEN OpRepImport(wiDevices[1]) ELSE OpRepImportError(ImportStatus(wiReason)))
            = IF HasDevice THEN <<ReplyHeader, ReplyDevice>> ELSE <<ReplyHeader>>
<1>1. Encodable(wiDevices) <=> ~Device.long
  BY DEF WiPeerInv, Encodable, Device
<1>2. OpRepImport(Device) = IF Device.long THEN <<Unit("hdr", 0, "import")>>
                            ELSE <<Unit("hdr", 0, "import"), Unit("dev", Device.num, Device.id)>>
  <2>1. \A a, b : <<a>> \o <<b>> = <<a, b>> /\ <<a>> \o << >> = <<a>>
    BY ShortSequences
  <2> QED BY <2>1 DEF OpRepImport
<1>3. QED
  BY <1>1, <1>2 DEF HasDevice, ReplyHeader, ReplyDevice, ReplyStatus, OpRepImportError, Device

\* The request arrives once and in order.
LEMMA WiRequestStep ==
  ASSUME wiOp = "import", WiPeerInv, WiRequestInv, [WiNext]_wiVars
  PROVE  WiRequestInv'
<1> USE DEF WiRequestInv, Results
<1>1. CASE UNCHANGED <<wiExp, wiUp, wiImp>>
  BY <1>1
<1>2. ASSUME SendRequest PROVE WiRequestInv'
  BY <1>2 DEF SendRequest, wiPeer
<1>3. ASSUME Cut PROVE WiRequestInv'
  BY <1>3 DEF Cut, wiPeer, wiImpVars
<1>4. ASSUME ReadRequestHeader PROVE WiRequestInv'
  <2>1. /\ wiExp = "hdr" /\ wiUp = <<Unit("hdr", 0, "import"), Unit("field", 0, "none")>>
        /\ wiUp' = Tail(wiUp) /\ wiImp' = wiImp
    BY <1>4 DEF ReadRequestHeader, wiImpVars
  <2>2. Head(wiUp).v = "import" /\ wiUp' = <<Unit("field", 0, "none")>>
    BY <2>1 DEF Unit
  <2>3. wiExp' = "body" /\ wiImp # "idle"
    BY <1>4, <2>1, <2>2 DEF ReadRequestHeader
  <2> QED BY <2>1, <2>2, <2>3
<1>5. ASSUME ReadImportBody PROVE WiRequestInv'
  BY <1>5 DEF ReadImportBody, ExpClose, wiPeer, wiImpVars
<1>6. ASSUME Replied PROVE WiRequestInv'
  BY <1>6 DEF Replied, ExpClose, wiPeer, wiImpVars
<1>7. ASSUME StreamEnds PROVE WiRequestInv'
  BY <1>7 DEF StreamEnds, wiPeer, wiExpVars
<1>8. ASSUME DecodeHeader PROVE WiRequestInv'
  <2>1. UNCHANGED <<wiExp, wiUp>> /\ wiImp = "hdr" /\ wiImp' = HeaderVerdict(Next1)
    BY <1>8 DEF DecodeHeader, wiExpVars
  <2>2. HeaderVerdict(Next1) # "idle"
    BY DEF HeaderVerdict, MapImportStatus
  <2> QED BY <2>1, <2>2
<1>9. ASSUME DecodeCount PROVE WiRequestInv'
  BY <1>9 DEF DecodeCount, Consume, wiPeer, wiExpVars
<1>10. ASSUME DecodeDevice PROVE WiRequestInv'
  <2>1. UNCHANGED <<wiExp, wiUp>> /\ wiImp' # "idle"
    BY <1>10 DEF DecodeDevice, wiExpVars, AfterDevice
  <2> QED BY <2>1
<1>11. ASSUME DecodeInterface PROVE WiRequestInv'
  <2>1. UNCHANGED <<wiExp, wiUp>> /\ wiImp' # "idle"
    BY <1>11 DEF DecodeInterface, wiExpVars, AfterDevice
  <2> QED BY <2>1
<1>12. ASSUME WriteUnit \/ KernelSends
     PROVE  UNCHANGED <<wiExp, wiUp, wiImp>>
  BY <1>12 DEF WriteUnit, KernelSends, wiPeer, wiExpVars, wiImpVars, Consume, ExpClose
<1>13. ASSUME UNCHANGED wiVars PROVE UNCHANGED <<wiExp, wiUp, wiImp>>
  BY <1>13 DEF wiVars, wiPeer, wiExpVars, wiImpVars
<1> HIDE DEF WiRequestInv
<1>14. QED
  BY <1>1, <1>2, <1>3, <1>4, <1>5, <1>6, <1>7, <1>8, <1>9, <1>10, <1>11, <1>12, <1>13
  DEF WiNext

\* A busid our client pads is accepted, and comes out of the field as it went in.
LEMMA OurBusIDArrives ==
  ASSUME NEW s \in RawBusIDs
  PROVE  BusIDAccepted(Padded(s)) /\ PaddedStringFromBytes(Padded(s)).s = s
<1>1. PICK n \in 1..FieldSize - 1 : s \in [1..n -> {"id"}]
  BY DEF RawBusIDs
<1>2. /\ FieldSize \in Nat /\ n \in Nat /\ n >= 1 /\ n < FieldSize
      /\ s \in Seq({"id"}) /\ Len(s) = n /\ s # << >> /\ \A i \in 1..n : s[i] = "id"
  BY <1>1, WireAssumption
<1> DEFINE f == Padded(s)
<1>3. DOMAIN f = 1..FieldSize /\ \A i \in 1..FieldSize : f[i] = IF i <= n THEN "id" ELSE "nul"
  BY <1>2 DEF Padded
<1> HIDE DEF f
<1>4. Stops(f) = n + 1..FieldSize
  BY <1>2, <1>3 DEF Stops, Printable
<1>5. Stop(f) = n + 1
  <2>1. n + 1 \in Stops(f) /\ \A j \in Stops(f) : n + 1 <= j
    BY <1>2, <1>4
  <2>2. Stop(f) \in Stops(f) /\ \A j \in Stops(f) : Stop(f) <= j
    BY <2>1 DEF Stop
  <2>3. Stop(f) <= n + 1 /\ n + 1 <= Stop(f) /\ Stop(f) \in Int
    BY <1>2, <1>4, <2>1, <2>2
  <2> QED BY <1>2, <2>3
<1>6. SubSeq(f, 1, n) = s
  <2>1. SubSeq(f, 1, n) = [i \in 1..n |-> f[i]]
    <3>1. f \in Seq({"id", "nul"})
      <4>1. f = [i \in 1..FieldSize |-> f[i]]
        BY DEF f, Padded
      <4> QED BY <1>2, <1>3, <4>1
    <3>2. n \in 1..Len(f)
      BY <1>2, <1>3, <3>1
    <3>3. /\ SubSeq(f, 1, n) \in Seq({"id", "nul"}) /\ Len(SubSeq(f, 1, n)) = n
          /\ \A i \in 1..n : SubSeq(f, 1, n)[i] = f[i]
      BY <1>2, <3>1, <3>2, SubSeqProperties
    <3> QED BY <1>2, <3>3
  <2>2. s = [i \in 1..n |-> s[i]]
    BY <1>1
  <2> QED BY <1>2, <1>3, <2>1, <2>2
<1>7. PaddedStringFromBytes(f) = [s |-> s, truncated |-> FALSE]
  <2>1. n + 1 \in 1..FieldSize /\ ~(n + 1 <= n) /\ (n + 1) - 1 = n /\ n + 1 \in n + 1..FieldSize
    BY <1>2
  <2>2. Stops(f) # {} /\ f[Stop(f)] = "nul" /\ Stop(f) - 1 = n
    BY <1>3, <1>4, <1>5, <2>1
  <2> QED BY <1>6, <2>2 DEF PaddedStringFromBytes
<1>8. ValidWireBusID(s)
  BY <1>2 DEF ValidWireBusID, Fits
<1>9. QED BY <1>7, <1>8 DEF BusIDAccepted, f

\* A busid that is accepted is a run of busid runes that a NUL ends.
LEMMA AcceptedBusID ==
  ASSUME NEW f \in [1..FieldSize -> Bytes], BusIDAccepted(f)
  PROVE  LET s == PaddedStringFromBytes(f).s
         IN  /\ ValidWireBusID(s)
             /\ \E i \in 2..FieldSize : f[i] = "nul" /\ s = SubSeq(f, 1, i - 1)
<1> DEFINE s == PaddedStringFromBytes(f).s
<1>1. ValidWireBusID(s) /\ ~PaddedStringFromBytes(f).truncated
  BY DEF BusIDAccepted
<1>2. Stops(f) # {}
  BY <1>1 DEF PaddedStringFromBytes
<1>3. Stops(f) \subseteq 1..FieldSize /\ FieldSize \in Nat
  BY WireAssumption DEF Stops
<1>4. Stop(f) \in Stops(f)
  BY <1>2, <1>3, MinExists DEF Stop
<1>5. s = SubSeq(f, 1, Stop(f) - 1) /\ f[Stop(f)] = "nul"
  BY <1>1, <1>2 DEF PaddedStringFromBytes
<1>6. Stop(f) # 1
  <2>1. SubSeq(f, 1, 0) = << >>
    <3>1. f \in Seq(Bytes)
      BY <1>3
    <3> QED BY <3>1
  <2>2. s # << >>
    BY <1>1 DEF ValidWireBusID
  <2> QED BY <1>5, <2>1, <2>2
<1>7. Stop(f) \in 2..FieldSize
  BY <1>3, <1>4, <1>6
<1> HIDE DEF s
<1>8. QED BY <1>1, <1>5, <1>7 DEF s

\* The reply goes out unit by unit and stops with the connection.
LEMMA WiReplyStep ==
  ASSUME wiOp = "import", WiPeerInv, WiRequestInv, WiReplyInv, WiStreamInv, [WiNext]_wiVars
  PROVE  WiReplyInv'
<1> USE WiPeerStep DEF WiReplyInv
<1>1. CASE UNCHANGED <<wiExp, wiDown, wiReply, wiBusID, wiDownEnd, wiCut, HasDevice, HeaderUnit, DeviceUnit, ReplyHeader, ReplyDevice>>
  BY <1>1
<1>2. ASSUME Cut PROVE WiReplyInv'
  BY <1>2 DEF Cut, wiPeer, wiImpVars
<1>3. ASSUME ReadRequestHeader PROVE WiReplyInv'
  <2>1. wiExp = "hdr" /\ wiUp = <<Unit("hdr", 0, "import"), Unit("field", 0, "none")>>
    BY <1>3 DEF ReadRequestHeader, WiRequestInv
  <2>2. Head(wiUp).v = "import"
    BY <2>1 DEF Unit
  <2>3. wiExp' = "body" /\ UNCHANGED <<wiReply, wiDown, wiDownEnd, wiBusID, wiCut>>
    BY <1>3, <2>2 DEF ReadRequestHeader
  <2> QED BY <2>1, <2>3
<1>4. ASSUME ReadImportBody PROVE WiReplyInv'
  <2>1. wiExp = "body" /\ UNCHANGED <<wiDown, wiCut>>
    BY <1>4 DEF ReadImportBody
  <2>2. CASE BusIDAccepted(wiField)
    <3>1. wiExp' = "reply" /\ UNCHANGED wiDownEnd
      BY <1>4, <2>2 DEF ReadImportBody
    <3>2. wiReply' = IF HasDevice THEN <<ReplyHeader, ReplyDevice>> ELSE <<ReplyHeader>>
      BY <1>4, <2>2, ReplyUnits DEF ReadImportBody
    <3> QED BY <2>1, <3>1, <3>2
  <2>3. CASE ~BusIDAccepted(wiField)
    BY <1>4, <2>1, <2>3 DEF ReadImportBody, ExpClose
  <2> QED BY <2>2, <2>3
<1>5. ASSUME WriteUnit PROVE WiReplyInv'
  <2>1. /\ wiExp = "reply" /\ wiReply # << >> /\ wiDown' = Append(wiDown, Faulty(Head(wiReply)))
        /\ wiReply' = Tail(wiReply) /\ UNCHANGED <<wiExp, wiDownEnd, wiBusID, wiCut>>
    BY <1>5 DEF WriteUnit
  <2>2. CASE wiDown = << >> /\ wiReply = IF HasDevice THEN <<ReplyHeader, ReplyDevice>> ELSE <<ReplyHeader>>
    <3>1. Head(wiReply) = ReplyHeader /\ Tail(wiReply) = IF HasDevice THEN <<ReplyDevice>> ELSE << >>
      BY <2>2, ShortSequences
    <3>2. wiDown' = <<HeaderUnit>>
      <4>1. wiDown' = Append(<< >>, HeaderUnit)
        BY <2>1, <2>2, <3>1 DEF HeaderUnit
      <4> QED BY <4>1, ShortSequences
    <3>3. UNCHANGED <<HasDevice, HeaderUnit, DeviceUnit, ReplyHeader, ReplyDevice>>
      BY WiPeerStep
    <3>4. wiDown' = <<HeaderUnit'>> /\ wiReply' = IF HasDevice' THEN <<ReplyDevice'>> ELSE << >>
      BY <2>1, <3>1, <3>2, <3>3
    <3> QED BY <2>1, <3>4
  <2>3. CASE wiDown = <<HeaderUnit>> /\ wiReply = IF HasDevice THEN <<ReplyDevice>> ELSE << >>
    <3>1. HasDevice /\ Head(wiReply) = ReplyDevice /\ Tail(wiReply) = << >>
      BY <2>1, <2>3, ShortSequences
    <3>2. wiDown' = <<HeaderUnit, DeviceUnit>>
      <4>1. wiDown' = Append(<<HeaderUnit>>, DeviceUnit)
        BY <2>1, <2>3, <3>1 DEF DeviceUnit
      <4> QED BY <4>1, ShortSequences
    <3> QED BY <2>1, <3>1, <3>2
  <2>4. QED BY <2>1, <2>2, <2>3
<1>6. ASSUME Replied PROVE WiReplyInv'
  <2>1. wiExp = "reply" /\ wiReply = << >> /\ UNCHANGED <<wiReply, wiDown, wiBusID, wiCut>>
    BY <1>6 DEF Replied
  <2>9. Encodable(wiDevices) <=> ~Device.long
    BY ReplyUnits
  <2>2. CASE HasDevice
    <3>1. wiDown = <<HeaderUnit, DeviceUnit>>
      BY <2>1, <2>2
    <3>2. wiExp' = "kernel" /\ UNCHANGED wiDownEnd
      BY <1>6, <2>2, <2>9 DEF Replied, HasDevice
    <3>3. HasDevice' /\ Len(wiDown') = 2
      BY <2>1, <2>2, <3>1, WiPeerStep
    <3> QED BY <2>1, <3>2, <3>3
  <2>3. CASE ~HasDevice
    <3>1. wiExp' = "closed" /\ wiDownEnd' = TRUE
      BY <1>6, <2>3, <2>9 DEF Replied, HasDevice, ExpClose
    <3> QED BY <2>1, <3>1
  <2> QED BY <2>2, <2>3
<1>7. ASSUME KernelSends PROVE WiReplyInv'
  <2>1. /\ wiExp = "kernel" /\ wiDown' = Append(wiDown, Urb)
        /\ UNCHANGED <<wiExp, wiReply, wiDownEnd, wiBusID, wiCut>>
    BY <1>7 DEF KernelSends, Urb
  <2>2. Len(wiDown') >= 2
    BY <2>1, WiStreamInv DEF WiStreamInv
  <2> QED BY <2>1, <2>2
<1>8. ASSUME SendRequest \/ StreamEnds \/ DecodeHeader \/ DecodeCount \/ DecodeDevice
            \/ DecodeInterface
     PROVE  UNCHANGED <<wiExp, wiDown, wiReply, wiBusID, wiDownEnd, wiCut, HasDevice, HeaderUnit, DeviceUnit, ReplyHeader, ReplyDevice>>
  BY <1>8 DEF SendRequest, StreamEnds, DecodeHeader, DecodeCount, DecodeDevice,
     DecodeInterface, wiPeer, wiExpVars, wiImpVars, Consume, ExpClose
<1>9. ASSUME UNCHANGED wiVars PROVE UNCHANGED <<wiExp, wiDown, wiReply, wiBusID, wiDownEnd, wiCut, HasDevice, HeaderUnit, DeviceUnit, ReplyHeader, ReplyDevice>>
  BY <1>9 DEF wiVars, wiPeer, wiExpVars, wiImpVars
<1> HIDE DEF WiReplyInv
<1>10. QED
  BY <1>1, <1>2, <1>3, <1>4, <1>5, <1>6, <1>7, <1>8, <1>9
  DEF WiNext

\* What is on the wire stays, and at most one unit is added to it.
LEMMA StreamGrows ==
  ASSUME WiStreamInv, [WiNext]_wiVars
  PROVE  /\ wiDown \in Seq({HeaderUnit, DeviceUnit, Part, Urb}) /\ Len(wiDown) \in Nat
         /\ \/ wiDown' = wiDown
            \/ \E u : wiDown' = Append(wiDown, u)
         /\ Len(wiDown') >= Len(wiDown)
         /\ \A i \in 1..Len(wiDown) : wiDown'[i] = wiDown[i]
<1>1. wiDown \in Seq({HeaderUnit, DeviceUnit, Part, Urb}) /\ Len(wiDown) \in Nat
  BY DEF WiStreamInv
<1>2. wiDown' = wiDown \/ \E u : wiDown' = Append(wiDown, u)
  BY DEF WiNext, wiVars, wiPeer, wiExpVars, wiImpVars, SendRequest, Cut, ReadRequestHeader,
         ReadImportBody, WriteUnit, Replied, KernelSends, StreamEnds, DecodeHeader, DecodeCount,
         DecodeDevice, DecodeInterface
<1>3. ASSUME NEW u, wiDown' = Append(wiDown, u)
      PROVE  Len(wiDown') >= Len(wiDown) /\ \A i \in 1..Len(wiDown) : wiDown'[i] = wiDown[i]
  <2>1. wiDown \in Seq({HeaderUnit, DeviceUnit, Part, Urb, u})
    BY <1>1
  <2> QED BY <1>1, <1>3, <2>1, AppendProperties
<1>4. QED BY <1>1, <1>2, <1>3

\* The stream is the header, the device, the kernel's units, and what a cut leaves of one.
LEMMA WiStreamStep ==
  ASSUME wiOp = "import", WiPeerInv, WiRequestInv, WiReplyInv, WiStreamInv, [WiNext]_wiVars
  PROVE  WiStreamInv'
<1> USE WiPeerStep DEF WiStreamInv
<1>1. CASE UNCHANGED <<wiExp, wiDown, wiCut, wiOurs, HasDevice, HeaderUnit, DeviceUnit>>
  BY <1>1
<1>2. ASSUME Cut PROVE WiStreamInv'
  <2>1. wiCut' /\ wiExp' = "closed" /\ wiExp # "closed" /\ ~wiCut
    BY <1>2 DEF Cut, WiReplyInv
  <2>2. UNCHANGED <<HasDevice, HeaderUnit, DeviceUnit>>
    BY WiPeerStep
  <2>3. CASE UNCHANGED wiDown
    BY <2>1, <2>2, <2>3
  <2>4. CASE wiReply # << >> /\ wiDown' = Append(wiDown, Part)
    <3>1. \/ wiDown = << >>
          \/ wiDown = <<HeaderUnit>> /\ HasDevice
      BY <2>1, <2>4 DEF WiReplyInv
    <3>2. CASE wiDown = << >>
      <4>1. wiDown' = <<Part>>
        BY <2>4, <3>2, ShortSequences
      <4>2. wiDown' \in Seq({HeaderUnit', DeviceUnit', Part, Urb}) /\ Len(wiDown') = 1
        BY <4>1
      <4> QED BY <2>1, <4>1, <4>2
    <3>3. CASE wiDown = <<HeaderUnit>> /\ HasDevice
      <4>1. wiDown' = <<HeaderUnit, Part>>
        BY <2>4, <3>3, ShortSequences
      <4>2. /\ wiDown' \in Seq({HeaderUnit', DeviceUnit', Part, Urb}) /\ Len(wiDown') = 2
            /\ wiDown'[1] = HeaderUnit' /\ wiDown'[2] = Part /\ HasDevice'
        BY <2>2, <3>3, <4>1
      <4> QED BY <2>1, <4>2
    <3> QED BY <3>1, <3>2, <3>3
  <2> QED BY <1>2, <2>3, <2>4 DEF Cut
<1>3. ASSUME ReadRequestHeader PROVE WiStreamInv'
  <2>1. wiExp = "hdr" /\ wiUp = <<Unit("hdr", 0, "import"), Unit("field", 0, "none")>>
    BY <1>3 DEF ReadRequestHeader, WiRequestInv
  <2>2. wiExp' = "body" /\ UNCHANGED <<wiDown, wiCut, wiOurs>>
    BY <1>3, <2>1 DEF ReadRequestHeader, Unit, wiPeer
  <2> QED BY <2>2
<1>4. ASSUME ReadImportBody PROVE WiStreamInv'
  <2>1. UNCHANGED <<wiDown, wiCut, wiOurs, HasDevice, HeaderUnit, DeviceUnit>> /\ wiDown = << >>
    BY <1>4, WiPeerStep DEF ReadImportBody, wiPeer, WiReplyInv
  <2>2. CASE wiOurs
    <3>1. BusIDAccepted(wiField)
      BY <2>2, OurBusIDArrives DEF WiPeerInv
    <3>2. wiExp' = "reply"
      BY <1>4, <3>1 DEF ReadImportBody
    <3> QED BY <2>1, <3>2
  <2>3. CASE ~wiOurs
    BY <2>1, <2>3
  <2> QED BY <2>2, <2>3
<1>5. ASSUME WriteUnit PROVE WiStreamInv'
  <2>1. /\ wiExp = "reply" /\ wiExp' = "reply" /\ ~wiCut /\ wiReply # << >>
        /\ wiDown' = Append(wiDown, Faulty(Head(wiReply)))
    BY <1>5 DEF WriteUnit, WiReplyInv
  <2>2. UNCHANGED <<HasDevice, HeaderUnit, DeviceUnit>>
    BY WiPeerStep
  <2>3. CASE wiDown = << >> /\ wiReply = IF HasDevice THEN <<ReplyHeader, ReplyDevice>> ELSE <<ReplyHeader>>
    <3>1. Head(wiReply) = ReplyHeader
      BY <2>3, ShortSequences
    <3>2. wiDown' = <<HeaderUnit>>
      <4>1. wiDown' = Append(<< >>, HeaderUnit)
        BY <2>1, <2>3, <3>1 DEF HeaderUnit
      <4> QED BY <4>1, ShortSequences
    <3>3. wiDown' \in Seq({HeaderUnit', DeviceUnit', Part, Urb}) /\ Len(wiDown') = 1 /\ wiDown'[1] = HeaderUnit'
      BY <2>2, <3>2
    <3> QED BY <2>1, <3>3
  <2>4. CASE wiDown = <<HeaderUnit>> /\ wiReply = IF HasDevice THEN <<ReplyDevice>> ELSE << >>
    <3>1. HasDevice /\ Head(wiReply) = ReplyDevice
      BY <2>1, <2>4, ShortSequences
    <3>2. wiDown' = <<HeaderUnit, DeviceUnit>>
      <4>1. wiDown' = Append(<<HeaderUnit>>, DeviceUnit)
        BY <2>1, <2>4, <3>1 DEF DeviceUnit
      <4> QED BY <4>1, ShortSequences
    <3>3. /\ wiDown' \in Seq({HeaderUnit', DeviceUnit', Part, Urb}) /\ Len(wiDown') = 2
          /\ wiDown'[1] = HeaderUnit' /\ wiDown'[2] = DeviceUnit' /\ HasDevice'
      BY <2>2, <3>1, <3>2
    <3> QED BY <2>1, <3>3
  <2> QED BY <2>1, <2>3, <2>4 DEF WiReplyInv
<1>6. ASSUME Replied PROVE WiStreamInv'
  <2>1. wiExp = "reply" /\ wiReply = << >> /\ UNCHANGED <<wiDown, wiCut, wiOurs>>
    BY <1>6 DEF Replied, wiPeer
  <2>2. UNCHANGED <<HasDevice, HeaderUnit, DeviceUnit>>
    BY WiPeerStep
  <2>3. CASE HasDevice
    <3>1. wiExp' = "kernel"
      BY <1>6, <2>3, ReplyUnits DEF Replied, HasDevice
    <3> QED BY <2>1, <2>2, <3>1
  <2>4. CASE ~HasDevice
    <3>1. wiDown = <<HeaderUnit>>
      BY <2>1, <2>4 DEF WiReplyInv
    <3> QED BY <2>1, <2>2, <2>4, <3>1
  <2> QED BY <2>3, <2>4
<1>7. ASSUME KernelSends PROVE WiStreamInv'
  <2>1. /\ wiExp = "kernel" /\ wiExp' = "kernel" /\ wiDown' = Append(wiDown, Urb)
        /\ HasDevice /\ Len(wiDown) >= 2 /\ ~wiCut /\ ~wiCut'
    BY <1>7 DEF KernelSends, Urb, WiReplyInv
  <2>2. UNCHANGED <<HasDevice, HeaderUnit, DeviceUnit>>
    BY WiPeerStep
  <2> DEFINE S == {HeaderUnit, DeviceUnit, Part, Urb}
  <2>3. wiDown \in Seq(S) /\ Urb \in S
    OBVIOUS
  <2> HIDE DEF S
  <2>4. /\ wiDown' \in Seq(S) /\ Len(wiDown') = Len(wiDown) + 1 /\ wiDown'[Len(wiDown) + 1] = Urb
        /\ \A i \in 1..Len(wiDown) : wiDown'[i] = wiDown[i]
    BY <2>1, <2>3, AppendProperties
  <2>5. wiDown'[1] = HeaderUnit' /\ wiDown'[2] = DeviceUnit' /\ HasDevice'
    <3>1. wiDown[1] = HeaderUnit /\ wiDown[2] = DeviceUnit
      BY <2>1 DEF S
    <3> QED BY <2>1, <2>2, <2>4, <3>1
  <2>6. \A i \in DOMAIN wiDown' : i > 2 => wiDown'[i] = Urb
    <3>1. \A i \in DOMAIN wiDown : i > 2 => wiDown[i] = Urb
      OBVIOUS
    <3>2. DOMAIN wiDown' = 1..Len(wiDown) + 1 /\ DOMAIN wiDown = 1..Len(wiDown) /\ Len(wiDown) \in Nat
      BY <2>3, <2>4
    <3> QED BY <2>4, <3>1, <3>2
  <2>7. wiDown' \in Seq({HeaderUnit', DeviceUnit', Part, Urb})
    BY <2>2, <2>4 DEF S
  <2> QED BY <2>1, <2>5, <2>6, <2>7
<1>8. ASSUME SendRequest \/ StreamEnds \/ DecodeHeader \/ DecodeCount \/ DecodeDevice
            \/ DecodeInterface
     PROVE  UNCHANGED <<wiExp, wiDown, wiCut, wiOurs, HasDevice, HeaderUnit, DeviceUnit>>
  BY <1>8 DEF SendRequest, StreamEnds, DecodeHeader, DecodeCount, DecodeDevice,
     DecodeInterface, wiPeer, wiExpVars, wiImpVars, Consume, ExpClose
<1>9. ASSUME UNCHANGED wiVars PROVE UNCHANGED <<wiExp, wiDown, wiCut, wiOurs, HasDevice, HeaderUnit, DeviceUnit>>
  BY <1>9 DEF wiVars, wiPeer, wiExpVars, wiImpVars
<1> HIDE DEF WiStreamInv
<1>10. QED
  BY <1>1, <1>2, <1>3, <1>4, <1>5, <1>6, <1>7, <1>8, <1>9
  DEF WiNext

\* An import is read unit by unit: the decoder fetches what it consumes.
LEMMA ImportConsumes ==
  ASSUME wiOp = "import", wiRead = wiFetched, wiRead \in Nat, Consume
  PROVE  wiRead' = wiRead + 1 /\ wiFetched' = wiRead'
BY DEF Consume, ReadsAhead

\* The decoder follows the stream and takes from it what it decodes.
LEMMA WiDecodeStep ==
  ASSUME wiOp = "import", WiPeerInv, WiReplyInv, WiStreamInv, WiDecodeInv, [WiNext]_wiVars
  PROVE  WiDecodeInv'
<1> USE WiPeerStep DEF WiDecodeInv
<1>1. CASE UNCHANGED <<wiRead, wiFetched, wiImp, wiGot, wiDown, wiReason, HasDevice, ReplyHeader, Device>>
  BY <1>1
<1>2. ASSUME SendRequest PROVE WiDecodeInv'
  <2>1. UNCHANGED <<wiRead, wiFetched, wiGot>> /\ wiImp = "idle" /\ wiImp' = "hdr"
    BY <1>2 DEF SendRequest
  <2> QED BY <2>1
<1>3. ASSUME Cut PROVE WiDecodeInv'
  <2>1. UNCHANGED <<wiRead, wiFetched, wiImp, wiGot, wiReason, HasDevice, ReplyHeader, Device>>
    BY <1>3, WiPeerStep DEF Cut, wiImpVars, wiPeer
  <2>2. /\ Len(wiDown) \in Nat /\ Len(wiDown') >= Len(wiDown) /\ Len(wiDown') \in Nat
        /\ \A i \in 1..Len(wiDown) : wiDown'[i] = wiDown[i]
    BY StreamGrows, WiPeerStep, WiStreamStep DEF WiStreamInv
  <2> QED BY <2>1, <2>2
<1>4. ASSUME WriteUnit PROVE WiDecodeInv'
  <2>1. UNCHANGED <<wiRead, wiFetched, wiImp, wiGot, wiReason, HasDevice, ReplyHeader, Device>>
    BY <1>4, WiPeerStep DEF WriteUnit, wiImpVars, wiPeer
  <2>2. /\ Len(wiDown) \in Nat /\ Len(wiDown') >= Len(wiDown) /\ Len(wiDown') \in Nat
        /\ \A i \in 1..Len(wiDown) : wiDown'[i] = wiDown[i]
    BY StreamGrows, WiPeerStep, WiStreamStep DEF WiStreamInv
  <2> QED BY <2>1, <2>2
<1>5. ASSUME KernelSends PROVE WiDecodeInv'
  <2>1. UNCHANGED <<wiRead, wiFetched, wiImp, wiGot, wiReason, HasDevice, ReplyHeader, Device>>
    BY <1>5, WiPeerStep DEF KernelSends, wiImpVars, wiPeer
  <2>2. /\ Len(wiDown) \in Nat /\ Len(wiDown') >= Len(wiDown) /\ Len(wiDown') \in Nat
        /\ \A i \in 1..Len(wiDown) : wiDown'[i] = wiDown[i]
    BY StreamGrows, WiPeerStep, WiStreamStep DEF WiStreamInv
  <2> QED BY <2>1, <2>2
<1>6. ASSUME StreamEnds PROVE WiDecodeInv'
  <2>1. UNCHANGED <<wiRead, wiFetched>> /\ wiImp' \in {"eof", "truncated"}
    BY <1>6 DEF StreamEnds
  <2> QED BY <2>1
<1>7. ASSUME DecodeHeader PROVE WiDecodeInv'
  <2>1. wiImp = "hdr" /\ wiRead = 0 /\ Len(wiDown) \in Nat /\ Len(wiDown) >= 1 /\ wiDown[1].t = "hdr"
    <3>1. wiImp = "hdr" /\ wiRead < Len(wiDown) /\ wiDown[wiRead + 1].t = "hdr"
      BY <1>7 DEF DecodeHeader, Ready1, Next1
    <3>2. Len(wiDown) \in Nat
      BY DEF WiStreamInv
    <3> QED BY <3>1, <3>2
  <2>2. wiDown[1] = HeaderUnit
    <3>1. wiDown = <<Part>> => wiDown[1].t = "part"
      BY UnitTypes
    <3> QED BY <2>1, <3>1 DEF WiStreamInv
  <2>3. /\ wiImp' = HeaderVerdict(HeaderUnit) /\ UNCHANGED <<wiDown, wiGot, wiReason>>
        /\ wiRead' = 1 /\ wiFetched' = 1
    BY <1>7, <2>1, <2>2, ImportConsumes DEF DecodeHeader, Next1, wiPeer, wiExpVars
  <2>4. /\ wiImp' \in {"mismatch", "protoerr", "notfound", "busy", "unavailable", "dev"}
        /\ wiImp' = "dev" => HeaderUnit = ReplyHeader /\ wiReason = "ok"
    BY <2>3, HeaderFacts
  <2>5. UNCHANGED ReplyHeader
    BY WiPeerStep
  <2> QED BY <2>1, <2>2, <2>3, <2>4, <2>5
<1>8. ASSUME DecodeCount PROVE WiDecodeInv'
  <2> QED BY <1>8 DEF DecodeCount
<1>9. ASSUME DecodeDevice PROVE WiDecodeInv'
  <2>1. /\ wiImp = "dev" /\ wiRead = 1 /\ wiGot = << >>
        /\ Len(wiDown) \in Nat /\ Len(wiDown) >= 2 /\ wiDown[2].t = "dev"
    <3>1. wiImp = "dev" /\ wiRead < Len(wiDown) /\ wiDown[wiRead + 1].t = "dev"
      BY <1>9 DEF DecodeDevice, Ready1, Next1
    <3>2. Len(wiDown) \in Nat
      BY DEF WiStreamInv
    <3> QED BY <3>1, <3>2
  <2>2. wiDown[2] = DeviceUnit /\ HasDevice
    BY <2>1, UnitTypes DEF WiStreamInv
  <2>3. Next1 = DeviceUnit /\ UNCHANGED wiDown /\ wiRead' = 2 /\ wiFetched' = 2
    BY <1>9, <2>1, <2>2, ImportConsumes DEF DecodeDevice, Next1, wiExpVars
  <2>4. CASE DeviceUnit.v = "badspeed"
    <3>1. wiImp' = "protoerr"
      BY <1>9, <2>3, <2>4 DEF DecodeDevice
    <3> QED BY <2>3, <3>1
  <2>5. CASE DeviceUnit.v # "badspeed"
    <3> DEFINE d == [id |-> DeviceUnit.v, num |-> DeviceUnit.n, ifs |-> << >>]
    <3>1. wiGot' = Append(<< >>, d) /\ wiImp' = AfterDevice(wiGot')
      BY <1>9, <2>1, <2>3, <2>5 DEF DecodeDevice
    <3>2. wiGot' = <<d>>
      BY <3>1, ShortSequences
    <3>3. wiImp' = "ok"
      BY <3>1 DEF AfterDevice
    <3>4. d = [id |-> Device.id, num |-> Device.num, ifs |-> << >>]
      BY <2>5, DeviceFacts
    <3>5. UNCHANGED <<HasDevice, Device>>
      BY WiPeerStep
    <3> HIDE DEF d
    <3> QED BY <2>1, <2>2, <2>3, <3>2, <3>3, <3>4, <3>5
  <2> QED BY <2>4, <2>5
<1>10. ASSUME DecodeInterface PROVE WiDecodeInv'
  <2> QED BY <1>10 DEF DecodeInterface
<1>11. ASSUME ReadRequestHeader \/ ReadImportBody \/ Replied
     PROVE  UNCHANGED <<wiRead, wiFetched, wiImp, wiGot, wiDown, wiReason, HasDevice, ReplyHeader, Device>>
  BY <1>11 DEF ReadRequestHeader, ReadImportBody, Replied, wiPeer, wiExpVars, wiImpVars,
     Consume, ExpClose
<1>12. ASSUME UNCHANGED wiVars PROVE UNCHANGED <<wiRead, wiFetched, wiImp, wiGot, wiDown, wiReason, HasDevice, ReplyHeader, Device>>
  BY <1>12 DEF wiVars, wiPeer, wiExpVars, wiImpVars
<1> HIDE DEF WiDecodeInv
<1>13. QED
  BY <1>1, <1>2, <1>3, <1>4, <1>5, <1>6, <1>7, <1>8, <1>9, <1>10, <1>11, <1>12
  DEF WiNext

\* Every verdict has its reason.
LEMMA WiRefusalStep ==
  ASSUME wiOp = "import", WiPeerInv, WiReplyInv, WiStreamInv, WiDecodeInv, RefusalsAreTrue,
         [WiNext]_wiVars
  PROVE  RefusalsAreTrue'
<1> USE DEF RefusalsAreTrue
<1>1. CASE UNCHANGED <<wiImp, wiReason, wiFault, wiCut, wiOurs, wiDevices>>
  BY <1>1
<1>2. ASSUME SendRequest PROVE RefusalsAreTrue'
  <2> QED BY <1>2 DEF SendRequest
<1>3. ASSUME Cut PROVE RefusalsAreTrue'
  <2>1. wiCut' /\ UNCHANGED <<wiImp, wiReason, wiFault>>
    BY <1>3 DEF Cut, wiPeer, wiImpVars
  <2> QED BY <2>1
<1>4. ASSUME StreamEnds PROVE RefusalsAreTrue'
  <2>1. /\ wiImp \in {"hdr", "dev"} /\ wiImp' \in {"eof", "truncated"}
        /\ UNCHANGED <<wiCut, wiOurs, wiDevices>>
    BY <1>4 DEF StreamEnds, wiPeer, WiDecodeInv
  <2>2. \/ wiRead = Len(wiDown) /\ wiDownEnd
        \/ wiRead < Len(wiDown) /\ wiDown[wiRead + 1] = Part
    BY <1>4 DEF StreamEnds, Next1
  <2>3. Len(wiDown) \in Nat /\ wiRead \in {0, 1} /\ (wiImp = "hdr" => wiRead = 0)
        /\ (wiImp = "dev" => wiRead = 1 /\ wiReason = "ok")
    BY <2>1 DEF WiStreamInv, WiDecodeInv
  <2>4. wiCut \/ ~Encodable(wiDevices) \/ ~wiOurs
    <3>1. CASE wiRead = Len(wiDown) /\ wiDownEnd
      <4>1. wiExp = "closed"
        BY <3>1 DEF WiReplyInv
      <4>2. CASE ~wiCut /\ wiDown = <<HeaderUnit>> /\ ~HasDevice
        <5>1. wiImp = "dev" /\ wiReason = "ok"
          BY <2>1, <2>3, <3>1, <4>2
        <5>2. Device.long
          BY <4>2, <5>1 DEF HasDevice
        <5> QED BY <5>2, ReplyUnits
      <4> QED BY <4>1, <4>2 DEF WiStreamInv
    <3>2. CASE wiRead < Len(wiDown) /\ wiDown[wiRead + 1] = Part
      <4>1. HeaderUnit # Part /\ DeviceUnit # Part
        BY HeaderFacts, DeviceFacts, UnitTypes
      <4> QED BY <2>3, <3>2, <4>1 DEF WiStreamInv
    <3> QED BY <2>2, <3>1, <3>2
  <2>5. (wiCut \/ ~Encodable(wiDevices) \/ ~wiOurs)'
    BY <2>1, <2>4 DEF Encodable
  <2> QED BY <2>1, <2>5
<1>5. ASSUME DecodeHeader PROVE RefusalsAreTrue'
  <2>1. wiImp = "hdr" /\ wiRead = 0 /\ Len(wiDown) \in Nat /\ Len(wiDown) >= 1 /\ wiDown[1].t = "hdr"
    <3>1. wiImp = "hdr" /\ wiRead < Len(wiDown) /\ wiDown[wiRead + 1].t = "hdr"
      BY <1>5 DEF DecodeHeader, Ready1, Next1
    <3>2. Len(wiDown) \in Nat /\ wiRead = 0
      BY <3>1 DEF WiStreamInv, WiDecodeInv
    <3> QED BY <3>1, <3>2
  <2>2. wiDown[1] = HeaderUnit
    <3>1. wiDown = <<Part>> => wiDown[1].t = "part"
      BY UnitTypes
    <3> QED BY <2>1, <3>1 DEF WiStreamInv
  <2>3. wiImp' = HeaderVerdict(HeaderUnit) /\ UNCHANGED <<wiReason, wiFault>>
    BY <1>5, <2>1, <2>2 DEF DecodeHeader, Next1, wiPeer
  <2> QED BY <2>3, HeaderFacts
<1>6. ASSUME DecodeCount PROVE RefusalsAreTrue'
  <2> QED BY <1>6 DEF DecodeCount, WiDecodeInv
<1>7. ASSUME DecodeDevice PROVE RefusalsAreTrue'
  <2>1. /\ wiImp = "dev" /\ wiRead = 1 /\ Len(wiDown) \in Nat /\ Len(wiDown) >= 2 /\ wiDown[2].t = "dev"
    <3>1. wiImp = "dev" /\ wiRead < Len(wiDown) /\ wiDown[wiRead + 1].t = "dev"
      BY <1>7 DEF DecodeDevice, Ready1, Next1
    <3>2. Len(wiDown) \in Nat /\ wiRead = 1
      BY <3>1 DEF WiStreamInv, WiDecodeInv
    <3> QED BY <3>1, <3>2
  <2>2. Next1 = DeviceUnit /\ UNCHANGED <<wiReason, wiFault>>
    BY <1>7, <2>1, UnitTypes DEF WiStreamInv, Next1, DecodeDevice, wiPeer
  <2>3. CASE DeviceUnit.v = "badspeed"
    <3>1. wiImp' = "protoerr"
      BY <1>7, <2>2, <2>3 DEF DecodeDevice
    <3> QED BY <2>2, <2>3, <3>1, DeviceFacts
  <2>4. CASE DeviceUnit.v # "badspeed"
    <3>1. wiImp' = "ok"
      BY <1>7, <2>2, <2>4 DEF DecodeDevice, AfterDevice
    <3> QED BY <3>1
  <2> QED BY <2>3, <2>4
<1>8. ASSUME DecodeInterface PROVE RefusalsAreTrue'
  <2> QED BY <1>8 DEF DecodeInterface, WiDecodeInv
<1>9. ASSUME ReadRequestHeader \/ ReadImportBody \/ WriteUnit \/ Replied \/ KernelSends
     PROVE  UNCHANGED <<wiImp, wiReason, wiFault, wiCut, wiOurs, wiDevices>>
  BY <1>9 DEF ReadRequestHeader, ReadImportBody, WriteUnit, Replied, KernelSends, wiPeer,
     wiExpVars, wiImpVars, Consume, ExpClose
<1>10. ASSUME UNCHANGED wiVars PROVE UNCHANGED <<wiImp, wiReason, wiFault, wiCut, wiOurs, wiDevices>>
  BY <1>10 DEF wiVars, wiPeer, wiExpVars, wiImpVars
<1> HIDE DEF RefusalsAreTrue
<1>11. QED
  BY <1>1, <1>2, <1>3, <1>4, <1>5, <1>6, <1>7, <1>8, <1>9, <1>10
  DEF WiNext

\* The busid that is accepted is the one on the wire.
LEMMA WiBusIDStep ==
  ASSUME wiOp = "import", WiPeerInv, BusIDArrives, [WiNext]_wiVars
  PROVE  BusIDArrives'
<1> USE DEF BusIDArrives
<1>1. CASE UNCHANGED <<wiBusID, wiOurs, wiSentBusID, wiField>>
  BY <1>1
<1>2. ASSUME ReadImportBody PROVE BusIDArrives'
  <2>1. UNCHANGED <<wiOurs, wiSentBusID, wiField>>
    BY <1>2 DEF ReadImportBody, wiPeer
  <2>2. CASE BusIDAccepted(wiField)
    <3>1. wiBusID' = PaddedStringFromBytes(wiField).s
      BY <1>2, <2>2 DEF ReadImportBody
    <3>2. /\ ValidWireBusID(wiBusID')
          /\ \E i \in 2..FieldSize : wiField[i] = "nul" /\ wiBusID' = SubSeq(wiField, 1, i - 1)
      BY <2>2, <3>1, AcceptedBusID DEF WiPeerInv
    <3>3. wiOurs => wiBusID' = wiSentBusID
      BY <3>1, OurBusIDArrives DEF WiPeerInv
    <3> QED BY <2>1, <3>2, <3>3
  <2>3. CASE ~BusIDAccepted(wiField)
    <3>1. UNCHANGED wiBusID
      BY <1>2, <2>3 DEF ReadImportBody
    <3> QED BY <2>1, <3>1
  <2> QED BY <2>2, <2>3
<1>3. ASSUME SendRequest \/ Cut \/ ReadRequestHeader \/ WriteUnit \/ Replied
            \/ KernelSends \/ StreamEnds \/ DecodeHeader \/ DecodeCount \/ DecodeDevice
            \/ DecodeInterface
     PROVE  UNCHANGED <<wiBusID, wiOurs, wiSentBusID, wiField>>
  BY <1>3 DEF SendRequest, Cut, ReadRequestHeader, WriteUnit, Replied, KernelSends,
     StreamEnds, DecodeHeader, DecodeCount, DecodeDevice, DecodeInterface, wiPeer,
     wiExpVars, wiImpVars, Consume, ExpClose
<1>4. ASSUME UNCHANGED wiVars PROVE UNCHANGED <<wiBusID, wiOurs, wiSentBusID, wiField>>
  BY <1>4 DEF wiVars, wiPeer, wiExpVars, wiImpVars
<1> HIDE DEF BusIDArrives
<1>5. QED
  BY <1>1, <1>2, <1>3, <1>4
  DEF WiNext

\* The first state.
LEMMA WiInvInit == WiInit => WiInv
<1> SUFFICES ASSUME WiInit PROVE WiInv
  OBVIOUS
<1> USE WireAssumption DEF WiInit, WiInitFrom
<1>1. WiPeerInv
  <2>1. wiOp \in {"devlist", "import"} /\ wiFault \in Faults /\ wiOurs \in BOOLEAN
        /\ wiReason \in {"ok", "notfound", "busy", "error"}
    BY DEF Faults
  <2>2. ASSUME wiOp = "import"
        PROVE  /\ DOMAIN wiDevices = {1} /\ Device.id # "badspeed"
               /\ wiSentBusID \in RawBusIDs /\ wiField \in [1..FieldSize -> Bytes]
               /\ wiOurs => wiField = Padded(wiSentBusID)
    <3>1. wiDevices \in DeviceLists /\ Len(wiDevices) = 1
      BY <2>2
    <3>2. DOMAIN wiDevices = {1} /\ Device.id # "badspeed"
      <4>1. DOMAIN wiDevices = 1..1 /\ 1 \in 1..1
        BY <3>1
      <4> QED BY <3>1, <4>1 DEF Device
    <3>3. wiSentBusID \in RawBusIDs
      BY <2>2
    <3>4. PICK n \in 1..FieldSize - 1 : wiSentBusID \in [1..n -> {"id"}]
      BY <3>3 DEF RawBusIDs
    <3>5. wiField = Padded(wiSentBusID) \/ wiField \in [1..FieldSize -> Bytes]
      BY <2>2
    <3>6. wiOurs => wiField = Padded(wiSentBusID)
      BY <2>2
    <3>7. Padded(wiSentBusID) \in [1..FieldSize -> Bytes]
      <4>1. Len(wiSentBusID) = n /\ \A i \in 1..n : wiSentBusID[i] = "id"
        BY <3>4
      <4> QED BY <4>1, <3>4 DEF Padded, Bytes
    <3> QED BY <3>2, <3>3, <3>5, <3>6, <3>7
  <2> QED BY <2>1, <2>2 DEF WiPeerInv
<1>2. WiRequestInv /\ WiReplyInv /\ WiStreamInv /\ WiDecodeInv /\ RefusalsAreTrue /\ BusIDArrives
  BY DEF WiRequestInv, WiReplyInv, WiStreamInv, WiDecodeInv, RefusalsAreTrue, BusIDArrives
<1>3. QED BY <1>1, <1>2 DEF WiInv

\* The invariant of the exchange.
LEMMA WiInvariant == WiSpec => []WiInv
<1>1. WiInit => WiInv
  BY WiInvInit
<1>2. WiInv /\ [WiNext]_wiVars => WiInv'
  <2> SUFFICES ASSUME WiInv, [WiNext]_wiVars PROVE WiInv'
    OBVIOUS
  <2>1. WiPeerInv' /\ wiOp' = wiOp
    BY WiPeerStep DEF WiInv, wiPeer
  <2>2. ASSUME wiOp = "import"
        PROVE  (WiRequestInv /\ WiReplyInv /\ WiStreamInv /\ WiDecodeInv /\ RefusalsAreTrue
                /\ BusIDArrives)'
    BY <2>2, WiRequestStep, WiReplyStep, WiStreamStep, WiDecodeStep, WiRefusalStep, WiBusIDStep
    DEF WiInv
  <2> QED BY <2>1, <2>2 DEF WiInv
<1>3. QED BY <1>1, <1>2, PTL DEF WiSpec

\* An import is faithful, whoever the two ends are and wherever the connection is cut: what
\* DecodeOpRepImport returns is what EncodeOpRepImport sent, a refusal carries the exporter's
\* reason, the kernel is handed a socket with its first URB still in it, and the busid the
\* exporter uses is the one that was asked for (ExchangeIsFaithful).
THEOREM ImportFaithful == WiSpec => [](wiOp = "import" => ExchangeIsFaithful)
<1>1. WiInv => (wiOp = "import" => ExchangeIsFaithful)
  <2> SUFFICES ASSUME WiInv, wiOp = "import" PROVE ExchangeIsFaithful
    OBVIOUS
  <2>1. DecodedIsSent
    BY DEF WiInv, WiDecodeInv, DecodedIsSent, HasDevice, Device
  <2>2. ASSUME wiImp = "ok", NEW i \in Urbs PROVE i > wiFetched
    <3>1. wiFetched = 2 /\ wiDown[1] = HeaderUnit /\ wiDown[2] \in {DeviceUnit, Part}
      <4>1. wiFetched = 2 /\ Len(wiDown) >= 2 /\ HasDevice /\ Len(wiDown) \in Nat
        BY <2>2 DEF WiInv, WiDecodeInv, WiStreamInv
      <4>2. wiDown[1] = HeaderUnit
        BY <4>1 DEF WiInv, WiStreamInv
      <4> QED BY <4>1, <4>2 DEF WiInv, WiStreamInv
    <3>2. i \in DOMAIN wiDown /\ wiDown[i].t = "urb"
      BY DEF Urbs
    <3>3. i \in 1..Len(wiDown) /\ Len(wiDown) \in Nat
      BY <3>2 DEF WiInv, WiStreamInv
    <3>4. HeaderUnit.t = "hdr" /\ DeviceUnit.t = "dev"
      BY HeaderFacts, DeviceFacts DEF WiInv
    <3>5. Part.t = "part"
      BY UnitTypes
    <3>6. i # 1 /\ i # 2
      BY <3>1, <3>2, <3>4, <3>5
    <3> QED BY <3>1, <3>3, <3>6
  <2>3. HandoverLosesNothing
    BY <2>2 DEF HandoverLosesNothing
  <2> QED BY <2>1, <2>3 DEF WiInv, ExchangeIsFaithful
<1>2. QED BY <1>1, WiInvariant, PTL

-----------------------------------------------------------------------------
(* Wire: the list exchange.  The reply has as many units as the devices have interfaces, so *)
(* where a unit stands is counted with FlattenSeq's own recursion.                          *)

\* Counting up to n within a set.
LEMMA UpTo ==
  ASSUME NEW S, NEW n \in Nat, 0 \in S, \A k \in 0..n - 1 : k \in S => k + 1 \in S
  PROVE  0..n \subseteq S
<1> DEFINE C == {k \in 0..n : k \notin S}
<1>1. SUFFICES ASSUME C # {} PROVE FALSE
  OBVIOUS
<1>2. C \in SUBSET Nat
  OBVIOUS
<1>3. PICK m \in C : \A q \in C : m <= q
  BY <1>1, <1>2, MinExists
<1>4. m \in 1..n /\ m \notin S
  BY <1>3
<1>5. m - 1 \in 0..n - 1 /\ m - 1 \notin C
  BY <1>3, <1>4
<1>6. m - 1 \in S /\ (m - 1) + 1 = m
  BY <1>4, <1>5
<1>7. QED BY <1>4, <1>5, <1>6

\* FlattenSeq's own recursion, as the function it is defined by.
Flattening(B, n, f) ==
  f = [i \in 1..n |-> IF i = 1 THEN B[i] ELSE f[i - 1] \o B[i]]

\* There is such a function for any number of sequences.
LEMMA FlatteningExists ==
  ASSUME NEW B, NEW n \in Nat \ {0}
  PROVE  \E f : Flattening(B, n, f)
<1> DEFINE S == {k \in Nat : \E f : Flattening(B, k + 1, f)}
<1>1. 0 \in S
  <2>1. Flattening(B, 1, [i \in 1..1 |-> B[i]])
    BY DEF Flattening
  <2> QED BY <2>1
<1>2. ASSUME NEW k \in 0..n - 1, k \in S PROVE k + 1 \in S
  <2>1. PICK f : Flattening(B, k + 1, f)
    BY <1>2
  <2> DEFINE last == f[k + 1] \o B[k + 2]
  <2> HIDE DEF last
  <2> DEFINE g == [i \in 1..k + 2 |-> IF i = k + 2 THEN last ELSE f[i]]
  <2>2. \A i \in 1..k + 1 : f[i] = IF i = 1 THEN B[i] ELSE f[i - 1] \o B[i]
    BY <2>1 DEF Flattening
  <2>3. ASSUME NEW i \in 1..k + 2 PROVE g[i] = IF i = 1 THEN B[i] ELSE g[i - 1] \o B[i]
    <3>1. CASE i = k + 2
      <4>1. g[i] = last /\ g[i - 1] = f[k + 1] /\ i # 1
        BY <3>1
      <4> QED BY <3>1, <4>1 DEF last
    <3>2. CASE i # k + 2
      <4>1. g[i] = f[i] /\ (i # 1 => g[i - 1] = f[i - 1])
        BY <3>2
      <4> QED BY <2>2, <3>2, <4>1
    <3> QED BY <3>1, <3>2
  <2>4. g = [i \in 1..k + 2 |-> IF i = 1 THEN B[i] ELSE g[i - 1] \o B[i]]
    <3>1. g = [i \in 1..k + 2 |-> g[i]]
      OBVIOUS
    <3> HIDE DEF g
    <3> QED BY <2>3, <3>1
  <2>5. Flattening(B, (k + 1) + 1, g)
    <3>1. (k + 1) + 1 = k + 2
      OBVIOUS
    <3> HIDE DEF g
    <3> QED BY <2>4, <3>1 DEF Flattening
  <2> QED BY <2>5
<1> HIDE DEF S
<1>3. 0..n \subseteq S
  BY <1>1, <1>2, UpTo
<1>4. n - 1 \in S
  BY <1>3
<1>5. QED BY <1>4 DEF S

\* And no other: what it holds of the first n does not depend on how many follow.
LEMMA FlatteningUnique ==
  ASSUME NEW B, NEW n \in Nat, NEW m \in n..n + 1, NEW f, NEW g,
         Flattening(B, n, f), Flattening(B, m, g)
  PROVE  \A i \in 1..n : f[i] = g[i]
<1> DEFINE S == {k \in Nat : k \in 1..n => f[k] = g[k]}
<1>1. 0 \in S
  OBVIOUS
<1>2. ASSUME NEW k \in 0..n - 1, k \in S PROVE k + 1 \in S
  <2>0. /\ \A i \in 1..n : f[i] = IF i = 1 THEN B[i] ELSE f[i - 1] \o B[i]
        /\ \A i \in 1..m : g[i] = IF i = 1 THEN B[i] ELSE g[i - 1] \o B[i]
    BY DEF Flattening
  <2>1. /\ f[k + 1] = IF k + 1 = 1 THEN B[k + 1] ELSE f[(k + 1) - 1] \o B[k + 1]
        /\ g[k + 1] = IF k + 1 = 1 THEN B[k + 1] ELSE g[(k + 1) - 1] \o B[k + 1]
    BY <2>0
  <2>2. (k + 1) - 1 = k /\ (k + 1 # 1 => f[k] = g[k])
    BY <1>2
  <2> QED BY <2>1, <2>2
<1> HIDE DEF S
<1>3. 0..n \subseteq S
  BY <1>1, <1>2, UpTo
<1>4. QED BY <1>3 DEF S

\* FlattenSeq of n sequences is what the function holds of the last.
LEMMA FlattenSeqIs ==
  ASSUME NEW B, NEW n \in Nat \ {0}, NEW f, Flattening(B, n, f)
  PROVE  FlattenSeq([i \in 1..n |-> B[i]]) = f[n]
<1> DEFINE s == [i \in 1..n |-> B[i]]
<1>1. Len(s) = n
  <2>1. s \in Seq({B[i] : i \in 1..n})
    OBVIOUS
  <2> QED BY <2>1
<1> DEFINE F(g) == g = [i \in 1..Len(s) |-> IF i = 1 THEN s[i] ELSE g[i - 1] \o s[i]]
<1>2. ASSUME NEW g PROVE F(g) <=> Flattening(B, n, g)
  BY <1>1 DEF Flattening
<1>3. F(CHOOSE g : F(g))
  <2>1. F(f)
    BY <1>2
  <2> HIDE DEF F
  <2> QED BY <2>1
<1>4. \A i \in 1..n : f[i] = (CHOOSE g : F(g))[i]
  <2>1. Flattening(B, n, CHOOSE g : F(g))
    BY <1>2, <1>3
  <2> DEFINE h == CHOOSE g : F(g)
  <2> HIDE DEF h
  <2>2. n \in n..n + 1 /\ Flattening(B, n, h)
    BY <2>1 DEF h
  <2>3. \A i \in 1..n : f[i] = h[i]
    BY <2>2, FlatteningUnique
  <2> QED BY <2>3 DEF h
<1>5. FlattenSeq(s) = (CHOOSE g : F(g))[n]
  BY <1>1 DEF FlattenSeq
<1>6. n \in 1..n
  OBVIOUS
<1>7. QED BY <1>4, <1>5, <1>6

\* FlattenSeq of one sequence more is that sequence behind it.
LEMMA FlattenAppend ==
  ASSUME NEW B, NEW n \in Nat, B[1] \in Seq({B[1][i] : i \in 1..Len(B[1])})
  PROVE  FlattenSeq([i \in 1..n + 1 |-> B[i]]) = FlattenSeq([i \in 1..n |-> B[i]]) \o B[n + 1]
<1>1. PICK g : Flattening(B, n + 1, g)
  BY SMTT(60), FlatteningExists
<1>2. FlattenSeq([i \in 1..n + 1 |-> B[i]]) = g[n + 1]
  BY <1>1, FlattenSeqIs
<1>3. \A i \in 1..n + 1 : g[i] = IF i = 1 THEN B[i] ELSE g[i - 1] \o B[i]
  BY <1>1 DEF Flattening
<1>4. CASE n = 0
  <2>1. FlattenSeq([i \in 1..n |-> B[i]]) = << >>
    <3>1. [i \in 1..n |-> B[i]] = << >>
      BY <1>4
    <3> QED BY <3>1 DEF FlattenSeq
  <2>2. g[n + 1] = B[1]
    BY <1>3, <1>4
  <2>3. << >> \o B[1] = B[1]
    <3> DEFINE S == {B[1][i] : i \in 1..Len(B[1])}
    <3>1. B[1] \in Seq(S)
      OBVIOUS
    <3> HIDE DEF S
    <3> QED BY <3>1, ConcatEmptySeq
  <2>4. B[n + 1] = B[1]
    BY <1>4
  <2> QED BY <1>2, <2>1, <2>2, <2>3, <2>4
<1>5. CASE n # 0
  <2>1. PICK f : Flattening(B, n, f)
    BY <1>5, FlatteningExists
  <2>2. FlattenSeq([i \in 1..n |-> B[i]]) = f[n]
    BY <1>5, <2>1, FlattenSeqIs
  <2>3. f[n] = g[n]
    BY <1>1, <1>5, <2>1, FlatteningUnique
  <2>4. g[n + 1] = g[n] \o B[n + 1]
    <3>1. n + 1 \in 1..n + 1 /\ n + 1 # 1 /\ (n + 1) - 1 = n
      BY <1>5
    <3> QED BY <1>3, <3>1
  <2> QED BY <1>2, <2>2, <2>3, <2>4
<1>6. QED BY <1>4, <1>5

\* The device list an exporter announces, and the devices it gets to encode.
Announced == Len(wiDevices)
Encoded == Len(EncodedPrefix(wiDevices))

\* The devices the reply carries are those before the first that does not fit.
LEMMA EncodedFacts ==
  ASSUME wiDevices \in DeviceLists
  PROVE  /\ Announced \in 0..MaxDevlist /\ Encoded \in 0..Announced
         /\ DOMAIN wiDevices = 1..Announced /\ DOMAIN EncodedPrefix(wiDevices) = 1..Encoded
         /\ Encoded = Announced <=> Encodable(wiDevices)
         /\ \A i \in 1..Announced : wiDevices[i].id # "badspeed" /\ wiDevices[i].num \in Nat
<1> DEFINE ds == wiDevices
           n == Announced
<1>1. n \in 0..MaxDevlist /\ MaxDevlist \in Nat /\ ds = [i \in 1..n |-> ds[i]] /\ DOMAIN ds = 1..n
  BY WireAssumption DEF Announced
<1>2. \A i \in 1..n : ds[i].id # "badspeed" /\ ds[i].num \in Nat
  BY <1>1, WireAssumption
<1>3. CASE Encodable(ds)
  BY <1>1, <1>2, <1>3 DEF EncodedPrefix, Encoded, Announced
<1>4. CASE ~Encodable(ds)
  <2> DEFINE First(i) == i \in DOMAIN ds /\ ds[i].long /\ \A j \in 1..i - 1 : ~ds[j].long
             c == CHOOSE i \in DOMAIN ds : ds[i].long /\ \A j \in 1..i - 1 : ~ds[j].long
  <2>1. \E i : First(i)
    <3> DEFINE S == {i \in 1..n : ds[i].long}
    <3>1. S # {} /\ S \in SUBSET Nat
      BY <1>1, <1>4 DEF Encodable
    <3>2. PICK m \in S : \A q \in S : m <= q
      BY <3>1, MinExists
    <3>3. \A j \in 1..m - 1 : j \in 1..n /\ ~(m <= j)
      BY <1>1, <3>2
    <3> QED BY <1>1, <3>2, <3>3
  <2>2. First(c)
    BY <2>1
  <2>3. c \in 1..n /\ n \in Nat
    BY <1>1, <2>2
  <2> HIDE DEF c
  <2>4. EncodedPrefix(ds) = SubSeq(ds, 1, c - 1)
    BY <1>4 DEF EncodedPrefix, c
  <2>5. ds \in Seq({ds[i] : i \in 1..n}) /\ Len(ds) = n
    BY <1>1
  <2>6. Len(SubSeq(ds, 1, c - 1)) = c - 1 /\ DOMAIN SubSeq(ds, 1, c - 1) = 1..c - 1
    <3>1. CASE c = 1
      <4>1. c - 1 = 0 /\ SubSeq(ds, 1, 0) = << >>
        BY <2>5, <3>1
      <4> QED BY <4>1
    <3>2. CASE c # 1
      <4>1. 1 \in 1..Len(ds) /\ c - 1 \in 1..Len(ds)
        BY <2>3, <2>5, <3>2
      <4>2. SubSeq(ds, 1, c - 1) \in Seq({ds[i] : i \in 1..n}) /\ Len(SubSeq(ds, 1, c - 1)) = (c - 1) - 1 + 1
        BY <2>5, <4>1, SubSeqProperties
      <4>3. (c - 1) - 1 + 1 = c - 1
        BY <2>3
      <4> QED BY <4>2, <4>3
    <3> QED BY <3>1, <3>2
  <2>7. Encoded = c - 1 /\ DOMAIN EncodedPrefix(ds) = 1..Encoded
    BY <2>4, <2>6 DEF Encoded
  <2> QED BY <1>1, <1>2, <1>4, <2>3, <2>7
<1>5. QED BY <1>3, <1>4

\* The units of the first k devices, and how many these are.
Sent(k) == FlattenSeq([i \in 1..k |-> DeviceUnits(wiDevices[i])])
Before(k) == Len(Sent(k))
Interface(d, j) == Unit("intf", 0, IF j <= Len(d.ifs) THEN d.ifs[j] ELSE "zero")

\* Where the elements of two sequences end up when one is put behind the other.
LEMMA ConcatFacts ==
  ASSUME NEW S, NEW a \in Seq(S), NEW b \in Seq(S)
  PROVE  /\ a \o b \in Seq(S) /\ Len(a \o b) = Len(a) + Len(b)
         /\ Len(a) \in Nat /\ Len(b) \in Nat
         /\ \A i \in 1..Len(a) : (a \o b)[i] = a[i]
         /\ \A j \in 1..Len(b) : (a \o b)[Len(a) + j] = b[j]
<1>1. a \o b \in Seq(S) /\ Len(a \o b) = Len(a) + Len(b) /\ Len(a) \in Nat /\ Len(b) \in Nat
  BY ConcatProperties
<1>2. \A i \in 1..Len(a) + Len(b) : (a \o b)[i] = IF i <= Len(a) THEN a[i] ELSE b[i - Len(a)]
  BY ConcatProperties
<1>3. ASSUME NEW i \in 1..Len(a) PROVE (a \o b)[i] = a[i]
  <2>1. i \in 1..Len(a) + Len(b) /\ i <= Len(a)
    BY <1>1
  <2> QED BY <1>2, <2>1
<1>4. ASSUME NEW j \in 1..Len(b) PROVE (a \o b)[Len(a) + j] = b[j]
  <2>1. Len(a) + j \in 1..Len(a) + Len(b) /\ ~(Len(a) + j <= Len(a)) /\ (Len(a) + j) - Len(a) = j
    BY <1>1
  <2> QED BY <1>2, <2>1
<1>5. QED BY <1>1, <1>3, <1>4

\* A sequence is one over its own elements.
LEMMA OwnElements ==
  ASSUME NEW S, NEW s \in Seq(S)
  PROVE  s \in Seq({s[i] : i \in 1..Len(s)})
OBVIOUS

\* One device: its descriptor and then NumInterfaces interfaces.
LEMMA DeviceUnitsFacts ==
  ASSUME NEW d, d.num \in Nat
  PROVE  /\ DeviceUnits(d) \in Seq({DeviceUnits(d)[i] : i \in 1..Len(DeviceUnits(d))})
         /\ Len(DeviceUnits(d)) = 1 + d.num
         /\ DeviceUnits(d)[1] = Unit("dev", d.num, d.id)
         /\ \A j \in 1..d.num : DeviceUnits(d)[1 + j] = Interface(d, j)
<1> DEFINE head == <<Unit("dev", d.num, d.id)>>
           tail == [i \in 1..d.num |-> Interface(d, i)]
           Us == {Unit("dev", d.num, d.id)} \cup {Interface(d, i) : i \in 1..d.num}
<1>1. head \in Seq(Us) /\ tail \in Seq(Us)
      /\ Len(head) = 1 /\ Len(tail) = d.num /\ head[1] = Unit("dev", d.num, d.id)
  OBVIOUS
<1>2. DeviceUnits(d) = head \o tail
  BY DEF DeviceUnits, Interface
<1>3. \A j \in 1..d.num : tail[j] = Interface(d, j)
  OBVIOUS
<1> DEFINE c == DeviceUnits(d)
<1> HIDE DEF head, tail, c, Us
<1>4. /\ c \in Seq(Us) /\ Len(c) = Len(head) + Len(tail)
      /\ \A i \in 1..Len(head) : c[i] = head[i]
      /\ \A j \in 1..Len(tail) : c[Len(head) + j] = tail[j]
  <2>1. /\ head \o tail \in Seq(Us) /\ Len(head \o tail) = Len(head) + Len(tail)
        /\ \A i \in 1..Len(head) : (head \o tail)[i] = head[i]
        /\ \A j \in 1..Len(tail) : (head \o tail)[Len(head) + j] = tail[j]
    <3>1. \A U : \A x, y \in Seq(U) :
             /\ x \o y \in Seq(U) /\ Len(x \o y) = Len(x) + Len(y)
             /\ \A i \in 1..Len(x) : (x \o y)[i] = x[i]
             /\ \A j \in 1..Len(y) : (x \o y)[Len(x) + j] = y[j]
      BY ConcatFacts
    <3>2. head \in Seq(Us) /\ tail \in Seq(Us)
      BY <1>1
    <3> QED BY ONLY <3>1, <3>2
  <2> QED BY <1>2, <2>1 DEF c
<1>5. c \in Seq({c[i] : i \in 1..Len(c)})
  BY <1>4, OwnElements
<1>6. Len(c) = 1 + d.num /\ c[1] = Unit("dev", d.num, d.id)
  BY <1>1, <1>4
<1>7. \A j \in 1..d.num : c[1 + j] = Interface(d, j)
  BY <1>1, <1>3, <1>4
<1>8. QED BY <1>5, <1>6, <1>7 DEF c

\* The units of k devices are the blocks of the first k, one behind the other.
SentOK(k) ==
  /\ Sent(k) \in Seq({Sent(k)[i] : i \in 1..Len(Sent(k))})
  /\ Before(k) \in Nat
  /\ \A i \in 1..k :
        /\ Before(i - 1) \in Nat /\ Before(i) = Before(i - 1) + 1 + wiDevices[i].num
        /\ Before(i) <= Before(k)
        /\ Sent(k)[Before(i - 1) + 1] = Unit("dev", wiDevices[i].num, wiDevices[i].id)
        /\ \A j \in 1..wiDevices[i].num :
              Sent(k)[Before(i - 1) + 1 + j] = Interface(wiDevices[i], j)

\* It is so for any number of devices that were announced.
LEMMA SentFacts ==
  ASSUME wiDevices \in DeviceLists
  PROVE  Before(0) = 0 /\ \A k \in 0..Announced : SentOK(k)
<1>1. Sent(0) = << >>
  <2>1. [i \in 1..0 |-> DeviceUnits(wiDevices[i])] = << >>
    OBVIOUS
  <2> QED BY <2>1 DEF Sent, FlattenSeq
<1>2. Before(0) = 0
  BY <1>1 DEF Before
<1> DEFINE S == {k \in Nat : k \in 0..Announced => SentOK(k)}
<1>3. 0 \in S
  <2>1. << >> \in Seq({Sent(0)[i] : i \in 1..Len(Sent(0))})
    OBVIOUS
  <2>2. Sent(0) \in Seq({Sent(0)[i] : i \in 1..Len(Sent(0))})
    BY ONLY <1>1, <2>1
  <2>3. Before(0) \in Nat /\ 1..0 = {}
    BY <1>2
  <2>4. SentOK(0)
    BY ONLY <2>2, <2>3 DEF SentOK
  <2> QED BY <2>4
<1>4. ASSUME NEW k \in 0..Announced - 1, k \in S PROVE k + 1 \in S
  <2> DEFINE d == wiDevices[k + 1]
             s == Sent(k)
             t == DeviceUnits(d)
             u == Sent(k + 1)
  <2>1. k \in Nat /\ k + 1 \in 1..Announced /\ SentOK(k)
    BY <1>4, EncodedFacts
  <2>2. d.num \in Nat /\ wiDevices[1].num \in Nat
    BY <2>1, EncodedFacts
  <2>3. u = s \o t
    <3>1. DeviceUnits(wiDevices[1]) \in
            Seq({DeviceUnits(wiDevices[1])[i] : i \in 1..Len(DeviceUnits(wiDevices[1]))})
      BY <2>2, DeviceUnitsFacts
    <3> DEFINE B == [i \in 1..k + 1 |-> DeviceUnits(wiDevices[i])]
    <3>2. B[1] = DeviceUnits(wiDevices[1]) /\ B[k + 1] = t
      BY <2>1
    <3>3. [i \in 1..k + 1 |-> B[i]] = [i \in 1..k + 1 |-> DeviceUnits(wiDevices[i])]
      OBVIOUS
    <3>4. [i \in 1..k |-> B[i]] = [i \in 1..k |-> DeviceUnits(wiDevices[i])]
      BY <2>1
    <3> HIDE DEF B
    <3>5. FlattenSeq([i \in 1..k + 1 |-> B[i]]) = FlattenSeq([i \in 1..k |-> B[i]]) \o B[k + 1]
      BY <2>1, <3>1, <3>2, FlattenAppend
    <3> QED BY <3>2, <3>3, <3>4, <3>5 DEF Sent
  <2>4. /\ Len(t) = 1 + d.num /\ t[1] = Unit("dev", d.num, d.id)
        /\ \A j \in 1..d.num : t[1 + j] = Interface(d, j)
        /\ t \in Seq({t[i] : i \in 1..Len(t)})
    BY <2>2, DeviceUnitsFacts
  <2>5. s \in Seq({s[i] : i \in 1..Len(s)}) /\ Len(s) = Before(k) /\ Before(k) \in Nat
    BY <2>1 DEF SentOK, Before
  <2> HIDE DEF d, s, t, u
  <2>6. /\ u \in Seq({u[i] : i \in 1..Len(u)}) /\ Len(u) = Len(s) + Len(t)
        /\ \A i \in 1..Len(s) : u[i] = s[i]
        /\ \A j \in 1..Len(t) : u[Len(s) + j] = t[j]
    <3> DEFINE US == {s[i] : i \in 1..Len(s)} \cup {t[i] : i \in 1..Len(t)}
    <3>1. s \in Seq(US) /\ t \in Seq(US)
      BY <2>4, <2>5
    <3> HIDE DEF US
    <3>2. \A U : \A x, y \in Seq(U) :
             /\ x \o y \in Seq(U) /\ Len(x \o y) = Len(x) + Len(y)
             /\ \A i \in 1..Len(x) : (x \o y)[i] = x[i]
             /\ \A j \in 1..Len(y) : (x \o y)[Len(x) + j] = y[j]
      BY ConcatFacts
    <3>3. /\ s \o t \in Seq(US) /\ Len(s \o t) = Len(s) + Len(t)
          /\ \A i \in 1..Len(s) : (s \o t)[i] = s[i]
          /\ \A j \in 1..Len(t) : (s \o t)[Len(s) + j] = t[j]
      BY ONLY <3>1, <3>2
    <3>4. \A U : \A x \in Seq(U) : x \in Seq({x[i] : i \in 1..Len(x)})
      BY OwnElements
    <3>5. u \in Seq(US)
      BY <2>3, <3>3
    <3>6. u \in Seq({u[i] : i \in 1..Len(u)})
      BY ONLY <3>4, <3>5
    <3> QED BY <2>3, <3>3, <3>6
  <2>7. Before(k + 1) = Before(k) + 1 + d.num /\ Before(k + 1) \in Nat /\ Before(k + 1) = Len(u)
    <3>1. Before(k + 1) = Len(u)
      BY DEF u, Before
    <3>2. Len(u) = Before(k) + (1 + d.num)
      BY <2>4, <2>5, <2>6
    <3> QED BY <2>2, <2>5, <3>1, <3>2
  <2>8. ASSUME NEW i \in 1..k + 1
        PROVE  /\ Before(i - 1) \in Nat /\ Before(i) = Before(i - 1) + 1 + wiDevices[i].num
               /\ Before(i) <= Before(k + 1)
               /\ u[Before(i - 1) + 1] = Unit("dev", wiDevices[i].num, wiDevices[i].id)
               /\ \A j \in 1..wiDevices[i].num :
                     u[Before(i - 1) + 1 + j] = Interface(wiDevices[i], j)
    <3>1. CASE i = k + 1
      <4>1. i - 1 = k /\ wiDevices[i] = d
        BY <3>1 DEF d
      <4>2. u[Before(k) + 1] = Unit("dev", d.num, d.id)
        <5>1. 1 \in 1..Len(t)
          BY <2>2, <2>4
        <5> QED BY <2>4, <2>5, <2>6, <5>1
      <4>3. ASSUME NEW j \in 1..d.num PROVE u[Before(k) + 1 + j] = Interface(d, j)
        <5>1. 1 + j \in 1..Len(t) /\ Len(s) + (1 + j) = Before(k) + 1 + j
          <6>1. PICK n \in Nat : n = d.num
            BY <2>2
          <6>2. PICK m \in Nat : m = Before(k) /\ m = Len(s)
            BY <2>5
          <6>3. j \in 1..n /\ Len(t) = 1 + n
            BY <2>4, <6>1
          <6>4. 1 + j \in 1..1 + n /\ m + (1 + j) = m + 1 + j
            BY <6>3
          <6> QED BY ONLY <6>2, <6>3, <6>4
        <5> QED BY <2>4, <2>6, <5>1
      <4> QED BY <2>5, <2>7, <3>1, <4>1, <4>2, <4>3
    <3>2. CASE i # k + 1
      <4>1. i \in 1..k
        BY <2>1, <3>2
      <4>2. /\ Before(i - 1) \in Nat /\ Before(i) = Before(i - 1) + 1 + wiDevices[i].num
            /\ Before(i) <= Before(k)
            /\ s[Before(i - 1) + 1] = Unit("dev", wiDevices[i].num, wiDevices[i].id)
            /\ \A j \in 1..wiDevices[i].num : s[Before(i - 1) + 1 + j] = Interface(wiDevices[i], j)
        BY <2>1, <4>1 DEF SentOK, s
      <4>3. wiDevices[i].num \in Nat
        BY <2>1, <4>1, EncodedFacts
      <4>4. /\ Before(i - 1) + 1 \in 1..Len(s)
            /\ \A j \in 1..wiDevices[i].num : Before(i - 1) + 1 + j \in 1..Len(s)
        <5>1. Len(s) = Before(k) /\ Before(k) \in Nat
          BY <2>5
        <5>2. PICK x \in Nat : x = Before(i - 1)
          BY <4>2
        <5>3. PICK n \in Nat : n = wiDevices[i].num
          BY <4>3
        <5>4. PICK m \in Nat : m = Len(s)
          BY <5>1
        <5>5. x + 1 + n <= m
          BY <4>2, <5>1, <5>2, <5>3, <5>4
        <5>0. x \in Nat /\ n \in Nat /\ m \in Nat
          OBVIOUS
        <5>6. /\ x + 1 \in 1..m
              /\ \A j \in 1..n : x + 1 + j \in 1..m
          BY ONLY <5>0, <5>5
        <5> QED BY ONLY <5>2, <5>3, <5>4, <5>6
      <4>5. ASSUME NEW j \in 1..wiDevices[i].num
            PROVE  u[Before(i - 1) + 1 + j] = Interface(wiDevices[i], j)
        <5>1. Before(i - 1) + 1 + j \in 1..Len(s)
          BY <4>4
        <5> QED BY <2>6, <4>2, <5>1
      <4>6. u[Before(i - 1) + 1] = Unit("dev", wiDevices[i].num, wiDevices[i].id)
        BY <2>6, <4>2, <4>4
      <4>7. Before(i) <= Before(k + 1)
        <5>1. Before(i) <= Before(k) /\ Before(i) \in Nat
          BY <4>2, <4>3
        <5> QED BY SMTT(60), <2>2, <2>5, <2>7, <5>1
      <4> QED BY <4>2, <4>5, <4>6, <4>7
    <3> QED BY <3>1, <3>2
  <2>9. SentOK(k + 1)
    BY <2>6, <2>7, <2>8 DEF SentOK, u
  <2> QED BY <2>1, <2>9
<1> HIDE DEF S
<1>5. 0..Announced \subseteq S
  <2>1. Announced \in Nat
    BY EncodedFacts
  <2> QED BY <1>3, <1>4, <2>1, UpTo
<1>6. QED BY <1>2, <1>5 DEF S

\* The reply to OP_REQ_DEVLIST, unit by unit.
Reply == OpRepDevlist(wiDevices)
ListHeader == Unit("hdr", 0, "devlist")
ListCount == Unit("count", Announced, "none")
DevUnit(i) == Unit("dev", wiDevices[i].num, wiDevices[i].id)

\* EncodeOpRepDevlist: the header, the count, and where each device and interface stands.
LEMMA ReplyFacts ==
  ASSUME wiDevices \in DeviceLists
  PROVE  /\ Reply \in Seq({Reply[i] : i \in 1..Len(Reply)}) /\ Len(Reply) = 2 + Before(Encoded)
         /\ Reply[1] = ListHeader /\ Reply[2] = ListCount
         /\ Before(0) = 0 /\ Before(Encoded) \in Nat
         /\ \A i \in 1..Encoded :
               /\ Before(i - 1) \in Nat /\ Before(i) \in Nat /\ wiDevices[i].num \in Nat
               /\ Before(i) = Before(i - 1) + 1 + wiDevices[i].num
               /\ Before(i) <= Before(Encoded)
               /\ Reply[2 + Before(i - 1) + 1] = DevUnit(i)
               /\ \A j \in 1..wiDevices[i].num :
                     Reply[2 + Before(i - 1) + 1 + j] = Interface(wiDevices[i], j)
<1> DEFINE front == <<ListHeader, ListCount>>
           rest == Sent(Encoded)
           whole == Reply
<1>1. Encoded \in 0..Announced /\ Announced \in Nat /\ \A i \in 1..Announced : wiDevices[i].num \in Nat
  BY EncodedFacts
<1>2. SentOK(Encoded) /\ Before(0) = 0
  BY <1>1, SentFacts
<1>3. whole = front \o rest
  <2>1. DOMAIN EncodedPrefix(wiDevices) = 1..Encoded
    BY EncodedFacts
  <2> QED BY <2>1 DEF Reply, OpRepDevlist, Sent, Announced, ListHeader, ListCount
<1>4. rest \in Seq({rest[i] : i \in 1..Len(rest)}) /\ Len(rest) = Before(Encoded)
  BY <1>2 DEF SentOK, Before
<1>5. Len(front) = 2 /\ front[1] = ListHeader /\ front[2] = ListCount /\ front \in Seq({ListHeader, ListCount})
  OBVIOUS
<1> HIDE DEF front, rest, whole
<1>6. /\ whole \in Seq({whole[i] : i \in 1..Len(whole)}) /\ Len(whole) = 2 + Len(rest)
      /\ \A i \in 1..2 : whole[i] = front[i]
      /\ \A j \in 1..Len(rest) : whole[2 + j] = rest[j]
  <2> DEFINE US == {ListHeader, ListCount} \cup {rest[i] : i \in 1..Len(rest)}
  <2>1. front \in Seq(US) /\ rest \in Seq(US)
    BY <1>4, <1>5
  <2> HIDE DEF US
  <2>2. \A U : \A x, y \in Seq(U) :
           /\ x \o y \in Seq(U) /\ Len(x \o y) = Len(x) + Len(y)
           /\ \A i \in 1..Len(x) : (x \o y)[i] = x[i]
           /\ \A j \in 1..Len(y) : (x \o y)[Len(x) + j] = y[j]
    BY ConcatFacts
  <2>3. /\ front \o rest \in Seq(US) /\ Len(front \o rest) = Len(front) + Len(rest)
        /\ \A i \in 1..Len(front) : (front \o rest)[i] = front[i]
        /\ \A j \in 1..Len(rest) : (front \o rest)[Len(front) + j] = rest[j]
    BY ONLY <2>1, <2>2
  <2>4. whole \in Seq({whole[i] : i \in 1..Len(whole)})
    <3>1. \A U : \A x \in Seq(U) : x \in Seq({x[i] : i \in 1..Len(x)})
      BY OwnElements
    <3>2. whole \in Seq(US)
      BY <1>3, <2>3
    <3> QED BY ONLY <3>1, <3>2
  <2> QED BY <1>3, <1>5, <2>3, <2>4
<1>7. whole[1] = ListHeader /\ whole[2] = ListCount
  BY <1>5, <1>6
<1>8. ASSUME NEW i \in 1..Encoded
      PROVE  /\ Before(i - 1) \in Nat /\ Before(i) \in Nat /\ wiDevices[i].num \in Nat
             /\ Before(i) = Before(i - 1) + 1 + wiDevices[i].num
             /\ Before(i) <= Before(Encoded)
             /\ whole[2 + Before(i - 1) + 1] = DevUnit(i)
             /\ \A j \in 1..wiDevices[i].num :
                   whole[2 + Before(i - 1) + 1 + j] = Interface(wiDevices[i], j)
  <2>1. wiDevices[i].num \in Nat
    BY <1>1
  <2>2. /\ Before(i - 1) \in Nat /\ Before(i) = Before(i - 1) + 1 + wiDevices[i].num
        /\ Before(i) <= Before(Encoded)
        /\ rest[Before(i - 1) + 1] = DevUnit(i)
        /\ \A j \in 1..wiDevices[i].num : rest[Before(i - 1) + 1 + j] = Interface(wiDevices[i], j)
    BY <1>2 DEF SentOK, DevUnit, rest
  <2>0. Before(Encoded) \in Nat
    BY <1>2 DEF SentOK
  <2>3. /\ Before(i - 1) + 1 \in 1..Len(rest) /\ 2 + (Before(i - 1) + 1) = 2 + Before(i - 1) + 1
        /\ \A j \in 1..wiDevices[i].num :
              /\ Before(i - 1) + 1 + j \in 1..Len(rest)
              /\ 2 + (Before(i - 1) + 1 + j) = 2 + Before(i - 1) + 1 + j
    <3>1. Len(rest) = Before(Encoded)
      BY <1>4
    <3>2. PICK x \in Nat : x = Before(i - 1)
      BY <2>2
    <3>3. PICK n \in Nat : n = wiDevices[i].num
      BY <2>1
    <3>4. PICK m \in Nat : m = Len(rest)
      BY <2>0, <3>1
    <3>5. x + 1 + n <= m
      BY <2>2, <3>1, <3>2, <3>3, <3>4
    <3>0. x \in Nat /\ n \in Nat /\ m \in Nat
      OBVIOUS
    <3>6. /\ x + 1 \in 1..m /\ 2 + (x + 1) = 2 + x + 1
          /\ \A j \in 1..n : x + 1 + j \in 1..m /\ 2 + (x + 1 + j) = 2 + x + 1 + j
      BY ONLY <3>0, <3>5
    <3> QED BY ONLY <3>2, <3>3, <3>4, <3>6
  <2>4. ASSUME NEW j \in 1..wiDevices[i].num
        PROVE  whole[2 + Before(i - 1) + 1 + j] = Interface(wiDevices[i], j)
    <3>1. /\ Before(i - 1) + 1 + j \in 1..Len(rest)
          /\ 2 + (Before(i - 1) + 1 + j) = 2 + Before(i - 1) + 1 + j
      BY <2>3
    <3> QED BY <1>6, <2>2, <3>1
  <2>5. whole[2 + Before(i - 1) + 1] = DevUnit(i)
    BY <1>6, <2>2, <2>3
  <2> QED BY <2>1, <2>2, <2>4, <2>5
<1>9. Before(Encoded) \in Nat
  BY <1>2 DEF SentOK
<1>10. QED BY <1>2, <1>4, <1>6, <1>7, <1>8, <1>9 DEF whole

\* The first j interfaces of a device, the device with these, and the first k devices as they
\* are decoded.
Named(d, j) == [i \in 1..j |-> IF i <= Len(d.ifs) THEN d.ifs[i] ELSE "zero"]
Partial(d, j) == [id |-> d.id, num |-> d.num, ifs |-> Named(d, j)]
Decoded(k) == [i \in 1..k |-> Normal(wiDevices[i])]

\* The i-th unit of the reply as it arrives.
Arrives(i) == Faulty(Reply[i])

\* The peers of a list.
ListPeerInv == wiDevices \in DeviceLists /\ wiReason = "ok" /\ wiFault \in Faults

\* The exporter reads one header, writes its reply from the first unit to the last, and closes;
\* a cut leaves part of the unit that was under way.
ListReplyInv ==
    /\ wiBusID = << >>
    /\ wiExp \in {"hdr", "reply", "closed"}
    /\ wiExp = "hdr" => /\ wiUp = << >> \/ wiUp = <<ListHeader>>
                        /\ wiDown = << >> /\ wiReply = << >>
    /\ wiExp = "reply" =>
          /\ Len(wiDown) + Len(wiReply) = Len(Reply)
          /\ \A i \in 1..Len(wiReply) : wiReply[i] = Reply[Len(wiDown) + i]
    /\ wiReply \in Seq({Reply[i] : i \in 1..Len(Reply)})
    /\ wiExp = "closed" => wiReply = << >> /\ (wiCut \/ Len(wiDown) = Len(Reply))
    /\ wiDownEnd <=> wiExp = "closed"
    /\ wiCut => wiExp = "closed"

ListStreamInv ==
    /\ wiDown \in Seq({Arrives(i) : i \in 1..Len(Reply)} \cup {Part})
    /\ \A i \in 1..Len(wiDown) :
          \/ i <= Len(Reply) /\ wiDown[i] = Arrives(i)
          \/ wiDown[i] = Part /\ wiCut

\* The decoder has the first devices, and some interfaces of the one it is at.
Placed(k, j) ==
    /\ wiGot = Append(Decoded(k - 1), Partial(wiDevices[k], j))
    /\ wiRead = 2 + Before(k - 1) + 1 + j

ListDecodeInv ==
    /\ wiRead \in Nat /\ wiFetched \in Nat /\ wiRead <= wiFetched /\ wiFetched <= Len(wiDown)
    /\ wiImp \in {"idle", "hdr", "count", "dev", "intf", "ok", "eof", "truncated", "mismatch",
                  "protoerr"}
    /\ wiCount \in 0..MaxDevlist
    /\ wiImp \in {"idle", "hdr"} => wiRead = 0 /\ wiGot = << >>
    /\ wiImp = "count" => wiRead = 1 /\ wiGot = << >>
    /\ wiImp \in {"dev", "intf"} => wiCount = Announced
    /\ wiImp = "dev" => \E k \in 0..Encoded :
                           k < Announced /\ wiGot = Decoded(k) /\ wiRead = 2 + Before(k)
    /\ wiImp = "intf" => \E k \in 1..Encoded : \E j \in 0..wiDevices[k].num - 1 : Placed(k, j)
    /\ wiImp = "ok" => Encoded = Announced /\ wiGot = Decoded(Announced)

ListInv ==
    wiOp = "devlist" =>
        ListPeerInv /\ ListReplyInv /\ ListStreamInv /\ ListDecodeInv /\ RefusalsAreTrue

\* The peers do not change, nor does what they have to say to each other.
LEMMA ListPeerStep ==
  ASSUME ListPeerInv, WiPeerInv, [WiNext]_wiVars
  PROVE  /\ UNCHANGED <<wiOp, wiOurs, wiFault, wiDevices, wiReason>> /\ ListPeerInv'
         /\ UNCHANGED <<Announced, Encoded, Reply>>
         /\ \A k : Before(k)' = Before(k) /\ Decoded(k)' = Decoded(k) /\ Arrives(k)' = Arrives(k)
<1>1. UNCHANGED <<wiOp, wiOurs, wiFault, wiDevices, wiReason>>
  BY WiPeerStep DEF wiPeer
<1>2. ListPeerInv'
  BY <1>1 DEF ListPeerInv
<1>3. UNCHANGED Announced
  BY <1>1 DEF Announced
<1>4. UNCHANGED EncodedPrefix(wiDevices)
  BY <1>1
<1>5. UNCHANGED Encoded
  BY <1>4 DEF Encoded
<1>6. UNCHANGED Reply
  BY <1>1 DEF Reply
<1>7. ASSUME NEW k PROVE Before(k)' = Before(k)
  <2>1. [i \in 1..k |-> DeviceUnits(wiDevices[i])]' = [i \in 1..k |-> DeviceUnits(wiDevices[i])]
    BY <1>1
  <2> QED BY <2>1 DEF Before, Sent
<1>8. ASSUME NEW k PROVE Decoded(k)' = Decoded(k)
  BY <1>1 DEF Decoded
<1>9. ASSUME NEW k PROVE Arrives(k)' = Arrives(k)
  BY <1>1, <1>6 DEF Arrives, Faulty
<1>10. QED BY <1>1, <1>2, <1>3, <1>5, <1>6, <1>7, <1>8, <1>9

\* What the importer makes of the header, the count, a device and an interface that may arrive.
LEMMA ListUnits ==
  ASSUME wiOp = "devlist", ListPeerInv
  PROVE  /\ Faulty(ListHeader).t = "hdr"
         /\ HeaderVerdict(Faulty(ListHeader)) \in {"mismatch", "protoerr", "count"}
         /\ HeaderVerdict(Faulty(ListHeader)) \in {"mismatch", "protoerr"} => wiFault # "none"
         /\ Faulty(ListCount).t = "count"
         /\ \/ Faulty(ListCount).n = Announced
            \/ Faulty(ListCount).n = MaxDevlist + 1 /\ wiFault # "none"
<1>1. ListHeader = [t |-> "hdr", n |-> 0, v |-> "devlist"]
      /\ ListCount = [t |-> "count", n |-> Announced, v |-> "none"]
  BY DEF ListHeader, ListCount, Unit
<1>2. /\ Faulty(ListCount).t = "count"
      /\ Faulty(ListCount).n = Announced \/ (Faulty(ListCount).n = MaxDevlist + 1 /\ wiFault # "none")
  BY <1>1 DEF Faulty
<1>3. CASE wiFault = "version"
  <2>1. Faulty(ListHeader) = [t |-> "hdr", n |-> 0, v |-> "version"]
    BY <1>1, <1>3 DEF Faulty
  <2> QED BY <1>2, <1>3, <2>1 DEF HeaderVerdict
<1>4. CASE wiFault = "opcode"
  <2>1. Faulty(ListHeader) = [t |-> "hdr", n |-> 0, v |-> "other"]
    BY <1>1, <1>4 DEF Faulty
  <2> QED BY <1>2, <1>4, <2>1 DEF HeaderVerdict
<1>5. CASE wiFault = "status"
  <2>1. Faulty(ListHeader) = [t |-> "hdr", n |-> 9, v |-> "devlist"]
    BY <1>1, <1>5 DEF Faulty
  <2> QED BY <1>2, <1>5, <2>1 DEF HeaderVerdict
<1>6. CASE wiFault \notin {"version", "opcode", "status"}
  <2>1. Faulty(ListHeader) = ListHeader
    BY <1>1, <1>6 DEF Faulty
  <2> QED BY <1>1, <1>2, <2>1 DEF HeaderVerdict
<1>7. QED BY <1>3, <1>4, <1>5, <1>6

\* A foreign exporter may spoil a device's speed and nothing else of its units.
LEMMA ListDeviceUnits ==
  ASSUME ListPeerInv, NEW i \in 1..Announced
  PROVE  /\ DevUnit(i) = [t |-> "dev", n |-> wiDevices[i].num, v |-> wiDevices[i].id]
         /\ Faulty(DevUnit(i)).t = "dev"
         /\ Faulty(DevUnit(i)).v = "badspeed" => wiFault # "none"
         /\ Faulty(DevUnit(i)).v # "badspeed" => Faulty(DevUnit(i)) = DevUnit(i)
         /\ \A j : Faulty(Interface(wiDevices[i], j)) = Interface(wiDevices[i], j)
         /\ \A j : Interface(wiDevices[i], j).t = "intf"
<1>1. wiDevices[i].id # "badspeed"
  BY EncodedFacts DEF ListPeerInv
<1>2. DevUnit(i) = [t |-> "dev", n |-> wiDevices[i].num, v |-> wiDevices[i].id]
  BY DEF DevUnit, Unit
<1>3. ASSUME NEW j
      PROVE  Interface(wiDevices[i], j).t = "intf" /\ Faulty(Interface(wiDevices[i], j)) = Interface(wiDevices[i], j)
  <2>1. Interface(wiDevices[i], j).t = "intf"
    BY DEF Interface, Unit
  <2> QED BY <2>1 DEF Faulty
<1>4. CASE wiFault = "speed"
  <2>1. Faulty(DevUnit(i)) = [t |-> "dev", n |-> wiDevices[i].num, v |-> "badspeed"]
    BY <1>2, <1>4 DEF Faulty
  <2> QED BY <1>2, <1>3, <1>4, <2>1
<1>5. CASE wiFault # "speed"
  <2>1. Faulty(DevUnit(i)) = DevUnit(i)
    BY <1>2, <1>5 DEF Faulty
  <2> QED BY <1>1, <1>2, <1>3, <2>1
<1>6. QED BY <1>4, <1>5

\* A sequence given element by element grows by its next element.
LEMMA GrowOne ==
  ASSUME NEW B, NEW j \in Nat
  PROVE  /\ Append([i \in 1..j |-> B[i]], B[j + 1]) = [i \in 1..j + 1 |-> B[i]]
         /\ [i \in 1..j |-> B[i]] \in Seq({B[i] : i \in 1..j + 1}) /\ Len([i \in 1..j |-> B[i]]) = j
<1> DEFINE s == [i \in 1..j |-> B[i]]
           t == [i \in 1..j + 1 |-> B[i]]
           S == {B[i] : i \in 1..j + 1}
<1>1. s \in Seq(S) /\ Len(s) = j /\ t \in Seq(S) /\ Len(t) = j + 1 /\ B[j + 1] \in S
  OBVIOUS
<1>2. \A i \in 1..j : s[i] = B[i] /\ t[i] = B[i]
  OBVIOUS
<1>3. t[j + 1] = B[j + 1]
  OBVIOUS
<1> HIDE DEF s, t, S
<1> DEFINE u == Append(s, B[j + 1])
<1>4. /\ u \in Seq(S) /\ Len(u) = j + 1 /\ u[j + 1] = B[j + 1] /\ \A i \in 1..j : u[i] = s[i]
  BY <1>1, AppendProperties
<1> HIDE DEF u
<1>5. \A i \in 1..j + 1 : u[i] = t[i]
  BY <1>2, <1>3, <1>4
<1>6. u = t
  BY <1>1, <1>4, <1>5, SeqEqual
<1>7. QED BY <1>1, <1>6 DEF u, s, t, S

\* The last element of a sequence, and another in its place.
LEMMA ReplaceLast ==
  ASSUME NEW S, NEW s \in Seq(S), NEW a, NEW b
  PROVE  /\ Len(Append(s, a)) = Len(s) + 1 /\ Append(s, a)[Len(s) + 1] = a
         /\ [Append(s, a) EXCEPT ![Len(s) + 1] = b] = Append(s, b)
<1> DEFINE T == S \cup {a, b}
           n == Len(s)
           x == Append(s, a)
           y == Append(s, b)
           z == [x EXCEPT ![n + 1] = b]
<1>1. s \in Seq(T) /\ n \in Nat /\ a \in T /\ b \in T
  OBVIOUS
<1> HIDE DEF T, n
<1>2. /\ x \in Seq(T) /\ Len(x) = n + 1 /\ x[n + 1] = a /\ \A i \in 1..n : x[i] = s[i]
      /\ y \in Seq(T) /\ Len(y) = n + 1 /\ y[n + 1] = b /\ \A i \in 1..n : y[i] = s[i]
  BY <1>1, AppendProperties DEF n
<1> HIDE DEF x, y
<1>3. z \in Seq(T) /\ Len(z) = n + 1 /\ z[n + 1] = b /\ \A i \in 1..n : z[i] = x[i]
  <2>1. x \in [1..n + 1 -> T] /\ DOMAIN x = 1..n + 1
    BY <1>2
  <2>2. z \in [1..n + 1 -> T]
    BY <1>1, <2>1
  <2>3. z[n + 1] = b /\ \A i \in 1..n : z[i] = x[i]
    BY <1>1, <2>1
  <2> HIDE DEF z
  <2>4. z \in Seq(T) /\ Len(z) = n + 1
    BY <1>1, <2>2
  <2> QED BY <2>3, <2>4
<1> HIDE DEF z
<1>4. \A i \in 1..n + 1 : z[i] = y[i]
  BY <1>1, <1>2, <1>3
<1>5. z = y
  BY <1>2, <1>3, <1>4, SeqEqual
<1>6. QED BY <1>2, <1>5 DEF x, y, z, n

\* How a device is decoded, interface by interface.
LEMMA PartialFacts ==
  ASSUME NEW d, d.num \in Nat
  PROVE  /\ Partial(d, 0) = [id |-> d.id, num |-> d.num, ifs |-> << >>]
         /\ Partial(d, d.num) = Normal(d)
         /\ \A j \in Nat : /\ Partial(d, j).num = d.num /\ Len(Partial(d, j).ifs) = j
                           /\ [Partial(d, j) EXCEPT !.ifs = Append(Partial(d, j).ifs, Interface(d, j + 1).v)]
                              = Partial(d, j + 1)
<1>1. Named(d, 0) = << >>
  BY DEF Named
<1>2. Partial(d, 0) = [id |-> d.id, num |-> d.num, ifs |-> << >>]
  BY <1>1 DEF Partial
<1>3. Partial(d, d.num) = Normal(d)
  BY DEF Partial, Normal, Named
<1>4. ASSUME NEW j \in Nat
      PROVE  /\ Partial(d, j).num = d.num /\ Len(Partial(d, j).ifs) = j
             /\ [Partial(d, j) EXCEPT !.ifs = Append(Partial(d, j).ifs, Interface(d, j + 1).v)]
                = Partial(d, j + 1)
  <2> DEFINE B == [i \in 1..j + 1 |-> IF i <= Len(d.ifs) THEN d.ifs[i] ELSE "zero"]
  <2>1. Named(d, j) = [i \in 1..j |-> B[i]]
    BY DEF Named
  <2>2. Named(d, j + 1) = [i \in 1..j + 1 |-> B[i]]
    BY DEF Named
  <2>3. Interface(d, j + 1).v = B[j + 1]
    BY DEF Interface, Unit
  <2> HIDE DEF B
  <2>4. Append(Named(d, j), Interface(d, j + 1).v) = Named(d, j + 1) /\ Len(Named(d, j)) = j
    BY <2>1, <2>2, <2>3, GrowOne
  <2> QED BY SMTT(60), <2>4 DEF Partial
<1>5. QED BY <1>2, <1>3, <1>4

\* And the list, device by device.
LEMMA DecodedFacts ==
  ASSUME NEW k \in Nat
  PROVE  /\ Decoded(0) = << >>
         /\ Len(Decoded(k)) = k
         /\ Decoded(k) \in Seq({Decoded(k)[i] : i \in 1..k})
         /\ Decoded(k + 1) = Append(Decoded(k), Normal(wiDevices[k + 1]))
<1>1. Decoded(0) = << >>
  BY DEF Decoded
<1> DEFINE B == [i \in 1..k + 1 |-> Normal(wiDevices[i])]
<1>2. Decoded(k) = [i \in 1..k |-> B[i]] /\ Decoded(k + 1) = [i \in 1..k + 1 |-> B[i]]
  BY DEF Decoded
<1>3. B[k + 1] = Normal(wiDevices[k + 1])
  OBVIOUS
<1> HIDE DEF B
<1>4. Len(Decoded(k)) = k /\ Decoded(k + 1) = Append(Decoded(k), B[k + 1])
      /\ Decoded(k) \in Seq({B[i] : i \in 1..k + 1})
  BY <1>2, GrowOne
<1>5. Decoded(k) \in Seq({Decoded(k)[i] : i \in 1..k})
  BY SMTT(60), <1>4, OwnElements
<1>6. QED BY <1>1, <1>3, <1>4, <1>5

\* Where the decoder goes from a device of which it has j interfaces.
LEMMA AfterPlaced ==
  ASSUME wiOp = "devlist", ListPeerInv, wiCount = Announced, NEW k \in 1..Encoded,
         NEW j \in 0..wiDevices[k].num, NEW got,
         got = Append(Decoded(k - 1), Partial(wiDevices[k], j))
  PROVE  /\ AfterDevice(got) = IF j < wiDevices[k].num THEN "intf"
                               ELSE IF k < Announced THEN "dev" ELSE "ok"
         /\ Len(got) = k /\ got[k] = Partial(wiDevices[k], j)
         /\ \A p : [got EXCEPT ![k] = p] = Append(Decoded(k - 1), p)
         /\ j = wiDevices[k].num => got = Decoded(k)
<1> DEFINE d == wiDevices[k]
           s == Decoded(k - 1)
<1>1. k \in 1..Announced /\ Announced \in Nat /\ d.num \in Nat /\ k - 1 \in Nat /\ k \in Nat /\ j \in Nat
  BY EncodedFacts DEF ListPeerInv
<1>2. Len(s) = k - 1 /\ s \in Seq({s[i] : i \in 1..k - 1})
      /\ Decoded((k - 1) + 1) = Append(s, Normal(wiDevices[(k - 1) + 1]))
  BY <1>1, DecodedFacts
<1>3. (k - 1) + 1 = k
  BY <1>1
<1>4. Decoded(k) = Append(s, Normal(d))
  BY <1>2, <1>3
<1> HIDE DEF d, s
<1>5. \A a, b : /\ Len(Append(s, a)) = Len(s) + 1 /\ Append(s, a)[Len(s) + 1] = a
                /\ [Append(s, a) EXCEPT ![Len(s) + 1] = b] = Append(s, b)
  BY <1>2, ReplaceLast
<1>6. Len(s) + 1 = k
  BY <1>1, <1>2
<1>7. \A a, b : Len(Append(s, a)) = k /\ Append(s, a)[k] = a /\ [Append(s, a) EXCEPT ![k] = b] = Append(s, b)
  BY <1>5, <1>6
<1>8. got = Append(s, Partial(d, j))
  BY DEF s, d
<1>9. Len(got) = k /\ got[k] = Partial(d, j) /\ \A p : [got EXCEPT ![k] = p] = Append(s, p)
  BY ZenonT(60), <1>7, <1>8
<1>10. Partial(d, j).num = d.num /\ Len(Partial(d, j).ifs) = j /\ Partial(d, d.num) = Normal(d)
  BY <1>1, PartialFacts
<1>11. AfterDevice(got) = IF j < d.num THEN "intf" ELSE IF k < Announced THEN "dev" ELSE "ok"
  BY <1>9, <1>10 DEF AfterDevice
<1>12. j = d.num => got = Decoded(k)
  BY <1>4, <1>8, <1>10
<1>13. QED BY <1>9, <1>11, <1>12 DEF d, s

\* The exporter's side of a list.
LEMMA ListReplyStep ==
  ASSUME wiOp = "devlist", WiPeerInv, ListPeerInv, ListReplyInv, ListStreamInv, [WiNext]_wiVars
  PROVE  ListReplyInv' /\ ListStreamInv'
<1> DEFINE N == Len(Reply)
           U == {Arrives(i) : i \in 1..N} \cup {Part}
           RS == {Reply[i] : i \in 1..N}
<1>1. UNCHANGED Reply /\ UNCHANGED wiOp /\ \A i : Arrives(i)' = Arrives(i)
  BY ListPeerStep
<1>2. Reply \in Seq(RS) /\ N \in Nat /\ N >= 2
  BY ReplyFacts DEF ListPeerInv
<1>3. wiDown \in Seq(U) /\ Len(wiDown) \in Nat /\ wiReply \in Seq(RS) /\ Len(wiReply) \in Nat
  BY DEF ListReplyInv, ListStreamInv
<1>4. U' = U /\ RS' = RS
  BY <1>1
<1>5. CASE UNCHANGED <<wiBusID, wiExp, wiUp, wiDown, wiReply, wiCut, wiDownEnd>>
  <2>1. ListReplyInv'
    BY <1>1, <1>5 DEF ListReplyInv
  <2>2. ListStreamInv'
    <3>1. wiDown' \in Seq(U')
      BY <1>3, <1>4, <1>5
    <3>2. ASSUME NEW i \in 1..Len(wiDown')
          PROVE  (i <= Len(Reply) /\ wiDown[i] = Arrives(i))' \/ (wiDown[i] = Part /\ wiCut)'
      BY <1>1, <1>5 DEF ListStreamInv
    <3> QED BY <3>1, <3>2 DEF ListStreamInv
  <2> QED BY <2>1, <2>2
<1>6. ASSUME SendRequest PROVE ListReplyInv' /\ ListStreamInv'
  <2>1. wiUp' = <<ListHeader>> /\ UNCHANGED <<wiBusID, wiExp, wiDown, wiReply, wiCut, wiDownEnd>>
    BY <1>6 DEF SendRequest, ListHeader
  <2>2. ListReplyInv'
    <3>1. UNCHANGED ListHeader
      BY DEF ListHeader
    <3> QED BY <1>1, <2>1, <3>1 DEF ListReplyInv
  <2>3. ListStreamInv'
    <3>1. wiDown' \in Seq(U')
      BY <1>3, <1>4, <2>1
    <3>2. ASSUME NEW i \in 1..Len(wiDown')
          PROVE  (i <= Len(Reply) /\ wiDown[i] = Arrives(i))' \/ (wiDown[i] = Part /\ wiCut)'
      BY <1>1, <2>1 DEF ListStreamInv
    <3> QED BY <3>1, <3>2 DEF ListStreamInv
  <2> QED BY <2>2, <2>3
<1>7. ASSUME Cut PROVE ListReplyInv' /\ ListStreamInv'
  <2>1. /\ wiCut' /\ wiDownEnd' /\ wiReply' = << >> /\ wiExp' = "closed" /\ UNCHANGED wiBusID
        /\ ~wiCut /\ (wiDown' = wiDown \/ wiDown' = Append(wiDown, Part))
    BY <1>7 DEF Cut
  <2>2. ListReplyInv'
    <3>1. wiReply' \in Seq(RS')
      BY <2>1
    <3> QED BY <2>1, <3>1 DEF ListReplyInv
  <2>3. \A i \in 1..Len(wiDown) : i <= N /\ wiDown[i] = Arrives(i)
    BY <2>1 DEF ListStreamInv
  <2>4. ListStreamInv'
    <3>0. Part \in U
      OBVIOUS
    <3> HIDE DEF U
    <3>1. CASE wiDown' = wiDown
      <4>1. wiDown' \in Seq(U')
        BY <1>3, <1>4, <3>1
      <4>2. \A i \in 1..Len(wiDown') : (i <= Len(Reply) /\ wiDown[i] = Arrives(i))'
        BY <1>1, <2>3, <3>1
      <4> QED BY <4>1, <4>2 DEF ListStreamInv, U
    <3>2. CASE wiDown' = Append(wiDown, Part)
      <4>1. /\ wiDown' \in Seq(U) /\ Len(wiDown') = Len(wiDown) + 1 /\ wiDown'[Len(wiDown) + 1] = Part
            /\ \A i \in 1..Len(wiDown) : wiDown'[i] = wiDown[i]
        BY <1>3, <3>0, <3>2, AppendProperties
      <4>2. ASSUME NEW i \in 1..Len(wiDown')
            PROVE  (i <= Len(Reply) /\ wiDown[i] = Arrives(i))' \/ (wiDown[i] = Part /\ wiCut)'
        <5>1. CASE i \in 1..Len(wiDown)
          BY <1>1, <2>3, <4>1, <5>1
        <5>2. CASE i = Len(wiDown) + 1
          BY <2>1, <4>1, <5>2
        <5> QED BY <1>3, <4>1, <5>1, <5>2
      <4>3. wiDown' \in Seq(U')
        BY <1>4, <4>1
      <4> QED BY <4>2, <4>3 DEF ListStreamInv, U
    <3> QED BY <2>1, <3>1, <3>2
  <2> QED BY <2>2, <2>4
<1>8. ASSUME ReadRequestHeader PROVE ListReplyInv' /\ ListStreamInv'
  <2>1. wiExp = "hdr" /\ wiUp = <<ListHeader>> /\ wiDown = << >>
    BY <1>8 DEF ReadRequestHeader, ListReplyInv
  <2>2. Head(wiUp).v = "devlist"
    BY <2>1 DEF ListHeader, Unit
  <2>3. wiExp' = "reply" /\ wiReply' = Reply /\ UNCHANGED <<wiDown, wiDownEnd, wiBusID, wiCut>>
    BY <1>8, <2>2 DEF ReadRequestHeader, Reply
  <2>4. Len(wiDown') = 0 /\ ~wiCut' /\ ~wiDownEnd' /\ wiDown' = << >>
    BY <2>1, <2>3 DEF ListReplyInv
  <2>5. Len(wiDown') + Len(wiReply') = Len(Reply')
      /\ \A i \in 1..Len(wiReply') : wiReply'[i] = Reply'[Len(wiDown') + i]
    BY <1>1, <1>2, <2>3, <2>4
  <2>6. wiReply' \in Seq(RS')
    BY <1>2, <1>4, <2>3
  <2>7. ListReplyInv'
    BY <2>3, <2>4, <2>5, <2>6 DEF ListReplyInv
  <2>8. ListStreamInv'
    BY <2>4 DEF ListStreamInv
  <2> QED BY <2>7, <2>8
<1>9. ASSUME WriteUnit PROVE ListReplyInv' /\ ListStreamInv'
  <2>1. /\ wiExp = "reply" /\ wiReply # << >> /\ wiDown' = Append(wiDown, Faulty(Head(wiReply)))
        /\ wiReply' = Tail(wiReply) /\ UNCHANGED <<wiExp, wiDownEnd, wiBusID, wiCut>> /\ ~wiCut
    BY <1>9 DEF WriteUnit, ListReplyInv
  <2>2. /\ Len(wiDown) + Len(wiReply) = N
        /\ \A i \in 1..Len(wiReply) : wiReply[i] = Reply[Len(wiDown) + i]
    BY <2>1 DEF ListReplyInv
  <2> HIDE DEF N, U, RS
  <2>3. /\ Len(wiReply) >= 1 /\ Head(wiReply) = wiReply[1] /\ Len(wiReply') = Len(wiReply) - 1
        /\ wiReply' \in Seq(RS) /\ \A i \in 1..Len(wiReply) - 1 : wiReply'[i] = wiReply[i + 1]
    <3>1. Len(wiReply) >= 1 /\ Head(wiReply) = wiReply[1]
      BY <1>3, <2>1
    <3> QED BY <1>3, <2>1, <3>1, HeadTailProperties
  <2>4. Faulty(Head(wiReply)) = Arrives(Len(wiDown) + 1) /\ Len(wiDown) + 1 \in 1..N
    <3>1. wiReply[1] = Reply[Len(wiDown) + 1] /\ Len(wiDown) + 1 \in 1..N
      BY <1>2, <1>3, <2>2, <2>3
    <3> QED BY <2>3, <3>1 DEF Arrives
  <2>5. Arrives(Len(wiDown) + 1) \in U
    BY <2>4 DEF U
  <2>6. /\ wiDown' \in Seq(U) /\ Len(wiDown') = Len(wiDown) + 1
        /\ wiDown'[Len(wiDown) + 1] = Arrives(Len(wiDown) + 1)
        /\ \A i \in 1..Len(wiDown) : wiDown'[i] = wiDown[i]
    BY <1>3, <2>1, <2>4, <2>5, AppendProperties
  <2>7. /\ Len(wiDown') + Len(wiReply') = N
        /\ \A i \in 1..Len(wiReply') : wiReply'[i] = Reply[Len(wiDown') + i]
    <3>1. Len(wiDown') + Len(wiReply') = N
      BY <1>3, <2>2, <2>3, <2>6
    <3>2. ASSUME NEW i \in 1..Len(wiReply') PROVE wiReply'[i] = Reply[Len(wiDown') + i]
      <4>1. i \in 1..Len(wiReply) - 1 /\ i + 1 \in 1..Len(wiReply) /\ Len(wiDown) + (i + 1) = Len(wiDown') + i
        BY <1>3, <2>3, <2>6
      <4> QED BY <2>2, <2>3, <4>1
    <3> QED BY <3>1, <3>2
  <2>8. ListReplyInv'
    <3>1. wiReply' \in Seq(RS')
      BY <1>4, <2>3
    <3>2. /\ Len(wiDown') + Len(wiReply') = Len(Reply')
          /\ \A i \in 1..Len(wiReply') : wiReply'[i] = Reply'[Len(wiDown') + i]
      BY <1>1, <2>7 DEF N
    <3> QED BY <2>1, <3>1, <3>2 DEF ListReplyInv, N, RS
  <2>9. ListStreamInv'
    <3>1. wiDown' \in Seq(U')
      BY <1>4, <2>6
    <3>2. ASSUME NEW i \in 1..Len(wiDown')
          PROVE  (i <= Len(Reply) /\ wiDown[i] = Arrives(i))'
      <4>1. CASE i \in 1..Len(wiDown)
        <5>1. i <= Len(Reply) /\ wiDown[i] = Arrives(i)
          BY <2>1, <4>1 DEF ListStreamInv
        <5> QED BY <1>1, <2>6, <4>1, <5>1
      <4>2. CASE i = Len(wiDown) + 1
        BY <1>1, <2>4, <2>6, <4>2 DEF N
      <4> QED BY <1>3, <2>6, <4>1, <4>2
    <3> QED BY <3>1, <3>2 DEF ListStreamInv, U, N
  <2> QED BY <2>8, <2>9
<1>10. ASSUME Replied PROVE ListReplyInv' /\ ListStreamInv'
  <2>1. /\ wiExp = "reply" /\ wiReply = << >> /\ wiExp' = "closed" /\ wiDownEnd' = TRUE
        /\ UNCHANGED <<wiReply, wiDown, wiBusID, wiCut>>
    BY <1>10 DEF Replied, ExpClose
  <2>2. Len(wiDown) = N
    <3>1. Len(wiDown) + Len(wiReply) = N /\ Len(wiReply) = 0
      BY <2>1 DEF ListReplyInv
    <3> QED BY <1>3, <3>1
  <2>3. ListReplyInv'
    <3>1. wiReply' \in Seq(RS') /\ Len(wiDown') = Len(Reply')
      BY <1>1, <2>1, <2>2
    <3> QED BY <2>1, <3>1 DEF ListReplyInv
  <2>4. ListStreamInv'
    <3>1. wiDown' \in Seq(U')
      BY <1>3, <1>4, <2>1
    <3>2. ASSUME NEW i \in 1..Len(wiDown')
          PROVE  (i <= Len(Reply) /\ wiDown[i] = Arrives(i))' \/ (wiDown[i] = Part /\ wiCut)'
      BY <1>1, <2>1 DEF ListStreamInv
    <3> QED BY <3>1, <3>2 DEF ListStreamInv
  <2> QED BY <2>3, <2>4
<1>11. ~ReadImportBody /\ ~KernelSends
  BY DEF ReadImportBody, KernelSends, ListReplyInv
<1>12. ASSUME StreamEnds \/ DecodeHeader \/ DecodeCount \/ DecodeDevice \/ DecodeInterface
       PROVE  UNCHANGED <<wiBusID, wiExp, wiUp, wiDown, wiReply, wiCut, wiDownEnd>>
  BY <1>12 DEF StreamEnds, DecodeHeader, DecodeCount, DecodeDevice, DecodeInterface, wiExpVars
<1>13. ASSUME UNCHANGED wiVars
       PROVE  UNCHANGED <<wiBusID, wiExp, wiUp, wiDown, wiReply, wiCut, wiDownEnd>>
  BY <1>13 DEF wiVars, wiExpVars
<1>14. QED
  BY <1>5, <1>6, <1>7, <1>8, <1>9, <1>10, <1>11, <1>12, <1>13 DEF WiNext

\* Where the decoder can be, and what it meets there.
LEMMA Positions ==
  ASSUME ListPeerInv, NEW k \in 0..Encoded
  PROVE  /\ Before(k) \in Nat /\ Len(Reply) \in Nat /\ 2 <= Len(Reply)
         /\ 2 + Before(k) = Len(Reply) => k = Encoded
         /\ 2 + Before(k) + 1 <= Len(Reply) =>
               k + 1 \in 1..Encoded /\ Arrives(2 + Before(k) + 1) = Faulty(DevUnit(k + 1))
         /\ k \in 1..Encoded => \A j \in 0..wiDevices[k].num - 1 :
               /\ 2 + Before(k - 1) + 1 + j < Len(Reply)
               /\ Arrives(2 + Before(k - 1) + 1 + j + 1) = Interface(wiDevices[k], j + 1)
<1> DEFINE e == Encoded
<1>0. e \in 0..Announced /\ Announced \in Nat /\ e \in Nat /\ k \in 0..e
  BY EncodedFacts DEF ListPeerInv
<1>1. /\ Len(Reply) = 2 + Before(e) /\ Before(0) = 0 /\ Before(e) \in Nat
      /\ \A i \in 1..e :
            /\ Before(i - 1) \in Nat /\ Before(i) \in Nat /\ wiDevices[i].num \in Nat
            /\ Before(i) = Before(i - 1) + 1 + wiDevices[i].num
            /\ Before(i) <= Before(e)
            /\ Reply[2 + Before(i - 1) + 1] = DevUnit(i)
            /\ \A j \in 1..wiDevices[i].num :
                  Reply[2 + Before(i - 1) + 1 + j] = Interface(wiDevices[i], j)
  BY ReplyFacts DEF ListPeerInv
<1>2. Before(k) \in Nat /\ Len(Reply) \in Nat /\ 2 <= Len(Reply)
  <2>1. k = 0 \/ k \in 1..e
    BY <1>0
  <2> QED BY <1>1, <2>1
<1>3. k # e =>
        /\ k + 1 \in 1..e /\ Before(k) < Before(e) /\ Reply[2 + Before(k) + 1] = DevUnit(k + 1)
  <2> SUFFICES ASSUME k # e
               PROVE  k + 1 \in 1..e /\ Before(k) < Before(e) /\ Reply[2 + Before(k) + 1] = DevUnit(k + 1)
    OBVIOUS
  <2>1. k + 1 \in 1..e /\ (k + 1) - 1 = k
    BY <1>0
  <2>2. /\ Before(k + 1) = Before(k) + 1 + wiDevices[k + 1].num /\ Before(k + 1) <= Before(e)
        /\ wiDevices[k + 1].num \in Nat /\ Reply[2 + Before(k) + 1] = DevUnit(k + 1)
    BY <1>1, <2>1
  <2>3. Before(k) < Before(e)
    BY <1>1, <1>2, <2>2
  <2> QED BY <2>1, <2>2, <2>3
<1>4. ASSUME k \in 1..e, NEW j \in 0..wiDevices[k].num - 1
      PROVE  /\ 2 + Before(k - 1) + 1 + j < Len(Reply)
             /\ Arrives(2 + Before(k - 1) + 1 + j + 1) = Interface(wiDevices[k], j + 1)
  <2>1. PICK x \in Nat : x = Before(k - 1)
    BY <1>1, <1>4
  <2>2. PICK n \in Nat : n = wiDevices[k].num
    BY <1>1, <1>4
  <2>3. Before(k) = x + 1 + n /\ Before(k) <= Before(e) /\ Before(e) \in Nat
    BY <1>1, <1>4, <2>1, <2>2
  <2>4. j \in 0..n - 1 /\ j + 1 \in 1..n
      /\ 2 + x + 1 + (j + 1) = 2 + x + 1 + j + 1 /\ 2 + x + 1 + j < 2 + Before(e)
    <3>1. j \in 0..n - 1
      BY <2>2
    <3>2. PICK b \in Nat : b = Before(e)
      BY <2>3
    <3>3. x + 1 + n <= b
      BY <2>3, <3>2
    <3>4. x \in Nat /\ n \in Nat /\ b \in Nat
      OBVIOUS
    <3>5. j + 1 \in 1..n /\ 2 + x + 1 + (j + 1) = 2 + x + 1 + j + 1 /\ 2 + x + 1 + j < 2 + b
      BY ONLY <3>1, <3>3, <3>4
    <3> QED BY <3>1, <3>2, <3>5
  <2>5. Reply[2 + x + 1 + (j + 1)] = Interface(wiDevices[k], j + 1)
    BY <1>1, <1>4, <2>1, <2>2, <2>4
  <2>6. Faulty(Interface(wiDevices[k], j + 1)) = Interface(wiDevices[k], j + 1)
    <3>1. k \in 1..Announced
      BY <1>0, <1>4
    <3> QED BY <3>1, ListDeviceUnits
  <2>7. Arrives(2 + x + 1 + j + 1) = Interface(wiDevices[k], j + 1)
    BY <2>4, <2>5, <2>6 DEF Arrives
  <2> QED BY <1>1, <2>1, <2>4, <2>7
<1>5. 2 + Before(k) = Len(Reply) => k = e
  BY <1>1, <1>2, <1>3
<1>6. 2 + Before(k) + 1 <= Len(Reply) =>
        k + 1 \in 1..e /\ Arrives(2 + Before(k) + 1) = Faulty(DevUnit(k + 1))
  <2>1. 2 + Before(k) + 1 <= Len(Reply) => k # e
    BY <1>1, <1>2
  <2> QED BY <1>3, <2>1 DEF Arrives
<1>7. QED BY <1>2, <1>4, <1>5, <1>6

\* The next unit is the reply's next, or what a cut left of it.
LEMMA ListNext ==
  ASSUME ListStreamInv, ListDecodeInv, wiRead < Len(wiDown)
  PROVE  \/ wiRead + 1 <= Len(Reply) /\ Next1 = Arrives(wiRead + 1)
         \/ Next1 = Part /\ wiCut
<1>1. Len(wiDown) \in Nat
  BY DEF ListStreamInv
<1>2. wiRead + 1 \in 1..Len(wiDown)
  BY <1>1 DEF ListDecodeInv
<1>3. QED BY <1>2 DEF ListStreamInv, Next1

\* A list is read ahead, and never past what is there.
LEMMA ListConsumes ==
  ASSUME ListStreamInv, ListDecodeInv, wiRead < Len(wiDown), Consume, UNCHANGED wiDown
  PROVE  /\ wiRead' = wiRead + 1 /\ wiRead' \in Nat /\ wiFetched' \in Nat
         /\ wiRead' <= wiFetched' /\ wiFetched' <= Len(wiDown')
<1>1. /\ Len(wiDown) \in Nat /\ wiRead \in Nat /\ wiFetched \in Nat /\ wiRead <= wiFetched
      /\ wiFetched <= Len(wiDown)
  BY DEF ListStreamInv, ListDecodeInv
<1>2. /\ wiRead' = wiRead + 1
      /\ \/ wiRead < wiFetched /\ wiFetched' = wiFetched
         \/ wiFetched' \in wiRead + 1..Len(wiDown)
         \/ wiFetched' = wiRead + 1
  BY DEF Consume
<1>3. QED BY <1>1, <1>2

\* After a device or an interface the decoder is where the list says it is.
LEMMA ListPlaced ==
  ASSUME wiOp = "devlist", WiPeerInv, ListPeerInv, [WiNext]_wiVars,
         wiCount = Announced, UNCHANGED wiCount, NEW k \in 1..Encoded,
         NEW j \in 0..wiDevices[k].num,
         wiGot' = Append(Decoded(k - 1), Partial(wiDevices[k], j)),
         wiRead' = 2 + Before(k - 1) + 1 + j, wiImp' = AfterDevice(wiGot'),
         wiRead' \in Nat, wiFetched' \in Nat, wiRead' <= wiFetched', wiFetched' <= Len(wiDown')
  PROVE  ListDecodeInv' /\ wiImp' \in {"intf", "dev", "ok"}
<1>1. /\ UNCHANGED <<Announced, Encoded, wiDevices>>
      /\ \A i : Before(i)' = Before(i) /\ Decoded(i)' = Decoded(i)
  BY ListPeerStep
<1>2. /\ Announced \in 0..MaxDevlist /\ Encoded \in 0..Announced /\ k \in 1..Announced
      /\ wiDevices[k].num \in Nat /\ Announced \in Nat /\ Encoded \in Nat /\ MaxDevlist \in Nat
  BY SMTT(60), EncodedFacts, WireAssumption DEF ListPeerInv
<1>3. /\ wiImp' = IF j < wiDevices[k].num THEN "intf" ELSE IF k < Announced THEN "dev" ELSE "ok"
      /\ j = wiDevices[k].num => wiGot' = Decoded(k)
  BY ZenonT(60), AfterPlaced
<1>4. wiCount' = Announced' /\ wiCount' \in 0..MaxDevlist
  BY <1>1, <1>2
<1>5. CASE j < wiDevices[k].num
  <2>1. wiImp' = "intf" /\ j \in 0..wiDevices'[k].num - 1 /\ k \in 1..Encoded'
    BY SMTT(60), <1>1, <1>2, <1>3, <1>5
  <2>2. Placed(k, j)'
    BY <1>1 DEF Placed
  <2> QED BY <1>4, <2>1, <2>2 DEF ListDecodeInv
<1>6. CASE ~(j < wiDevices[k].num) /\ k < Announced
  <2>1. j = wiDevices[k].num
    BY SMTT(60), <1>2, <1>6
  <2>2. wiImp' = "dev" /\ wiGot' = Decoded(k) /\ k \in 0..Encoded /\ k < Announced
    BY <1>2, <1>3, <1>6, <2>1
  <2>3. wiRead' = 2 + Before(k)
    <3>1. Before(k - 1) \in Nat /\ Before(k) = Before(k - 1) + 1 + wiDevices[k].num
      BY ReplyFacts DEF ListPeerInv
    <3>2. PICK b \in Nat : b = Before(k - 1)
      BY <3>1
    <3>3. PICK n \in Nat : n = wiDevices[k].num
      BY <1>2
    <3>4. wiRead' = 2 + b + 1 + n /\ Before(k) = b + 1 + n
      BY <2>1, <3>1, <3>2, <3>3
    <3>5. 2 + b + 1 + n = 2 + (b + 1 + n)
      OBVIOUS
    <3> QED BY <3>4, <3>5
  <2>4. k \in 0..Encoded' /\ k < Announced' /\ wiGot' = Decoded(k)' /\ wiRead' = 2 + Before(k)'
    BY <1>1, <2>2, <2>3
  <2> QED BY <1>4, <2>2, <2>4 DEF ListDecodeInv
<1>7. CASE ~(j < wiDevices[k].num) /\ ~(k < Announced)
  <2>1. j = wiDevices[k].num /\ k = Announced /\ Encoded = Announced
    BY SMTT(60), <1>2, <1>7
  <2>2. wiImp' = "ok" /\ wiGot' = Decoded(Announced)
    BY <1>3, <1>7, <2>1
  <2>3. Encoded' = Announced' /\ wiGot' = (Decoded(Announced))'
    <3>1. (Decoded(Announced))' = Decoded(Announced)
      BY <1>1 DEF Decoded, Announced
    <3> QED BY <1>1, <2>1, <2>2, <3>1
  <2> QED BY <1>4, <2>2, <2>3 DEF ListDecodeInv
<1>8. wiImp' \in {"intf", "dev", "ok"}
  BY <1>3
<1>9. QED BY <1>5, <1>6, <1>7, <1>8

\* The importer's side of a list: the decoder follows the reply, keeps what it announced, and
\* blames the peer, the cut or the exporter for what it cannot have.
LEMMA ListDecodeStep ==
  ASSUME wiOp = "devlist", WiPeerInv, ListPeerInv, ListReplyInv, ListStreamInv, ListDecodeInv,
         RefusalsAreTrue, [WiNext]_wiVars
  PROVE  ListDecodeInv' /\ RefusalsAreTrue'
<1>1. /\ UNCHANGED <<wiOp, wiOurs, wiFault, wiDevices, wiReason, Announced, Encoded>>
      /\ wiReason = "ok"
      /\ \A i : Before(i)' = Before(i) /\ Decoded(i)' = Decoded(i)
  BY ListPeerStep DEF ListPeerInv
<1>2. UNCHANGED Encodable(wiDevices)
  BY <1>1
<1>3. /\ wiRead \in Nat /\ wiFetched \in Nat /\ wiRead <= wiFetched /\ wiFetched <= Len(wiDown)
      /\ Len(wiDown) \in Nat /\ wiCount \in 0..MaxDevlist
      /\ wiImp \in {"idle", "hdr", "count", "dev", "intf", "ok", "eof", "truncated", "mismatch",
                    "protoerr"}
  BY DEF ListDecodeInv, ListStreamInv
<1>4. /\ Announced \in 0..MaxDevlist /\ Encoded \in 0..Announced /\ Announced \in Nat
      /\ Encoded \in Nat /\ MaxDevlist \in Nat
      /\ Encoded = Announced <=> Encodable(wiDevices)
  BY EncodedFacts, WireAssumption DEF ListPeerInv
<1>5. /\ Reply[1] = ListHeader /\ Reply[2] = ListCount /\ Len(Reply) \in Nat /\ 2 <= Len(Reply)
  <2>1. 0 \in 0..Encoded
    BY <1>4
  <2> QED BY <2>1, Positions, ReplyFacts DEF ListPeerInv
<1>6. ASSUME UNCHANGED wiImpVars, wiCut => wiCut', Len(wiDown') \in Nat, Len(wiDown) <= Len(wiDown')
      PROVE  ListDecodeInv' /\ RefusalsAreTrue'
  <2>1. UNCHANGED <<wiRead, wiFetched, wiImp, wiCount, wiGot>>
    BY <1>6 DEF wiImpVars
  <2>2. RefusalsAreTrue'
    BY <1>1, <1>2, <1>6, <2>1 DEF RefusalsAreTrue
  <2>3. wiFetched' <= Len(wiDown')
    BY <1>3, <1>6, <2>1
  <2>4. \A k, j : Placed(k, j)' <=> Placed(k, j)
    BY <1>1, <2>1 DEF Placed
  <2>5. (Decoded(Announced))' = Decoded(Announced)
    BY <1>1 DEF Decoded, Announced
  <2>6. (wiImp = "intf" => \E k \in 1..Encoded : \E j \in 0..wiDevices[k].num - 1 : Placed(k, j))'
    BY <1>1, <2>1, <2>4 DEF ListDecodeInv
  <2>7. (wiImp = "dev" => \E k \in 0..Encoded :
                             k < Announced /\ wiGot = Decoded(k) /\ wiRead = 2 + Before(k))'
    BY <1>1, <2>1 DEF ListDecodeInv
  <2>8. (wiImp = "ok" => Encoded = Announced /\ wiGot = Decoded(Announced))'
    BY <1>1, <2>1, <2>5 DEF ListDecodeInv
  <2>9. ListDecodeInv'
    BY <1>1, <2>1, <2>3, <2>6, <2>7, <2>8 DEF ListDecodeInv
  <2> QED BY <2>2, <2>9
<1>7. ASSUME SendRequest PROVE ListDecodeInv' /\ RefusalsAreTrue'
  <2>1. wiImp = "idle" /\ wiImp' = "hdr" /\ UNCHANGED <<wiRead, wiFetched, wiCount, wiGot, wiDown>>
    BY <1>7 DEF SendRequest
  <2>2. ListDecodeInv'
    BY <1>3, <2>1 DEF ListDecodeInv
  <2>3. RefusalsAreTrue'
    BY <2>1 DEF RefusalsAreTrue
  <2> QED BY <2>2, <2>3
<1>8. ASSUME StreamEnds PROVE ListDecodeInv' /\ RefusalsAreTrue'
  <2>1. /\ wiImp \in {"hdr", "count", "dev", "intf"} /\ wiImp' \in {"eof", "truncated"}
        /\ \/ wiRead = Len(wiDown) /\ wiDownEnd
           \/ wiRead < Len(wiDown) /\ Next1 = Part
        /\ UNCHANGED <<wiRead, wiFetched, wiCount, wiDown, wiCut>>
    BY <1>8 DEF StreamEnds, wiExpVars
  <2>2. ListDecodeInv'
    BY <1>3, <2>1 DEF ListDecodeInv
  <2>3. wiCut \/ ~Encodable(wiDevices)
    <3>1. CASE wiRead = Len(wiDown) /\ wiDownEnd
      <4> SUFFICES ASSUME ~wiCut PROVE ~Encodable(wiDevices)
        OBVIOUS
      <4>1. wiRead = Len(Reply)
        BY <3>1 DEF ListReplyInv
      <4>2. wiImp # "hdr" /\ wiImp # "count"
        BY <1>5, <4>1 DEF ListDecodeInv
      <4>3. CASE wiImp = "dev"
        <5>1. PICK k \in 0..Encoded : k < Announced /\ wiRead = 2 + Before(k)
          BY <4>3 DEF ListDecodeInv
        <5>2. k = Encoded
          BY <4>1, <5>1, Positions
        <5> QED BY <1>4, <5>1, <5>2
      <4>4. CASE wiImp = "intf"
        <5>1. PICK k \in 1..Encoded : \E j \in 0..wiDevices[k].num - 1 : Placed(k, j)
          BY <4>4 DEF ListDecodeInv
        <5>2. PICK j \in 0..wiDevices[k].num - 1 : Placed(k, j)
          BY <5>1
        <5>3. k \in 0..Encoded
          BY <1>4
        <5>4. 2 + Before(k - 1) + 1 + j < Len(Reply)
          BY <5>3, Positions
        <5> QED BY <1>5, <4>1, <5>2, <5>4 DEF Placed
      <4> QED BY <2>1, <4>2, <4>3, <4>4
    <3>2. CASE wiRead < Len(wiDown) /\ Next1 = Part
      <4> SUFFICES ASSUME ~wiCut PROVE FALSE
        OBVIOUS
      <4>1. wiRead + 1 <= Len(Reply) /\ Part = Arrives(wiRead + 1)
        BY <3>2, ListNext
      <4>2. Arrives(wiRead + 1).t = "part"
        BY <4>1, UnitTypes
      <4>3. CASE wiImp = "hdr"
        <5>1. wiRead + 1 = 1
          BY <4>3 DEF ListDecodeInv
        <5> QED BY <1>5, <4>2, <5>1, ListUnits DEF Arrives
      <4>4. CASE wiImp = "count"
        <5>1. wiRead + 1 = 2
          BY <4>4 DEF ListDecodeInv
        <5> QED BY <1>5, <4>2, <5>1, ListUnits DEF Arrives
      <4>5. CASE wiImp = "dev"
        <5>1. PICK k \in 0..Encoded : wiRead = 2 + Before(k)
          BY <4>5 DEF ListDecodeInv
        <5>2. k + 1 \in 1..Encoded /\ Arrives(2 + Before(k) + 1) = Faulty(DevUnit(k + 1))
          BY <4>1, <5>1, Positions
        <5>3. k + 1 \in 1..Announced
          BY <1>4, <5>2
        <5> QED BY <4>2, <5>1, <5>2, <5>3, ListDeviceUnits
      <4>6. CASE wiImp = "intf"
        <5>1. PICK k \in 1..Encoded : \E j \in 0..wiDevices[k].num - 1 : Placed(k, j)
          BY <4>6 DEF ListDecodeInv
        <5>2. PICK j \in 0..wiDevices[k].num - 1 : Placed(k, j)
          BY <5>1
        <5>3. k \in 0..Encoded /\ k \in 1..Announced
          BY <1>4
        <5>4. Arrives(2 + Before(k - 1) + 1 + j + 1) = Interface(wiDevices[k], j + 1)
          BY <5>3, Positions
        <5>5. Arrives(wiRead + 1) = Interface(wiDevices[k], j + 1)
          BY <5>2, <5>4 DEF Placed
        <5> QED BY <4>2, <5>3, <5>5, ListDeviceUnits
      <4> QED BY <2>1, <4>3, <4>4, <4>5, <4>6
    <3> QED BY <2>1, <3>1, <3>2
  <2>4. (wiCut \/ ~Encodable(wiDevices))'
    BY <1>2, <2>1, <2>3
  <2>5. RefusalsAreTrue'
    BY <2>1, <2>4 DEF RefusalsAreTrue
  <2> QED BY <2>2, <2>5
<1>9. ASSUME DecodeHeader PROVE ListDecodeInv' /\ RefusalsAreTrue'
  <2>1. /\ wiImp = "hdr" /\ wiRead < Len(wiDown) /\ Next1.t = "hdr" /\ Consume
        /\ wiImp' = HeaderVerdict(Next1) /\ UNCHANGED <<wiDown, wiCount, wiGot>>
    BY <1>9 DEF DecodeHeader, Ready1, wiExpVars
  <2>2. wiRead = 0 /\ wiGot = << >>
    BY <2>1 DEF ListDecodeInv
  <2>3. Next1 = Faulty(ListHeader)
    <3>1. Next1 = Arrives(wiRead + 1)
      BY <2>1, ListNext, UnitTypes
    <3>2. wiRead + 1 = 1
      BY <2>2
    <3> QED BY <1>5, <3>1, <3>2 DEF Arrives
  <2>4. /\ wiImp' \in {"mismatch", "protoerr", "count"}
        /\ wiImp' \in {"mismatch", "protoerr"} => wiFault # "none"
    BY <2>1, <2>3, ListUnits
  <2>5. /\ wiRead' = wiRead + 1 /\ wiRead' \in Nat /\ wiFetched' \in Nat
        /\ wiRead' <= wiFetched' /\ wiFetched' <= Len(wiDown')
    BY <2>1, ListConsumes
  <2>6. wiRead' = 1
    BY <2>2, <2>5
  <2>7. ListDecodeInv'
    BY <1>3, <2>1, <2>2, <2>4, <2>5, <2>6 DEF ListDecodeInv
  <2>8. RefusalsAreTrue'
    BY <1>1, <2>4 DEF RefusalsAreTrue
  <2> QED BY <2>7, <2>8
<1>10. ASSUME DecodeCount PROVE ListDecodeInv' /\ RefusalsAreTrue'
  <2>1. /\ wiImp = "count" /\ wiRead < Len(wiDown) /\ Next1.t = "count" /\ Consume
        /\ UNCHANGED <<wiDown, wiGot>>
    BY <1>10 DEF DecodeCount, Ready1, wiExpVars
  <2>2. wiRead = 1 /\ wiGot = << >>
    BY <2>1 DEF ListDecodeInv
  <2>3. Next1 = Faulty(ListCount)
    <3>1. Next1 = Arrives(wiRead + 1)
      BY <2>1, ListNext, UnitTypes
    <3>2. wiRead + 1 = 2
      BY <2>2
    <3> QED BY <1>5, <3>1, <3>2 DEF Arrives
  <2>4. /\ wiRead' = wiRead + 1 /\ wiRead' \in Nat /\ wiFetched' \in Nat
        /\ wiRead' <= wiFetched' /\ wiFetched' <= Len(wiDown')
    BY <2>1, ListConsumes
  <2>5. wiRead' = 2
    BY <2>2, <2>4
  <2>6. CASE Next1.n = Announced
    <3>1. wiCount' = Announced /\ wiImp' = IF Announced = 0 THEN "ok" ELSE "dev"
      <4>1. CountOK(Next1.n)
        BY <1>4, <2>6 DEF CountOK
      <4> QED BY <1>10, <2>6, <4>1 DEF DecodeCount
    <3>2. Decoded(0) = << >> /\ Before(0) = 0
      BY DecodedFacts, ReplyFacts DEF ListPeerInv
    <3>3. wiCount' = Announced' /\ wiCount' \in 0..MaxDevlist
      BY <1>1, <1>4, <3>1
    <3>4. CASE Announced = 0
      <4>1. Encoded' = Announced' /\ wiGot' = (Decoded(Announced))'
        <5>1. (Decoded(Announced))' = Decoded(Announced)
          BY <1>1 DEF Decoded, Announced
        <5> QED BY <1>1, <1>4, <2>1, <2>2, <3>2, <3>4, <5>1
      <4>2. wiImp' = "ok"
        BY <3>1, <3>4
      <4> QED BY <2>4, <3>3, <4>1, <4>2 DEF ListDecodeInv, RefusalsAreTrue
    <3>5. CASE Announced # 0
      <4>1. wiImp' = "dev"
        BY <3>1, <3>5
      <4>2. 0 \in 0..Encoded' /\ 0 < Announced' /\ wiGot' = Decoded(0)' /\ wiRead' = 2 + Before(0)'
        BY <1>1, <1>4, <2>1, <2>2, <2>5, <3>2, <3>5
      <4> QED BY <2>4, <3>3, <4>1, <4>2 DEF ListDecodeInv, RefusalsAreTrue
    <3> QED BY <3>4, <3>5
  <2>7. CASE Next1.n = MaxDevlist + 1 /\ wiFault # "none"
    <3>1. wiImp' = "mismatch" /\ wiCount' = wiCount
      <4>1. ~CountOK(Next1.n)
        BY <1>4, <2>7 DEF CountOK
      <4> QED BY <1>10, <4>1 DEF DecodeCount
    <3>2. ListDecodeInv'
      BY <1>3, <2>4, <3>1 DEF ListDecodeInv
    <3>3. RefusalsAreTrue'
      BY <1>1, <2>7, <3>1 DEF RefusalsAreTrue
    <3> QED BY <3>2, <3>3
  <2> QED BY <2>3, <2>6, <2>7, ListUnits
<1>11. ASSUME DecodeDevice PROVE ListDecodeInv' /\ RefusalsAreTrue'
  <2>1. /\ wiImp = "dev" /\ wiRead < Len(wiDown) /\ Next1.t = "dev" /\ Consume
        /\ UNCHANGED <<wiDown, wiCount>>
    BY <1>11 DEF DecodeDevice, Ready1, wiExpVars
  <2>2. wiCount = Announced
    BY <2>1 DEF ListDecodeInv
  <2>3. PICK k \in 0..Encoded : k < Announced /\ wiGot = Decoded(k) /\ wiRead = 2 + Before(k)
    BY <2>1 DEF ListDecodeInv
  <2>4. wiRead + 1 <= Len(Reply) /\ Next1 = Arrives(wiRead + 1)
    BY <2>1, ListNext, UnitTypes
  <2>5. k + 1 \in 1..Encoded /\ Next1 = Faulty(DevUnit(k + 1)) /\ Before(k) \in Nat
    BY <2>3, <2>4, Positions
  <2>6. k + 1 \in 1..Announced /\ (k + 1) - 1 = k /\ k \in Nat
    BY <1>4, <2>5
  <2>7. /\ wiRead' = wiRead + 1 /\ wiRead' \in Nat /\ wiFetched' \in Nat
        /\ wiRead' <= wiFetched' /\ wiFetched' <= Len(wiDown')
    BY <2>1, ListConsumes
  <2> DEFINE d == wiDevices[k + 1]
  <2>8. /\ DevUnit(k + 1) = [t |-> "dev", n |-> d.num, v |-> d.id]
        /\ Next1.v = "badspeed" => wiFault # "none"
        /\ Next1.v # "badspeed" => Next1 = DevUnit(k + 1)
    BY <2>5, <2>6, ListDeviceUnits
  <2>9. d.num \in Nat
    BY <2>6, EncodedFacts DEF ListPeerInv
  <2>10. CASE Next1.v = "badspeed"
    <3>1. wiImp' = "protoerr"
      BY <1>11, <2>10 DEF DecodeDevice
    <3>2. ListDecodeInv'
      BY <1>3, <2>1, <2>7, <3>1 DEF ListDecodeInv
    <3>3. RefusalsAreTrue'
      BY <1>1, <2>8, <2>10, <3>1 DEF RefusalsAreTrue
    <3> QED BY <3>2, <3>3
  <2>11. CASE Next1.v # "badspeed"
    <3>1. /\ wiGot' = Append(wiGot, [id |-> Next1.v, num |-> Next1.n, ifs |-> << >>])
          /\ wiImp' = AfterDevice(wiGot')
      BY <1>11, <2>11 DEF DecodeDevice
    <3>2. Next1.v = d.id /\ Next1.n = d.num
      BY <2>8, <2>11
    <3> HIDE DEF d
    <3>3. wiGot' = Append(Decoded((k + 1) - 1), Partial(d, 0))
      BY <2>3, <2>6, <2>9, <3>1, <3>2, PartialFacts
    <3>4. wiRead' = 2 + Before((k + 1) - 1) + 1 + 0 /\ 0 \in 0..d.num
      BY SMTT(60), <2>3, <2>5, <2>6, <2>7, <2>9
    <3>5. ListDecodeInv' /\ wiImp' \in {"intf", "dev", "ok"}
      BY <2>1, <2>2, <2>5, <2>7, <3>1, <3>3, <3>4, ListPlaced DEF d
    <3> QED BY <3>5 DEF RefusalsAreTrue
  <2> QED BY <2>10, <2>11
<1>12. ASSUME DecodeInterface PROVE ListDecodeInv' /\ RefusalsAreTrue'
  <2>1. /\ wiImp = "intf" /\ wiRead < Len(wiDown) /\ Next1.t = "intf" /\ Consume
        /\ UNCHANGED <<wiDown, wiCount>>
        /\ wiGot' = [wiGot EXCEPT ![Len(wiGot)].ifs = Append(@, Next1.v)]
        /\ wiImp' = AfterDevice(wiGot')
    BY <1>12 DEF DecodeInterface, Ready1, wiExpVars
  <2>2. wiCount = Announced
    BY <2>1 DEF ListDecodeInv
  <2>3. PICK k \in 1..Encoded : \E j \in 0..wiDevices[k].num - 1 : Placed(k, j)
    BY <2>1 DEF ListDecodeInv
  <2>4. PICK j \in 0..wiDevices[k].num - 1 : Placed(k, j)
    BY <2>3
  <2> DEFINE d == wiDevices[k]
  <2>5. k \in 0..Encoded /\ k \in 1..Announced /\ d.num \in Nat
    BY <1>4, EncodedFacts DEF ListPeerInv
  <2>6. j \in Nat /\ j \in 0..d.num /\ j + 1 \in 0..d.num
    BY <2>5
  <2>7. Next1 = Interface(d, j + 1)
    <3>1. Next1 = Arrives(wiRead + 1)
      BY <2>1, ListNext, UnitTypes
    <3>2. Arrives(2 + Before(k - 1) + 1 + j + 1) = Interface(d, j + 1)
      BY <2>5, Positions
    <3> QED BY <2>4, <3>1, <3>2 DEF Placed
  <2>8. /\ wiRead' = wiRead + 1 /\ wiRead' \in Nat /\ wiFetched' \in Nat
        /\ wiRead' <= wiFetched' /\ wiFetched' <= Len(wiDown')
    BY <2>1, ListConsumes
  <2>9. wiGot = Append(Decoded(k - 1), Partial(d, j)) /\ wiRead = 2 + Before(k - 1) + 1 + j
    BY <2>4 DEF Placed
  <2>10. /\ Len(wiGot) = k /\ wiGot[k] = Partial(d, j)
         /\ \A p : [wiGot EXCEPT ![k] = p] = Append(Decoded(k - 1), p)
    <3>1. j \in 0..wiDevices[k].num
      BY <2>6
    <3>2. \A got : got = Append(Decoded(k - 1), Partial(wiDevices[k], j)) =>
             /\ Len(got) = k /\ got[k] = Partial(wiDevices[k], j)
             /\ \A p : [got EXCEPT ![k] = p] = Append(Decoded(k - 1), p)
      BY <2>2, <3>1, AfterPlaced
    <3> QED BY ONLY <2>9, <3>2
  <2> HIDE DEF d
  <2>11. [Partial(d, j) EXCEPT !.ifs = Append(Partial(d, j).ifs, Interface(d, j + 1).v)] = Partial(d, j + 1)
    BY <2>5, <2>6, PartialFacts
  <2>12. wiGot' = Append(Decoded(k - 1), Partial(d, j + 1))
    <3>1. wiGot' = [wiGot EXCEPT ![k] = [wiGot[k] EXCEPT !.ifs = Append(wiGot[k].ifs, Next1.v)]]
      BY <2>1, <2>10
    <3> QED BY <2>7, <2>10, <2>11, <3>1
  <2>13. wiRead' = 2 + Before(k - 1) + 1 + (j + 1)
    <3>1. Before(k - 1) \in Nat
      BY ReplyFacts DEF ListPeerInv
    <3> QED BY SMTT(60), <2>6, <2>8, <2>9, <3>1
  <2>14. ListDecodeInv' /\ wiImp' \in {"intf", "dev", "ok"}
    BY <2>1, <2>2, <2>6, <2>8, <2>12, <2>13, ListPlaced DEF d
  <2> QED BY <2>14 DEF RefusalsAreTrue
<1>13. ASSUME Cut \/ ReadRequestHeader \/ ReadImportBody \/ WriteUnit \/ Replied \/ KernelSends
              \/ UNCHANGED wiVars
       PROVE  /\ UNCHANGED wiImpVars /\ (wiCut => wiCut')
              /\ wiDown' = wiDown \/ \E u : wiDown' = Append(wiDown, u)
  BY <1>13 DEF Cut, ReadRequestHeader, ReadImportBody, WriteUnit, Replied, KernelSends, wiVars,
               wiExpVars
<1>14. ASSUME NEW u, wiDown' = Append(wiDown, u)
       PROVE  Len(wiDown') \in Nat /\ Len(wiDown) <= Len(wiDown')
  <2>1. PICK S : wiDown \in Seq(S)
    BY DEF ListStreamInv
  <2>2. wiDown \in Seq(S \cup {u})
    BY <2>1
  <2>3. Len(wiDown') = Len(wiDown) + 1
    BY <1>14, <2>2, AppendProperties
  <2> QED BY <1>3, <2>3
<1>15. ASSUME Cut \/ ReadRequestHeader \/ ReadImportBody \/ WriteUnit \/ Replied \/ KernelSends
              \/ UNCHANGED wiVars
       PROVE  ListDecodeInv' /\ RefusalsAreTrue'
  <2>1. Len(wiDown') \in Nat /\ Len(wiDown) <= Len(wiDown')
    BY <1>3, <1>13, <1>14, <1>15
  <2> QED BY <1>6, <1>13, <1>15, <2>1
<1>16. QED
  BY <1>7, <1>8, <1>9, <1>10, <1>11, <1>12, <1>15 DEF WiNext

\* The first state.
LEMMA ListInvInit == WiInit => ListInv
<1> SUFFICES ASSUME WiInit, wiOp = "devlist"
             PROVE  ListPeerInv /\ ListReplyInv /\ ListStreamInv /\ ListDecodeInv /\ RefusalsAreTrue
  BY DEF ListInv
<1> USE DEF WiInit, WiInitFrom
<1>1. ListPeerInv
  BY DEF ListPeerInv, Faults
<1>2. wiUp = << >> /\ wiDown = << >> /\ wiReply = << >> /\ Len(wiDown) = 0 /\ Len(wiReply) = 0
  OBVIOUS
<1>3. ListReplyInv
  BY <1>2 DEF ListReplyInv
<1>4. ListStreamInv
  BY <1>2 DEF ListStreamInv
<1>5. ListDecodeInv
  BY <1>2, WireAssumption DEF ListDecodeInv
<1>6. RefusalsAreTrue
  BY DEF RefusalsAreTrue
<1>7. QED BY <1>1, <1>3, <1>4, <1>5, <1>6

\* The invariant of the list exchange.
LEMMA ListInvariant == WiSpec => []ListInv
<1>1. WiInit => ListInv
  BY ListInvInit
<1>2. WiInv /\ ListInv /\ [WiNext]_wiVars => ListInv'
  <2> SUFFICES ASSUME WiInv, ListInv, [WiNext]_wiVars PROVE ListInv'
    OBVIOUS
  <2>1. WiPeerInv /\ wiOp' = wiOp
    BY WiPeerStep DEF WiInv, wiPeer
  <2>2. ASSUME wiOp = "devlist"
        PROVE  ListPeerInv' /\ ListReplyInv' /\ ListStreamInv' /\ ListDecodeInv' /\ RefusalsAreTrue'
    BY <2>1, <2>2, ListPeerStep, ListReplyStep, ListDecodeStep DEF ListInv
  <2> QED BY <2>1, <2>2 DEF ListInv
<1>3. QED BY <1>1, <1>2, WiInvariant, PTL DEF WiSpec

\* Both exchanges are faithful, for lists of any length within the cap and devices with any
\* number of interfaces: what DecodeOpRepDevlist returns is the whole list that
\* EncodeOpRepDevlist was given, each device with exactly NumInterfaces interfaces, a stream
\* that is short, cut or not well formed is reported as what it is, and an import is what
\* ImportFaithful says.
THEOREM ExchangeFaithful == WiSpec => []ExchangeIsFaithful
<1>1. WiInv /\ ListInv /\ (wiOp = "import" => ExchangeIsFaithful) => ExchangeIsFaithful
  <2> SUFFICES ASSUME WiInv, ListInv, wiOp = "devlist" PROVE ExchangeIsFaithful
    BY DEF WiInv, WiPeerInv
  <2>1. DecodedIsSent
    <3> SUFFICES ASSUME wiImp = "ok"
                 PROVE  Encodable(wiDevices) /\ wiGot = [i \in DOMAIN wiDevices |-> Normal(wiDevices[i])]
      BY DEF DecodedIsSent
    <3>1. Encoded = Announced /\ wiGot = Decoded(Announced)
      BY DEF ListInv, ListDecodeInv
    <3>2. DOMAIN wiDevices = 1..Announced /\ (Encoded = Announced <=> Encodable(wiDevices))
      BY EncodedFacts DEF ListInv, ListPeerInv
    <3> QED BY <3>1, <3>2 DEF Decoded
  <2>2. HandoverLosesNothing
    BY DEF HandoverLosesNothing
  <2>3. BusIDArrives
    BY DEF ListInv, ListReplyInv, BusIDArrives
  <2> QED BY <2>1, <2>2, <2>3 DEF ListInv, ExchangeIsFaithful
<1>2. QED BY <1>1, ImportFaithful, WiInvariant, ListInvariant, PTL

-----------------------------------------------------------------------------
(* History: what updateHistoryFileOps makes of a list.                     *)

\* The entries other than the host keep their order and stay what they were: none is made up,
\* none is doubled, and there are no more of them.
LEMMA WithoutFacts ==
  ASSUME NEW host, NEW n \in Nat, NEW list \in [1..n -> Hosts], IsInjective(list)
  PROVE  /\ Without(host, list) \in Seq(Hosts \ {host}) /\ IsInjective(Without(host, list))
         /\ Len(Without(host, list)) <= n
<1> DEFINE B == [i \in 1..n |-> IF list[i] = host THEN << >> ELSE <<list[i]>>]
           H == Hosts \ {host}
           W(k) == FlattenSeq([i \in 1..k |-> B[i]])
           Kept(k, s) == /\ s \in Seq(H) /\ Len(s) <= k
                         /\ \A j \in 1..Len(s) : \E i \in 1..k : s[j] = list[i]
                         /\ \A a, b \in 1..Len(s) : s[a] = s[b] => a = b
           S == {k \in Nat : Kept(k, W(k))}
<1>1. \A i \in 1..n : B[i] = IF list[i] = host THEN << >> ELSE <<list[i]>>
  OBVIOUS
<1>2. \A i, j \in 1..n : list[i] = list[j] => i = j
  BY DEF IsInjective
<1>3. Without(host, list) = W(n)
  <2>1. Len(list) = n
    OBVIOUS
  <2>2. [i \in 1..n |-> B[i]] = B
    OBVIOUS
  <2> QED BY <2>1, <2>2 DEF Without
<1> HIDE DEF B
<1>4. 0 \in S
  <2>1. W(0) = << >>
    <3>1. [i \in 1..0 |-> B[i]] = << >>
      OBVIOUS
    <3> QED BY <3>1 DEF FlattenSeq
  <2>2. Kept(0, << >>)
    OBVIOUS
  <2> HIDE DEF W, Kept
  <2>3. Kept(0, W(0))
    BY <2>1, <2>2
  <2> QED BY <2>3
<1>5. ASSUME NEW k \in 0..n - 1, k \in S PROVE k + 1 \in S
  <2>1. k + 1 \in 1..n /\ 1 \in 1..n
    OBVIOUS
  <2>2. W(k + 1) = W(k) \o B[k + 1]
    <3>1. B[1] = << >> \/ B[1] = <<list[1]>>
      BY <1>1, <2>1
    <3> DEFINE b == B[1]
    <3>2. b \in Seq({list[1]})
      <4>1. << >> \in Seq({list[1]}) /\ <<list[1]>> \in Seq({list[1]})
        OBVIOUS
      <4> QED BY <3>1, <4>1
    <3> HIDE DEF b
    <3> DEFINE E == {list[1]}
    <3> HIDE DEF E
    <3>3. b \in Seq({b[i] : i \in 1..Len(b)})
      <4>1. b \in Seq(E)
        BY <3>2 DEF E
      <4> QED BY ONLY <4>1, OwnElements
    <3>4. B[1] \in Seq({B[1][i] : i \in 1..Len(B[1])}) /\ k \in Nat
      BY <3>3 DEF b
    <3> QED BY <3>4, FlattenAppend
  <2> DEFINE s == W(k)
  <2>3. Kept(k, s)
    BY <1>5
  <2> HIDE DEF W, s
  <2>4. CASE list[k + 1] = host
    <3>1. W(k + 1) = s
      <4>1. B[k + 1] = << >>
        BY <1>1, <2>1, <2>4
      <4>2. s \o << >> = s
        BY <2>3, ConcatEmptySeq
      <4> QED BY <2>2, <4>1, <4>2 DEF s
    <3>2. Kept(k + 1, s)
      BY <2>3
    <3> QED BY <3>1, <3>2
  <2>5. CASE list[k + 1] # host
    <3> DEFINE e == list[k + 1]
               t == Append(s, e)
    <3>1. W(k + 1) = t
      <4>1. B[k + 1] = <<e>>
        BY <1>1, <2>1, <2>5
      <4>2. s \o <<e>> = Append(s, e)
        BY <2>3
      <4> QED BY <2>2, <4>1, <4>2 DEF s
    <3>2. e \in H
      BY <2>1, <2>5
    <3>3. /\ t \in Seq(H) /\ Len(t) = Len(s) + 1 /\ Len(s) \in Nat /\ t[Len(s) + 1] = e
          /\ \A j \in 1..Len(s) : t[j] = s[j]
      BY <2>3, <3>2
    <3>4. \A j \in 1..Len(s) : s[j] # e
      BY <1>2, <2>1, <2>3
    <3> HIDE DEF t, e
    <3>5. \A j \in 1..Len(t) : j \in 1..Len(s) \/ j = Len(s) + 1
      BY <3>3
    <3>6. \A j \in 1..Len(t) : \E i \in 1..k + 1 : t[j] = list[i]
      <4> TAKE j \in 1..Len(t)
      <4>1. CASE j \in 1..Len(s)
        <5>1. PICK i \in 1..k : s[j] = list[i]
          BY <2>3, <4>1
        <5> QED BY <3>3, <4>1, <5>1
      <4>2. CASE j = Len(s) + 1
        BY <2>1, <3>3, <4>2 DEF e
      <4> QED BY <3>5, <4>1, <4>2
    <3>7. \A a, b \in 1..Len(t) : t[a] = t[b] => a = b
      BY <2>3, <3>3, <3>4, <3>5
    <3>8. Kept(k + 1, t)
      BY <2>3, <3>3, <3>6, <3>7
    <3> QED BY <3>1, <3>8
  <2> QED BY <2>4, <2>5
<1> HIDE DEF S
<1>6. n \in S
  <2>1. 0..n \subseteq S
    BY <1>4, <1>5, UpTo
  <2> QED BY <2>1
<1> HIDE DEF W
<1>7. Kept(n, W(n))
  BY <1>6 DEF S
<1>8. QED BY <1>3, <1>7 DEF IsInjective

\* The MRU transform keeps what any reader of the file relies on: a list within the cap and
\* without duplicates.
LEMMA MRUKeepsHistories ==
  ASSUME NEW host \in Hosts, NEW list \in Histories, IsInjective(list)
  PROVE  MRU(host, list) \in Histories /\ IsInjective(MRU(host, list))
<1>1. PICK n \in 0..HistoryCap : list \in [1..n -> Hosts]
  BY DEF Histories, BoundedSeq, SeqOf
<1> DEFINE w == Without(host, list)
           entries == <<host>> \o w
<1>2. w \in Seq(Hosts \ {host}) /\ IsInjective(w) /\ Len(w) \in Nat
  <2>1. n \in Nat
    BY <1>1, HistoryAssumption
  <2>2. w \in Seq(Hosts \ {host}) /\ IsInjective(w)
    BY <1>1, <2>1, WithoutFacts
  <2> QED BY <2>2, LenProperties
<1> HIDE DEF w
<1>3. DOMAIN w = 1..Len(w) /\ \A i \in 1..Len(w) : w[i] \in Hosts \ {host}
  BY <1>2
<1>4. /\ entries \in Seq(Hosts) /\ Len(entries) = 1 + Len(w)
      /\ entries[1] = host /\ \A i \in 1..Len(w) : entries[1 + i] = w[i]
  <2>1. <<host>> \in Seq(Hosts) /\ w \in Seq(Hosts) /\ Len(<<host>>) = 1 /\ <<host>>[1] = host
    BY <1>2
  <2> DEFINE h == <<host>>
  <2> HIDE DEF h
  <2>2. h \in Seq(Hosts) /\ w \in Seq(Hosts) /\ Len(h) = 1 /\ h[1] = host /\ 1 \in 1..1
    BY <2>1 DEF h
  <2>3. /\ h \o w \in Seq(Hosts) /\ Len(h \o w) = 1 + Len(w)
        /\ (h \o w)[1] = host /\ \A i \in 1..Len(w) : (h \o w)[1 + i] = w[i]
    <3>1. /\ h \o w \in Seq(Hosts) /\ Len(h \o w) = Len(h) + Len(w)
          /\ \A i \in 1..Len(h) : (h \o w)[i] = h[i]
          /\ \A j \in 1..Len(w) : (h \o w)[Len(h) + j] = w[j]
      <4>1. h \in Seq(Hosts) /\ w \in Seq(Hosts)
        BY <2>2
      <4> QED BY ONLY <4>1, ConcatFacts
    <3> QED BY <2>2, <3>1
  <2> QED BY <2>3 DEF h
<1> HIDE DEF entries
<1>5. \A i \in 1..Len(entries) : i = 1 \/ \E j \in 1..Len(w) : i = 1 + j
  <2> TAKE i \in 1..Len(entries)
  <2>1. i = 1 \/ (i - 1 \in 1..Len(w) /\ i = 1 + (i - 1))
    BY <1>2, <1>4
  <2> QED BY <2>1
<1>6. \A a, b \in 1..Len(entries) : entries[a] = entries[b] => a = b
  <2> SUFFICES ASSUME NEW a \in 1..Len(entries), NEW b \in 1..Len(entries), entries[a] = entries[b]
               PROVE  a = b
    OBVIOUS
  <2>1. CASE a = 1
    BY <1>3, <1>4, <1>5, <2>1
  <2>2. CASE b = 1
    BY <1>3, <1>4, <1>5, <2>2
  <2>3. CASE a # 1 /\ b # 1
    <3>1. PICK i \in 1..Len(w) : a = 1 + i
      BY <1>5, <2>3
    <3>2. PICK j \in 1..Len(w) : b = 1 + j
      BY <1>5, <2>3
    <3>3. w[i] = w[j]
      BY <1>4, <3>1, <3>2
    <3> QED BY <1>2, <1>3, <3>1, <3>2, <3>3 DEF IsInjective
  <2> QED BY <2>1, <2>2, <2>3
<1>7. MRU(host, list) = IF Len(entries) > HistoryCap THEN SubSeq(entries, 1, HistoryCap) ELSE entries
  BY DEF MRU, entries, w
<1>8. ASSUME NEW s \in Seq(Hosts), Len(s) \in 0..HistoryCap,
             \A a, b \in 1..Len(s) : s[a] = s[b] => a = b
      PROVE  s \in Histories /\ IsInjective(s)
  <2>1. s \in [1..Len(s) -> Hosts] /\ DOMAIN s = 1..Len(s)
    OBVIOUS
  <2>2. s \in Histories
    BY <1>8, <2>1 DEF Histories, BoundedSeq, SeqOf
  <2> QED BY <1>8, <2>1, <2>2 DEF IsInjective
<1>9. CASE Len(entries) > HistoryCap
  <2> DEFINE s == SubSeq(entries, 1, HistoryCap)
  <2>1. 1 \in 1..Len(entries) /\ HistoryCap \in 1..Len(entries)
    BY <1>2, <1>4, <1>9, HistoryAssumption
  <2>2. /\ s \in Seq(Hosts) /\ Len(s) = HistoryCap
        /\ \A i \in 1..HistoryCap : s[i] = entries[i] /\ i \in 1..Len(entries)
    BY <1>4, <2>1, SubSeqProperties, HistoryAssumption
  <2> HIDE DEF s
  <2>3. Len(s) \in 0..HistoryCap
    BY <2>2, HistoryAssumption
  <2>4. \A a, b \in 1..Len(s) : s[a] = s[b] => a = b
    BY <1>6, <2>2
  <2>5. s \in Histories /\ IsInjective(s)
    BY <1>8, <2>2, <2>3, <2>4
  <2> QED BY <1>7, <1>9, <2>5 DEF s
<1>10. CASE ~(Len(entries) > HistoryCap)
  <2>1. Len(entries) \in 0..HistoryCap
    BY <1>2, <1>4, <1>10, HistoryAssumption
  <2> QED BY <1>4, <1>6, <1>7, <1>8, <1>10, <2>1
<1>11. QED BY <1>9, <1>10

\* A call that ends leaves its variables as they were before it began.
LEMMA ReturnKeepsTypes ==
  ASSUME HiTypeOK, NEW p \in Recorders, HiReturn(p)
  PROVE  /\ hiPC' \in [Recorders -> {"idle", "flock", "read", "temp", "write", "rename"}]
         /\ hiHost' \in [Recorders -> Hosts]
         /\ hiList' \in [Recorders -> Histories]
<1>1. (CHOOSE h \in Hosts : TRUE) \in Hosts
  BY HistoryAssumption
<1>2. << >> \in Histories
  <2>1. << >> \in [1..0 -> Hosts] /\ 0 \in 0..HistoryCap
    BY HistoryAssumption
  <2> QED BY <2>1 DEF Histories, BoundedSeq, SeqOf
<1>3. QED BY <1>1, <1>2 DEF HiTypeOK, HiReturn, HiGoto

\* The history file holds, at every moment, a list without duplicates and within the cap,
\* which is what completion reads without a lock: the MRU transform keeps it so, and the list
\* that is renamed over the file is the transform of the one that is there (HiInv).
LEMMA HistoryTyped == HiSpec => []HiTypeOK
<1>1. HiInit => HiTypeOK
  <2> SUFFICES ASSUME HiInit PROVE HiTypeOK
    OBVIOUS
  <2>1. (CHOOSE h \in Hosts : TRUE) \in Hosts
    BY HistoryAssumption
  <2>2. << >> \in Histories /\ IsInjective(<< >>)
    <3>1. << >> \in [1..0 -> Hosts] /\ 0 \in 0..HistoryCap
      BY HistoryAssumption
    <3> QED BY <3>1 DEF Histories, BoundedSeq, SeqOf, IsInjective
  <2> QED BY <2>1, <2>2 DEF HiInit, HiTypeOK
<1>2. HiInv /\ HiTypeOK /\ [HiNext]_hiVars => HiTypeOK'
  <2> SUFFICES ASSUME HiInv, HiTypeOK, [HiNext]_hiVars PROVE HiTypeOK'
    OBVIOUS
  <2>1. ASSUME NEW p \in Recorders, NEW h \in Hosts, RecordHistory(p, h) PROVE HiTypeOK'
    <3>1. CASE HiReturn(p)
      BY <2>1, <3>1, ReturnKeepsTypes DEF RecordHistory, HiTypeOK
    <3>2. CASE ~HiReturn(p)
      BY <2>1, <3>2 DEF RecordHistory, HiTypeOK, HiGoto
    <3> QED BY <3>1, <3>2
  <2>2. ASSUME NEW p \in Recorders, Flock(p) PROVE HiTypeOK'
    <3>1. CASE HiReturn(p)
      BY <2>2, <3>1, ReturnKeepsTypes DEF Flock, HiTypeOK
    <3>2. CASE ~HiReturn(p)
      BY <2>2, <3>2 DEF Flock, HiTypeOK, HiGoto
    <3> QED BY <3>1, <3>2
  <2>3. ASSUME NEW p \in Recorders, ReadForUpdate(p) PROVE HiTypeOK'
    <3>1. CASE FinishHistoryLock(p)
      BY <2>3, <3>1, ReturnKeepsTypes DEF ReadForUpdate, FinishHistoryLock, HiTypeOK
    <3>2. CASE ~FinishHistoryLock(p)
      <4>1. MRU(hiHost[p], hiFile) \in Histories
        BY MRUKeepsHistories DEF HiTypeOK
      <4> QED BY <2>3, <3>2, <4>1 DEF ReadForUpdate, HiTypeOK, HiGoto
    <3> QED BY <3>1, <3>2
  <2>4. ASSUME NEW p \in Recorders, CreateTemp(p) PROVE HiTypeOK'
    <3>1. CASE FinishHistoryLock(p)
      BY <2>4, <3>1, ReturnKeepsTypes DEF CreateTemp, FinishHistoryLock, HiTypeOK
    <3>2. CASE ~FinishHistoryLock(p)
      BY <2>4, <3>2 DEF CreateTemp, HiTypeOK, HiGoto
    <3> QED BY <3>1, <3>2
  <2>5. ASSUME NEW p \in Recorders, WriteTemp(p) PROVE HiTypeOK'
    <3>1. CASE FinishHistoryLock(p)
      BY <2>5, <3>1, ReturnKeepsTypes DEF WriteTemp, FinishHistoryLock, RemoveTemporary, HiTypeOK
    <3>2. CASE ~FinishHistoryLock(p)
      BY <2>5, <3>2 DEF WriteTemp, HiTypeOK, HiGoto
    <3> QED BY <3>1, <3>2
  <2>6. ASSUME NEW p \in Recorders, RenameTemp(p) PROVE HiTypeOK'
    <3>1. hiList[p] = MRU(hiHost[p], hiFile)
      BY <2>6 DEF RenameTemp, HiInv, Holding
    <3>2. hiList[p] \in Histories /\ IsInjective(hiList[p])
      BY <3>1, MRUKeepsHistories DEF HiTypeOK
    <3>3. hiFile' \in Histories /\ IsInjective(hiFile')
      BY <2>6, <3>2 DEF RenameTemp, HiTypeOK
    <3> QED BY <2>6, <3>3, ReturnKeepsTypes
        DEF RenameTemp, FinishHistoryLock, RemoveTemporary, HiTypeOK
  <2>7. ASSUME NEW p \in Recorders, Killed(p) PROVE HiTypeOK'
    BY <2>7, ReturnKeepsTypes DEF Killed, HiTypeOK
  <2>8. CASE UNCHANGED hiVars
    BY <2>8 DEF hiVars, HiTypeOK
  <2> QED BY <2>1, <2>2, <2>3, <2>4, <2>5, <2>6, <2>7, <2>8 DEF HiNext, HiStep
<1>3. QED BY <1>1, <1>2, UpdatesExclude, PTL DEF HiSpec

-----------------------------------------------------------------------------
(* Wire: the types.                                                        *)

\* An import's decoder is in one of its states and has read what was there, and no count.
WiImportTyped ==
    wiOp = "import" =>
        /\ 1 <= MaxDevlist /\ wiCount = 0
        /\ wiImp \in {"idle", "hdr", "dev"} \cup Results
        /\ wiRead \in Nat /\ wiRead <= Len(wiDown)

\* A step of an import keeps it.
LEMMA WiImportStep ==
  ASSUME wiOp = "import", WiPeerInv, WiRequestInv, WiReplyInv, WiStreamInv, WiDecodeInv,
         WiImportTyped, [WiNext]_wiVars
  PROVE  WiImportTyped'
<1>0. wiOp' = wiOp
  BY WiPeerStep DEF wiPeer
<1>1. /\ Len(wiDown) \in Nat /\ Len(wiDown') \in Nat /\ Len(wiDown') >= Len(wiDown)
      /\ wiRead = wiFetched
  <2>1. WiStreamInv'
    BY WiStreamStep
  <2> QED BY <2>1, StreamGrows DEF WiStreamInv, WiDecodeInv
<1>2. ASSUME wiCount' = wiCount, wiRead' = wiRead, wiImp' \in {wiImp, "hdr", "eof", "truncated"}
      PROVE  WiImportTyped'
  BY <1>0, <1>1, <1>2 DEF WiImportTyped, Results
<1>3. ASSUME SendRequest \/ Cut \/ ReadRequestHeader \/ ReadImportBody \/ WriteUnit \/ Replied
             \/ KernelSends \/ StreamEnds \/ UNCHANGED wiVars
      PROVE  WiImportTyped'
  <2>1. wiCount' = wiCount /\ wiRead' = wiRead /\ wiImp' \in {wiImp, "hdr", "eof", "truncated"}
    BY <1>3 DEF SendRequest, Cut, ReadRequestHeader, ReadImportBody, WriteUnit, Replied,
       KernelSends, StreamEnds, wiVars, wiImpVars
  <2> QED BY <1>2, <2>1
<1>4. ASSUME DecodeHeader PROVE WiImportTyped'
  <2>1. /\ wiRead < Len(wiDown) /\ wiImp' = HeaderVerdict(Next1)
        /\ UNCHANGED <<wiDown, wiCount>> /\ wiRead' = wiRead + 1
    BY <1>4 DEF DecodeHeader, Ready1, Consume, wiExpVars
  <2>2. wiImp' \in {"dev"} \cup Results
    BY <2>1 DEF HeaderVerdict, MapImportStatus, Results
  <2> QED BY <1>0, <1>1, <2>1, <2>2 DEF WiImportTyped
<1>5. ASSUME DecodeDevice PROVE WiImportTyped'
  <2>1. /\ wiRead < Len(wiDown) /\ UNCHANGED <<wiDown, wiCount>> /\ wiRead' = wiRead + 1
        /\ wiImp' = "protoerr" \/ wiImp' = AfterDevice(wiGot')
    BY <1>5 DEF DecodeDevice, Ready1, Consume, wiExpVars
  <2>2. wiImp' \in Results
    BY <2>1 DEF AfterDevice, Results
  <2> QED BY <1>0, <1>1, <2>1, <2>2 DEF WiImportTyped
<1>6. ~DecodeCount /\ ~DecodeInterface
  BY DEF DecodeCount, DecodeInterface, WiDecodeInv
<1>7. QED BY <1>3, <1>4, <1>5, <1>6 DEF WiNext

\* The decoder never holds more devices than the cap, and consumes nothing it did not fetch.
LEMMA WireTyped == WiSpec => []WiTypeOK
<1>1. WiInit => WiImportTyped
  <2> SUFFICES ASSUME WiInit, wiOp = "import" PROVE WiImportTyped
    BY DEF WiImportTyped
  <2>1. 1 <= MaxDevlist
    <3>1. wiDevices \in DeviceLists /\ Len(wiDevices) = 1
      BY DEF WiInit, WiInitFrom
    <3>2. Len(wiDevices) \in 0..MaxDevlist /\ MaxDevlist \in Nat
      BY <3>1, WireAssumption
    <3> QED BY <3>1, <3>2
  <2>2. wiRead = 0 /\ wiCount = 0 /\ wiImp = "idle" /\ Len(wiDown) = 0
    BY DEF WiInit, WiInitFrom
  <2> QED BY <2>1, <2>2 DEF WiImportTyped
<1>2. WiInv /\ WiImportTyped /\ [WiNext]_wiVars => WiImportTyped'
  <2> SUFFICES ASSUME WiInv, WiImportTyped, [WiNext]_wiVars PROVE WiImportTyped'
    OBVIOUS
  <2>1. WiPeerInv /\ wiOp' = wiOp
    BY WiPeerStep DEF WiInv, wiPeer
  <2>2. CASE wiOp = "import"
    BY <2>1, <2>2, WiImportStep DEF WiInv
  <2>3. CASE wiOp # "import"
    BY <2>1, <2>3 DEF WiImportTyped
  <2> QED BY <2>2, <2>3
<1>3. WiInv /\ ListInv /\ WiImportTyped => WiTypeOK
  <2> SUFFICES ASSUME WiInv, ListInv, WiImportTyped PROVE WiTypeOK
    OBVIOUS
  <2>1. wiOp \in {"devlist", "import"} /\ MaxDevlist \in Nat
    BY WireAssumption DEF WiInv, WiPeerInv
  <2>2. CASE wiOp = "devlist"
    <3>1. wiImp = "ok" => Len(wiGot) <= MaxDevlist
      <4> SUFFICES ASSUME wiImp = "ok" PROVE Len(wiGot) <= MaxDevlist
        OBVIOUS
      <4>1. wiGot = Decoded(Announced) /\ wiDevices \in DeviceLists
        BY <2>2 DEF ListInv, ListDecodeInv, ListPeerInv
      <4>2. Announced \in 0..MaxDevlist
        BY <4>1, EncodedFacts
      <4>3. Len(Decoded(Announced)) = Announced
        BY <4>2 DEF Decoded
      <4> QED BY <2>1, <4>1, <4>2, <4>3
    <3> QED BY <2>2, <3>1 DEF ListInv, ListReplyInv, ListDecodeInv, WiTypeOK, Results
  <2>3. CASE wiOp = "import"
    <3>1. wiImp = "ok" => Len(wiGot) = 1
      BY <2>3 DEF WiInv, WiDecodeInv
    <3>2. wiRead <= wiFetched /\ wiFetched <= Len(wiDown)
      BY <2>3 DEF WiInv, WiDecodeInv, WiImportTyped
    <3>3. wiCount \in 0..MaxDevlist /\ 1 <= MaxDevlist
      BY <2>1, <2>3 DEF WiImportTyped
    <3>4. wiImp \in {"idle", "hdr", "count", "dev", "intf"} \cup Results
      BY <2>3 DEF WiImportTyped
    <3>5. wiExp \in {"hdr", "body", "reply", "kernel", "closed"}
      BY <2>3 DEF WiInv, WiReplyInv
    <3> QED BY <3>1, <3>2, <3>3, <3>4, <3>5 DEF WiTypeOK
  <2> QED BY <2>1, <2>2, <2>3
<1>4. QED BY <1>1, <1>2, <1>3, WiInvariant, ListInvariant, PTL DEF WiSpec

-----------------------------------------------------------------------------
(* The host: each component runs as it would by itself.                    *)

\* The first state of a host is a first state of each component.
LEMMA HostStarts ==
  HostInit => EvInit /\ BdInit /\ HiInit /\ KmInit /\ RdInit /\ VpInit /\ EnInit /\ WiInit
<1> SUFFICES ASSUME HostInit
    PROVE EvInit /\ BdInit /\ HiInit /\ KmInit /\ RdInit /\ VpInit /\ EnInit /\ WiInit
  OBVIOUS
<1>1. EvInit /\ BdInit /\ HiInit /\ KmInit /\ RdInit
  BY DEF HostInit
<1>2. VpInit
  <2> DEFINE shapes == OnlyIf("ports", Shapes \cup {Unloaded}, Unloaded)
             ops == OnlyIf("ports", Operations, [kind |-> "list", hub |-> "hs", port |-> 0])
  <2>1. shapes \subseteq Shapes \cup {Unloaded}
    BY DEF OnlyIf
  <2>2. ops \subseteq Operations
    BY DEF OnlyIf, Operations
  <2>3. VpInitFrom(shapes, ops)
    BY DEF HostInit
  <2> HIDE DEF shapes, ops
  <2> QED BY <2>1, <2>2, <2>3 DEF VpInit, VpInitFrom
<1>3. EnInit
  <2> DEFINE states == OnlyIf("devices", DeviceStates, Gone)
  <2>1. states \subseteq DeviceStates
    BY DEF OnlyIf, DeviceStates
  <2>2. EnInitFrom(states)
    BY DEF HostInit
  <2> HIDE DEF states
  <2> QED BY <2>1, <2>2 DEF EnInit, EnInitFrom
<1>4. WiInit
  <2> DEFINE ops == OnlyIf("wire", {"devlist", "import"}, "devlist")
             ours == OnlyIf("wire", BOOLEAN, TRUE)
             faults == OnlyIf("wire", Faults, "none")
             lists == OnlyIf("wire", DeviceLists, << >>)
  <2>1. /\ ops \subseteq {"devlist", "import"} /\ ours \subseteq BOOLEAN
        /\ faults \subseteq Faults /\ lists \subseteq DeviceLists
    BY WireAssumption DEF OnlyIf, Faults
  <2>2. WiInitFrom(ops, ours, faults, lists)
    BY DEF HostInit
  <2> HIDE DEF ops, ours, faults, lists
  <2>3. wiOp \in {"devlist", "import"} /\ wiOurs \in BOOLEAN
    BY <2>1, <2>2 DEF WiInitFrom
  <2>4. wiFault \in (IF wiOurs THEN Faults ELSE {"none"})
    BY <2>1, <2>2 DEF WiInitFrom
  <2>5. wiDevices \in (IF wiOp = "devlist" THEN DeviceLists ELSE {ds \in DeviceLists : Len(ds) = 1})
    BY <2>1, <2>2 DEF WiInitFrom
  <2> QED BY <2>2, <2>3, <2>4, <2>5 DEF WiInit, WiInitFrom
<1>5. QED BY <1>1, <1>2, <1>3, <1>4

\* A step of the host is a step of one component, and leaves the others.
LEMMA HostSteps ==
  [HostNext]_hostVars =>
     /\ [EvNextStep]_evVars
     /\ [BdNext]_bdVars
     /\ [HiNext]_hiVars
     /\ [KmNext]_kmVars
     /\ [RdNext]_rdVars
     /\ [VpNext]_vpVars
     /\ [EnNext]_enVars
     /\ [WiNext]_wiVars
<1> SUFFICES ASSUME [HostNext]_hostVars
    PROVE  /\ [EvNextStep]_evVars
           /\ [BdNext]_bdVars
           /\ [HiNext]_hiVars
           /\ [KmNext]_kmVars
           /\ [RdNext]_rdVars
           /\ [VpNext]_vpVars
           /\ [EnNext]_enVars
           /\ [WiNext]_wiVars
  OBVIOUS
<1>1. ASSUME StreamsStep PROVE EvNextStep /\ UNCHANGED <<bdVars, hiVars, kmVars, rdVars, vpVars, enVars, wiVars>>
  BY <1>1 DEF StreamsStep
<1>2. ASSUME BindStep PROVE BdNext /\ UNCHANGED <<evVars, hiVars, kmVars, rdVars, vpVars, enVars, wiVars>>
  BY <1>2 DEF BindStep
<1>3. ASSUME HistoryStep PROVE HiNext /\ UNCHANGED <<evVars, bdVars, kmVars, rdVars, vpVars, enVars, wiVars>>
  BY <1>3 DEF HistoryStep
<1>4. ASSUME CacheStep PROVE KmNext /\ UNCHANGED <<evVars, bdVars, hiVars, rdVars, vpVars, enVars, wiVars>>
  BY <1>4 DEF CacheStep
<1>5. ASSUME ReadinessStep PROVE RdNext /\ UNCHANGED <<evVars, bdVars, hiVars, kmVars, vpVars, enVars, wiVars>>
  BY <1>5 DEF ReadinessStep
<1>6. ASSUME PortsStep PROVE VpNext /\ UNCHANGED <<evVars, bdVars, hiVars, kmVars, rdVars, enVars, wiVars>>
  BY <1>6 DEF PortsStep
<1>7. ASSUME DevicesStep PROVE EnNext /\ UNCHANGED <<evVars, bdVars, hiVars, kmVars, rdVars, vpVars, wiVars>>
  BY <1>7 DEF DevicesStep
<1>8. ASSUME WireStep PROVE WiNext /\ UNCHANGED <<evVars, bdVars, hiVars, kmVars, rdVars, vpVars, enVars>>
  BY <1>8 DEF WireStep
<1>9. ASSUME UNCHANGED hostVars PROVE UNCHANGED <<evVars, bdVars, hiVars, kmVars, rdVars, vpVars, enVars, wiVars>>
  BY <1>9 DEF hostVars
<1>10. QED
  BY <1>1, <1>2, <1>3, <1>4, <1>5, <1>6, <1>7, <1>8, <1>9 DEF HostNext

\* A host is eight components that do not touch one another: in a behaviour of the whole each
\* one behaves as its own specification says.
THEOREM HostIsItsParts ==
  HostSpec => EvSpec /\ BdSpec /\ HiSpec /\ KmSpec /\ RdSpec /\ VpSpec /\ EnSpec /\ WiSpec
<1>1. HostSpec => EvSpec
  BY HostStarts, HostSteps, PTL DEF HostSpec, EvSpec
<1>2. HostSpec => BdSpec
  BY HostStarts, HostSteps, PTL DEF HostSpec, BdSpec
<1>3. HostSpec => HiSpec
  BY HostStarts, HostSteps, PTL DEF HostSpec, HiSpec
<1>4. HostSpec => KmSpec
  BY HostStarts, HostSteps, PTL DEF HostSpec, KmSpec
<1>5. HostSpec => RdSpec
  BY HostStarts, HostSteps, PTL DEF HostSpec, RdSpec
<1>6. HostSpec => VpSpec
  BY HostStarts, HostSteps, PTL DEF HostSpec, VpSpec
<1>7. HostSpec => EnSpec
  BY HostStarts, HostSteps, PTL DEF HostSpec, EnSpec
<1>8. HostSpec => WiSpec
  BY HostStarts, HostSteps, PTL DEF HostSpec, WiSpec
<1>9. QED BY <1>1, <1>2, <1>3, <1>4, <1>5, <1>6, <1>7, <1>8

\* What the type invariants say besides the types holds of every host: buffers, slots and
\* lists within their caps, a history file without duplicates at whatever moment it is read,
\* and a decoder that consumes nothing it did not fetch (HostTypeOK).
THEOREM HostTyped == HostSpec => []HostTypeOK
<1>1. EvInv /\ BdInv /\ KmInv /\ RdInv /\ VpInv /\ EnInv /\ HiTypeOK /\ WiTypeOK => HostTypeOK
  BY DEF EvInv, BdInv, KmInv, RdInv, VpInv, EnInv, HostTypeOK
<1>2. QED BY <1>1, HostIsItsParts, EvInvariant, BdInvariant, KmInvariant, RdInvariant,
             VpInvariant, EnInvariant, HistoryTyped, WireTyped, PTL

\* What was proved of the components holds of the host: what the run checks on a small one is
\* true of every one, whatever the others do meanwhile.
THEOREM HostIsSafe ==
  HostSpec => /\ StreamsImplement /\ BindIsSafe /\ HistoryIsKept
              /\ []StatusIsTimely /\ []PortsAreTrue /\ []OfferIsExact
              /\ []ExchangeIsFaithful
BY HostIsItsParts, StreamsRefine, BindSafe, HistoryKept, StatusTimely, PortsTrue, OfferExact,
   ExchangeFaithful

=============================================================================
