----------------------------- MODULE EventFanout -----------------------------
(***************************************************************************)
(* The event streams of internal/app: Exporter.WatchSessions               *)
(* (exporter_watch.go) and Importer.Watch (importer_watch.go).  Both keep  *)
(* a list of subscribers under the owner's lock, publish to a copy of it   *)
(* without that lock, and end a subscriber by the barrier closeDone, which *)
(* shares the subscriber's mutex with tryPublish.  The importer's stream   *)
(* merges the kernel's events, whose channel may close at any time.        *)
(*                                                                         *)
(* EventStream states what a consumer may rely on; StreamsImplement is the *)
(* refinement.                                                             *)
(***************************************************************************)
EXTENDS Integers, Sequences, FiniteSets

CONSTANTS
    Watchers,     \* iterators that may be ranged over
    Publishers,   \* goroutines that publish
    StreamBuf,    \* sessionEventBufSize, importerEventBufSize
    MaxEvents     \* bound: events published

ASSUME FanoutAssumption == StreamBuf \in Nat \ {0} /\ MaxEvents \in Nat

VARIABLES
    evOwner,      \* whose streams: the exporter's or the importer's
    evShut,       \* e.shutdown, i.closed
    evSubs,       \* e.subscribers, i.subscribers
    evCloser,     \* closeAllSubscribers: the subscribers it has still to signal
    evCloserPC,   \* where Shutdown or Close stands
    evBarred,     \* sub.closed and sub.done
    evCh,         \* sub.ch
    evCtx,        \* contexts of Watch calls that are cancelled
    evIter,       \* where an iterator stands
    evDelivered,  \* what the consumer has been handed
    evEnded,      \* how its iteration ended
    evPending,    \* per publisher: the subscribers of its copy not yet served
    evEvent,      \* per publisher: the event it publishes, 0 when idle
    evNext        \* events published so far

evOwnerVars == <<evOwner, evShut, evSubs, evCloser, evCloserPC>>
evSubVars   == <<evBarred, evCh>>
evIterVars  == <<evIter, evDelivered, evEnded>>
evPubVars   == <<evPending, evEvent, evNext>>
evVars      == <<evOwnerVars, evSubVars, evIterVars, evCtx, evPubVars>>

EvIterStates == {"idle", "made", "subscribe", "loop", "drain", "remove", "barrier", "over"}

(* Besides the types: a subscriber buffer never exceeds its capacity, and every subscriber *)
(* the owner still lists is live.                                                          *)
EvTypeOK ==
    /\ evOwner \in {"exporter", "importer"}
    /\ evShut \in BOOLEAN
    /\ evSubs \subseteq Watchers
    /\ evCloser \subseteq Watchers
    /\ evCloserPC \in {"open", "shut", "closing"}
    /\ evBarred \in [Watchers -> BOOLEAN]
    /\ evCh \in [Watchers -> Seq(1..MaxEvents)]
    /\ evCtx \subseteq Watchers
    /\ evIter \in [Watchers -> EvIterStates]
    /\ evDelivered \in [Watchers -> Seq(1..MaxEvents)]
    /\ evEnded \in [Watchers -> {"no", "drained", "stopped"}]
    /\ evPending \in [Publishers -> SUBSET Watchers]
    /\ evEvent \in [Publishers -> 0..MaxEvents]
    /\ evNext \in 0..MaxEvents
    /\ \A w \in Watchers : Len(evCh[w]) <= StreamBuf
    /\ \A w \in evSubs : ~evBarred[w]

EvInit ==
    /\ evOwner \in {"exporter", "importer"}
    /\ evShut = FALSE
    /\ evSubs = {} /\ evCloser = {} /\ evCloserPC = "open"
    /\ evBarred = [w \in Watchers |-> FALSE]
    /\ evCh = [w \in Watchers |-> << >>]
    /\ evCtx = {}
    /\ evIter = [w \in Watchers |-> "idle"]
    /\ evDelivered = [w \in Watchers |-> << >>]
    /\ evEnded = [w \in Watchers |-> "no"]
    /\ evPending = [p \in Publishers |-> {}]
    /\ evEvent = [p \in Publishers |-> 0]
    /\ evNext = 0

EvGoto(w, pc) == evIter' = [evIter EXCEPT ![w] = pc]

-----------------------------------------------------------------------------
(* WatchSessions, WatchWithErrors *)

(* The eager check of the owner's flag; a shut owner gives an empty iterator.              *)
EvWatch(w) ==
    /\ evIter[w] = "idle"
    /\ ~evShut
    /\ EvGoto(w, "made")
    /\ UNCHANGED <<evOwnerVars, evSubVars, evDelivered, evEnded, evCtx, evPubVars>>

(* Ranging over the iterator, maybe much later, checks again under the lock.               *)
EvRegister(w) ==
    /\ evIter[w] = "made"
    /\ IF evShut
       THEN EvGoto(w, "over") /\ UNCHANGED evSubs
       ELSE /\ evSubs' = evSubs \cup {w}
            /\ EvGoto(w, IF evOwner = "importer" THEN "subscribe" ELSE "loop")
    /\ UNCHANGED <<evOwner, evShut, evCloser, evCloserPC, evSubVars, evDelivered, evEnded,
                   evCtx, evPubVars>>

(* i.events.Subscribe of the importer; its failure ends the stream.                        *)
EvSubscribe(w) ==
    /\ evIter[w] = "subscribe"
    /\ \/ EvGoto(w, "loop") /\ UNCHANGED evEnded
       \/ EvGoto(w, "remove") /\ evEnded' = [evEnded EXCEPT ![w] = "stopped"]
    /\ UNCHANGED <<evOwnerVars, evSubVars, evDelivered, evCtx, evPubVars>>

-----------------------------------------------------------------------------
(* runSessionEventSeq, runImporterMergedSeq: one select *)

EvEnd(w, how) ==
    /\ EvGoto(w, "remove")
    /\ evEnded' = [evEnded EXCEPT ![w] = how]

EvSeesCancel(w) ==
    /\ evIter[w] = "loop"
    /\ w \in evCtx
    /\ EvEnd(w, "stopped")
    /\ UNCHANGED <<evOwnerVars, evSubVars, evDelivered, evCtx, evPubVars>>

EvSeesDone(w) ==
    /\ evIter[w] = "loop"
    /\ evBarred[w]
    /\ EvGoto(w, "drain")
    /\ UNCHANGED <<evOwnerVars, evSubVars, evDelivered, evEnded, evCtx, evPubVars>>

(* An event of sub.ch is yielded, from the select or from the final drain; the consumer    *)
(* may stop ranging with it.                                                               *)
EvYield(w) ==
    /\ evIter[w] \in {"loop", "drain"}
    /\ evCh[w] # << >>
    /\ evDelivered' = [evDelivered EXCEPT ![w] = Append(@, Head(evCh[w]))]
    /\ evCh' = [evCh EXCEPT ![w] = Tail(@)]
    /\ \/ UNCHANGED <<evIter, evEnded>>
       \/ EvEnd(w, "stopped")
    /\ UNCHANGED <<evOwnerVars, evBarred, evCtx, evPubVars>>

(* drainSessionEvents, drainImporterSubscriber: the buffer is empty.                       *)
EvDrained(w) ==
    /\ evIter[w] = "drain"
    /\ evCh[w] = << >>
    /\ EvEnd(w, "drained")
    /\ UNCHANGED <<evOwnerVars, evSubVars, evDelivered, evCtx, evPubVars>>

(* The consumer stops at an event of the kernel's channel, or that channel is closed:      *)
(* runImporterMergedSeq then ends without draining, with ErrEventStreamClosed unless       *)
(* watchStopped finds that somebody wanted the end.                                        *)
EvKernelStops(w) ==
    /\ evIter[w] = "loop"
    /\ evOwner = "importer"
    /\ EvEnd(w, "stopped")
    /\ UNCHANGED <<evOwnerVars, evSubVars, evDelivered, evCtx, evPubVars>>

(* defer removeSubscriber: out of the list, then the barrier.                              *)
EvRemove(w) ==
    /\ evIter[w] = "remove"
    /\ evSubs' = evSubs \ {w}
    /\ EvGoto(w, "barrier")
    /\ UNCHANGED <<evOwner, evShut, evCloser, evCloserPC, evSubVars, evDelivered, evEnded,
                   evCtx, evPubVars>>

EvBarrier(w) ==
    /\ evIter[w] = "barrier"
    /\ evBarred' = [evBarred EXCEPT ![w] = TRUE]
    /\ EvGoto(w, "over")
    /\ UNCHANGED <<evOwnerVars, evCh, evDelivered, evEnded, evCtx, evPubVars>>

-----------------------------------------------------------------------------
(* publishSessionEvent, publishImporterEvent *)

EvCopyList(p) ==
    /\ evEvent[p] = 0
    /\ evNext < MaxEvents
    /\ evNext' = evNext + 1
    /\ evEvent' = [evEvent EXCEPT ![p] = evNext + 1]
    /\ evPending' = [evPending EXCEPT ![p] = evSubs]
    /\ UNCHANGED <<evOwnerVars, evSubVars, evIterVars, evCtx>>

(* tryPublish: nothing behind the barrier, a full buffer drops the event.                  *)
EvTryPublish_NoBarrier(w, e) ==
    evCh' = [evCh EXCEPT ![w] = IF Len(@) = StreamBuf THEN @ ELSE Append(@, e)]

EvTryPublish(w, e) ==
    evCh' = [evCh EXCEPT ![w] =
                IF evBarred[w] \/ Len(@) = StreamBuf THEN @ ELSE Append(@, e)]

EvPublish(p, w) ==
    /\ evEvent[p] # 0
    /\ w \in evPending[p]
    /\ EvTryPublish(w, evEvent[p])
    /\ evPending' = [evPending EXCEPT ![p] = @ \ {w}]
    /\ UNCHANGED <<evOwnerVars, evBarred, evIterVars, evCtx, evEvent, evNext>>

EvPublished(p) ==
    /\ evEvent[p] # 0
    /\ evPending[p] = {}
    /\ evEvent' = [evEvent EXCEPT ![p] = 0]
    /\ UNCHANGED <<evOwnerVars, evSubVars, evIterVars, evCtx, evPending, evNext>>

-----------------------------------------------------------------------------
(* Shutdown and Close: the flag first, the subscribers last *)

EvShut ==
    /\ evCloserPC = "open"
    /\ evShut' = TRUE
    /\ evCloserPC' = "shut"
    /\ UNCHANGED <<evOwner, evSubs, evCloser, evSubVars, evIterVars, evCtx, evPubVars>>

EvTakeList ==
    /\ evCloserPC = "shut"
    /\ evCloser' = evSubs
    /\ evSubs' = {}
    /\ evCloserPC' = "closing"
    /\ UNCHANGED <<evOwner, evShut, evSubVars, evIterVars, evCtx, evPubVars>>

EvCloseDone(w) ==
    /\ w \in evCloser
    /\ evCloser' = evCloser \ {w}
    /\ evBarred' = [evBarred EXCEPT ![w] = TRUE]
    /\ UNCHANGED <<evOwner, evShut, evSubs, evCloserPC, evCh, evIterVars, evCtx, evPubVars>>

EvCancel(w) ==
    /\ evIter[w] \in {"subscribe", "loop"}
    /\ evCtx' = evCtx \cup {w}
    /\ UNCHANGED <<evOwnerVars, evSubVars, evIterVars, evPubVars>>

-----------------------------------------------------------------------------
EvIterate(w) ==
    \/ EvSubscribe(w) \/ EvSeesCancel(w) \/ EvSeesDone(w) \/ EvYield(w) \/ EvDrained(w)
    \/ EvRemove(w) \/ EvBarrier(w)

EvClose == EvTakeList \/ \E w \in Watchers : EvCloseDone(w)

EvNextStep ==
    \/ \E w \in Watchers : \/ EvWatch(w) \/ EvRegister(w) \/ EvIterate(w)
                           \/ EvKernelStops(w) \/ EvCancel(w)
    \/ \E p \in Publishers : \/ EvCopyList(p) \/ EvPublished(p)
                             \/ \E w \in Watchers : EvPublish(p, w)
    \/ EvShut \/ EvClose

(* Iterators run while their consumers keep ranging, and Shutdown and Close reach          *)
(* closeAllSubscribers because every wait before it is bounded.                            *)
EvFairness ==
    /\ \A w \in Watchers : WF_evVars(EvIterate(w))
    /\ WF_evVars(EvClose)

-----------------------------------------------------------------------------
(* A consumer of WatchSessions or Watch sees what EventStream promises: the buffer and     *)
(* what was delivered make up what was accepted, the barrier is sub.done.  In particular   *)
(* no event enters a buffer behind the final drain, however a publisher that copied the    *)
(* list earlier, the owner's closeAllSubscribers and the iterator's own removal interleave.*)
Stream == INSTANCE EventStream WITH
    Streams <- Watchers, Events <- 1..MaxEvents,
    accepted <- [w \in Watchers |-> evDelivered[w] \o evCh[w]],
    delivered <- evDelivered, barred <- evBarred, ended <- evEnded

StreamsImplement == Stream!Spec

(* Once the owner shuts down every stream that was being read ends, also one whose         *)
(* consumer called Watch before the shutdown and ranged over it only afterwards.           *)
EveryStreamEnds ==
    \A w \in Watchers :
        evShut /\ evIter[w] \in {"subscribe", "loop", "drain"} ~> evIter[w] = "over"
=============================================================================
