----------------------------- MODULE Readiness -----------------------------
(***************************************************************************)
(* GET /readyz (cmd/usbip-go/health.go, newDaemonReadinessProbe in         *)
(* serve.go): one probe at a time runs in a goroutine of its own, and the  *)
(* request waits for its result, its deadline or its client.  A probe may  *)
(* outlive the request it was started for, and may hang for good.          *)
(***************************************************************************)
EXTENDS Naturals, FiniteSets

CONSTANTS
    Requests,        \* GET /readyz, one after the other
    ProbeConcurrency \* readinessProbeConcurrency

ASSUME ReadinessAssumption == ProbeConcurrency \in Nat \ {0}

VARIABLES
    rdServing, \* the listener is bound, accepting, and the status socket writable
    rdLoaded,  \* what KernelModules returns: the required modules are loaded
    rdSlots,   \* probeSlot: the requests whose goroutines run
    rdHung,    \* those whose goroutines hang
    rdWait,    \* requests that wait for their result
    rdResult,  \* a request's result channel, with room for one
    rdSince,   \* requests since whose arrival the daemon has been ready at some moment
    rdOK       \* requests that are answered 200

rdVars == <<rdServing, rdLoaded, rdSlots, rdHung, rdWait, rdResult, rdSince, rdOK>>

RdInit ==
    /\ rdServing = FALSE /\ rdLoaded \in BOOLEAN
    /\ rdSlots = {} /\ rdHung = {}
    /\ rdWait = {} /\ rdSince = {} /\ rdOK = {}
    /\ rdResult = [r \in Requests |-> "empty"]

(* Each request makes its own result channel.                                              *)
Channel(r) == r

(* A request takes the slot and starts its goroutine; with the slot taken, or the client   *)
(* gone, it is refused at once, which changes nothing here.                                *)
Readyz_Unbounded(r) ==
    /\ r \notin rdWait \cup rdOK \cup rdSlots
    /\ rdSlots' = rdSlots \cup {r}
    /\ rdWait' = rdWait \cup {r}
    /\ rdSince' = IF rdServing THEN rdSince \cup {r} ELSE rdSince \ {r}
    /\ rdResult' = IF Channel(r) = r THEN [rdResult EXCEPT ![r] = "empty"] ELSE rdResult
    /\ UNCHANGED <<rdServing, rdLoaded, rdHung, rdOK>>

Readyz(r) ==
    /\ r \notin rdWait \cup rdOK \cup rdSlots
    /\ Cardinality(rdSlots) < ProbeConcurrency
    /\ rdSlots' = rdSlots \cup {r}
    /\ rdWait' = rdWait \cup {r}
    /\ rdSince' = IF rdServing THEN rdSince \cup {r} ELSE rdSince \ {r}
    /\ rdResult' = IF Channel(r) = r THEN [rdResult EXCEPT ![r] = "empty"] ELSE rdResult
    /\ UNCHANGED <<rdServing, rdLoaded, rdHung, rdOK>>

(* readinessState.ready over the flags as they are now and the modules as they were found; *)
(* KernelModules failing counts as not loaded.                                             *)
Ready == rdServing /\ rdLoaded

(* The goroutine ends: the result is buffered, then the slot released.                     *)
FinishProbe(r) ==
    /\ r \in rdSlots \ rdHung
    /\ \E ready \in {Ready, FALSE} :
          rdResult' = [rdResult EXCEPT ![Channel(r)] = IF ready THEN "ready" ELSE "not"]
    /\ rdSlots' = rdSlots \ {r}
    /\ UNCHANGED <<rdServing, rdLoaded, rdHung, rdWait, rdSince, rdOK>>

ProbeHangs(r) ==
    /\ r \in rdSlots
    /\ rdHung' = rdHung \cup {r}
    /\ UNCHANGED <<rdServing, rdLoaded, rdSlots, rdWait, rdResult, rdSince, rdOK>>

(* The handler's select: its result, or its deadline or its client's hanging up.           *)
ReadyzAnswer(r) ==
    /\ r \in rdWait
    /\ rdWait' = rdWait \ {r}
    /\ \/ /\ rdResult[Channel(r)] # "empty"
          /\ rdOK' = IF rdResult[Channel(r)] = "ready" THEN rdOK \cup {r} ELSE rdOK
          /\ rdResult' = [rdResult EXCEPT ![Channel(r)] = "empty"]
       \/ UNCHANGED <<rdOK, rdResult>>
    /\ UNCHANGED <<rdServing, rdLoaded, rdSlots, rdHung, rdSince>>

(* The response is out; the next request may come.                                         *)
Responded(r) ==
    /\ r \in rdOK
    /\ rdOK' = rdOK \ {r}
    /\ UNCHANGED <<rdServing, rdLoaded, rdSlots, rdHung, rdWait, rdResult, rdSince>>

(* The daemon begins to accept, drains, loses its status socket; modules come and go.      *)
ServingChanges ==
    /\ rdServing' = ~rdServing
    /\ rdSince' = IF rdServing' THEN rdSince \cup rdWait ELSE rdSince
    /\ UNCHANGED <<rdLoaded, rdSlots, rdHung, rdWait, rdResult, rdOK>>

ModulesChange ==
    /\ rdLoaded' = ~rdLoaded
    /\ UNCHANGED <<rdServing, rdSlots, rdHung, rdWait, rdResult, rdSince, rdOK>>

RdNext ==
    \/ \E r \in Requests : \/ Readyz(r) \/ ReadyzAnswer(r) \/ Responded(r)
                        \/ FinishProbe(r) \/ ProbeHangs(r)
    \/ ServingChanges \/ ModulesChange

(* Handlers run.  Nothing is assumed of the probe.                                         *)
RdFairness == \A r \in Requests : WF_rdVars(ReadyzAnswer(r))

-----------------------------------------------------------------------------
(* Besides the types: probes that hang keep their slots, so that repeated requests cannot  *)
(* pile up goroutines behind them.                                                         *)
RdTypeOK ==
    /\ rdServing \in BOOLEAN /\ rdLoaded \in BOOLEAN
    /\ rdSlots \subseteq Requests /\ Cardinality(rdSlots) <= ProbeConcurrency
    /\ rdHung \subseteq rdSlots
    /\ rdWait \subseteq Requests
    /\ rdResult \in [Requests -> {"empty", "ready", "not"}]
    /\ rdSince \subseteq Requests /\ rdOK \subseteq Requests

(* A 200 is about this very request: one that arrives after the daemon has begun to drain  *)
(* is not told "ready", not by the late result of an earlier request's probe either.       *)
NoStaleReady == rdOK \subseteq rdSince

(* Every request is answered, though its own probe hangs for ever.                         *)
ReadyzAnswered == \A r \in Requests : r \in rdWait ~> r \notin rdWait
=============================================================================
