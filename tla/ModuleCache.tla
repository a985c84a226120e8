---------------------------- MODULE ModuleCache ----------------------------
(***************************************************************************)
(* statusExporter.KernelModules (cmd/usbip-go/status_exporter.go): the     *)
(* states of the kernel modules, cached for kernelModuleProbeTTL, which    *)
(* the status handler and the readiness probe read.  The mutex is not held *)
(* while the modules are probed, so probes overlap and end in any order.   *)
(*                                                                         *)
(* What a probe finds is represented by when it looked.  A probe may take  *)
(* any time before and after its look, also longer than the map it will    *)
(* replace lives.                                                          *)
(***************************************************************************)
EXTENDS Integers

CONSTANTS
    ModuleCalls, \* calls of KernelModules, one after the other
    TTL,         \* kernelModuleProbeTTL
    MaxTime      \* bound: where the clock stops

ASSUME ModuleCacheAssumption ==
    TTL \in Nat \ {0} /\ MaxTime \in Nat

VARIABLES
    kmNow,    \* the clock
    kmValue,  \* when the probe looked whose map is cached, or NoLook
    kmExpiry, \* when it expires
    kmPC,     \* where a call stands
    kmLook,   \* when its probe looked, then the look it returns, or NoLook
    kmTop,    \* the newest look any call has returned
    kmFloor   \* kmTop as the call began

kmVars == <<kmNow, kmValue, kmExpiry, kmPC, kmLook, kmTop, kmFloor>>

NoLook == -1
Times == 0..MaxTime
Looks == Times \cup {NoLook}

KmInit ==
    /\ kmNow = 0
    /\ kmValue = NoLook /\ kmExpiry = 0
    /\ kmPC = [c \in ModuleCalls |-> "idle"]
    /\ kmLook = [c \in ModuleCalls |-> NoLook]
    /\ kmTop = NoLook
    /\ kmFloor = [c \in ModuleCalls |-> NoLook]

(* A cached map before its expiry.                                                         *)
CacheHit == kmValue # NoLook /\ kmNow < kmExpiry

(* The call returns what was seen at the look.                                             *)
Answer(c, look) ==
    /\ kmPC' = [kmPC EXCEPT ![c] = "done"]
    /\ kmLook' = [kmLook EXCEPT ![c] = look]
    /\ kmTop' = IF look > kmTop THEN look ELSE kmTop

(* A hit is answered under the mutex; a miss unlocks it and probes.                        *)
KernelModules(c) ==
    /\ kmPC[c] = "idle"
    /\ kmFloor' = [kmFloor EXCEPT ![c] = kmTop]
    /\ \/ /\ CacheHit
          /\ Answer(c, kmValue)
       \/ /\ ~CacheHit
          /\ kmPC' = [kmPC EXCEPT ![c] = "probe"]
          /\ UNCHANGED <<kmLook, kmTop>>
    /\ UNCHANGED <<kmNow, kmValue, kmExpiry>>

(* The call's variables end with it.                                                       *)
Forget(c) ==
    /\ kmPC' = [kmPC EXCEPT ![c] = "idle"]
    /\ kmLook' = [kmLook EXCEPT ![c] = NoLook]
    /\ kmFloor' = [kmFloor EXCEPT ![c] = NoLook]

(* The probe looks at the modules, or fails: the error is returned and nothing is cached.  *)
(* One that never returns is a call that stays in "hung".                                  *)
Probe(c) ==
    /\ kmPC[c] = "probe"
    /\ \/ /\ kmPC' = [kmPC EXCEPT ![c] = "store"]
          /\ kmLook' = [kmLook EXCEPT ![c] = kmNow]
          /\ UNCHANGED kmFloor
       \/ Forget(c)
       \/ /\ kmPC' = [kmPC EXCEPT ![c] = "hung"]
          /\ UNCHANGED <<kmLook, kmFloor>>
    /\ UNCHANGED <<kmNow, kmValue, kmExpiry, kmTop>>

(* The re-check: a map that another call has stored meanwhile, and that has not expired,   *)
(* is returned instead of the call's own.                                                  *)
StoreProbe_LastWriterWins(c) ==
    /\ kmPC[c] = "store"
    /\ kmValue' = kmLook[c]
    /\ kmExpiry' = kmNow + TTL
    /\ Answer(c, kmLook[c])
    /\ UNCHANGED <<kmNow, kmFloor>>

StoreProbe(c) ==
    /\ kmPC[c] = "store"
    /\ \/ /\ CacheHit
          /\ Answer(c, kmValue)
          /\ UNCHANGED <<kmValue, kmExpiry>>
       \/ /\ ~CacheHit
          /\ kmValue' = kmLook[c]
          /\ kmExpiry' = kmNow + TTL
          /\ Answer(c, kmLook[c])
    /\ UNCHANGED <<kmNow, kmFloor>>

Returned(c) ==
    /\ kmPC[c] = "done"
    /\ Forget(c)
    /\ UNCHANGED <<kmNow, kmValue, kmExpiry, kmTop>>

(* Time passes.  A call's return is one moment, at which its answer can be looked at.      *)
Tick ==
    /\ kmNow < MaxTime
    /\ \A c \in ModuleCalls : kmPC[c] # "done"
    /\ kmNow' = kmNow + 1
    /\ UNCHANGED <<kmValue, kmExpiry, kmPC, kmLook, kmTop, kmFloor>>

KmNext ==
    \/ \E c \in ModuleCalls : KernelModules(c) \/ Probe(c) \/ StoreProbe(c) \/ Returned(c)
    \/ Tick

KmSpec == KmInit /\ [][KmNext]_kmVars

-----------------------------------------------------------------------------
(* Besides the types: what is cached lives for a lifetime after its look at the least,     *)
(* and never longer than a lifetime from now.                                              *)
KmTypeOK ==
    /\ kmNow \in Times
    /\ kmValue \in Looks /\ kmExpiry \in 0..(MaxTime + TTL)
    /\ kmPC \in [ModuleCalls -> {"idle", "probe", "store", "hung", "done"}]
    /\ kmLook \in [ModuleCalls -> Looks]
    /\ kmTop \in Looks
    /\ kmFloor \in [ModuleCalls -> Looks]
    /\ kmValue # NoLook => kmValue + TTL <= kmExpiry /\ kmExpiry <= kmNow + TTL

(* What is cached was older than a lifetime when it was stored: its probe took that long   *)
(* to come back from its look.                                                             *)
StoredLate == kmExpiry - TTL > kmValue + TTL

(* Answers go back in time only through a probe that slow: otherwise a call that begins    *)
(* after another one has returned never gets an older look at the modules than that one,   *)
(* in whatever order the probes of the calls look and end.                                 *)
AnswersMoveForward ==
    \A c \in ModuleCalls : kmPC[c] = "done" => kmLook[c] >= kmFloor[c] \/ StoredLate

(* The re-check is there because without it "a probe started at t=0 that finishes after a  *)
(* probe started at t=1 would overwrite the newer result with stale data": with it, what a *)
(* newer probe found would never give way to what an older one found.                      *)
NewerLooksStay == [][kmValue' >= kmValue]_kmVars
=============================================================================
