------------------------------- MODULE MCHost -------------------------------
(***************************************************************************)
(* The components of a host that share no state with one another, checked  *)
(* in one run: a behaviour is a behaviour of one part, the others rest.    *)
(***************************************************************************)
EXTENDS EventFanout, BindUnbind, History, ModuleCache, Readiness, VhciPorts, Enumeration, Wire

VARIABLE part   \* the component that runs

Parts == {"streams", "bind", "history", "cache", "readiness", "ports", "devices", "wire"}

hostVars == <<part, evVars, bdVars, hiVars, kmVars, rdVars, vpVars, enVars, wiVars>>

-----------------------------------------------------------------------------
MCShapes == {<<1, 1>>, <<2, 1>>, <<2, 2>>}

Dev(id, n, ifs, long) == [id |-> id, num |-> n, ifs |-> ifs, long |-> long]

(* No interface, one missing, one too many, and a path too long for its field.             *)
MCDevs ==
    {Dev("a", 0, << >>, FALSE), Dev("b", 2, <<"x">>, FALSE), Dev("c", 1, <<"x", "y">>, FALSE),
     Dev("d", 1, <<"y">>, TRUE)}

MCDeviceLists == {<< >>} \cup {<<d>> : d \in MCDevs} \cup {<<d, e>> : d \in MCDevs, e \in MCDevs}

(* Bound: a reload hands out other bus numbers only for the operation that reads them.     *)
BusesMatterToMap ==
    vpOp.kind # "map" =>
        \A l \in Controllers \X Hubs : vpBus'[l] \in {0, FirstBuses(vpShape')[l]}

-----------------------------------------------------------------------------
(* A part that does not run has one initial state.                                         *)
OnlyIf(p, all, one) == IF part = p THEN all ELSE {one}

HostInit ==
    /\ part \in Parts
    /\ EvInit /\ (part # "streams" => evOwner = "exporter")
    /\ BdInit /\ HiInit /\ KmInit
    /\ RdInit /\ (part # "readiness" => rdLoaded)
    /\ VpInitFrom(OnlyIf("ports", Shapes \cup {Unloaded}, Unloaded),
                  OnlyIf("ports", Operations, [kind |-> "list", hub |-> "hs", port |-> 0]))
    /\ EnInitFrom(OnlyIf("devices", DeviceStates, Gone))
    /\ WiInitFrom(OnlyIf("wire", {"devlist", "import"}, "devlist"), OnlyIf("wire", BOOLEAN, TRUE),
                  OnlyIf("wire", Faults, "none"), OnlyIf("wire", DeviceLists, << >>))

StreamsStep ==
    /\ part = "streams" /\ EvNextStep
    /\ UNCHANGED <<part, bdVars, hiVars, kmVars, rdVars, vpVars, enVars, wiVars>>

BindStep ==
    /\ part = "bind" /\ BdNext
    /\ UNCHANGED <<part, evVars, hiVars, kmVars, rdVars, vpVars, enVars, wiVars>>

HistoryStep ==
    /\ part = "history" /\ HiNext
    /\ UNCHANGED <<part, evVars, bdVars, kmVars, rdVars, vpVars, enVars, wiVars>>

CacheStep ==
    /\ part = "cache" /\ KmNext
    /\ UNCHANGED <<part, evVars, bdVars, hiVars, rdVars, vpVars, enVars, wiVars>>

ReadinessStep ==
    /\ part = "readiness" /\ RdNext
    /\ UNCHANGED <<part, evVars, bdVars, hiVars, kmVars, vpVars, enVars, wiVars>>

PortsStep ==
    /\ part = "ports" /\ VpNext /\ BusesMatterToMap
    /\ UNCHANGED <<part, evVars, bdVars, hiVars, kmVars, rdVars, enVars, wiVars>>

DevicesStep ==
    /\ part = "devices" /\ EnNext
    /\ UNCHANGED <<part, evVars, bdVars, hiVars, kmVars, rdVars, vpVars, wiVars>>

WireStep ==
    /\ part = "wire" /\ WiNext
    /\ UNCHANGED <<part, evVars, bdVars, hiVars, kmVars, rdVars, vpVars, enVars>>

HostNext ==
    \/ StreamsStep \/ BindStep \/ HistoryStep \/ CacheStep
    \/ ReadinessStep \/ PortsStep \/ DevicesStep \/ WireStep

(* The fairness of each part; a resting part enables none of the actions it names.         *)
HostSpec ==
    /\ HostInit /\ [][HostNext]_hostVars
    /\ EvFairness /\ BdFairness /\ HiFairness /\ RdFairness /\ WiFairness

-----------------------------------------------------------------------------
(* The types of the components' state.                                                     *)
HostTypeOK ==
    /\ EvTypeOK /\ BdTypeOK /\ HiTypeOK /\ KmTypeOK
    /\ RdTypeOK /\ VpTypeOK /\ EnTypeOK /\ WiTypeOK

(* What the status document and /readyz say is about the present: cached answers do not go *)
(* back in time but for a probe slower than the cache's lifetime, and a 200 of /readyz does *)
(* not come from an earlier request.                                                       *)
StatusIsTimely == AnswersMoveForward /\ NoStaleReady

(* No call hangs: watchers, Bind and Unbind, recorders, /readyz requests and exchanges end *)
(* although consumers are slow, writes fail, processes are killed and probes hang; but for *)
(* a driver's unbind that waits for an importer nobody could disconnect.                   *)
HostCallsReturn ==
    /\ EveryStreamEnds /\ BindCallsReturn /\ RecordersReturn
    /\ ReadyzAnswered /\ EveryExchangeEnds
=============================================================================
