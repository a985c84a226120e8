------------------------------ MODULE VhciPorts ------------------------------
(***************************************************************************)
(* The virtual host controller's port space as the importer adapter reads  *)
(* it (internal/adapter/kernel: topology.go, ports.go, attach.go).  Every  *)
(* operation rediscovers the topology and then reads one status file per   *)
(* controller, attribute by attribute, while ports change hands and        *)
(* vhci_hcd may be reloaded with another shape.  An operation keeps        *)
(* nothing, so a behaviour is one operation over any kernel state.         *)
(***************************************************************************)
EXTENDS Integers, Sequences, FiniteSets

CONSTANTS
    Shapes,     \* the shapes vhci_hcd may be loaded with: <<controllers, ports per hub>>
    Buses,      \* USB bus numbers
    Targets,    \* the ports that change hands, are detached or have their history followed
    RawStatus,  \* the sta column values a port moves through
    MaxMoves,   \* bound: ports that change hands during the operation
    MaxLoads    \* bound: loads of vhci_hcd during the operation

(* The module is loaded with a shape, its root hubs find bus numbers, and vhci_hcd only     *)
(* prints VDEV_ST_NULL (4), NOTASSIGNED (5), USED (6) and ERROR (7) (ports.go:319).        *)
ASSUME VhciAssumption ==
    /\ Shapes # {} /\ Shapes \subseteq (Nat \ {0}) \X (Nat \ {0})
    /\ Buses \subseteq Nat \ {0} /\ \A s \in Shapes : 1..2 * s[1] \subseteq Buses
    /\ Targets \subseteq Nat
    /\ RawStatus \subseteq 4..7 /\ {4, 5} \subseteq RawStatus
    /\ MaxMoves \in Nat /\ MaxLoads \in Nat

HubsPerController == 2

Hubs == {"hs", "ss"}

(* Topology.FlatPort and hubOffset.                                                        *)
HubOffset(hcPorts, hub) == IF hub = "ss" THEN hcPorts ELSE 0

FlatPort(hcPorts, ctrl, hub, rhport) ==
    ctrl * (hcPorts * HubsPerController) + HubOffset(hcPorts, hub) + rhport

(* The root ports <<controller, hub, rhport>> of n controllers.                            *)
Locations(n, hcPorts) == (0..n - 1) \X Hubs \X (0..hcPorts - 1)

Unloaded  == <<0, 0>>
NPorts(s) == s[1] * s[2] * HubsPerController

AllPorts    == UNION {0..NPorts(s) - 1 : s \in Shapes}
Controllers == UNION {0..s[1] - 1 : s \in Shapes}

VARIABLES
    vpShape,   \* <<nControllers, HCPorts>> of the loaded module, <<0, 0>> when unloaded
    vpSta,     \* raw status per flat port
    vpBus,     \* root hubs registered: <<controller, hub>> -> bus number, 0 for none
    vpMoves,   \* ports changed so far
    vpLoads,   \* reloads so far
    vpOp,      \* the operation: [kind, hub, port]
    vpPC,      \* where it stands
    vpNPorts,  \* nports as read
    vpIdx,     \* the controller file it reads next
    vpTopo,    \* the StatusTopology: [n, hc]
    vpRows,    \* rows parsed so far
    vpMap,     \* BusMap, as a set of <<busnum, location>>
    vpPort,    \* the port findFreePortWithTopology chose
    vpResult,  \* how it returned
    vpWatched, \* the port whose history the properties are about
    vpAs       \* as which free row ("hs", "ss") or absence ("none") it was seen to exist

vpKernel == <<vpShape, vpSta, vpBus, vpMoves, vpLoads>>
vpCall   == <<vpPC, vpNPorts, vpIdx, vpTopo, vpRows, vpMap, vpPort, vpResult>>
vpVars   == <<vpKernel, vpOp, vpCall, vpWatched, vpAs>>

(* The status of the kernel's enum as domain.Status (translateVDEVStatus).                 *)
TranslateVDEVStatus(sta) ==
    CASE sta \in {0, 4} -> "null"
      [] sta \in {1, 5} -> "notassigned"
      [] sta = 2 -> "available"
      [] sta \in {3, 6} -> "used"
      [] OTHER -> "error"

IsFreeStatus(status) == status \in {"null", "available"}

(* The hub of a flat port in a shape: what status_show_vhci prints beside it.              *)
HubOf(s, p) == IF (p % (HubsPerController * s[2])) < s[2] THEN "hs" ELSE "ss"

Exists(s, p) == p < NPorts(s)

(* How the watched port stands in a kernel state.                                          *)
Standing(s, sta) ==
    CASE ~Exists(s, vpWatched) -> {"none"}
      [] Exists(s, vpWatched) /\ sta[vpWatched] = 4 -> {HubOf(s, vpWatched)}
      [] OTHER -> {}

NoBuses == [l \in Controllers \X Hubs |-> 0]

VpTypeOK ==
    /\ vpShape \in Shapes \cup {Unloaded}
    /\ vpSta \in [AllPorts -> RawStatus]
    /\ vpBus \in [Controllers \X Hubs -> Buses \cup {0}]
    /\ vpMoves \in 0..MaxMoves /\ vpLoads \in 0..MaxLoads
    /\ vpPC \in {"nports", "probe", "derive", "buses", "rows", "choose", "write", "done"}
    /\ vpNPorts \in Nat /\ vpIdx \in Nat
    /\ vpTopo \in [n : Nat, hc : Nat]
    /\ vpPort \in AllPorts
    /\ vpResult \in {"none", "ok", "err", "nofreeport", "notbound"}
    /\ vpMap \subseteq Buses \X (Controllers \X Hubs)
    /\ vpAs \subseteq {"hs", "ss", "none"}
    \* rows and hubs are read under a topology that accounts for every port of nports
    /\ vpPC \in {"buses", "rows", "choose", "write"}
          => vpTopo.hc > 0 /\ NPorts(<<vpTopo.n, vpTopo.hc>>) = vpNPorts

Operations ==
    {[kind |-> k, hub |-> "hs", port |-> 0] : k \in {"list", "map"}}
    \cup {[kind |-> "attach", hub |-> h, port |-> 0] : h \in Hubs}
    \cup {[kind |-> "detach", hub |-> "hs", port |-> p] : p \in Targets}

(* A first load hands out bus numbers in order.                                            *)
FirstBuses(s) == [l \in Controllers \X Hubs |->
                    IF l[1] < s[1] THEN 2 * l[1] + (IF l[2] = "hs" THEN 1 ELSE 2) ELSE 0]

(* Initially the ports up to a target, or all, are taken; "map" reads no port.             *)
Taken(s) == {[p \in AllPorts |-> IF Exists(s, p) /\ p < k THEN r ELSE 4] :
                k \in {0, Cardinality(AllPorts)} \cup {t + 1 : t \in Targets}, r \in RawStatus}

VpInitFrom(shapes, operations) ==
    /\ vpShape \in shapes
    /\ vpOp \in operations
    /\ vpSta \in (IF vpOp.kind = "map" THEN {[p \in AllPorts |-> 4]} ELSE Taken(vpShape))
    /\ vpBus = FirstBuses(vpShape)
    /\ vpMoves = 0 /\ vpLoads = 0
    /\ vpPC = "nports" /\ vpNPorts = 0 /\ vpIdx = 0
    /\ vpTopo = [n |-> 0, hc |-> 0]
    /\ vpRows = << >> /\ vpMap = {} /\ vpPort = 0 /\ vpResult = "none"
    /\ vpWatched \in (CASE vpOp.kind = "detach" -> {vpOp.port}
                        [] vpOp.kind = "attach" -> Targets
                        [] OTHER -> {0})
    /\ vpAs = Standing(vpShape, vpSta)

VpInit == VpInitFrom(Shapes \cup {Unloaded}, Operations)

-----------------------------------------------------------------------------
(* The kernel: ports change hands, the module is unloaded and loaded *)

PortMoves(p) ==
    /\ vpMoves < MaxMoves
    /\ vpPC # "done" /\ vpOp.kind # "map"
    /\ Exists(vpShape, p)
    /\ \E r \in RawStatus \ {vpSta[p]} : vpSta' = [vpSta EXCEPT ![p] = r]
    /\ vpMoves' = vpMoves + 1
    /\ vpAs' = vpAs \cup Standing(vpShape, vpSta')
    /\ UNCHANGED <<vpShape, vpBus, vpLoads, vpOp, vpCall, vpWatched>>

Unload ==
    /\ vpLoads < MaxLoads
    /\ vpPC # "done"
    /\ vpShape # Unloaded
    /\ vpShape' = Unloaded
    /\ vpSta' = [p \in AllPorts |-> 4]
    /\ vpBus' = NoBuses
    /\ vpAs' = vpAs \cup Standing(Unloaded, vpSta')
    /\ UNCHANGED <<vpMoves, vpLoads, vpOp, vpCall, vpWatched>>

Load(s) ==
    /\ vpLoads < MaxLoads
    /\ vpPC # "done"
    /\ vpShape = Unloaded
    /\ vpShape' = s
    /\ vpLoads' = vpLoads + 1
    /\ vpAs' = vpAs \cup Standing(s, vpSta)
    /\ UNCHANGED <<vpSta, vpBus, vpMoves, vpOp, vpCall, vpWatched>>

(* A controller's probe registers its HS root hub, then its SS root hub; the later one     *)
(* gets the higher bus number.                                                             *)
RegisterHub(c, hub, b) ==
    /\ vpPC # "done"
    /\ c < vpShape[1]
    /\ vpBus[<<c, hub>>] = 0
    /\ \A l \in Controllers \X Hubs : vpBus[l] # b
    /\ hub = "ss" => vpBus[<<c, "hs">>] \in 1..b - 1
    /\ hub = "hs" => \E higher \in Buses : higher > b /\ \A l \in Controllers \X Hubs : vpBus[l] # higher
    /\ vpBus' = [vpBus EXCEPT ![<<c, hub>>] = b]
    /\ UNCHANGED <<vpShape, vpSta, vpMoves, vpLoads, vpOp, vpCall, vpWatched, vpAs>>

-----------------------------------------------------------------------------
(* The operation *)

VpReturn(r) == vpPC' = "done" /\ vpResult' = r

(* Any attribute may fail to read: the operation returns the error.                        *)
ReadFails ==
    /\ vpPC \in {"nports", "probe", "buses", "rows", "write"}
    /\ VpReturn("err")
    /\ UNCHANGED <<vpKernel, vpOp, vpNPorts, vpIdx, vpTopo, vpRows, vpMap, vpPort, vpWatched, vpAs>>

ReadNPorts ==
    /\ vpPC = "nports"
    /\ vpShape # Unloaded
    /\ vpNPorts' = NPorts(vpShape)
    /\ vpPC' = "probe"
    /\ UNCHANGED <<vpKernel, vpOp, vpIdx, vpTopo, vpRows, vpMap, vpPort, vpResult, vpWatched, vpAs>>

(* probeControllerCount: one status file per step, until the first missing one.            *)
ProbeControllerCount ==
    /\ vpPC = "probe"
    /\ IF vpIdx < vpShape[1]
       THEN vpIdx' = vpIdx + 1 /\ UNCHANGED <<vpPC, vpResult>>
       ELSE /\ UNCHANGED vpIdx
            /\ IF vpIdx = 0 THEN VpReturn("err") ELSE vpPC' = "derive" /\ UNCHANGED vpResult
    /\ UNCHANGED <<vpKernel, vpOp, vpNPorts, vpTopo, vpRows, vpMap, vpPort, vpWatched, vpAs>>

(* deriveHCPorts.                                                                          *)
Divides(nports, n) == n > 0 /\ nports # 0 /\ nports % (n * HubsPerController) = 0

DeriveHCPorts ==
    /\ vpPC = "derive"
    /\ IF Divides(vpNPorts, vpIdx)
       THEN /\ vpTopo' = [n |-> vpIdx, hc |-> vpNPorts \div (vpIdx * HubsPerController)]
            /\ vpPC' = IF vpOp.kind = "map" THEN "buses" ELSE "rows"
            /\ UNCHANGED vpResult
       ELSE VpReturn("err") /\ UNCHANGED vpTopo
    /\ vpIdx' = 0
    /\ UNCHANGED <<vpKernel, vpOp, vpNPorts, vpRows, vpMap, vpPort, vpWatched, vpAs>>

(* The children of a controller, ranked by bus number: the lower is HS, the higher SS.     *)
Children(c) == {vpBus[<<c, h>>] : h \in Hubs} \ {0}
ByRank(c)   == {<<b, <<c, IF b = CHOOSE m \in Children(c) : \A o \in Children(c) : m <= o
                          THEN "hs" ELSE "ss">>>> : b \in Children(c)}
BusesOf(m)  == {e[1] : e \in m}

(* busMap[ch.busnum] = ... : a bus met a second time is overwritten.                       *)
Overwrite(m, new) == {e \in m : e[1] \notin BusesOf(new)} \cup new

(* appendControllerBusMap for one controller; after the last, discoverTopology counts.     *)
BuildBusMap ==
    /\ vpPC = "buses"
    /\ IF vpIdx < vpTopo.n
       THEN IF vpIdx < vpShape[1] /\ Cardinality(Children(vpIdx)) = HubsPerController
            THEN /\ vpMap' = Overwrite(vpMap, ByRank(vpIdx))
                 /\ vpIdx' = vpIdx + 1
                 /\ UNCHANGED <<vpPC, vpResult>>
            ELSE VpReturn("err") /\ UNCHANGED <<vpMap, vpIdx>>
       ELSE /\ VpReturn(IF Cardinality(vpMap) = vpTopo.n * HubsPerController THEN "ok" ELSE "err")
            /\ UNCHANGED <<vpMap, vpIdx>>
    /\ UNCHANGED <<vpKernel, vpOp, vpNPorts, vpTopo, vpRows, vpPort, vpWatched, vpAs>>

(* parseStatusRow of what status_show_vhci prints for a port: the flat port is the         *)
(* kernel's own.                                                                           *)
Row(p) == [port |-> p, hub |-> HubOf(vpShape, p), status |-> TranslateVDEVStatus(vpSta[p])]

(* The rows of controller file c; hs ports come before ss ports.                           *)
StatusFile(c) == LET w == vpShape[2] * HubsPerController
                 IN  [i \in 1..w |-> Row(c * w + i - 1)]

(* parseStatusLine: a row outside the controller's window, and the placeholder rows of a   *)
(* controller that is not probed yet, fail the read.                                       *)
InWindow_Unchecked(row, c) == TRUE
InWindow(row, c) == row.port \div (vpTopo.hc * HubsPerController) = c
ControllerReady(c) == vpBus[<<c, "hs">>] # 0

ParseStatusFile(c) ==
    /\ vpPC = "rows"
    /\ vpIdx = c /\ c < vpTopo.n
    /\ IF /\ c < vpShape[1] /\ ControllerReady(c) /\ vpTopo.hc # 0
          /\ \A i \in DOMAIN StatusFile(c) : InWindow(StatusFile(c)[i], c)
       THEN /\ vpRows' = vpRows \o StatusFile(c)
            /\ vpIdx' = c + 1
            /\ UNCHANGED <<vpPC, vpResult>>
       ELSE VpReturn("err") /\ UNCHANGED <<vpRows, vpIdx>>
    /\ UNCHANGED <<vpKernel, vpOp, vpNPorts, vpTopo, vpMap, vpPort, vpWatched, vpAs>>

RowsRead ==
    /\ vpPC = "rows"
    /\ vpIdx = vpTopo.n
    /\ IF vpOp.kind = "list" THEN VpReturn("ok") ELSE vpPC' = "choose" /\ UNCHANGED vpResult
    /\ UNCHANGED <<vpKernel, vpOp, vpNPorts, vpIdx, vpTopo, vpRows, vpMap, vpPort, vpWatched, vpAs>>

RowSet == {vpRows[i] : i \in DOMAIN vpRows}

FreePorts(hub) == {r.port : r \in {x \in RowSet : x.hub = hub /\ IsFreeStatus(x.status)}}

LowestFreePort(hub) == CHOOSE p \in FreePorts(hub) : \A q \in FreePorts(hub) : p <= q

(* validatePortInRange against the operation's own snapshot.                               *)
ValidatePortInRange(p) == p < vpTopo.n * vpTopo.hc * HubsPerController

(* findFreePortWithTopology, then the range check of attachAtPortWithTopology.             *)
ChoosePort(p) ==
    /\ vpPC = "choose" /\ vpOp.kind = "attach"
    /\ FreePorts(vpOp.hub) # {} /\ p = LowestFreePort(vpOp.hub)
    /\ IF ValidatePortInRange(p)
       THEN vpPC' = "write" /\ vpPort' = p /\ UNCHANGED vpResult
       ELSE VpReturn("err") /\ UNCHANGED vpPort
    /\ UNCHANGED <<vpKernel, vpOp, vpNPorts, vpIdx, vpTopo, vpRows, vpMap, vpWatched, vpAs>>

NoFreePort ==
    /\ vpPC = "choose" /\ vpOp.kind = "attach"
    /\ FreePorts(vpOp.hub) = {}
    /\ VpReturn("nofreeport")
    /\ UNCHANGED <<vpKernel, vpOp, vpNPorts, vpIdx, vpTopo, vpRows, vpMap, vpPort, vpWatched, vpAs>>

(* The attach write: the kernel claims a port that is free, and refuses any other.         *)
WriteAttach ==
    /\ vpPC = "write" /\ vpOp.kind = "attach"
    /\ IF Exists(vpShape, vpPort) /\ vpSta[vpPort] = 4
       THEN vpSta' = [vpSta EXCEPT ![vpPort] = 5] /\ VpReturn("ok")
       ELSE VpReturn("err") /\ UNCHANGED vpSta
    /\ UNCHANGED <<vpShape, vpBus, vpMoves, vpLoads, vpOp, vpNPorts, vpIdx, vpTopo, vpRows,
                   vpMap, vpPort, vpWatched, vpAs>>

(* DetachPort: range, status row, and only then the write.                                 *)
CheckDetach(p) ==
    /\ vpPC = "choose" /\ vpOp.kind = "detach" /\ p = vpOp.port
    /\ IF ~ValidatePortInRange(p) THEN VpReturn("err")
       ELSE IF \E r \in RowSet : r.port = p /\ ~IsFreeStatus(r.status)
            THEN vpPC' = "write" /\ UNCHANGED vpResult
            ELSE VpReturn("notbound")
    /\ UNCHANGED <<vpKernel, vpOp, vpNPorts, vpIdx, vpTopo, vpRows, vpMap, vpPort, vpWatched, vpAs>>

WriteDetach ==
    /\ vpPC = "write" /\ vpOp.kind = "detach"
    /\ IF Exists(vpShape, vpOp.port) /\ vpSta[vpOp.port] # 4
       THEN vpSta' = [vpSta EXCEPT ![vpOp.port] = 4] /\ VpReturn("ok")
       ELSE VpReturn("notbound") /\ UNCHANGED vpSta
    /\ UNCHANGED <<vpShape, vpBus, vpMoves, vpLoads, vpOp, vpNPorts, vpIdx, vpTopo, vpRows,
                   vpMap, vpPort, vpWatched, vpAs>>

VpNext ==
    \/ (\E p \in Targets : PortMoves(p)) \/ Unload \/ (\E s \in Shapes : Load(s))
    \/ \E c \in Controllers, h \in Hubs, b \in Buses : RegisterHub(c, h, b)
    \/ ReadFails \/ ReadNPorts \/ ProbeControllerCount \/ DeriveHCPorts \/ BuildBusMap
    \/ (\E c \in Controllers : ParseStatusFile(c)) \/ RowsRead
    \/ (\E p \in AllPorts : ChoosePort(p)) \/ NoFreePort \/ WriteAttach
    \/ (\E p \in AllPorts : CheckDetach(p)) \/ WriteDetach

-----------------------------------------------------------------------------
(* Properties *)

(* ListPorts and the port choice never see one flat port twice, whatever is loaded between *)
(* two status files (parseStatusLine's window check, ports.go:216).                        *)
EachPortListedOnce ==
    \A i, j \in DOMAIN vpRows : vpRows[i].port = vpRows[j].port => i = j

(* The port AttachRemote writes was free, on a hub of the wanted speed class, at a moment  *)
(* of the operation itself (findFreePortWithTopology).                                     *)
ChoiceWasFree ==
    vpOp.kind = "attach" /\ (vpPC = "write" \/ vpResult = "ok") /\ vpPort = vpWatched
        => vpOp.hub \in vpAs

(* DetachPort says "not bound" only of a port that was free, or not there, at a moment of  *)
(* the operation (attach.go:338).                                                          *)
NotBoundIsTrue ==
    vpOp.kind = "detach" /\ vpResult = "notbound" => vpAs # {}

(* A BusMap that discoverTopology returns names every hub of every controller once, even   *)
(* when the module was reloaded during the walk: distinct buses get distinct flat ports,   *)
(* which together are exactly 0..nports-1 (topology.go:102, 215).                          *)
BusMapCoversPorts ==
    vpOp.kind = "map" /\ vpResult = "ok" =>
        LET ports(e) == {FlatPort(vpTopo.hc, e[2][1], e[2][2], r) : r \in 0..vpTopo.hc - 1}
        IN  /\ \A e, f \in vpMap : e # f => ports(e) \cap ports(f) = {}
            /\ UNION {ports(e) : e \in vpMap} = 0..vpNPorts - 1

(* What the port operations conclude from files read one after the other is true of one    *)
(* moment of the operation, although ports change hands and the module is reloaded.        *)
PortsAreTrue ==
    EachPortListedOnce /\ ChoiceWasFree /\ NotBoundIsTrue /\ BusMapCoversPorts
=============================================================================
