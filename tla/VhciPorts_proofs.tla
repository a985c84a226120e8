-------------------------- MODULE VhciPorts_proofs --------------------------
(***************************************************************************)
(* The flat numbering of vhci ports (topology.go) for every number of      *)
(* controllers and every VHCI_HC_PORTS: a bijection between the root ports *)
(* and 0..nports-1, whose block of a controller is the window that         *)
(* parseStatusLine accepts its rows in.  And the operations on it: however *)
(* ports change hands and the module is reloaded between two reads, what   *)
(* attach, detach, list and the bus map conclude is true (PortsAreTrue).   *)
(***************************************************************************)
EXTENDS VhciPorts, FiniteSetTheorems, WellFoundedInduction, TLAPS

(* A multiple of the width and a rest below it determine each other.                       *)
LEMMA BlocksDisjoint ==
  ASSUME NEW w \in Nat \ {0}, NEW a \in Nat, NEW b \in Nat,
         NEW x \in 0..w - 1, NEW y \in 0..w - 1, a * w + x = b * w + y
  PROVE  a = b /\ x = y
  <1>1. ASSUME NEW c \in Nat, NEW d \in Nat, c < d PROVE c * w + w <= d * w
    <2>1. PICK k \in Nat : d = c + 1 + k
      <3>1. d - c - 1 \in Nat /\ d = c + 1 + (d - c - 1)
        BY <1>1
      <3> QED
        BY <3>1
    <2>2. (c + 1 + k) * w = c * w + w + k * w
      OBVIOUS
    <2>3. k * w \in Nat /\ c * w \in Nat
      OBVIOUS
    <2> QED
      BY <2>1, <2>2, <2>3
  <1>2. a * w \in Nat /\ b * w \in Nat
    OBVIOUS
  <1>3. ~(a < b)
    BY <1>1, <1>2
  <1>4. ~(b < a)
    BY <1>1, <1>2
  <1> QED
    BY <1>2, <1>3, <1>4

(* Within a controller, the hub and the root port are the rest below 2 * HCPorts.          *)
LEMMA RestInController ==
  ASSUME NEW hc \in Nat \ {0}, NEW hub \in Hubs, NEW r \in 0..hc - 1
  PROVE  HubOffset(hc, hub) + r \in 0..hc * HubsPerController - 1
  BY DEF HubOffset, Hubs, HubsPerController

(* No two root ports, of whatever controllers and hubs, share a flat port number           *)
(* (Topology.FlatPort): an attach or detach by number means one port.                      *)
THEOREM FlatPortIsUnique ==
  ASSUME NEW n \in Nat, NEW hc \in Nat \ {0},
         NEW l \in Locations(n, hc), NEW m \in Locations(n, hc),
         FlatPort(hc, l[1], l[2], l[3]) = FlatPort(hc, m[1], m[2], m[3])
  PROVE  l = m
  <1> DEFINE w == hc * HubsPerController
             x == HubOffset(hc, l[2]) + l[3]
             y == HubOffset(hc, m[2]) + m[3]
  <1>1. /\ l[1] \in Nat /\ l[2] \in Hubs /\ l[3] \in 0..hc - 1
        /\ m[1] \in Nat /\ m[2] \in Hubs /\ m[3] \in 0..hc - 1
        /\ l = <<l[1], l[2], l[3]>> /\ m = <<m[1], m[2], m[3]>>
    BY DEF Locations
  <1>2. w \in Nat \ {0}
    BY DEF HubsPerController
  <1>3. x \in 0..w - 1 /\ y \in 0..w - 1
    BY <1>1, RestInController
  <1>4. l[1] * w + x = m[1] * w + y
    <2>1. l[1] * w \in Nat /\ m[1] * w \in Nat
      BY <1>1, <1>2
    <2>2. HubOffset(hc, l[2]) \in Nat /\ HubOffset(hc, m[2]) \in Nat
      BY DEF HubOffset
    <2>3. (l[1] * w + HubOffset(hc, l[2])) + l[3] = (m[1] * w + HubOffset(hc, m[2])) + m[3]
      BY DEF FlatPort
    <2> HIDE DEF w
    <2> QED
      BY <1>1, <2>1, <2>2, <2>3
  <1>5. l[1] = m[1] /\ x = y
    <2> HIDE DEF w, x, y
    <2> QED
      BY <1>1, <1>2, <1>3, <1>4, BlocksDisjoint
  <1>6. l[2] = m[2] /\ l[3] = m[3]
    BY <1>1, <1>5 DEF HubOffset, Hubs
  <1> QED
    BY <1>1, <1>5, <1>6

(* A flat port lies in its controller's block, so below nports: it passes                  *)
(* validatePortInRange and the window check of parseStatusLine.                            *)
THEOREM FlatPortInWindow ==
  ASSUME NEW n \in Nat, NEW hc \in Nat \ {0}, NEW l \in Locations(n, hc)
  PROVE  /\ FlatPort(hc, l[1], l[2], l[3]) \in 0..NPorts(<<n, hc>>) - 1
         /\ l[1] * (hc * HubsPerController) <= FlatPort(hc, l[1], l[2], l[3])
         /\ FlatPort(hc, l[1], l[2], l[3]) < (l[1] + 1) * (hc * HubsPerController)
  <1> DEFINE w == hc * HubsPerController
             x == HubOffset(hc, l[2]) + l[3]
             f == FlatPort(hc, l[1], l[2], l[3])
  <1>1. l[1] \in 0..n - 1 /\ l[2] \in Hubs /\ l[3] \in 0..hc - 1
    BY DEF Locations
  <1>2. w \in Nat \ {0}
    BY DEF HubsPerController
  <1>3. x \in 0..w - 1
    BY <1>1, RestInController
  <1>4. l[1] * w \in Nat
    BY <1>1, <1>2
  <1>5. f = l[1] * w + x
    <2>1. HubOffset(hc, l[2]) \in Nat
      BY DEF HubOffset
    <2>2. f = (l[1] * w + HubOffset(hc, l[2])) + l[3]
      BY DEF FlatPort
    <2> HIDE DEF w, f
    <2> QED
      BY <1>1, <1>4, <2>1, <2>2
  <1>6. (l[1] + 1) * w = l[1] * w + w
    <2> HIDE DEF w
    <2> QED
      BY <1>1, <1>2
  <1>7. (l[1] + 1) * w <= n * w
    <2>1. PICK k \in Nat : n = (l[1] + 1) + k
      <3>1. n - (l[1] + 1) \in Nat /\ n = (l[1] + 1) + (n - (l[1] + 1))
        BY <1>1
      <3> QED
        BY <3>1
    <2> HIDE DEF w
    <2>2. n * w = (l[1] + 1) * w + k * w
      BY <2>1, <1>1, <1>2
    <2>3. k * w \in Nat
      BY <1>2
    <2> QED
      BY <2>2, <2>3, <1>4, <1>6, <1>2
  <1>8. NPorts(<<n, hc>>) = n * w
    BY DEF NPorts, HubsPerController
  <1> QED
    <2>1. n * w \in Nat
      BY <1>2
    <2> HIDE DEF w, x, f
    <2>2. f \in 0..n * w - 1 /\ l[1] * w <= f /\ f < (l[1] + 1) * w
      BY <1>2, <1>3, <1>4, <1>5, <1>6, <1>7, <2>1
    <2> QED
      BY <1>8, <2>2 DEF w, f
-----------------------------------------------------------------------------
(* One operation over a kernel that moves.                                 *)

VpSpec == VpInit /\ [][VpNext]_vpVars

\* The width of a controller's block under the operation's topology.
Width == vpTopo.hc * HubsPerController

\* Which operation goes which way, and what it returns at which end.
VpPathInv ==
    /\ vpOp \in Operations /\ vpWatched \in Nat
    /\ vpOp.kind = "detach" => vpWatched = vpOp.port
    /\ vpPC = "buses" => vpOp.kind = "map"
    /\ vpPC \in {"rows", "choose", "write"} => vpOp.kind # "map"
    /\ vpPC \in {"choose", "write"} => vpOp.kind # "list"
    /\ vpPC # "done" => vpResult = "none"

\* As long as the operation runs, what the watched port is now has been recorded.
VpSeenInv == vpPC # "done" => Standing(vpShape, vpSta) \subseteq vpAs

Rows == [port : Nat, hub : Hubs, status : {"null", "notassigned", "used", "error"}]

\* The rows read are of controllers already passed, each of its own port, and a free one was
\* free when it was read.
VpRowInv ==
    /\ vpRows \in Seq(Rows)
    /\ vpPC \in {"nports", "probe", "derive", "buses"} => vpRows = << >>
    /\ vpRows # << >> => vpTopo.hc > 0
    /\ \A i \in DOMAIN vpRows : vpRows[i].port \div Width < vpIdx
    /\ EachPortListedOnce
    /\ \A i \in DOMAIN vpRows :
          IsFreeStatus(vpRows[i].status) /\ vpRows[i].port = vpWatched => vpRows[i].hub \in vpAs

\* A watched port that has been there and taken all along belongs to a module that was never
\* reloaded: the operation's topology is its shape, and its row was read as taken.
VpStableInv ==
    vpAs = {} /\ vpPC # "done" =>
        /\ vpShape \in Shapes
        /\ vpPC # "nports" => vpNPorts = NPorts(vpShape)
        /\ vpPC = "nports" => vpIdx = 0
        /\ vpPC = "probe" => vpIdx <= vpShape[1]
        /\ vpPC = "derive" => vpIdx = vpShape[1]
        /\ vpPC \in {"rows", "choose", "write"} => vpTopo = [n |-> vpShape[1], hc |-> vpShape[2]]
        /\ vpPC = "choose" => vpIdx = vpTopo.n
        /\ vpPC \in {"rows", "choose"} /\ vpWatched < vpIdx * Width =>
              \E i \in DOMAIN vpRows : vpRows[i].port = vpWatched /\ ~IsFreeStatus(vpRows[i].status)

\* The map holds one bus per hub of the controllers walked so far.
MapGrows(n) ==
    /\ \A e \in vpMap : e[2] \in (0..n - 1) \X Hubs
    /\ \A e, f \in vpMap : e[2] = f[2] => e = f

VpMapInv ==
    /\ vpPC \in {"nports", "probe", "derive"} => vpMap = {}
    /\ vpPC = "buses" => vpIdx <= vpTopo.n /\ MapGrows(vpIdx)
    /\ vpOp.kind = "map" /\ vpResult = "ok" =>
          /\ MapGrows(vpTopo.n)
          /\ Cardinality(vpMap) = vpTopo.n * HubsPerController
          /\ vpTopo.hc > 0 /\ NPorts(<<vpTopo.n, vpTopo.hc>>) = vpNPorts

VpInv ==
    /\ VpTypeOK /\ VpPathInv /\ VpSeenInv /\ VpRowInv /\ ChoiceWasFree
    /\ VpStableInv /\ NotBoundIsTrue /\ VpMapInv

\* A shape is a pair of positive numbers, and its ports are ports.
LEMMA ShapeFacts ==
  ASSUME NEW s \in Shapes
  PROVE  /\ s[1] \in Nat \ {0} /\ s[2] \in Nat \ {0} /\ s = <<s[1], s[2]>>
         /\ NPorts(s) \in Nat \ {0} /\ NPorts(s) = s[1] * (s[2] * HubsPerController)
         /\ \A p \in Nat : Exists(s, p) => p \in AllPorts
         /\ \A c \in Nat : c < s[1] => c \in Controllers
<1>1. s[1] \in Nat \ {0} /\ s[2] \in Nat \ {0} /\ s = <<s[1], s[2]>>
  BY VhciAssumption
<1>2. NPorts(s) \in Nat \ {0} /\ NPorts(s) = s[1] * (s[2] * HubsPerController)
  BY <1>1 DEF NPorts, HubsPerController
<1>3. \A p \in Nat : Exists(s, p) => p \in AllPorts
  BY <1>2 DEF Exists, AllPorts
<1>4. \A c \in Nat : c < s[1] => c \in Controllers
  BY <1>1 DEF Controllers
<1>5. QED BY <1>1, <1>2, <1>3, <1>4

\* Nothing is there when the module is not.
LEMMA UnloadedFacts ==
  NPorts(Unloaded) = 0 /\ Unloaded[1] = 0 /\ Unloaded \notin Shapes /\ \A p \in Nat : ~Exists(Unloaded, p)
<1>1. NPorts(Unloaded) = 0 /\ Unloaded[1] = 0
  BY DEF NPorts, Unloaded, HubsPerController
<1>2. Unloaded \notin Shapes
  BY VhciAssumption DEF Unloaded
<1>3. QED BY <1>1, <1>2 DEF Exists

\* Port numbers and controller numbers are naturals, and there is a port 0.
LEMMA PortNumbers == AllPorts \subseteq Nat /\ 0 \in AllPorts /\ Controllers \subseteq Nat
<1>1. AllPorts \subseteq Nat /\ Controllers \subseteq Nat
  BY DEF AllPorts, Controllers
<1>2. PICK s \in Shapes : TRUE
  BY VhciAssumption
<1>3. Exists(s, 0)
  BY <1>2, ShapeFacts DEF Exists
<1>4. QED BY <1>1, <1>2, <1>3, ShapeFacts

\* Division as the window check and deriveHCPorts use it.
LEMMA DivBlock ==
  ASSUME NEW w \in Nat \ {0}, NEW c \in Nat, NEW x \in 0..w - 1
  PROVE  (c * w + x) \div w = c
  OBVIOUS

\* Every port number is in a block.
LEMMA DivMod ==
  ASSUME NEW w \in Nat \ {0}, NEW p \in Nat
  PROVE  p \div w \in Nat /\ p % w \in 0..w - 1 /\ p = (p \div w) * w + (p % w)
  OBVIOUS

\* deriveHCPorts leaves no remainder.
LEMMA DeriveExact ==
  ASSUME NEW nports \in Nat, NEW n \in Nat, Divides(nports, n)
  PROVE  LET hc == nports \div (n * HubsPerController)
         IN  hc \in Nat \ {0} /\ NPorts(<<n, hc>>) = nports
<1> DEFINE w == n * HubsPerController
           hc == nports \div w
<1>1. w \in Nat \ {0} /\ nports % w = 0 /\ nports # 0
  BY DEF Divides, HubsPerController
<1>2. hc \in Nat /\ nports = hc * w
  <2>1. /\ nports \div w \in Nat /\ nports % w \in 0..w - 1
        /\ nports = (nports \div w) * w + (nports % w)
    <3> HIDE DEF w
    <3> QED BY <1>1, DivMod
  <2> HIDE DEF w
  <2>2. (nports \div w) * w \in Nat
    BY <1>1, <2>1
  <2> QED BY <1>1, <2>1, <2>2
<1>3. hc # 0
  <2> HIDE DEF w, hc
  <2> QED BY <1>1, <1>2
<1>4. hc * w = n * hc * HubsPerController
  <2> HIDE DEF hc
  <2> QED BY <1>2 DEF HubsPerController
<1>5. QED BY <1>2, <1>3, <1>4 DEF NPorts

\* An operation keeps to its way.
LEMMA VpPathStep ==
  ASSUME VpTypeOK, VpPathInv, [VpNext]_vpVars
  PROVE  VpPathInv'
<1> USE DEF VpPathInv, Operations
<1>1. CASE UNCHANGED <<vpOp, vpWatched, vpPC, vpResult>>
  BY <1>1
<1>2. ASSUME ReadFails PROVE VpPathInv'
  BY <1>2 DEF ReadFails, VpReturn, vpKernel
<1>3. ASSUME ReadNPorts PROVE VpPathInv'
  BY <1>3 DEF ReadNPorts, vpKernel
<1>4. ASSUME ProbeControllerCount PROVE VpPathInv'
  BY <1>4 DEF ProbeControllerCount, VpReturn, vpKernel
<1>5. ASSUME DeriveHCPorts PROVE VpPathInv'
  BY <1>5 DEF DeriveHCPorts, VpReturn, vpKernel
<1>6. ASSUME BuildBusMap PROVE VpPathInv'
  BY <1>6 DEF BuildBusMap, VpReturn, vpKernel
<1>7. ASSUME NEW c \in Controllers, ParseStatusFile(c) PROVE VpPathInv'
  BY <1>7 DEF ParseStatusFile, VpReturn, vpKernel
<1>8. ASSUME RowsRead PROVE VpPathInv'
  BY <1>8 DEF RowsRead, VpReturn, vpKernel
<1>9. ASSUME NEW p \in AllPorts, ChoosePort(p) PROVE VpPathInv'
  BY <1>9 DEF ChoosePort, VpReturn, vpKernel
<1>10. ASSUME NoFreePort PROVE VpPathInv'
  BY <1>10 DEF NoFreePort, VpReturn, vpKernel
<1>11. ASSUME WriteAttach PROVE VpPathInv'
  BY <1>11 DEF WriteAttach, VpReturn
<1>12. ASSUME NEW p \in AllPorts, CheckDetach(p) PROVE VpPathInv'
  BY <1>12 DEF CheckDetach, VpReturn, vpKernel
<1>13. ASSUME WriteDetach PROVE VpPathInv'
  BY <1>13 DEF WriteDetach, VpReturn
<1>14. ASSUME NEW p \in Targets, 
               PortMoves(p)
     PROVE  UNCHANGED <<vpOp, vpWatched, vpPC, vpResult>>
  BY <1>14 DEF PortMoves, VpReturn, vpKernel, vpCall
<1>15. ASSUME Unload
     PROVE  UNCHANGED <<vpOp, vpWatched, vpPC, vpResult>>
  BY <1>15 DEF Unload, VpReturn, vpKernel, vpCall
<1>16. ASSUME NEW s \in Shapes, 
               Load(s)
     PROVE  UNCHANGED <<vpOp, vpWatched, vpPC, vpResult>>
  BY <1>16 DEF Load, VpReturn, vpKernel, vpCall
<1>17. ASSUME NEW c \in Controllers, NEW h \in Hubs, NEW b \in Buses, 
               RegisterHub(c, h, b)
     PROVE  UNCHANGED <<vpOp, vpWatched, vpPC, vpResult>>
  BY <1>17 DEF RegisterHub, VpReturn, vpKernel, vpCall
<1>18. ASSUME UNCHANGED vpVars PROVE UNCHANGED <<vpOp, vpWatched, vpPC, vpResult>>
  BY <1>18 DEF vpVars, vpKernel, vpCall
<1> HIDE DEF VpPathInv, Operations
<1>19. QED
  BY <1>1, <1>2, <1>3, <1>4, <1>5, <1>6, <1>7, <1>8, <1>9, <1>10, <1>11, <1>12, <1>13,
     <1>14, <1>15, <1>16, <1>17, <1>18
  DEF VpNext

\* Every state of the watched port is recorded.
LEMMA VpSeenStep ==
  ASSUME VpSeenInv, [VpNext]_vpVars
  PROVE  VpSeenInv'
<1> USE DEF VpSeenInv, Standing
<1>1. CASE UNCHANGED <<vpPC, vpShape, vpSta, vpAs, vpWatched>>
  BY <1>1
<1>2. ASSUME NEW p \in Targets, PortMoves(p) PROVE VpSeenInv'
  BY <1>2 DEF PortMoves, vpCall
<1>3. ASSUME Unload PROVE VpSeenInv'
  BY <1>3 DEF Unload, vpCall
<1>4. ASSUME NEW s \in Shapes, Load(s) PROVE VpSeenInv'
  BY <1>4 DEF Load, vpCall
<1>5. ASSUME ReadFails PROVE VpSeenInv'
  BY <1>5 DEF ReadFails, VpReturn, vpKernel
<1>6. ASSUME ReadNPorts PROVE VpSeenInv'
  BY <1>6 DEF ReadNPorts, vpKernel
<1>7. ASSUME ProbeControllerCount PROVE VpSeenInv'
  BY <1>7 DEF ProbeControllerCount, VpReturn, vpKernel
<1>8. ASSUME DeriveHCPorts PROVE VpSeenInv'
  BY <1>8 DEF DeriveHCPorts, VpReturn, vpKernel
<1>9. ASSUME BuildBusMap PROVE VpSeenInv'
  BY <1>9 DEF BuildBusMap, VpReturn, vpKernel
<1>10. ASSUME NEW c \in Controllers, ParseStatusFile(c) PROVE VpSeenInv'
  BY <1>10 DEF ParseStatusFile, VpReturn, vpKernel
<1>11. ASSUME RowsRead PROVE VpSeenInv'
  BY <1>11 DEF RowsRead, VpReturn, vpKernel
<1>12. ASSUME NEW p \in AllPorts, ChoosePort(p) PROVE VpSeenInv'
  BY <1>12 DEF ChoosePort, VpReturn, vpKernel
<1>13. ASSUME NoFreePort PROVE VpSeenInv'
  BY <1>13 DEF NoFreePort, VpReturn, vpKernel
<1>14. ASSUME WriteAttach PROVE VpSeenInv'
  BY <1>14 DEF WriteAttach, VpReturn
<1>15. ASSUME NEW p \in AllPorts, CheckDetach(p) PROVE VpSeenInv'
  BY <1>15 DEF CheckDetach, VpReturn, vpKernel
<1>16. ASSUME WriteDetach PROVE VpSeenInv'
  BY <1>16 DEF WriteDetach, VpReturn
<1>17. ASSUME NEW c \in Controllers, NEW h \in Hubs, NEW b \in Buses, 
               RegisterHub(c, h, b)
     PROVE  UNCHANGED <<vpPC, vpShape, vpSta, vpAs, vpWatched>>
  BY <1>17 DEF RegisterHub, VpReturn, vpKernel, vpCall
<1>18. ASSUME UNCHANGED vpVars PROVE UNCHANGED <<vpPC, vpShape, vpSta, vpAs, vpWatched>>
  BY <1>18 DEF vpVars, vpKernel, vpCall
<1> HIDE DEF VpSeenInv
<1>19. QED
  BY <1>1, <1>2, <1>3, <1>4, <1>5, <1>6, <1>7, <1>8, <1>9, <1>10, <1>11, <1>12, <1>13,
     <1>14, <1>15, <1>16, <1>17, <1>18
  DEF VpNext

\* The number of ports of whatever is loaded.
LEMMA LoadedPorts ==
  ASSUME NEW s \in Shapes \cup {Unloaded}
  PROVE  NPorts(s) \in Nat /\ s[1] \in Nat /\ (s # Unloaded => s \in Shapes)
  BY ShapeFacts, UnloadedFacts

\* A port stands as one hub's free port, as absent, or as neither.
LEMMA StandingType == \A s, sta : Standing(s, sta) \subseteq {"hs", "ss", "none"}
  BY DEF Standing, HubOf

\* The bus map a walk adds for one controller names that controller's two hubs once each.
LEMMA RankFacts ==
  ASSUME VpTypeOK, NEW c \in Controllers, Cardinality(Children(c)) = HubsPerController
  PROVE  /\ ByRank(c) \subseteq Buses \X ({c} \X Hubs)
         /\ \A e, f \in ByRank(c) : e[2] = f[2] => e = f
<1> DEFINE x == vpBus[<<c, "hs">>]
           y == vpBus[<<c, "ss">>]
           m == CHOOSE k \in Children(c) : \A o \in Children(c) : k <= o
<1>1. x \in Buses \cup {0} /\ y \in Buses \cup {0} /\ Buses \subseteq Nat \ {0}
  BY VhciAssumption DEF VpTypeOK, Hubs
<1>2. Children(c) = {x, y} \ {0}
  BY DEF Children, Hubs
<1>3. x # 0 /\ y # 0 /\ x # y
  <2>1. ASSUME NEW z, Children(c) \subseteq {z} PROVE FALSE
    <3>1. IsFiniteSet({z}) /\ Cardinality({z}) = 1
      BY FS_Singleton
    <3>2. Cardinality(Children(c)) <= 1
      BY <2>1, <3>1, FS_Subset
    <3> QED BY <3>2 DEF HubsPerController
  <2> HIDE DEF x, y
  <2> QED BY <1>2, <2>1
<1>4. Children(c) = {x, y}
  BY <1>2, <1>3
<1>5. m \in {x, y}
  <2>1. \E k \in {x, y} : \A o \in {x, y} : k <= o
    <3> HIDE DEF x, y
    <3>1. x <= y \/ y <= x
      BY <1>1
    <3>2. x <= x /\ y <= y
      BY <1>1
    <3> QED BY <3>1, <3>2
  <2> QED BY <1>4, <2>1
<1>6. ByRank(c) = {<<b, <<c, IF b = m THEN "hs" ELSE "ss">>>> : b \in {x, y}}
  BY <1>4 DEF ByRank
<1> HIDE DEF x, y, m
<1>7. ByRank(c) \subseteq Buses \X ({c} \X Hubs)
  BY <1>1, <1>3, <1>6 DEF Hubs
<1>8. \A e, f \in ByRank(c) : e[2] = f[2] => e = f
  <2> SUFFICES ASSUME NEW e \in ByRank(c), NEW f \in ByRank(c), e[2] = f[2] PROVE e = f
    OBVIOUS
  <2>1. PICK a \in {x, y} : e = <<a, <<c, IF a = m THEN "hs" ELSE "ss">>>>
    BY <1>6
  <2>2. PICK b \in {x, y} : f = <<b, <<c, IF b = m THEN "hs" ELSE "ss">>>>
    BY <1>6
  <2>3. (a = m) <=> (b = m)
    BY <2>1, <2>2
  <2>4. a = b
    BY <1>3, <1>5, <2>1, <2>2, <2>3
  <2> QED BY <2>1, <2>2, <2>4
<1>9. QED BY <1>7, <1>8

\* Every step is well typed, and the topology accounts for every port of nports.
LEMMA VpTypeStep ==
  ASSUME VpTypeOK, [VpNext]_vpVars
  PROVE  VpTypeOK'
<1> USE VhciAssumption, PortNumbers, LoadedPorts DEF VpTypeOK
<1>1. CASE UNCHANGED vpVars
  BY <1>1 DEF vpVars, vpKernel, vpCall
<1>2. ASSUME NEW p \in Targets, PortMoves(p) PROVE VpTypeOK'
  <2>1. vpAs' \subseteq {"hs", "ss", "none"}
    BY <1>2, StandingType DEF PortMoves
  <2>2. vpSta' \in [AllPorts -> RawStatus]
    <3>1. PICK r \in RawStatus : vpSta' = [vpSta EXCEPT ![p] = r]
      BY <1>2 DEF PortMoves
    <3> QED BY <3>1
  <2>3. vpMoves' \in 0..MaxMoves /\ UNCHANGED <<vpShape, vpBus, vpLoads, vpOp, vpCall, vpWatched>>
    BY <1>2 DEF PortMoves
  <2> QED BY <2>1, <2>2, <2>3 DEF vpCall
<1>3. ASSUME Unload PROVE VpTypeOK'
  <2>1. vpAs' \subseteq {"hs", "ss", "none"}
    BY <1>3, StandingType DEF Unload
  <2> QED BY <1>3, <2>1 DEF Unload, vpCall, NoBuses
<1>4. ASSUME NEW s \in Shapes, Load(s) PROVE VpTypeOK'
  <2>1. vpAs' \subseteq {"hs", "ss", "none"}
    BY <1>4, StandingType DEF Load
  <2> QED BY <1>4, <2>1 DEF Load, vpCall
<1>5. ASSUME NEW c \in Controllers, NEW h \in Hubs, NEW b \in Buses, RegisterHub(c, h, b)
     PROVE  VpTypeOK'
  BY <1>5 DEF RegisterHub, vpCall
<1>6. ASSUME ReadFails PROVE VpTypeOK'
  BY <1>6 DEF ReadFails, VpReturn, vpKernel
<1>7. ASSUME ReadNPorts PROVE VpTypeOK'
  BY <1>7 DEF ReadNPorts, vpKernel
<1>8. ASSUME ProbeControllerCount PROVE VpTypeOK'
  BY <1>8 DEF ProbeControllerCount, VpReturn, vpKernel
<1>9. ASSUME DeriveHCPorts PROVE VpTypeOK'
  <2>1. CASE Divides(vpNPorts, vpIdx)
    <3>1. /\ vpTopo' = [n |-> vpIdx, hc |-> vpNPorts \div (vpIdx * HubsPerController)]
          /\ vpPC' \in {"buses", "rows"} /\ vpIdx' = 0
          /\ UNCHANGED <<vpKernel, vpOp, vpNPorts, vpRows, vpMap, vpPort, vpWatched, vpAs, vpResult>>
      BY <1>9, <2>1 DEF DeriveHCPorts
    <3>2. /\ vpNPorts \div (vpIdx * HubsPerController) \in Nat \ {0}
          /\ NPorts(<<vpIdx, vpNPorts \div (vpIdx * HubsPerController)>>) = vpNPorts
      BY <2>1, DeriveExact
    <3>3. vpTopo' \in [n : Nat, hc : Nat] /\ vpTopo'.n = vpIdx /\ vpTopo'.hc > 0
          /\ vpTopo'.hc = vpNPorts \div (vpIdx * HubsPerController)
      BY <3>1, <3>2
    <3>4. NPorts(<<vpTopo'.n, vpTopo'.hc>>) = vpNPorts'
      BY <3>1, <3>2, <3>3
    <3> QED BY <3>1, <3>3, <3>4 DEF vpKernel, NPorts
  <2>2. CASE ~Divides(vpNPorts, vpIdx)
    BY <1>9, <2>2 DEF DeriveHCPorts, VpReturn, vpKernel
  <2> QED BY <2>1, <2>2
<1>10. ASSUME BuildBusMap PROVE VpTypeOK'
  <2>1. vpMap' \subseteq Buses \X (Controllers \X Hubs)
    <3>1. CASE vpMap' = vpMap
      BY <3>1
    <3>2. CASE /\ vpIdx < vpShape[1] /\ Cardinality(Children(vpIdx)) = HubsPerController
               /\ vpMap' = Overwrite(vpMap, ByRank(vpIdx))
      <4>1. vpIdx \in Controllers
        BY <3>2, ShapeFacts, UnloadedFacts
      <4>2. ByRank(vpIdx) \subseteq Buses \X ({vpIdx} \X Hubs)
        BY <3>2, <4>1, RankFacts
      <4> QED BY <3>2, <4>1, <4>2 DEF Overwrite
    <3> QED BY <1>10, <3>1, <3>2 DEF BuildBusMap
  <2>2. vpIdx' \in Nat
    BY <1>10 DEF BuildBusMap
  <2> QED BY <1>10, <2>1, <2>2 DEF BuildBusMap, VpReturn, vpKernel
<1>11. ASSUME NEW c \in Controllers, ParseStatusFile(c) PROVE VpTypeOK'
  <2>1. vpIdx' \in Nat /\ vpPC' \in {vpPC, "done"} /\ vpResult' \in {vpResult, "err"}
    BY SMTT(60), <1>11 DEF ParseStatusFile, VpReturn
  <2> QED BY <1>11, <2>1 DEF ParseStatusFile, vpKernel
<1>12. ASSUME RowsRead PROVE VpTypeOK'
  BY <1>12 DEF RowsRead, VpReturn, vpKernel
<1>13. ASSUME NEW p \in AllPorts, ChoosePort(p) PROVE VpTypeOK'
  BY <1>13 DEF ChoosePort, VpReturn, vpKernel
<1>14. ASSUME NoFreePort PROVE VpTypeOK'
  BY <1>14 DEF NoFreePort, VpReturn, vpKernel
<1>15. ASSUME WriteAttach PROVE VpTypeOK'
  BY <1>15 DEF WriteAttach, VpReturn
<1>16. ASSUME NEW p \in AllPorts, CheckDetach(p) PROVE VpTypeOK'
  BY <1>16 DEF CheckDetach, VpReturn, vpKernel
<1>17. ASSUME WriteDetach PROVE VpTypeOK'
  BY <1>17 DEF WriteDetach, VpReturn
<1>18. ASSUME UNCHANGED vpVars PROVE UNCHANGED vpVars
  BY <1>18 DEF vpVars, vpKernel, vpCall
<1> HIDE DEF VpTypeOK
<1>19. QED
  BY <1>1, <1>2, <1>3, <1>4, <1>5, <1>6, <1>7, <1>8, <1>9, <1>10, <1>11, <1>12, <1>13,
     <1>14, <1>15, <1>16, <1>17, <1>18
  DEF VpNext

\* What appending one sequence to another gives, index by index.
LEMMA Appended ==
  ASSUME NEW S, NEW s \in Seq(S), NEW t \in Seq(S), NEW w \in Nat, Len(t) = w
  PROVE  /\ s \o t \in Seq(S) /\ Len(s) \in Nat
         /\ DOMAIN (s \o t) = 1..Len(s) + w /\ DOMAIN s = 1..Len(s)
         /\ \A i \in 1..Len(s) : (s \o t)[i] = s[i]
         /\ \A i \in Len(s) + 1..Len(s) + w : i - Len(s) \in 1..w /\ (s \o t)[i] = t[i - Len(s)]
  OBVIOUS

\* The rows of a controller's file: one for each of its ports, as the kernel has it now.
LEMMA FileRows ==
  ASSUME VpTypeOK, VpPathInv, NEW c \in Controllers, c < vpShape[1]
  PROVE  LET w == vpShape[2] * HubsPerController
             F == StatusFile(c)
         IN  /\ vpShape \in Shapes /\ w \in Nat \ {0}
             /\ F \in Seq(Rows) /\ Len(F) = w
             /\ \A i \in 1..w : /\ F[i].port = c * w + (i - 1) /\ F[i].port \in Nat
                                /\ F[i].port < NPorts(vpShape)
                                /\ F[i].hub = HubOf(vpShape, F[i].port)
                                /\ IsFreeStatus(F[i].status) <=> vpSta[F[i].port] = 4
<1> DEFINE w == vpShape[2] * HubsPerController
           F == StatusFile(c)
<1>1. vpShape \in Shapes
  BY PortNumbers, UnloadedFacts DEF VpTypeOK
<1>2. w \in Nat \ {0} /\ c \in Nat /\ vpShape[1] \in Nat /\ NPorts(vpShape) = vpShape[1] * w
  BY <1>1, ShapeFacts, PortNumbers DEF HubsPerController
<1>3. F = [i \in 1..w |-> Row(c * w + i - 1)]
  BY DEF StatusFile
<1>4. ASSUME NEW i \in 1..w
      PROVE  /\ c * w + i - 1 = c * w + (i - 1) /\ c * w + i - 1 \in Nat
             /\ c * w + i - 1 < NPorts(vpShape)
  <2> HIDE DEF w
  <2>1. c * w \in Nat /\ (c + 1) * w = c * w + w
    BY <1>2
  <2>2. (c + 1) * w <= vpShape[1] * w
    <3>1. PICK k \in Nat : vpShape[1] = (c + 1) + k
      <4>1. vpShape[1] - (c + 1) \in Nat /\ vpShape[1] = (c + 1) + (vpShape[1] - (c + 1))
        BY <1>2
      <4> QED BY <4>1
    <3>2. vpShape[1] * w = (c + 1) * w + k * w /\ k * w \in Nat
      BY <1>2, <3>1
    <3> QED BY <1>2, <2>1, <3>2
  <2>3. vpShape[1] * w \in Nat
    BY <1>2
  <2> QED BY <1>2, <2>1, <2>2, <2>3
<1>5. ASSUME NEW i \in 1..w
      PROVE  /\ F[i] \in Rows /\ F[i].port = c * w + i - 1
             /\ F[i].hub = HubOf(vpShape, F[i].port)
             /\ IsFreeStatus(F[i].status) <=> vpSta[F[i].port] = 4
  <2> DEFINE p == c * w + i - 1
  <2>1. p \in Nat /\ p \in AllPorts
    BY <1>1, <1>4, ShapeFacts DEF Exists
  <2>2. vpSta[p] \in 4..7
    BY <2>1, VhciAssumption DEF VpTypeOK
  <2>3. F[i] = [port |-> p, hub |-> HubOf(vpShape, p), status |-> TranslateVDEVStatus(vpSta[p])]
    BY <1>3 DEF Row
  <2>4. HubOf(vpShape, p) \in Hubs
    BY DEF HubOf, Hubs
  <2>5. /\ TranslateVDEVStatus(vpSta[p]) \in {"null", "notassigned", "used", "error"}
        /\ IsFreeStatus(TranslateVDEVStatus(vpSta[p])) <=> vpSta[p] = 4
    BY <2>2 DEF TranslateVDEVStatus, IsFreeStatus
  <2> HIDE DEF p
  <2>6. F[i] \in Rows /\ F[i].port = p /\ F[i].hub = HubOf(vpShape, F[i].port)
    BY <2>1, <2>3, <2>4, <2>5 DEF Rows
  <2>7. IsFreeStatus(F[i].status) <=> vpSta[F[i].port] = 4
    BY <2>3, <2>5
  <2> QED BY <2>6, <2>7 DEF p
<1>6. F \in Seq(Rows) /\ Len(F) = w
  <2>1. F = [i \in 1..w |-> F[i]]
    BY <1>3
  <2>2. F \in [1..w -> Rows]
    <3> HIDE DEF w, F
    <3> QED BY <1>5, <2>1
  <2> HIDE DEF w, F
  <2> QED BY <1>2, <2>2
<1>7. \A i \in 1..w : /\ F[i].port = c * w + (i - 1) /\ F[i].port \in Nat
                      /\ F[i].port < NPorts(vpShape)
  BY <1>4, <1>5
<1> HIDE DEF w, F
<1>8. QED BY <1>1, <1>2, <1>5, <1>6, <1>7 DEF w, F

\* Every step keeps the rows apart and true.
LEMMA VpRowStep ==
  ASSUME VpTypeOK, VpPathInv, VpSeenInv, VpRowInv, [VpNext]_vpVars
  PROVE  VpRowInv'
<1> USE DEF VpRowInv, Width, EachPortListedOnce
<1>1. CASE UNCHANGED <<vpRows, vpPC, vpTopo, vpIdx, vpWatched, vpAs>>
  BY <1>1
<1>2. ASSUME NEW p \in Targets, PortMoves(p) PROVE VpRowInv'
  BY <1>2 DEF PortMoves, vpCall
<1>3. ASSUME Unload PROVE VpRowInv'
  BY <1>3 DEF Unload, vpCall
<1>4. ASSUME NEW s \in Shapes, Load(s) PROVE VpRowInv'
  BY <1>4 DEF Load, vpCall
<1>5. ASSUME ReadFails PROVE VpRowInv'
  BY <1>5 DEF ReadFails, VpReturn, vpKernel
<1>6. ASSUME ReadNPorts PROVE VpRowInv'
  BY <1>6 DEF ReadNPorts, vpKernel
<1>7. ASSUME ProbeControllerCount PROVE VpRowInv'
  BY <1>7 DEF ProbeControllerCount, VpReturn, vpKernel
<1>8. ASSUME DeriveHCPorts PROVE VpRowInv'
  BY <1>8 DEF DeriveHCPorts, VpReturn, vpKernel
<1>9. ASSUME BuildBusMap PROVE VpRowInv'
  BY <1>9 DEF BuildBusMap, VpReturn, vpKernel
<1>10. ASSUME NEW c \in Controllers, ParseStatusFile(c) PROVE VpRowInv'
  <2>1. CASE UNCHANGED <<vpRows, vpIdx>>
    BY <1>10, <2>1 DEF ParseStatusFile, VpReturn
  <2>2. CASE /\ c < vpShape[1] /\ vpTopo.hc # 0 /\ vpRows' = vpRows \o StatusFile(c) /\ vpIdx' = c + 1
             /\ \A i \in DOMAIN StatusFile(c) : InWindow(StatusFile(c)[i], c)
             /\ UNCHANGED vpPC
    <3> DEFINE w == vpShape[2] * HubsPerController
               F == StatusFile(c)
               n == Len(vpRows)
    <3>1. /\ vpShape \in Shapes /\ w \in Nat \ {0} /\ F \in Seq(Rows) /\ Len(F) = w
          /\ \A i \in 1..w : /\ F[i].port = c * w + (i - 1) /\ F[i].port \in Nat
                             /\ F[i].port < NPorts(vpShape)
                             /\ F[i].hub = HubOf(vpShape, F[i].port)
                             /\ IsFreeStatus(F[i].status) <=> vpSta[F[i].port] = 4
      BY <2>2, FileRows
    <3>2. /\ vpIdx = c /\ c \in Nat /\ vpPC = "rows" /\ Width' = Width
          /\ UNCHANGED <<vpTopo, vpWatched, vpAs>>
      BY <1>10, PortNumbers DEF ParseStatusFile, Width
    <3>3. \A i \in 1..w : F[i].port \div Width = c
      BY <2>2, <3>1 DEF InWindow, Width
    <3>4. \A i \in 1..w : IsFreeStatus(F[i].status) /\ F[i].port = vpWatched => F[i].hub \in vpAs
      BY <3>1, <3>2 DEF VpSeenInv, Standing, Exists
    <3>5. /\ vpRows \in Seq(Rows) /\ n \in Nat
          /\ vpRows' \in Seq(Rows) /\ DOMAIN vpRows' = 1..n + w /\ DOMAIN vpRows = 1..n
          /\ \A i \in 1..n : vpRows'[i] = vpRows[i]
          /\ \A i \in n + 1..n + w : i - n \in 1..w /\ vpRows'[i] = F[i - n]
      <4>1. vpRows \in Seq(Rows) /\ vpRows' = vpRows \o F
        BY <2>2
      <4> HIDE DEF F, w
      <4> QED BY SMTT(60), <3>1, <4>1, Appended
    <3> HIDE DEF F, w, n
    <3>6. \A i \in 1..n + w : i \in 1..n \/ i \in n + 1..n + w
      BY <3>1, <3>5
    <3>7. \A i \in DOMAIN vpRows' : vpRows'[i].port \div Width < vpIdx'
      <4> SUFFICES ASSUME NEW i \in DOMAIN vpRows' PROVE vpRows'[i].port \div Width < c + 1
        BY <2>2
      <4>1. CASE i \in 1..n
        <5>1. vpRows[i].port \div Width < c
          BY <3>2, <3>5, <4>1 DEF VpRowInv
        <5>2. vpRows[i] \in Rows
          BY ONLY <3>5, <4>1
        <5>3. Width \in Nat \ {0}
          BY <2>2 DEF Width, VpTypeOK, HubsPerController
        <5>4. vpRows[i].port \div Width \in Nat
          BY <5>2, <5>3, DivMod DEF Rows
        <5> QED BY <3>2, <3>5, <4>1, <5>1, <5>4
      <4>2. CASE i \in n + 1..n + w
        BY <3>2, <3>3, <3>5, <4>2
      <4> QED BY <3>5, <3>6, <4>1, <4>2
    <3>8. EachPortListedOnce'
      <4> SUFFICES ASSUME NEW i \in DOMAIN vpRows', NEW j \in DOMAIN vpRows',
                          vpRows'[i].port = vpRows'[j].port
                   PROVE  i = j
        BY DEF EachPortListedOnce
      <4>1. ASSUME NEW k \in 1..n, NEW l \in n + 1..n + w PROVE vpRows'[k].port # vpRows'[l].port
        <5>1. vpRows[k].port \div Width < c /\ F[l - n].port \div Width = c
          BY <3>2, <3>3, <3>5
        <5> QED BY <3>2, <3>5, <5>1
      <4>2. CASE i \in 1..n /\ j \in 1..n
        BY <3>5, <4>2 DEF EachPortListedOnce
      <4>3. CASE i \in n + 1..n + w /\ j \in n + 1..n + w
        <5>1. i - n \in 1..w /\ j - n \in 1..w /\ F[i - n].port = F[j - n].port
          BY <3>5, <4>3
        <5>2. c * w + ((i - n) - 1) = c * w + ((j - n) - 1)
          BY <3>1, <5>1
        <5>3. c * w \in Nat
          BY <3>1, <3>2
        <5>4. i - n = j - n
          BY <5>1, <5>2, <5>3
        <5> QED BY <3>5, <4>3, <5>4
      <4> QED BY <3>5, <3>6, <4>1, <4>2, <4>3
    <3>9. \A i \in DOMAIN vpRows' :
             IsFreeStatus(vpRows'[i].status) /\ vpRows'[i].port = vpWatched => vpRows'[i].hub \in vpAs
      BY <3>4, <3>5, <3>6
    <3>10. vpTopo'.hc > 0
      BY <2>2, <3>2 DEF VpTypeOK
    <3>11. VpRowInv'
      BY <2>2, <3>2, <3>5, <3>7, <3>8, <3>9, <3>10 DEF VpRowInv, Width
    <3> QED BY <3>11
  <2> QED BY <1>10, <2>1, <2>2 DEF ParseStatusFile
<1>11. ASSUME RowsRead PROVE VpRowInv'
  BY <1>11 DEF RowsRead, VpReturn, vpKernel
<1>12. ASSUME NEW p \in AllPorts, ChoosePort(p) PROVE VpRowInv'
  BY <1>12 DEF ChoosePort, VpReturn, vpKernel
<1>13. ASSUME NoFreePort PROVE VpRowInv'
  BY <1>13 DEF NoFreePort, VpReturn, vpKernel
<1>14. ASSUME WriteAttach PROVE VpRowInv'
  BY <1>14 DEF WriteAttach, VpReturn
<1>15. ASSUME NEW p \in AllPorts, CheckDetach(p) PROVE VpRowInv'
  BY <1>15 DEF CheckDetach, VpReturn, vpKernel
<1>16. ASSUME WriteDetach PROVE VpRowInv'
  BY <1>16 DEF WriteDetach, VpReturn
<1>17. ASSUME NEW c \in Controllers, NEW h \in Hubs, NEW b \in Buses, 
               RegisterHub(c, h, b)
     PROVE  UNCHANGED <<vpRows, vpPC, vpTopo, vpIdx, vpWatched, vpAs>>
  BY <1>17 DEF RegisterHub, VpReturn, vpKernel, vpCall
<1>18. ASSUME UNCHANGED vpVars PROVE UNCHANGED <<vpRows, vpPC, vpTopo, vpIdx, vpWatched, vpAs>>
  BY <1>18 DEF vpVars, vpKernel, vpCall
<1> HIDE DEF VpRowInv
<1>19. QED
  BY <1>1, <1>2, <1>3, <1>4, <1>5, <1>6, <1>7, <1>8, <1>9, <1>10, <1>11, <1>12, <1>13,
     <1>14, <1>15, <1>16, <1>17, <1>18
  DEF VpNext

\* A non-empty set of port numbers has a lowest one.
LEMMA MinExists ==
  ASSUME NEW S \in SUBSET Nat, S # {}
  PROVE  \E m \in S : \A q \in S : m <= q
<1> DEFINE R == OpToRel(<, Nat)
<1>1. IsWellFoundedOn(R, Nat)
  BY NatLessThanWellFounded
<1>2. PICK m \in S : \A y \in S : ~(<<y, m>> \in R)
  <2> HIDE DEF R
  <2>1. \E x \in S : \A y \in S : ~(<<y, x>> \in R)
    BY ONLY <1>1, WFMin, S \in SUBSET Nat, S # {}
  <2> QED BY <2>1
<1>3. \A y \in Nat : y < m => <<y, m>> \in R
  BY DEF OpToRel
<1> HIDE DEF R
<1>4. \A y \in S : ~(y < m)
  BY <1>2, <1>3
<1>5. \A y \in S : m <= y
  BY <1>4
<1>6. QED BY <1>5

\* The port an attach settles on was read as free on its hub.
LEMMA VpChoiceStep ==
  ASSUME VpTypeOK, VpPathInv, VpRowInv, ChoiceWasFree, [VpNext]_vpVars
  PROVE  ChoiceWasFree'
<1> USE DEF VpPathInv, ChoiceWasFree
<1>1. CASE UNCHANGED <<vpOp, vpPC, vpResult, vpPort, vpWatched, vpAs>>
  BY <1>1
<1>2. ASSUME NEW p \in Targets, PortMoves(p) PROVE ChoiceWasFree'
  BY <1>2 DEF PortMoves, vpCall
<1>3. ASSUME Unload PROVE ChoiceWasFree'
  BY <1>3 DEF Unload, vpCall
<1>4. ASSUME NEW s \in Shapes, Load(s) PROVE ChoiceWasFree'
  BY <1>4 DEF Load, vpCall
<1>5. ASSUME ReadFails PROVE ChoiceWasFree'
  BY <1>5 DEF ReadFails, VpReturn, vpKernel
<1>6. ASSUME ReadNPorts PROVE ChoiceWasFree'
  BY <1>6 DEF ReadNPorts, vpKernel
<1>7. ASSUME ProbeControllerCount PROVE ChoiceWasFree'
  BY <1>7 DEF ProbeControllerCount, VpReturn, vpKernel
<1>8. ASSUME DeriveHCPorts PROVE ChoiceWasFree'
  BY <1>8 DEF DeriveHCPorts, VpReturn, vpKernel
<1>9. ASSUME BuildBusMap PROVE ChoiceWasFree'
  BY <1>9 DEF BuildBusMap, VpReturn, vpKernel
<1>10. ASSUME NEW c \in Controllers, ParseStatusFile(c) PROVE ChoiceWasFree'
  BY <1>10 DEF ParseStatusFile, VpReturn, vpKernel
<1>11. ASSUME RowsRead PROVE ChoiceWasFree'
  BY <1>11 DEF RowsRead, VpReturn, vpKernel
<1>12. ASSUME NEW p \in AllPorts, ChoosePort(p) PROVE ChoiceWasFree'
  <2>1. FreePorts(vpOp.hub) \subseteq Nat
    <3>1. \A i \in DOMAIN vpRows : vpRows[i] \in Rows
      BY DEF VpRowInv
    <3> QED BY <3>1 DEF FreePorts, RowSet, Rows
  <2>2. p \in FreePorts(vpOp.hub)
    BY <1>12, <2>1, MinExists DEF ChoosePort, LowestFreePort
  <2>3. PICK i \in DOMAIN vpRows : /\ vpRows[i].port = p /\ vpRows[i].hub = vpOp.hub
                                   /\ IsFreeStatus(vpRows[i].status)
    BY <2>2 DEF FreePorts, RowSet
  <2>4. p = vpWatched => vpOp.hub \in vpAs
    BY <2>3 DEF VpRowInv
  <2> QED BY <1>12, <2>4 DEF ChoosePort, VpReturn, vpKernel
<1>13. ASSUME NoFreePort PROVE ChoiceWasFree'
  BY <1>13 DEF NoFreePort, VpReturn, vpKernel
<1>14. ASSUME WriteAttach PROVE ChoiceWasFree'
  BY <1>14 DEF WriteAttach, VpReturn
<1>15. ASSUME NEW p \in AllPorts, CheckDetach(p) PROVE ChoiceWasFree'
  BY <1>15 DEF CheckDetach, VpReturn, vpKernel
<1>16. ASSUME WriteDetach PROVE ChoiceWasFree'
  BY <1>16 DEF WriteDetach, VpReturn
<1>17. ASSUME NEW c \in Controllers, NEW h \in Hubs, NEW b \in Buses, 
               RegisterHub(c, h, b)
     PROVE  UNCHANGED <<vpOp, vpPC, vpResult, vpPort, vpWatched, vpAs>>
  BY <1>17 DEF RegisterHub, VpReturn, vpKernel, vpCall
<1>18. ASSUME UNCHANGED vpVars PROVE UNCHANGED <<vpOp, vpPC, vpResult, vpPort, vpWatched, vpAs>>
  BY <1>18 DEF vpVars, vpKernel, vpCall
<1> HIDE DEF ChoiceWasFree
<1>19. QED
  BY <1>1, <1>2, <1>3, <1>4, <1>5, <1>6, <1>7, <1>8, <1>9, <1>10, <1>11, <1>12, <1>13,
     <1>14, <1>15, <1>16, <1>17, <1>18
  DEF VpNext

\* A step that leaves the watched port taken leaves the operation in step with the module.
LEMMA VpStableStep ==
  ASSUME VpTypeOK, VpPathInv, VpSeenInv, VpRowInv, VpStableInv, [VpNext]_vpVars
  PROVE  VpStableInv'
<1> USE DEF VpStableInv
<1>1. CASE UNCHANGED <<vpAs, vpPC, vpShape, vpNPorts, vpIdx, vpTopo, vpWatched, vpRows>>
  BY <1>1 DEF Width
<1>2. ASSUME NEW p \in Targets, PortMoves(p) PROVE VpStableInv'
  <2>1. vpAs' = {} => vpAs = {}
    BY <1>2 DEF PortMoves
  <2> QED BY <1>2, <2>1 DEF PortMoves, vpCall, Width
<1>3. ASSUME Unload PROVE VpStableInv'
  <2>1. Standing(Unloaded, vpSta') = {"none"}
    BY UnloadedFacts DEF Standing, VpPathInv
  <2>2. vpAs' # {}
    BY <1>3, <2>1 DEF Unload
  <2> QED BY <2>2
<1>4. ASSUME NEW s \in Shapes, Load(s) PROVE VpStableInv'
  <2>1. Standing(vpShape, vpSta) = {"none"} /\ vpPC # "done"
    BY <1>4, UnloadedFacts DEF Standing, VpPathInv, Load
  <2>2. vpAs' # {}
    BY <1>4, <2>1 DEF Load, VpSeenInv
  <2> QED BY <2>2
<1>5. ASSUME ReadFails PROVE VpStableInv'
  BY <1>5 DEF ReadFails, VpReturn, vpKernel
<1>6. ASSUME ReadNPorts PROVE VpStableInv'
  <2>1. /\ vpShape \in Shapes /\ vpShape' = vpShape /\ vpIdx' = vpIdx /\ vpPC = "nports" /\ vpPC' = "probe"
        /\ vpNPorts' = NPorts(vpShape) /\ vpAs' = vpAs /\ vpShape[1] \in Nat
    BY <1>6, LoadedPorts DEF ReadNPorts, vpKernel, VpTypeOK
  <2> QED BY <2>1
<1>7. ASSUME ProbeControllerCount PROVE VpStableInv'
  <2>1. /\ vpIdx \in Nat /\ vpShape[1] \in Nat /\ vpPC = "probe"
        /\ UNCHANGED <<vpShape, vpNPorts, vpAs>>
    BY <1>7, LoadedPorts DEF ProbeControllerCount, vpKernel, VpTypeOK
  <2>2. \/ vpIdx < vpShape[1] /\ vpIdx' = vpIdx + 1 /\ vpPC' = "probe"
        \/ ~(vpIdx < vpShape[1]) /\ vpIdx' = vpIdx /\ vpPC' \in {"done", "derive"}
    BY <1>7 DEF ProbeControllerCount, VpReturn
  <2> QED BY <2>1, <2>2
<1>8. ASSUME DeriveHCPorts PROVE VpStableInv'
  <2> SUFFICES ASSUME vpAs' = {}, vpPC' # "done" PROVE VpStableInv'
    BY DEF VpStableInv
  <2>1. /\ vpPC = "derive" /\ Divides(vpNPorts, vpIdx) /\ vpIdx' = 0
        /\ vpTopo' = [n |-> vpIdx, hc |-> vpNPorts \div (vpIdx * HubsPerController)]
        /\ vpPC' \in {"buses", "rows"}
        /\ UNCHANGED <<vpKernel, vpOp, vpNPorts, vpRows, vpMap, vpPort, vpWatched, vpAs>>
    BY <1>8 DEF DeriveHCPorts, VpReturn
  <2>2. /\ vpShape \in Shapes /\ vpNPorts = NPorts(vpShape) /\ vpIdx = vpShape[1]
    BY <2>1 DEF VpStableInv
  <2>3. vpNPorts \div (vpIdx * HubsPerController) = vpShape[2]
    <3> DEFINE v == vpShape[1] * HubsPerController
    <3>1. v \in Nat \ {0} /\ vpShape[2] \in Nat /\ NPorts(vpShape) = vpShape[2] * v + 0
      BY <2>2, ShapeFacts DEF NPorts, HubsPerController
    <3>2. (vpShape[2] * v + 0) \div v = vpShape[2]
      <4> HIDE DEF v
      <4> QED BY <3>1, DivBlock
    <3> QED BY <2>2, <3>1, <3>2
  <2>4. vpTopo' = [n |-> vpShape[1], hc |-> vpShape[2]]
    BY <2>1, <2>2, <2>3
  <2>5. ~(vpWatched < vpIdx' * Width')
    <3>1. Width' = vpShape[2] * HubsPerController /\ vpShape[2] \in Nat
      BY <2>2, <2>4, ShapeFacts DEF Width
    <3> QED BY <2>1, <3>1 DEF VpPathInv, HubsPerController
  <2>6. QED BY <2>1, <2>2, <2>4, <2>5 DEF VpStableInv, vpKernel
<1>9. ASSUME BuildBusMap PROVE VpStableInv'
  <2>1. vpPC = "buses" /\ vpPC' \in {"buses", "done"} /\ UNCHANGED <<vpShape, vpNPorts, vpAs>>
    BY <1>9 DEF BuildBusMap, VpReturn, vpKernel
  <2> QED BY <2>1
<1>10. ASSUME NEW c \in Controllers, ParseStatusFile(c) PROVE VpStableInv'
  <2> SUFFICES ASSUME vpAs' = {}, vpPC' # "done" PROVE VpStableInv'
    BY DEF VpStableInv
  <2>1. /\ vpPC = "rows" /\ vpIdx = c /\ c < vpTopo.n /\ c < vpShape[1] /\ vpTopo.hc # 0
        /\ vpRows' = vpRows \o StatusFile(c) /\ vpIdx' = c + 1 /\ vpPC' = vpPC
        /\ UNCHANGED <<vpKernel, vpOp, vpNPorts, vpTopo, vpWatched, vpAs>>
    BY <1>10 DEF ParseStatusFile, VpReturn
  <2> DEFINE w == vpShape[2] * HubsPerController
             F == StatusFile(c)
             n == Len(vpRows)
  <2>2. /\ vpShape \in Shapes /\ w \in Nat \ {0} /\ F \in Seq(Rows) /\ Len(F) = w
        /\ \A i \in 1..w : /\ F[i].port = c * w + (i - 1) /\ F[i].port \in Nat
                           /\ F[i].port < NPorts(vpShape)
                           /\ F[i].hub = HubOf(vpShape, F[i].port)
                           /\ IsFreeStatus(F[i].status) <=> vpSta[F[i].port] = 4
    BY <2>1, FileRows
  <2>3. /\ vpRows \in Seq(Rows) /\ n \in Nat
        /\ vpRows' \in Seq(Rows) /\ DOMAIN vpRows' = 1..n + w /\ DOMAIN vpRows = 1..n
        /\ \A i \in 1..n : vpRows'[i] = vpRows[i]
        /\ \A i \in n + 1..n + w : i - n \in 1..w /\ vpRows'[i] = F[i - n]
    <3>1. vpRows \in Seq(Rows) /\ vpRows' = vpRows \o F
      BY <2>1 DEF VpRowInv
    <3> HIDE DEF F, w
    <3> QED BY <2>2, <3>1, Appended
  <2>4. /\ c \in Nat /\ Width = w /\ Width' = w /\ vpWatched \in Nat /\ vpAs = {} /\ vpPC # "done"
    BY <2>1, PortNumbers DEF Width, VpPathInv, VpStableInv
  <2> HIDE DEF F, w, n
  <2>5. ASSUME vpWatched < (c + 1) * w
        PROVE  \E i \in DOMAIN vpRows' : vpRows'[i].port = vpWatched /\ ~IsFreeStatus(vpRows'[i].status)
    <3>1. c * w \in Nat /\ (c + 1) * w = c * w + w
      BY <2>2, <2>4
    <3>2. CASE vpWatched < c * w
      <4>1. PICK i \in DOMAIN vpRows : vpRows[i].port = vpWatched /\ ~IsFreeStatus(vpRows[i].status)
        BY <2>1, <2>4, <3>2 DEF VpStableInv
      <4>2. i \in DOMAIN vpRows' /\ vpRows'[i] = vpRows[i]
        BY <2>2, <2>3
      <4> QED BY <4>1, <4>2
    <3>3. CASE ~(vpWatched < c * w)
      <4> DEFINE k == vpWatched - c * w + 1
      <4>1. k \in 1..w /\ c * w + (k - 1) = vpWatched
        BY <2>2, <2>4, <2>5, <3>1, <3>3
      <4>2. F[k].port = vpWatched /\ vpWatched < NPorts(vpShape)
        BY <2>2, <4>1
      <4>3. vpSta[vpWatched] # 4
        BY <2>4, <4>2 DEF VpSeenInv, Standing, Exists
      <4>4. ~IsFreeStatus(F[k].status)
        BY <2>2, <4>1, <4>2, <4>3
      <4> HIDE DEF k
      <4>5. n + k \in n + 1..n + w /\ (n + k) - n = k /\ n + k \in 1..n + w
        BY <2>2, <2>3, <4>1
      <4>6. n + k \in DOMAIN vpRows' /\ vpRows'[n + k] = F[k]
        BY <2>3, <4>5
      <4> QED BY <4>2, <4>4, <4>6
    <3> QED BY <3>2, <3>3
  <2>6. QED BY <2>1, <2>2, <2>4, <2>5 DEF VpStableInv, vpKernel
<1>11. ASSUME RowsRead PROVE VpStableInv'
  <2>1. /\ vpPC = "rows" /\ vpPC' \in {"choose", "done"} /\ vpIdx = vpTopo.n
        /\ UNCHANGED <<vpShape, vpNPorts, vpAs, vpIdx, vpTopo, vpRows, vpWatched>> /\ Width' = Width
    BY <1>11 DEF RowsRead, VpReturn, vpKernel, Width
  <2> QED BY <2>1
<1>12. ASSUME NEW p \in AllPorts, ChoosePort(p) PROVE VpStableInv'
  <2>1. /\ vpPC = "choose" /\ vpPC' \in {"write", "done"}
        /\ UNCHANGED <<vpShape, vpNPorts, vpAs, vpTopo>>
    BY <1>12 DEF ChoosePort, VpReturn, vpKernel
  <2> QED BY <2>1
<1>13. ASSUME NoFreePort PROVE VpStableInv'
  <2> QED BY <1>13 DEF NoFreePort, VpReturn
<1>14. ASSUME WriteAttach PROVE VpStableInv'
  BY <1>14 DEF WriteAttach, VpReturn
<1>15. ASSUME NEW p \in AllPorts, CheckDetach(p) PROVE VpStableInv'
  <2>1. /\ vpPC = "choose" /\ vpPC' \in {"write", "done"}
        /\ UNCHANGED <<vpShape, vpNPorts, vpAs, vpTopo>>
    BY <1>15 DEF CheckDetach, VpReturn, vpKernel
  <2> QED BY <2>1
<1>16. ASSUME WriteDetach PROVE VpStableInv'
  BY <1>16 DEF WriteDetach, VpReturn
<1>17. ASSUME NEW c \in Controllers, NEW h \in Hubs, NEW b \in Buses, 
               RegisterHub(c, h, b)
     PROVE  UNCHANGED <<vpAs, vpPC, vpShape, vpNPorts, vpIdx, vpTopo, vpWatched, vpRows>>
  BY <1>17 DEF RegisterHub, VpReturn, vpKernel, vpCall
<1>18. ASSUME UNCHANGED vpVars PROVE UNCHANGED <<vpAs, vpPC, vpShape, vpNPorts, vpIdx, vpTopo, vpWatched, vpRows>>
  BY <1>18 DEF vpVars, vpKernel, vpCall
<1> HIDE DEF VpStableInv
<1>19. QED
  BY <1>1, <1>2, <1>3, <1>4, <1>5, <1>6, <1>7, <1>8, <1>9, <1>10, <1>11, <1>12, <1>13,
     <1>14, <1>15, <1>16, <1>17, <1>18
  DEF VpNext

\* A detach says "not bound" only of a port that was not.
LEMMA VpNotBoundStep ==
  ASSUME VpTypeOK, VpPathInv, VpSeenInv, VpStableInv, NotBoundIsTrue, [VpNext]_vpVars
  PROVE  NotBoundIsTrue'
<1> USE DEF VpPathInv, NotBoundIsTrue
<1>1. CASE UNCHANGED <<vpOp, vpResult, vpAs>>
  BY <1>1
<1>2. ASSUME NEW p \in Targets, PortMoves(p) PROVE NotBoundIsTrue'
  BY <1>2 DEF PortMoves, vpCall
<1>3. ASSUME Unload PROVE NotBoundIsTrue'
  BY <1>3 DEF Unload, vpCall
<1>4. ASSUME NEW s \in Shapes, Load(s) PROVE NotBoundIsTrue'
  BY <1>4 DEF Load, vpCall
<1>5. ASSUME ReadFails PROVE NotBoundIsTrue'
  BY <1>5 DEF ReadFails, VpReturn, vpKernel
<1>6. ASSUME ProbeControllerCount PROVE NotBoundIsTrue'
  BY <1>6 DEF ProbeControllerCount, VpReturn, vpKernel
<1>7. ASSUME DeriveHCPorts PROVE NotBoundIsTrue'
  BY <1>7 DEF DeriveHCPorts, VpReturn, vpKernel
<1>8. ASSUME BuildBusMap PROVE NotBoundIsTrue'
  BY <1>8 DEF BuildBusMap, VpReturn, vpKernel
<1>9. ASSUME NEW c \in Controllers, ParseStatusFile(c) PROVE NotBoundIsTrue'
  BY <1>9 DEF ParseStatusFile, VpReturn, vpKernel
<1>10. ASSUME RowsRead PROVE NotBoundIsTrue'
  BY <1>10 DEF RowsRead, VpReturn, vpKernel
<1>11. ASSUME NEW p \in AllPorts, ChoosePort(p) PROVE NotBoundIsTrue'
  BY <1>11 DEF ChoosePort, VpReturn, vpKernel
<1>12. ASSUME NoFreePort PROVE NotBoundIsTrue'
  BY <1>12 DEF NoFreePort, VpReturn, vpKernel
<1>13. ASSUME WriteAttach PROVE NotBoundIsTrue'
  BY <1>13 DEF WriteAttach, VpReturn
<1>14. ASSUME NEW p \in AllPorts, CheckDetach(p) PROVE NotBoundIsTrue'
  <2> SUFFICES ASSUME vpAs = {}, vpResult' = "notbound" PROVE FALSE
    BY <1>14 DEF CheckDetach
  <2>1. /\ vpPC = "choose" /\ vpOp.kind = "detach" /\ p = vpWatched /\ ValidatePortInRange(p)
        /\ ~\E r \in RowSet : r.port = p /\ ~IsFreeStatus(r.status)
    BY <1>14 DEF CheckDetach, VpReturn
  <2>2. vpIdx = vpTopo.n /\ vpTopo.n \in Nat /\ vpTopo.hc \in Nat
    BY <2>1 DEF VpStableInv, VpTypeOK
  <2>3. vpWatched < vpIdx * Width
    BY <2>1, <2>2 DEF ValidatePortInRange, Width, HubsPerController
  <2>4. \E i \in DOMAIN vpRows : vpRows[i].port = vpWatched /\ ~IsFreeStatus(vpRows[i].status)
    BY <2>1, <2>3 DEF VpStableInv
  <2> QED BY <2>1, <2>4 DEF RowSet
<1>15. ASSUME WriteDetach PROVE NotBoundIsTrue'
  <2> SUFFICES ASSUME vpResult' = "notbound" PROVE vpAs # {}
    BY <1>15 DEF WriteDetach
  <2>1. /\ vpPC = "write" /\ vpOp.port = vpWatched
        /\ ~Exists(vpShape, vpWatched) \/ vpSta[vpWatched] = 4
    BY <1>15 DEF WriteDetach, VpReturn
  <2>2. Standing(vpShape, vpSta) # {}
    BY <2>1 DEF Standing
  <2> QED BY <2>1, <2>2 DEF VpSeenInv
<1>16. ASSUME NEW c \in Controllers, NEW h \in Hubs, NEW b \in Buses, 
               RegisterHub(c, h, b)
     PROVE  UNCHANGED <<vpOp, vpResult, vpAs>>
  BY <1>16 DEF RegisterHub, VpReturn, vpKernel, vpCall
<1>17. ASSUME ReadNPorts
     PROVE  UNCHANGED <<vpOp, vpResult, vpAs>>
  BY <1>17 DEF ReadNPorts, VpReturn, vpKernel, vpCall
<1>18. ASSUME UNCHANGED vpVars PROVE UNCHANGED <<vpOp, vpResult, vpAs>>
  BY <1>18 DEF vpVars, vpKernel, vpCall
<1> HIDE DEF NotBoundIsTrue
<1>19. QED
  BY <1>1, <1>2, <1>3, <1>4, <1>5, <1>6, <1>7, <1>8, <1>9, <1>10, <1>11, <1>12, <1>13,
     <1>14, <1>15, <1>16, <1>17, <1>18
  DEF VpNext

\* The walk over the root hubs names every hub it passes once, whatever it overwrites.
LEMMA VpMapStep ==
  ASSUME VpTypeOK, VpPathInv, VpMapInv, [VpNext]_vpVars
  PROVE  VpMapInv'
<1> USE DEF VpPathInv, VpMapInv
<1>1. CASE UNCHANGED <<vpPC, vpMap, vpIdx, vpTopo, vpNPorts, vpOp, vpResult>>
  BY <1>1 DEF MapGrows
<1>2. ASSUME ReadFails PROVE VpMapInv'
  <2> QED BY <1>2 DEF ReadFails, VpReturn, MapGrows
<1>3. ASSUME ReadNPorts PROVE VpMapInv'
  BY <1>3 DEF ReadNPorts, vpKernel
<1>4. ASSUME ProbeControllerCount PROVE VpMapInv'
  BY <1>4 DEF ProbeControllerCount, VpReturn, vpKernel
<1>5. ASSUME DeriveHCPorts PROVE VpMapInv'
  <2>1. /\ vpPC = "derive" /\ vpMap = {} /\ vpMap' = {} /\ vpIdx' = 0 /\ vpOp' = vpOp
        /\ vpPC' \in {"buses", "rows", "done"} /\ vpResult' \in {"none", "err"}
    BY <1>5 DEF DeriveHCPorts, VpReturn
  <2>2. vpTopo'.n \in Nat
    BY VpTypeStep DEF VpTypeOK
  <2>3. MapGrows(0)' /\ MapGrows(vpIdx)'
    BY <2>1 DEF MapGrows
  <2> QED BY <2>1, <2>2, <2>3
<1>6. ASSUME BuildBusMap PROVE VpMapInv'
  <2>1. vpPC = "buses" /\ vpIdx \in Nat /\ vpTopo.n \in Nat /\ UNCHANGED <<vpOp, vpTopo, vpNPorts>>
    BY <1>6 DEF BuildBusMap, VpTypeOK
  <2>2. vpIdx <= vpTopo.n /\ MapGrows(vpIdx)
    BY <2>1
  <2>3. CASE /\ vpIdx < vpTopo.n /\ vpIdx < vpShape[1] /\ Cardinality(Children(vpIdx)) = HubsPerController
             /\ vpMap' = Overwrite(vpMap, ByRank(vpIdx)) /\ vpIdx' = vpIdx + 1
             /\ UNCHANGED <<vpPC, vpResult>>
    <3>1. vpIdx \in Controllers
      BY <2>1, <2>3, ShapeFacts, UnloadedFacts DEF VpTypeOK
    <3>2. /\ ByRank(vpIdx) \subseteq Buses \X ({vpIdx} \X Hubs)
          /\ \A e, f \in ByRank(vpIdx) : e[2] = f[2] => e = f
      BY <2>3, <3>1, RankFacts
    <3>3. \A e \in vpMap' : e \in vpMap \/ e \in ByRank(vpIdx)
      BY <2>3 DEF Overwrite
    <3>4. /\ \A e \in vpMap : e[2] \in (0..vpIdx - 1) \X Hubs
          /\ \A e, f \in vpMap : e[2] = f[2] => e = f
      BY <2>2 DEF MapGrows
    <3>5. \A e \in ByRank(vpIdx) : e[2][1] = vpIdx /\ e[2] \in {vpIdx} \X Hubs
      BY <3>2
    <3>6. \A e \in vpMap : e[2][1] # vpIdx
      BY <2>1, <3>4
    <3>7. MapGrows(vpIdx)'
      <4>1. \A e \in vpMap' : e[2] \in (0..(vpIdx + 1) - 1) \X Hubs
        BY <2>1, <3>3, <3>4, <3>5
      <4>2. \A e, f \in vpMap' : e[2] = f[2] => e = f
        BY <3>2, <3>3, <3>4, <3>5, <3>6
      <4> QED BY <4>1, <4>2, <2>3 DEF MapGrows
    <3> QED BY <2>1, <2>3, <3>7
  <2>4. CASE /\ ~(vpIdx < vpTopo.n) /\ UNCHANGED <<vpMap, vpIdx>> /\ vpPC' = "done"
             /\ vpResult' = IF Cardinality(vpMap) = vpTopo.n * HubsPerController THEN "ok" ELSE "err"
    <3>1. vpIdx = vpTopo.n
      BY <2>1, <2>2, <2>4
    <3>2. MapGrows(vpTopo.n)'
      BY <2>1, <2>2, <2>4, <3>1 DEF MapGrows
    <3>3. vpTopo.hc > 0 /\ NPorts(<<vpTopo.n, vpTopo.hc>>) = vpNPorts
      BY <2>1 DEF VpTypeOK
    <3>4. (vpTopo.hc > 0 /\ NPorts(<<vpTopo.n, vpTopo.hc>>) = vpNPorts)'
      BY <2>1, <3>3 DEF NPorts
    <3> QED BY <2>1, <2>4, <3>2, <3>4
  <2>5. CASE UNCHANGED <<vpMap, vpIdx>> /\ vpPC' = "done" /\ vpResult' = "err"
    BY <2>1, <2>5
  <2> QED BY <1>6, <2>3, <2>4, <2>5 DEF BuildBusMap, VpReturn
<1>7. ASSUME NEW c \in Controllers, ParseStatusFile(c) PROVE VpMapInv'
  BY <1>7 DEF ParseStatusFile, VpReturn, vpKernel
<1>8. ASSUME RowsRead PROVE VpMapInv'
  BY <1>8 DEF RowsRead, VpReturn, vpKernel
<1>9. ASSUME NEW p \in AllPorts, ChoosePort(p) PROVE VpMapInv'
  BY <1>9 DEF ChoosePort, VpReturn, vpKernel
<1>10. ASSUME NoFreePort PROVE VpMapInv'
  BY <1>10 DEF NoFreePort, VpReturn, vpKernel
<1>11. ASSUME WriteAttach PROVE VpMapInv'
  BY <1>11 DEF WriteAttach, VpReturn
<1>12. ASSUME NEW p \in AllPorts, CheckDetach(p) PROVE VpMapInv'
  BY <1>12 DEF CheckDetach, VpReturn, vpKernel
<1>13. ASSUME WriteDetach PROVE VpMapInv'
  BY <1>13 DEF WriteDetach, VpReturn
<1>14. ASSUME NEW p \in Targets, 
               PortMoves(p)
     PROVE  UNCHANGED <<vpPC, vpMap, vpIdx, vpTopo, vpNPorts, vpOp, vpResult>>
  BY <1>14 DEF PortMoves, VpReturn, vpKernel, vpCall
<1>15. ASSUME Unload
     PROVE  UNCHANGED <<vpPC, vpMap, vpIdx, vpTopo, vpNPorts, vpOp, vpResult>>
  BY <1>15 DEF Unload, VpReturn, vpKernel, vpCall
<1>16. ASSUME NEW s \in Shapes, 
               Load(s)
     PROVE  UNCHANGED <<vpPC, vpMap, vpIdx, vpTopo, vpNPorts, vpOp, vpResult>>
  BY <1>16 DEF Load, VpReturn, vpKernel, vpCall
<1>17. ASSUME NEW c \in Controllers, NEW h \in Hubs, NEW b \in Buses, 
               RegisterHub(c, h, b)
     PROVE  UNCHANGED <<vpPC, vpMap, vpIdx, vpTopo, vpNPorts, vpOp, vpResult>>
  BY <1>17 DEF RegisterHub, VpReturn, vpKernel, vpCall
<1>18. ASSUME UNCHANGED vpVars PROVE UNCHANGED <<vpPC, vpMap, vpIdx, vpTopo, vpNPorts, vpOp, vpResult>>
  BY <1>18 DEF vpVars, vpKernel, vpCall
<1> HIDE DEF VpMapInv
<1>19. QED
  BY <1>1, <1>2, <1>3, <1>4, <1>5, <1>6, <1>7, <1>8, <1>9, <1>10, <1>11, <1>12, <1>13,
     <1>14, <1>15, <1>16, <1>17, <1>18
  DEF VpNext

\* A map with one entry per hub of n controllers, and as many entries as there are hubs,
\* misses none.
LEMMA EveryHubIsNamed ==
  ASSUME NEW n \in Nat, NEW M, NEW l \in (0..n - 1) \X Hubs,
         \A e \in M : e[2] \in (0..n - 1) \X Hubs, \A e, f \in M : e[2] = f[2] => e = f,
         Cardinality(M) = n * HubsPerController
  PROVE  \E e \in M : e[2] = l
<1> DEFINE H == (0..n - 1) \X Hubs
           loc == [e \in M |-> e[2]]
<1>1. IsFiniteSet(0..n - 1) /\ Cardinality(0..n - 1) = n
  BY FS_Interval
<1>2. IsFiniteSet(Hubs) /\ Cardinality(Hubs) = 2
  <2>1. IsFiniteSet({"hs"}) /\ Cardinality({"hs"}) = 1
    BY FS_Singleton
  <2>2. IsFiniteSet({"hs"} \cup {"ss"}) /\ Cardinality({"hs"} \cup {"ss"}) = 2
    BY SMTT(60), <2>1, FS_AddElement
  <2>3. Hubs = {"hs"} \cup {"ss"}
    BY DEF Hubs
  <2> QED BY <2>2, <2>3
<1>3. IsFiniteSet(H) /\ Cardinality(H) = n * HubsPerController
  <2>1. IsFiniteSet(H) /\ Cardinality(H) = Cardinality(0..n - 1) * Cardinality(Hubs)
    BY ONLY <1>1, <1>2, FS_Product
  <2> HIDE DEF H
  <2> QED BY <1>1, <1>2, <2>1 DEF HubsPerController
<1>4. loc \in Injection(M, H)
  BY DEF Injection, IsInjective
<1>5. loc \in Surjection(M, H)
  <2> HIDE DEF loc, H
  <2> QED BY <1>3, <1>4, FS_Injection
<1>6. \E e \in M : loc[e] = l
  BY <1>5 DEF Surjection
<1>7. QED BY <1>6

\* Every flat port is some root port's: the other half of the bijection.
LEMMA FlatPortIsOnto ==
  ASSUME NEW n \in Nat, NEW hc \in Nat \ {0}, NEW p \in 0..NPorts(<<n, hc>>) - 1
  PROVE  \E l \in Locations(n, hc) : FlatPort(hc, l[1], l[2], l[3]) = p
<1> DEFINE w == hc * HubsPerController
           c == p \div w
           x == p % w
           h == IF x < hc THEN "hs" ELSE "ss"
           r == IF x < hc THEN x ELSE x - hc
<1>1. w \in Nat \ {0} /\ NPorts(<<n, hc>>) = n * w /\ n * w \in Nat
  BY DEF NPorts, HubsPerController
<1>2. c \in Nat /\ x \in 0..w - 1 /\ p = c * w + x /\ p \in Nat
  <2>1. p \in Nat
    BY <1>1
  <2> HIDE DEF w
  <2> QED BY <1>1, <2>1, DivMod
<1>3. c < n
  <2> HIDE DEF w, c, x
  <2> SUFFICES ASSUME n <= c PROVE FALSE
    BY <1>2
  <2>1. PICK k \in Nat : c = n + k
    <3>1. c - n \in Nat /\ c = n + (c - n)
      BY <1>2
    <3> QED BY <3>1
  <2>2. c * w = n * w + k * w /\ k * w \in Nat
    BY <1>1, <2>1
  <2> QED BY <1>1, <1>2, <2>2
<1>4. r \in 0..hc - 1 /\ h \in Hubs /\ HubOffset(hc, h) + r = x
  <2>1. x \in Nat /\ x < hc * 2
    BY <1>2 DEF HubsPerController
  <2> HIDE DEF x
  <2> QED BY <2>1 DEF HubOffset, Hubs
<1> HIDE DEF c, x, h, r
<1>5. <<c, h, r>> \in Locations(n, hc)
  BY <1>2, <1>3, <1>4 DEF Locations
<1>6. FlatPort(hc, c, h, r) = p
  <2>1. HubOffset(hc, h) \in Nat /\ r \in Nat /\ c * w \in Nat
    BY <1>1, <1>2, <1>4 DEF HubOffset
  <2>2. FlatPort(hc, c, h, r) = c * w + HubOffset(hc, h) + r
    BY DEF FlatPort
  <2> HIDE DEF w
  <2> QED BY <1>2, <1>4, <2>1, <2>2
<1>7. QED BY <1>5, <1>6

\* A map that is complete covers the ports.
LEMMA MapCovers == VpTypeOK /\ VpMapInv => BusMapCoversPorts
<1> SUFFICES ASSUME VpTypeOK, VpMapInv, vpOp.kind = "map", vpResult = "ok"
             PROVE  LET ports(e) == {FlatPort(vpTopo.hc, e[2][1], e[2][2], r) : r \in 0..vpTopo.hc - 1}
                    IN  /\ \A e, f \in vpMap : e # f => ports(e) \cap ports(f) = {}
                        /\ UNION {ports(e) : e \in vpMap} = 0..vpNPorts - 1
  BY DEF BusMapCoversPorts
<1> DEFINE n == vpTopo.n
           hc == vpTopo.hc
           ports(e) == {FlatPort(hc, e[2][1], e[2][2], r) : r \in 0..hc - 1}
<1>1. /\ n \in Nat /\ hc \in Nat \ {0} /\ NPorts(<<n, hc>>) = vpNPorts
      /\ Cardinality(vpMap) = n * HubsPerController
      /\ \A e \in vpMap : e[2] \in (0..n - 1) \X Hubs
      /\ \A e, f \in vpMap : e[2] = f[2] => e = f
  BY DEF VpTypeOK, VpMapInv, MapGrows
<1> HIDE DEF n, hc
<1>2. ASSUME NEW e \in vpMap, NEW r \in 0..hc - 1
      PROVE  <<e[2][1], e[2][2], r>> \in Locations(n, hc) /\ e[2] = <<e[2][1], e[2][2]>>
  BY <1>1 DEF Locations
<1>3. ASSUME NEW e \in vpMap, NEW f \in vpMap, NEW q \in ports(e), q \in ports(f) PROVE e = f
  <2>1. PICK r \in 0..hc - 1 : q = FlatPort(hc, e[2][1], e[2][2], r)
    OBVIOUS
  <2>2. PICK t \in 0..hc - 1 : q = FlatPort(hc, f[2][1], f[2][2], t)
    BY <1>3
  <2> DEFINE a == <<e[2][1], e[2][2], r>>
             b == <<f[2][1], f[2][2], t>>
  <2>3. a \in Locations(n, hc) /\ b \in Locations(n, hc)
    BY <1>2
  <2>4. FlatPort(hc, a[1], a[2], a[3]) = FlatPort(hc, b[1], b[2], b[3])
    BY <2>1, <2>2
  <2>5. a = b
    <3> HIDE DEF a, b
    <3> QED BY <1>1, <2>3, <2>4, FlatPortIsUnique
  <2>6. e[2] = f[2]
    <3>1. e[2][1] = f[2][1] /\ e[2][2] = f[2][2]
      BY <2>5
    <3>2. e[2] = <<e[2][1], e[2][2]>> /\ f[2] = <<f[2][1], f[2][2]>>
      BY <1>2, <2>1, <2>2
    <3> QED BY <3>1, <3>2
  <2> QED BY <1>1, <2>6
<1>4. \A e, f \in vpMap : e # f => ports(e) \cap ports(f) = {}
  <2> HIDE DEF ports
  <2> QED BY <1>3
<1>5. ASSUME NEW e \in vpMap, NEW q \in ports(e) PROVE q \in 0..vpNPorts - 1
  <2>1. PICK r \in 0..hc - 1 : q = FlatPort(hc, e[2][1], e[2][2], r)
    OBVIOUS
  <2> DEFINE a == <<e[2][1], e[2][2], r>>
  <2>2. a \in Locations(n, hc) /\ q = FlatPort(hc, a[1], a[2], a[3])
    BY <1>2, <2>1
  <2> HIDE DEF a
  <2> QED BY <1>1, <2>2, FlatPortInWindow
<1>6. ASSUME NEW q \in 0..vpNPorts - 1 PROVE \E e \in vpMap : q \in ports(e)
  <2>1. PICK l \in Locations(n, hc) : FlatPort(hc, l[1], l[2], l[3]) = q
    BY <1>1, FlatPortIsOnto
  <2>2. <<l[1], l[2]>> \in (0..n - 1) \X Hubs /\ l[3] \in 0..hc - 1
    BY DEF Locations
  <2>3. PICK e \in vpMap : e[2] = <<l[1], l[2]>>
    <3> DEFINE k == <<l[1], l[2]>>
    <3>1. k \in (0..n - 1) \X Hubs
      BY <2>2
    <3> HIDE DEF k
    <3>2. \E e \in vpMap : e[2] = k
      BY <1>1, <3>1, EveryHubIsNamed
    <3> QED BY <3>2 DEF k
  <2> QED BY <2>1, <2>2, <2>3
<1>7. UNION {ports(e) : e \in vpMap} = 0..vpNPorts - 1
  <2> HIDE DEF ports
  <2> QED BY <1>5, <1>6
<1>8. QED BY <1>4, <1>7 DEF hc

\* VpInv is an invariant.
LEMMA VpInvariant == VpSpec => []VpInv
<1>1. VpInit => VpInv
  <2> SUFFICES ASSUME VpInit PROVE VpInv
    OBVIOUS
  <2>1. /\ vpShape \in Shapes \cup {Unloaded} /\ vpOp \in Operations /\ vpBus = FirstBuses(vpShape)
        /\ vpSta \in (IF vpOp.kind = "map" THEN {[p \in AllPorts |-> 4]} ELSE Taken(vpShape))
        /\ vpWatched \in (CASE vpOp.kind = "detach" -> {vpOp.port} [] vpOp.kind = "attach" -> Targets
                            [] OTHER -> {0})
        /\ vpAs = Standing(vpShape, vpSta)
    BY DEF VpInit, VpInitFrom
  <2>2. /\ vpMoves = 0 /\ vpLoads = 0 /\ vpPC = "nports" /\ vpNPorts = 0 /\ vpIdx = 0
        /\ vpTopo = [n |-> 0, hc |-> 0] /\ vpRows = << >> /\ vpMap = {} /\ vpPort = 0
        /\ vpResult = "none"
    BY DEF VpInit, VpInitFrom
  <2>3. vpSta \in [AllPorts -> RawStatus]
    BY <2>1, VhciAssumption DEF Taken
  <2>4. vpBus \in [Controllers \X Hubs -> Buses \cup {0}]
    <3>1. ASSUME NEW l \in Controllers \X Hubs, l[1] < vpShape[1]
          PROVE  2 * l[1] + 1 \in Buses /\ 2 * l[1] + 2 \in Buses
      <4>1. l[1] \in Nat /\ vpShape \in Shapes
        BY <2>1, <3>1, PortNumbers, UnloadedFacts
      <4>2. vpShape[1] \in Nat /\ 1..2 * vpShape[1] \subseteq Buses
        BY <4>1, ShapeFacts, VhciAssumption
      <4>3. 2 * l[1] + 1 \in 1..2 * vpShape[1] /\ 2 * l[1] + 2 \in 1..2 * vpShape[1]
        BY <3>1, <4>1, <4>2
      <4> QED BY <4>2, <4>3
    <3> QED BY <2>1, <3>1 DEF FirstBuses
  <2>5. VpTypeOK
    BY <2>1, <2>2, <2>3, <2>4, PortNumbers, StandingType, VhciAssumption DEF VpTypeOK
  <2>6. VpPathInv
    BY <2>1, <2>2, VhciAssumption DEF VpPathInv, Operations
  <2>7. VpSeenInv /\ VpRowInv /\ VpMapInv /\ ChoiceWasFree /\ NotBoundIsTrue
    BY <2>1, <2>2 DEF VpSeenInv, VpRowInv, VpMapInv, ChoiceWasFree, NotBoundIsTrue, EachPortListedOnce
  <2>8. VpStableInv
    <3>1. vpShape = Unloaded => vpAs = {"none"}
      BY <2>1, <2>6, UnloadedFacts DEF Standing, VpPathInv
    <3> QED BY <2>1, <2>2, <3>1 DEF VpStableInv
  <2>9. QED BY <2>5, <2>6, <2>7, <2>8 DEF VpInv
<1>2. VpInv /\ [VpNext]_vpVars => VpInv'
  BY VpTypeStep, VpPathStep, VpSeenStep, VpRowStep, VpChoiceStep, VpStableStep, VpNotBoundStep,
     VpMapStep
  DEF VpInv
<1>3. QED
  BY <1>1, <1>2, PTL DEF VpSpec

\* For every shape vhci_hcd may be loaded with and reloaded with during the operation, and
\* however its ports change hands: no port is listed twice, the port an attach writes was free
\* on a hub of its speed, a detach says "not bound" only of a port that was not, and a bus map
\* covers every port once.
THEOREM PortsTrue == VpSpec => []PortsAreTrue
<1>1. VpInv => PortsAreTrue
  BY MapCovers DEF VpInv, VpRowInv, PortsAreTrue
<1>2. QED
  BY <1>1, VpInvariant, PTL
=============================================================================
