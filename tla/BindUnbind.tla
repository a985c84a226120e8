----------------------------- MODULE BindUnbind -----------------------------
(***************************************************************************)
(* ExporterAdapter.Bind and Unbind (internal/adapter/kernel/bind.go): two  *)
(* sequences of sysfs writes over the driver of a device and the kernel's  *)
(* match_busid table, each of which may fail after the ones before it took *)
(* effect, with devices that are unplugged and plugged in again meanwhile. *)
(* Calls for one busid are serialised by lockBusID.                        *)
(*                                                                         *)
(* The kernel is modelled from how the code uses it: usbip-host takes a    *)
(* device only if its busid is in match_busid, a write to bind fails with  *)
(* EBUSY while another driver holds on to the device, a write to unbind    *)
(* waits for an importer's session, and a write to rebind for a device     *)
(* whose stub has no live udev crashes the kernel.                         *)
(***************************************************************************)
EXTENDS Integers, FiniteSets

CONSTANTS
    Devices,       \* busids
    Untouchable,   \* those that are hubs or themselves attached through vhci_hcd
    BindCalls,     \* calls of Bind and Unbind in one process
    RetryAttempts, \* usbipHostBindRetryAttempts
    Free           \* no call

ASSUME BindAssumption ==
    /\ Devices # {}
    /\ Untouchable \subseteq Devices
    /\ RetryAttempts \in Nat \ {0}
    /\ Free \notin BindCalls

VARIABLES
    bdDriver,    \* device -> its driver: "usb", "usbip-host", "none", or "gone" (unplugged)
    bdLive,      \* devices whose stub in usbip-host has a live udev
    bdMatch,     \* the match_busid table
    bdSession,   \* devices with an importer's session
    bdHeld,      \* sessions that outlasted a failed disconnect or began during a call
    bdNetUp,     \* devices with a netdev that is up
    bdOops,      \* rebind was written for a device whose stub has no live udev
    bdLock,      \* device -> the call that holds its mutex
    bdPC,        \* where a call stands
    bdDev,       \* the device of a call
    bdTry,       \* its attempts to write usbip-host/bind
    bdUnbound,   \* its unbind write succeeded
    bdExported,  \* what callers were told: Bind returned nil, no Unbind since
    bdInDoubt,   \* devices for which Unbind failed or a rollback write failed
    bdNoProbe    \* devices for which drivers_probe or rebind failed

bdKernel == <<bdDriver, bdLive, bdMatch, bdSession, bdHeld, bdNetUp, bdOops>>
bdCall   == <<bdPC, bdDev, bdTry, bdUnbound>>
bdTold   == <<bdExported, bdInDoubt, bdNoProbe>>
bdVars   == <<bdKernel, bdLock, bdCall, bdTold>>

Drivers == {"usb", "usbip-host", "none", "gone"}
BdStates == {"idle", "bind", "netdevs", "add", "detach", "attach", "del", "probe",
             "unbind", "sockfd", "release", "unmatch", "rebind"}

(* Besides the types: a mutex is held exactly by the call that works on its device.        *)
BdTypeOK ==
    /\ bdDriver \in [Devices -> Drivers]
    /\ bdLive \subseteq Devices
    /\ bdMatch \subseteq Devices
    /\ bdSession \subseteq Devices /\ bdHeld \subseteq bdSession
    /\ bdNetUp \subseteq Devices
    /\ bdOops \in BOOLEAN
    /\ bdLock \in [Devices -> BindCalls \cup {Free}]
    /\ bdPC \in [BindCalls -> BdStates]
    /\ bdDev \in [BindCalls -> Devices]
    /\ bdTry \in [BindCalls -> 0..RetryAttempts]
    /\ bdUnbound \in [BindCalls -> BOOLEAN]
    /\ bdExported \subseteq Devices
    /\ bdInDoubt \subseteq Devices
    /\ bdNoProbe \subseteq Devices
    /\ \A c \in BindCalls : bdPC[c] # "idle" <=> bdLock[bdDev[c]] = c

BdInit ==
    /\ bdDriver = [b \in Devices |-> "usb"]
    /\ bdLive = {} /\ bdMatch = {} /\ bdSession = {} /\ bdHeld = {}
    /\ bdNetUp = Devices /\ bdOops = FALSE
    /\ bdLock = [b \in Devices |-> Free]
    /\ bdPC = [c \in BindCalls |-> "idle"]
    /\ bdDev = [c \in BindCalls |-> CHOOSE b \in Devices : TRUE]
    /\ bdTry = [c \in BindCalls |-> 0]
    /\ bdUnbound = [c \in BindCalls |-> FALSE]
    /\ bdExported = {} /\ bdInDoubt = {} /\ bdNoProbe = {}

BdGoto(c, pc) == bdPC' = [bdPC EXCEPT ![c] = pc]
Plugged(b) == bdDriver[b] # "gone"

(* stub_probe records the udev, and the stub loses it with the device.                     *)
SetDriver(b, d) ==
    /\ bdDriver' = [bdDriver EXCEPT ![b] = d]
    /\ bdLive' = CASE d = "usbip-host" -> bdLive \cup {b}
                   [] d = "gone" /\ bdDriver[b] = "usbip-host" -> bdLive \ {b}
                   [] OTHER -> bdLive

(* defer mu.Unlock().                                                                      *)
Return(c) ==
    /\ BdGoto(c, "idle")
    /\ bdLock' = [bdLock EXCEPT ![bdDev[c]] = Free]
    /\ bdTry' = [bdTry EXCEPT ![c] = 0]
    /\ bdUnbound' = [bdUnbound EXCEPT ![c] = FALSE]
    /\ UNCHANGED bdDev

(* A call's step that leaves its lock, its counters and what callers know alone.           *)
Continue(c, pc) ==
    /\ BdGoto(c, pc)
    /\ UNCHANGED <<bdLock, bdDev, bdTry, bdUnbound>>

(* lockBusID and the call's first step: mutual exclusion per busid.                        *)
LockBusID(c, b) ==
    /\ bdPC[c] = "idle"
    /\ bdLock[b] = Free
    /\ bdLock' = [bdLock EXCEPT ![b] = c]

CallBind(c, b) ==
    /\ LockBusID(c, b)
    /\ BdGoto(c, "bind")
    /\ bdDev' = [bdDev EXCEPT ![c] = b]
    /\ UNCHANGED <<bdKernel, bdTry, bdUnbound, bdTold>>

CallUnbind(c, b) ==
    /\ LockBusID(c, b)
    /\ BdGoto(c, "unbind")
    /\ bdDev' = [bdDev EXCEPT ![c] = b]
    /\ UNCHANGED <<bdKernel, bdTry, bdUnbound, bdTold>>

-----------------------------------------------------------------------------
(* Bind *)

(* preflightBind lets a call through for a plugged device that is neither a hub nor behind *)
(* vhci_hcd nor exported already.                                                          *)
MayBind(b) == b \notin Untouchable /\ bdDriver[b] \in {"usb", "none"}

PreflightBind(c) ==
    /\ bdPC[c] = "bind"
    /\ \/ MayBind(bdDev[c]) /\ Continue(c, "netdevs")
       \/ Return(c)
    /\ UNCHANGED <<bdKernel, bdTold>>

(* deactivateNetdevs is best effort.                                                       *)
DeactivateNetdevs(c) ==
    /\ bdPC[c] = "netdevs"
    /\ bdNetUp' \in {bdNetUp, bdNetUp \ {bdDev[c]}}
    /\ Continue(c, IF bdTry[c] = 0 THEN "add" ELSE "attach")
    /\ UNCHANGED <<bdDriver, bdLive, bdMatch, bdSession, bdHeld, bdOops, bdTold>>

(* Step 1: match_busid add, a fresh entry whose stub has no udev.                          *)
AddMatch(c) ==
    /\ bdPC[c] = "add"
    /\ \/ /\ bdMatch' = bdMatch \cup {bdDev[c]}
          /\ bdLive' = bdLive \ ({bdDev[c]} \ bdMatch)
          /\ Continue(c, "detach")
       \/ UNCHANGED <<bdMatch, bdLive>> /\ Return(c)
    /\ UNCHANGED <<bdDriver, bdSession, bdHeld, bdNetUp, bdOops, bdTold>>

(* Step 2: unbindCurrentDeviceDriver.  With the driver gone the kernel may probe again, and *)
(* usbip-host wins because the busid is in the table.  If it took a device that was plugged *)
(* in since preflightBind, the write waits for an importer's session.                      *)
DetachDriver(c) ==
    LET b == bdDev[c] IN
    /\ bdPC[c] = "detach"
    /\ \/ /\ bdDriver[b] = "none"
          /\ UNCHANGED <<bdDriver, bdLive>> /\ Continue(c, "attach")
       \/ /\ Plugged(b) /\ bdDriver[b] # "none" /\ b \notin bdNetUp /\ b \notin bdSession
          /\ SetDriver(b, "none") \/ SetDriver(b, "usbip-host")
          /\ Continue(c, "attach")
       \/ UNCHANGED <<bdDriver, bdLive>> /\ Continue(c, "del")
    /\ UNCHANGED <<bdMatch, bdSession, bdHeld, bdNetUp, bdOops, bdTold>>

(* Step 3, bindUSBIPHostWithRetry: the write takes, or is refused for good, or is refused  *)
(* with EBUSY and tried again after a pause in which ctx may end.                          *)
AttachHost(c) ==
    LET b == bdDev[c] IN
    /\ bdPC[c] = "attach"
    /\ \/ /\ Plugged(b) /\ b \in bdMatch
          /\ SetDriver(b, "usbip-host")
          /\ bdExported' = bdExported \cup {b}
          /\ Return(c)
       \/ /\ UNCHANGED <<bdDriver, bdLive, bdExported>>
          /\ Continue(c, "del")
       \/ /\ Plugged(b)
          /\ bdTry[c] + 1 < RetryAttempts
          /\ bdTry' = [bdTry EXCEPT ![c] = @ + 1]
          /\ BdGoto(c, "netdevs")
          /\ UNCHANGED <<bdDriver, bdLive, bdExported, bdLock, bdDev, bdUnbound>>
    /\ UNCHANGED <<bdMatch, bdSession, bdHeld, bdNetUp, bdOops, bdInDoubt, bdNoProbe>>

(* rollbackBind: match_busid del, then drivers_probe, each best effort.                    *)
RollbackMatch(c) ==
    /\ bdPC[c] = "del"
    /\ \/ bdMatch' = bdMatch \ {bdDev[c]} /\ UNCHANGED bdInDoubt
       \/ bdInDoubt' = bdInDoubt \cup {bdDev[c]} /\ UNCHANGED bdMatch
    /\ Continue(c, "probe")
    /\ UNCHANGED <<bdDriver, bdLive, bdSession, bdHeld, bdNetUp, bdOops, bdExported, bdNoProbe>>

(* The driver the kernel picks for a device without one.                                   *)
Picked(b) == IF b \in bdMatch THEN "usbip-host" ELSE "usb"

RollbackProbe_Skipped(c) ==
    /\ bdPC[c] = "probe"
    /\ Return(c)
    /\ UNCHANGED <<bdKernel, bdTold>>

RollbackProbe(c) ==
    LET b == bdDev[c] IN
    /\ bdPC[c] = "probe"
    /\ \/ /\ SetDriver(b, IF bdDriver[b] = "none" THEN Picked(b) ELSE bdDriver[b])
          /\ UNCHANGED bdNoProbe
       \/ /\ bdNoProbe' = bdNoProbe \cup {b}
          /\ UNCHANGED <<bdDriver, bdLive>>
    /\ Return(c)
    /\ UNCHANGED <<bdMatch, bdSession, bdHeld, bdNetUp, bdOops, bdExported, bdInDoubt>>

-----------------------------------------------------------------------------
(* Unbind *)

PreflightUnbind(c) ==
    /\ bdPC[c] = "unbind"
    /\ \/ bdDriver[bdDev[c]] = "usbip-host" /\ Continue(c, "sockfd")
       \/ Return(c)
    /\ UNCHANGED <<bdKernel, bdTold>>

(* Fault: the disconnect is left out.                                                      *)
PreDisconnect_Skipped(c) ==
    /\ bdPC[c] = "sockfd"
    /\ Continue(c, "release")
    /\ UNCHANGED <<bdKernel, bdTold>>

(* usbip_sockfd -1 drops a session.  The write may fail, without one or with one that goes *)
(* on; Unbind goes on either way.                                                          *)
PreDisconnect(c) ==
    LET b == bdDev[c] IN
    /\ bdPC[c] = "sockfd"
    /\ \/ bdSession' = bdSession \ {b} /\ bdHeld' = bdHeld \ {b}
       \/ bdHeld' = bdHeld \cup ({b} \cap bdSession) /\ UNCHANGED bdSession
    /\ Continue(c, "release")
    /\ UNCHANGED <<bdDriver, bdLive, bdMatch, bdNetUp, bdOops, bdTold>>

(* usbip-host/unbind fails at once, or waits for an importer's session and then succeeds   *)
(* or fails.                                                                               *)
ReleaseHost(c) ==
    LET b == bdDev[c] IN
    /\ bdPC[c] = "release"
    /\ \/ /\ bdDriver[b] = "usbip-host" /\ b \notin bdSession
          /\ SetDriver(b, "none")
          /\ bdUnbound' = [bdUnbound EXCEPT ![c] = TRUE]
          /\ UNCHANGED bdInDoubt
       \/ /\ bdInDoubt' = bdInDoubt \cup {b}
          /\ UNCHANGED <<bdDriver, bdLive, bdUnbound>>
    /\ BdGoto(c, "unmatch")
    /\ UNCHANGED <<bdMatch, bdSession, bdHeld, bdNetUp, bdOops, bdLock, bdDev, bdTry,
                   bdExported, bdNoProbe>>

(* match_busid del runs whatever unbind returned; rebind only after a successful unbind.   *)
MayRebind(c) == bdUnbound[c]

RemoveMatch(c) ==
    LET b == bdDev[c] IN
    /\ bdPC[c] = "unmatch"
    /\ \/ bdMatch' = bdMatch \ {b} /\ UNCHANGED bdInDoubt
       \/ bdInDoubt' = bdInDoubt \cup {b} /\ UNCHANGED bdMatch
    /\ IF MayRebind(c)
       THEN Continue(c, "rebind") /\ UNCHANGED bdExported
       ELSE Return(c) /\ bdExported' = bdExported \ {b}
    /\ UNCHANGED <<bdDriver, bdLive, bdSession, bdHeld, bdNetUp, bdOops, bdNoProbe>>

TriggerRebind(c) ==
    LET b == bdDev[c] IN
    /\ bdPC[c] = "rebind"
    /\ bdOops' = (bdOops \/ b \notin bdLive)
    /\ \/ /\ SetDriver(b, IF bdDriver[b] = "none" THEN Picked(b) ELSE bdDriver[b])
          /\ UNCHANGED bdNoProbe
       \/ bdNoProbe' = bdNoProbe \cup {b} /\ UNCHANGED <<bdDriver, bdLive>>
    /\ bdExported' = bdExported \ {b}
    /\ Return(c)
    /\ UNCHANGED <<bdMatch, bdSession, bdHeld, bdNetUp, bdInDoubt>>

-----------------------------------------------------------------------------
(* the world *)

Unplug(b) ==
    /\ Plugged(b)
    /\ SetDriver(b, "gone")
    /\ bdSession' = bdSession \ {b} /\ bdHeld' = bdHeld \ {b}
    /\ UNCHANGED <<bdMatch, bdNetUp, bdOops, bdLock, bdCall, bdTold>>

(* Hot plugging probes; the netdev comes up again.  Enumerating a device takes longer than *)
(* the two writes between a successful unbind and rebind.                                  *)
Plug(b) ==
    /\ ~Plugged(b)
    /\ \A c \in BindCalls : bdDev[c] = b => ~bdUnbound[c]
    /\ SetDriver(b, Picked(b))
    /\ bdNetUp' = bdNetUp \cup {b}
    /\ bdNoProbe' = bdNoProbe \ {b}
    /\ UNCHANGED <<bdMatch, bdSession, bdHeld, bdOops, bdLock, bdCall, bdExported, bdInDoubt>>

(* The daemon hands an importer's socket to usbip-host: ExportOnConn does not take the      *)
(* busid's mutex, so also while a call is beyond its disconnect.                           *)
SessionStarts(b) ==
    /\ bdDriver[b] = "usbip-host"
    /\ b \notin bdSession
    /\ bdSession' = bdSession \cup {b}
    /\ bdHeld' = IF \E c \in BindCalls :
                        bdDev[c] = b /\ bdPC[c] \notin {"idle", "unbind", "sockfd"}
                 THEN bdHeld \cup {b} ELSE bdHeld
    /\ UNCHANGED <<bdDriver, bdLive, bdMatch, bdNetUp, bdOops, bdLock, bdCall, bdTold>>

(* The importer leaves, if ever.                                                           *)
SessionEnds(b) ==
    /\ b \in bdSession
    /\ bdSession' = bdSession \ {b} /\ bdHeld' = bdHeld \ {b}
    /\ UNCHANGED <<bdDriver, bdLive, bdMatch, bdNetUp, bdOops, bdLock, bdCall, bdTold>>

-----------------------------------------------------------------------------
BdStep(c) ==
    \/ PreflightBind(c) \/ DeactivateNetdevs(c) \/ AddMatch(c) \/ DetachDriver(c)
    \/ AttachHost(c) \/ RollbackMatch(c) \/ RollbackProbe(c)
    \/ PreflightUnbind(c) \/ PreDisconnect(c) \/ ReleaseHost(c) \/ RemoveMatch(c)
    \/ TriggerRebind(c)

BdNext ==
    \/ \E c \in BindCalls : \/ BdStep(c)
                            \/ \E b \in Devices : CallBind(c, b) \/ CallUnbind(c, b)
    \/ \E b \in Devices : Unplug(b) \/ Plug(b) \/ SessionStarts(b) \/ SessionEnds(b)

(* A write to a driver's unbind need not return while the device is in a session.          *)
UnbindBlocks(c) == bdPC[c] \in {"detach", "release"} /\ bdDev[c] \in bdSession

(* A call runs on as long as the kernel lets its writes return.                            *)
BdFairness == \A c \in BindCalls : WF_bdVars(~UnbindBlocks(c) /\ BdStep(c))

-----------------------------------------------------------------------------
Quiet(b) == bdLock[b] = Free

(* The match_busid table says what callers were told: an entry is there exactly for the    *)
(* devices whose Bind returned nil and whose Unbind did not follow, through every failing  *)
(* write, retry, rollback and replug, unless a rollback write or Unbind itself failed.     *)
MatchTableIsTrue ==
    \A b \in Devices \ bdInDoubt : Quiet(b) =>
        /\ b \in bdMatch <=> b \in bdExported
        /\ b \in bdExported /\ Plugged(b) => bdDriver[b] = "usbip-host"

(* A call that failed half way does not leave a plugged device without a driver, unless    *)
(* the very write that asks the kernel to probe failed.                                    *)
NoOrphans ==
    \A b \in Devices \ bdNoProbe : Quiet(b) => bdDriver[b] # "none"

(* rebind is never written for a device whose stub has no live udev, on which kernels up   *)
(* to 6.8 crash, whether writes failed or the device was unplugged during the call.        *)
NeverOopses == ~bdOops

(* No call takes the driver of a hub, which would disconnect everything behind it, or of a *)
(* device attached through vhci_hcd.                                                       *)
HubsKeepTheirDriver ==
    [][\A b \in Untouchable : bdDriver'[b] # bdDriver[b] =>
            bdDriver[b] = "gone" \/ bdDriver'[b] = "gone"]_bdVars

(* A call that has the busid's mutex comes back: the retries are bounded, and Unbind drops *)
(* the session that its write to unbind would wait for.  What is left is what Unbind's     *)
(* "can block if the kernel is waiting for an active importer" warns of, and only that: an *)
(* importer whose session the disconnect failed to end or that began after it.             *)
BindCallsReturn ==
    \A c \in BindCalls :
       bdPC[c] # "idle" ~> bdPC[c] = "idle" \/ (UnbindBlocks(c) /\ bdDev[c] \in bdHeld)

(* What Bind and Unbind do to the host's devices, through failing writes, rollback and     *)
(* hotplug: callers were told the truth, and every device has a driver it can live with.   *)
BindIsSafe ==
    /\ [](MatchTableIsTrue /\ NoOrphans /\ NeverOopses)
    /\ HubsKeepTheirDriver
=============================================================================
