----------------------------- MODULE Enumeration -----------------------------
(***************************************************************************)
(* The device list of the exporter (internal/adapter/kernel/device.go):    *)
(* ListLocalDevices reads a directory and then every device attribute by   *)
(* attribute, and ListExportedDevices, which answers OP_REQ_DEVLIST, then  *)
(* asks again, device by device, who drives it and whether it is in use.   *)
(* Devices come, go, are bound, unbound, claimed and released meanwhile.   *)
(***************************************************************************)
EXTENDS Integers, FiniteSets

CONSTANTS
    BusIDs,         \* the bus-id-like names of /sys/bus/usb/devices
    DeviceKinds,    \* what the sysfs attributes of a device may look like
    MaxEnumChanges  \* bound: changes of the bus during one listing

(* "plain"; "unconfigured": empty bConfigurationValue and bNumInterfaces, as usbip-host    *)
(* leaves a device; "partial": interface nodes missing; "garbled": a core attribute out of *)
(* range; "badiface": an interface attribute out of range.                                 *)
ASSUME EnumerationAssumption ==
    /\ DeviceKinds \subseteq {"plain", "unconfigured", "partial", "garbled", "badiface"}
    /\ MaxEnumChanges \in Nat

Gone == [kind |-> "gone", driver |-> "none", used |-> FALSE]

DeviceStates ==
    {Gone} \cup {d \in [kind : DeviceKinds, driver : {"none", "other", "usbip-host"}, used : BOOLEAN] :
                   d.used => d.driver = "usbip-host"}

VARIABLES
    enDev,      \* the device at each bus id
    enChanges,  \* changes so far
    enPC,       \* where the listing stands
    enPending,  \* names of the current pass still to visit
    enAt,       \* the device being read, or the whole pass when idle
    enLocal,    \* what ListLocalDevices returns
    enExported, \* what ListExportedDevices returns
    enSeen      \* per bus id, the states it has been in since the call

enVars == <<enDev, enChanges, enPC, enPending, enAt, enLocal, enExported, enSeen>>
enCall == <<enPC, enPending, enAt, enLocal, enExported>>

NoDevice == {}

(* Besides the types: nothing is exported that was not listed, and no device is both       *)
(* answered for and still waiting.                                                         *)
EnTypeOK ==
    /\ enDev \in [BusIDs -> DeviceStates]
    /\ enChanges \in 0..MaxEnumChanges
    /\ enPC \in {"names", "core", "ifaces", "local", "driver", "status", "done", "failed"}
    /\ enPending \subseteq BusIDs /\ enAt \subseteq BusIDs /\ Cardinality(enAt) <= 1
    /\ enLocal \subseteq BusIDs /\ enExported \subseteq enLocal
    /\ enSeen \in [BusIDs -> SUBSET DeviceStates]
    /\ enPC \in {"core", "ifaces"} => enLocal \cap (enPending \cup enAt) = {}
    /\ enPC \in {"driver", "status"} => enExported \cap (enPending \cup enAt) = {}

EnInitFrom(states) ==
    /\ enDev \in [BusIDs -> states]
    /\ enChanges = 0
    /\ enPC = "names"
    /\ enPending = {} /\ enAt = NoDevice /\ enLocal = {} /\ enExported = {}
    /\ enSeen = [b \in BusIDs |-> {enDev[b]}]

EnInit == EnInitFrom(DeviceStates)

(* The bus moves on: (un)plug, bind, unbind, claim, release.                               *)
BusChanges(b, d) ==
    /\ enPC \notin {"done", "failed"}
    /\ enChanges < MaxEnumChanges
    /\ \/ d = Gone /\ enDev[b] # Gone                                          \* unplug
       \/ enDev[b] = Gone /\ d.driver = "other"                                 \* plug
       \/ d = [enDev[b] EXCEPT !.driver = "usbip-host"] /\ d # enDev[b]         \* bind
       \/ d = [enDev[b] EXCEPT !.driver = "none", !.used = FALSE] /\ d # enDev[b] \* unbind
       \/ d = [enDev[b] EXCEPT !.used = ~@]                                     \* claim, release
    /\ enDev' = [enDev EXCEPT ![b] = d]
    /\ enChanges' = enChanges + 1
    /\ enSeen' = [enSeen EXCEPT ![b] = @ \cup {d}]
    /\ UNCHANGED enCall

-----------------------------------------------------------------------------
(* ListLocalDevices *)

(* ModulesAvailable, then ListDirEntries; either may fail the call.                        *)
ListNames ==
    /\ enPC = "names"
    /\ \/ enPC' = "core" /\ enPending' = {b \in BusIDs : enDev[b] # Gone}
       \/ enPC' = "failed" /\ UNCHANGED enPending
    /\ UNCHANGED <<enDev, enChanges, enSeen, enAt, enLocal, enExported>>

(* readDeviceCore: an attribute missing or out of range fails this device; an empty byte   *)
(* attribute is zero, and the name strings are optional.                                   *)
CoreReadable(d) == d.kind \in {"plain", "unconfigured", "partial", "badiface"}

(* The warn-and-continue of ListLocalDevices.                                              *)
SkipDevice(rest) == enPC' = "core" /\ enAt' = NoDevice /\ enPending' = rest

ReadDeviceCore(b) ==
    /\ enPC = "core"
    /\ b \in enPending
    /\ IF CoreReadable(enDev[b])
       THEN enPC' = "ifaces" /\ enAt' = {b} /\ enPending' = enPending \ {b}
       ELSE SkipDevice(enPending \ {b})
    /\ UNCHANGED <<enDev, enChanges, enSeen, enLocal, enExported>>

(* readInterfaces: missing nodes are skipped, even all of them when the device has just    *)
(* gone; a value out of range fails the device.                                            *)
ReadInterfaces(b) ==
    /\ enPC = "ifaces"
    /\ enAt = {b}
    /\ IF enDev[b].kind = "badiface"
       THEN SkipDevice(enPending) /\ UNCHANGED enLocal
       ELSE /\ enPC' = "core" /\ enAt' = NoDevice
            /\ enLocal' = enLocal \cup {b}
            /\ UNCHANGED enPending
    /\ UNCHANGED <<enDev, enChanges, enSeen, enExported>>

-----------------------------------------------------------------------------
(* ListExportedDevices: the second pass *)

ListedLocal ==
    /\ enPC = "core"
    /\ enPending = {}
    /\ enPC' = "driver" /\ enPending' = enLocal
    /\ UNCHANGED <<enDev, enChanges, enSeen, enAt, enLocal, enExported>>

(* isExportable, first half: currentDriver.                                                *)
DrivenByUs(d) == d.driver = "usbip-host"

CheckDriver(b) ==
    /\ enPC = "driver"
    /\ b \in enPending
    /\ enPending' = enPending \ {b}
    /\ IF DrivenByUs(enDev[b])
       THEN enPC' = "status" /\ enAt' = {b}
       ELSE UNCHANGED <<enPC, enAt>>
    /\ UNCHANGED <<enDev, enChanges, enSeen, enLocal, enExported>>

(* Second half: usbip_status, which only a bound device has.                               *)
StatusIdle_ReadErrorIsIdle(d) == ~d.used
StatusIdle(d) == d.driver = "usbip-host" /\ ~d.used

CheckStatus(b) ==
    /\ enPC = "status"
    /\ enAt = {b}
    /\ enExported' = IF StatusIdle(enDev[b]) THEN enExported \cup {b} ELSE enExported
    /\ enPC' = "driver" /\ enAt' = NoDevice
    /\ UNCHANGED <<enDev, enChanges, enSeen, enPending, enLocal>>

ListedExported ==
    /\ enPC = "driver"
    /\ enPending = {}
    /\ enPC' = "done"
    /\ UNCHANGED <<enDev, enChanges, enSeen, enPending, enAt, enLocal, enExported>>

EnNext ==
    \/ \E b \in BusIDs, d \in DeviceStates : BusChanges(b, d)
    \/ ListNames \/ ListedLocal \/ ListedExported
    \/ \E b \in BusIDs : ReadDeviceCore(b) \/ ReadInterfaces(b) \/ CheckDriver(b) \/ CheckStatus(b)

-----------------------------------------------------------------------------
(* Properties *)

(* A device offered to peers was bound to usbip-host and idle at one moment of the         *)
(* listing: not bound at one and idle at another (isExportable, device.go:158).            *)
OfferedIsHonest ==
    \A b \in enExported : \E d \in enSeen[b] : d.driver = "usbip-host" /\ ~d.used

(* A device that stays bound, idle and readable through the listing is offered, whatever   *)
(* the devices around it do: one unreadable device hides no other (device.go:103), and a   *)
(* device without an active configuration is no exception (readByteAttr).                  *)
OfferedIsComplete ==
    enPC = "done" =>
        \A b \in BusIDs :
            /\ \A d \in enSeen[b] : /\ d.driver = "usbip-host" /\ ~d.used
                                    /\ d.kind \notin {"garbled", "badiface"}
            => b \in enExported

(* The exported list has every device that may be offered and no other, on a changing bus. *)
OfferIsExact == OfferedIsHonest /\ OfferedIsComplete
=============================================================================
