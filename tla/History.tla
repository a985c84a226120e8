------------------------------ MODULE History ------------------------------
(***************************************************************************)
(* The connection history (cmd/usbip-go/history.go): a most-recently-used  *)
(* list of hosts in a file which any number of usbip-go processes rewrite. *)
(* recordHistory reads, changes and replaces the file under a sidecar      *)
(* flock; completion reads it without one.  Every storage operation may    *)
(* fail, and a process may be killed between any two of them, which gives  *)
(* its flock back and leaves its temporary file behind.                    *)
(***************************************************************************)
EXTENDS Naturals, Sequences, SequencesExt

CONSTANTS
    Hosts,      \* what users connect to
    Recorders,  \* processes that run recordHistory, one call after the other
    HistoryCap, \* historyCap
    Nobody      \* no holder of the flock

ASSUME HistoryAssumption ==
    /\ Hosts # {}
    /\ HistoryCap \in Nat \ {0}
    /\ Nobody \notin Recorders

VARIABLES
    hiFile,  \* the list in the history file; <<>> also stands for no file
    hiLock,  \* who holds the flock
    hiPC,    \* where a recorder stands
    hiHost,  \* the host it records
    hiList,  \* the list it has read, then the one it writes
    hiTemps, \* recorders whose temporary file exists
    hiLeft   \* recorders that were killed, or could not remove their temporary

hiVars == <<hiFile, hiLock, hiPC, hiHost, hiList, hiTemps, hiLeft>>

Histories == BoundedSeq(Hosts, HistoryCap)

HiInit ==
    /\ hiFile = <<>>
    /\ hiLock = Nobody
    /\ hiPC = [p \in Recorders |-> "idle"]
    /\ hiHost = [p \in Recorders |-> CHOOSE h \in Hosts : TRUE]
    /\ hiList = [p \in Recorders |-> <<>>]
    /\ hiTemps = {}
    /\ hiLeft = {}

HiGoto(p, pc) == hiPC' = [hiPC EXCEPT ![p] = pc]

(* The call ends, and its variables with it.                                               *)
HiReturn(p) ==
    /\ HiGoto(p, "idle")
    /\ hiHost' = [hiHost EXCEPT ![p] = CHOOSE h \in Hosts : TRUE]
    /\ hiList' = [hiList EXCEPT ![p] = <<>>]

(* slices.DeleteFunc: the entries other than the host, in their order.                     *)
Without(host, list) ==
    FlattenSeq([i \in 1..Len(list) |-> IF list[i] = host THEN << >> ELSE <<list[i]>>])

(* The MRU transform of updateHistoryFileOps: host first, no duplicates, at most the cap.  *)
MRU(host, list) ==
    LET entries == <<host>> \o Without(host, list)
    IN  IF Len(entries) > HistoryCap THEN SubSeq(entries, 1, HistoryCap) ELSE entries

-----------------------------------------------------------------------------
(* recordHistory: makes the directory, then opens and chmods the lock file; any of them    *)
(* may fail, which ends the call before it holds anything.                                 *)
RecordHistory(p, h) ==
    /\ hiPC[p] = "idle"
    /\ \/ /\ hiHost' = [hiHost EXCEPT ![p] = h]
          /\ HiGoto(p, "flock")
          /\ UNCHANGED hiList
       \/ HiReturn(p)
    /\ UNCHANGED <<hiFile, hiLock, hiTemps, hiLeft>>

(* flock(LOCK_EX) waits for the holder; it may also fail (EINTR), and the call ends.       *)
Flock_Shared(p) ==
    /\ hiPC[p] = "flock"
    /\ HiGoto(p, "read")
    /\ hiLock' = p
    /\ UNCHANGED <<hiFile, hiHost, hiList, hiTemps, hiLeft>>

Flock(p) ==
    /\ hiPC[p] = "flock"
    /\ \/ /\ hiLock = Nobody
          /\ hiLock' = p
          /\ HiGoto(p, "read")
          /\ UNCHANGED <<hiHost, hiList>>
       \/ /\ HiReturn(p)
          /\ UNCHANGED hiLock
    /\ UNCHANGED <<hiFile, hiTemps, hiLeft>>

(* finishHistoryLock, on every way out of the update.                                      *)
FinishHistoryLock(p) ==
    /\ HiReturn(p)
    /\ hiLock' = Nobody

(* updateHistoryFileOps up to the write: a missing file reads as empty, any other failure  *)
(* to open, chmod, scan or close ends the update.                                          *)
ReadForUpdate(p) ==
    /\ hiPC[p] = "read"
    /\ \/ /\ hiList' = [hiList EXCEPT ![p] = MRU(hiHost[p], hiFile)]
          /\ HiGoto(p, "temp")
          /\ UNCHANGED <<hiLock, hiHost>>
       \/ FinishHistoryLock(p)
    /\ UNCHANGED <<hiFile, hiTemps, hiLeft>>

(* createTemp, under a fresh name: what an earlier process of this name left is forgotten. *)
CreateTemp(p) ==
    /\ hiPC[p] = "temp"
    /\ \/ /\ hiTemps' = hiTemps \cup {p}
          /\ hiLeft' = hiLeft \ {p}
          /\ HiGoto(p, "write")
          /\ UNCHANGED <<hiLock, hiHost, hiList>>
       \/ /\ FinishHistoryLock(p)
          /\ UNCHANGED <<hiTemps, hiLeft>>
    /\ UNCHANGED hiFile

(* removeHistoryTemporary and finishHistoryTemporary: the temporary goes, unless the       *)
(* removal itself fails.                                                                   *)
RemoveTemporary(p) ==
    \/ hiTemps' = hiTemps \ {p} /\ UNCHANGED hiLeft
    \/ hiLeft' = hiLeft \cup {p} /\ UNCHANGED hiTemps

(* chmod, write and close of the temporary.                                                *)
WriteTemp(p) ==
    /\ hiPC[p] = "write"
    /\ \/ /\ HiGoto(p, "rename")
          /\ UNCHANGED <<hiLock, hiHost, hiList, hiTemps, hiLeft>>
       \/ /\ RemoveTemporary(p)
          /\ FinishHistoryLock(p)
    /\ UNCHANGED hiFile

(* rename replaces the file in one step, or fails and replaces nothing.                    *)
RenameTemp(p) ==
    /\ hiPC[p] = "rename"
    /\ \/ /\ hiFile' = hiList[p]
          /\ hiTemps' = hiTemps \ {p}
          /\ UNCHANGED hiLeft
       \/ /\ RemoveTemporary(p)
          /\ UNCHANGED hiFile
    /\ FinishHistoryLock(p)

(* The process is killed: the kernel drops its flock, nobody removes its temporary.  A new *)
(* process takes its name.                                                                 *)
Killed(p) ==
    /\ hiPC[p] # "idle"
    /\ HiReturn(p)
    /\ hiLock' = IF hiLock = p THEN Nobody ELSE hiLock
    /\ hiLeft' = hiLeft \cup (hiTemps \cap {p})
    /\ UNCHANGED <<hiFile, hiTemps>>

HiStep(p) == Flock(p) \/ ReadForUpdate(p) \/ CreateTemp(p) \/ WriteTemp(p) \/ RenameTemp(p)

HiNext ==
    \E p \in Recorders : \/ HiStep(p)
                         \/ Killed(p)
                         \/ \E h \in Hosts : RecordHistory(p, h)

HiSpec == HiInit /\ [][HiNext]_hiVars

(* Each process runs, and whoever waits for the flock is granted it if it is free again    *)
(* and again: the call need not fail to come back.                                         *)
HiFairness ==
    \A p \in Recorders :
        /\ WF_hiVars(ReadForUpdate(p) \/ CreateTemp(p) \/ WriteTemp(p) \/ RenameTemp(p))
        /\ SF_hiVars(Flock(p) /\ hiLock' = p)

-----------------------------------------------------------------------------
(* Besides the types: what any reader finds in the file, at any moment, is a list without  *)
(* duplicates within the cap.                                                              *)
HiTypeOK ==
    /\ hiFile \in Histories /\ IsInjective(hiFile)
    /\ hiLock \in Recorders \cup {Nobody}
    /\ hiPC \in [Recorders -> {"idle", "flock", "read", "temp", "write", "rename"}]
    /\ hiHost \in [Recorders -> Hosts]
    /\ hiList \in [Recorders -> Histories]
    /\ hiTemps \subseteq Recorders
    /\ hiLeft \subseteq Recorders

(* No update is lost and none is torn: whatever processes run, fail or are killed          *)
(* meanwhile, the file changes only by moving a host some process is recording to the      *)
(* front of what the file holds at that very moment.                                       *)
NoLostUpdate ==
    [][hiFile' # hiFile => \E p \in Recorders : hiPC[p] = "rename"
                                                /\ hiFile' = MRU(hiHost[p], hiFile)]_hiVars

(* A failed update cleans up after itself: outside the locked section a temporary is left  *)
(* only by a killed process or by a removal that failed.                                   *)
TemporariesAreRemoved ==
    \A p \in hiTemps \ hiLeft : hiPC[p] \in {"write", "rename"}

(* recordHistory comes back, whatever became of the others that held the lock.             *)
RecordersReturn == \A p \in Recorders : hiPC[p] # "idle" ~> hiPC[p] = "idle"

(* The history of concurrent processes: no update is lost, no temporary is left behind.    *)
HistoryIsKept == NoLostUpdate /\ []TemporariesAreRemoved
=============================================================================
