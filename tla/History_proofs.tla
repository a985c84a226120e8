--------------------------- MODULE History_proofs ---------------------------
(***************************************************************************)
(* Proofs about the connection history: whatever processes share the file, *)
(* fail or are killed, no update is lost and no temporary is forgotten.    *)
(***************************************************************************)
EXTENDS History, TLAPS

Inside == {"read", "temp", "write", "rename"}
Holding == {"temp", "write", "rename"}

(* The call's variables are functions; which values they hold does not matter here.        *)
HiFunctions ==
    /\ hiPC \in [Recorders -> {"idle", "flock"} \cup Inside]
    /\ hiHost = [p \in Recorders |-> hiHost[p]]
    /\ hiList = [p \in Recorders |-> hiList[p]]
    /\ hiTemps \subseteq Recorders

(* The inductive invariant: who is inside the update holds the flock, and from its read to *)
(* its rename the list it carries is its host in front of what the file holds now.         *)
HiInv ==
    /\ HiFunctions
    /\ \A p \in Recorders : hiPC[p] \in Inside => hiLock = p
    /\ \A p \in Recorders : hiPC[p] \in Holding => hiList[p] = MRU(hiHost[p], hiFile)

LEMMA HiInitInv == HiInit => HiInv
  BY DEF HiInit, HiInv, HiFunctions, Inside, Holding

(* A call that ends is idle, and the others are where they were.                           *)
LEMMA ReturnFrames ==
  ASSUME HiFunctions, NEW p \in Recorders, HiReturn(p)
  PROVE  /\ hiPC' \in [Recorders -> {"idle", "flock"} \cup Inside]
         /\ hiHost' = [q \in Recorders |-> hiHost'[q]]
         /\ hiList' = [q \in Recorders |-> hiList'[q]]
         /\ hiPC'[p] = "idle"
         /\ \A q \in Recorders \ {p} :
               hiPC'[q] = hiPC[q] /\ hiHost'[q] = hiHost[q] /\ hiList'[q] = hiList[q]
  <1>1. hiPC' = [hiPC EXCEPT ![p] = "idle"] /\ hiPC \in [Recorders -> {"idle", "flock"} \cup Inside]
    BY DEF HiFunctions, HiReturn, HiGoto
  <1>2. PICK h : hiHost' = [hiHost EXCEPT ![p] = h]
    BY DEF HiReturn
  <1>3. hiList' = [hiList EXCEPT ![p] = <<>>]
    BY DEF HiReturn
  <1>4. hiHost = [q \in Recorders |-> hiHost[q]] /\ hiList = [q \in Recorders |-> hiList[q]]
    BY DEF HiFunctions
  <1>5. /\ hiPC' \in [Recorders -> {"idle", "flock"} \cup Inside]
        /\ hiPC'[p] = "idle" /\ \A q \in Recorders \ {p} : hiPC'[q] = hiPC[q]
    BY <1>1
  <1>6. hiHost' = [q \in Recorders |-> hiHost'[q]] /\ \A q \in Recorders \ {p} : hiHost'[q] = hiHost[q]
    BY <1>2, <1>4
  <1>7. hiList' = [q \in Recorders |-> hiList'[q]] /\ \A q \in Recorders \ {p} : hiList'[q] = hiList[q]
    BY <1>3, <1>4
  <1> QED
    BY <1>5, <1>6, <1>7

LEMMA HiNextInv == HiInv /\ [HiNext]_hiVars => HiInv'
  <1> SUFFICES ASSUME HiInv, [HiNext]_hiVars PROVE HiInv'
    OBVIOUS
  <1> USE HistoryAssumption DEF HiInv, HiFunctions, Inside, Holding, HiGoto
  <1>1. ASSUME NEW p \in Recorders, NEW h \in Hosts, RecordHistory(p, h) PROVE HiInv'
    BY <1>1 DEF RecordHistory, HiReturn
  <1>2. ASSUME NEW p \in Recorders, Flock(p) PROVE HiInv'
    BY <1>2 DEF Flock, HiReturn
  <1>3. ASSUME NEW p \in Recorders, ReadForUpdate(p) PROVE HiInv'
    BY <1>3 DEF ReadForUpdate, FinishHistoryLock, HiReturn
  <1>4. ASSUME NEW p \in Recorders, CreateTemp(p) PROVE HiInv'
    BY <1>4 DEF CreateTemp, FinishHistoryLock, HiReturn
  <1>5. ASSUME NEW p \in Recorders, WriteTemp(p) PROVE HiInv'
    BY <1>5 DEF WriteTemp, RemoveTemporary, FinishHistoryLock, HiReturn
  <1>6. ASSUME NEW p \in Recorders, RenameTemp(p) PROVE HiInv'
    <2>1. HiReturn(p) /\ hiPC[p] = "rename" /\ hiTemps' \subseteq hiTemps
      BY <1>6 DEF RenameTemp, FinishHistoryLock, RemoveTemporary
    <2>2. \A q \in Recorders \ {p} : hiPC[q] \notin Inside
      BY <2>1
    <2> QED
      BY <2>1, <2>2, ReturnFrames
  <1>7. ASSUME NEW p \in Recorders, Killed(p) PROVE HiInv'
    <2>1. HiReturn(p) /\ UNCHANGED <<hiFile, hiTemps>>
      BY <1>7 DEF Killed
    <2>2. \A q \in Recorders \ {p} : hiPC[q] \in Inside => hiLock' = q
      BY <1>7 DEF Killed
    <2> QED
      BY <2>1, <2>2, ReturnFrames
  <1>8. CASE UNCHANGED hiVars
    BY <1>8 DEF hiVars
  <1> QED
    BY <1>1, <1>2, <1>3, <1>4, <1>5, <1>6, <1>7, <1>8 DEF HiNext, HiStep

(* The exclusion that the update rests on: at most one process between flock and unlock.   *)
THEOREM UpdatesExclude == HiSpec => []HiInv
  BY HiInitInv, HiNextInv, PTL DEF HiSpec

(* A change of the file is some process's host moved to the front of what the file held    *)
(* right before, whoever else was recording, failing or killed (withHistoryLockOps around  *)
(* updateHistoryFileOps).                                                                  *)
THEOREM NoUpdateIsLost == HiSpec => NoLostUpdate
  <1>1. HiInv /\ [HiNext]_hiVars
          => [hiFile' # hiFile => \E p \in Recorders : hiPC[p] = "rename"
                                                       /\ hiFile' = MRU(hiHost[p], hiFile)]_hiVars
    <2> SUFFICES ASSUME HiInv, HiNext, hiFile' # hiFile
                 PROVE  \E p \in Recorders : hiPC[p] = "rename" /\ hiFile' = MRU(hiHost[p], hiFile)
      BY DEF hiVars
    <2>1. PICK p \in Recorders : RenameTemp(p)
      BY DEF HiNext, HiStep, Flock, ReadForUpdate, CreateTemp, WriteTemp, Killed, RecordHistory
    <2>2. hiPC[p] = "rename" /\ hiFile' = hiList[p]
      BY <2>1 DEF RenameTemp
    <2> QED
      BY <2>2 DEF HiInv, Holding
  <1> QED
    BY <1>1, UpdatesExclude, PTL DEF HiSpec, NoLostUpdate

(* A failed update leaves no temporary behind, save one whose removal failed or whose      *)
(* owner was killed (finishHistoryTemporary, removeHistoryTemporary).                      *)
THEOREM TemporariesGo == HiSpec => []TemporariesAreRemoved
  <1>1. HiInit => TemporariesAreRemoved
    BY DEF HiInit, TemporariesAreRemoved
  <1>2. HiInv /\ TemporariesAreRemoved /\ [HiNext]_hiVars => TemporariesAreRemoved'
    <2> SUFFICES ASSUME HiInv, TemporariesAreRemoved, [HiNext]_hiVars
                 PROVE  TemporariesAreRemoved'
      OBVIOUS
    <2> USE DEF HiInv, HiFunctions, Inside, TemporariesAreRemoved, HiGoto, HiReturn
    <2>1. ASSUME NEW p \in Recorders, HiStep(p) PROVE TemporariesAreRemoved'
      BY <2>1 DEF HiStep, Flock, ReadForUpdate, CreateTemp, WriteTemp, RenameTemp,
                  RemoveTemporary, FinishHistoryLock
    <2>2. ASSUME NEW p \in Recorders, Killed(p) PROVE TemporariesAreRemoved'
      BY <2>2 DEF Killed
    <2>3. ASSUME NEW p \in Recorders, NEW h \in Hosts, RecordHistory(p, h)
          PROVE  TemporariesAreRemoved'
      BY <2>3 DEF RecordHistory
    <2>4. CASE UNCHANGED hiVars
      BY <2>4 DEF hiVars
    <2> QED
      BY <2>1, <2>2, <2>3, <2>4 DEF HiNext
  <1> QED
    BY <1>1, <1>2, UpdatesExclude, PTL DEF HiSpec

(* Both together: what the history run checks, for every number of processes, hosts and    *)
(* every cap.                                                                              *)
THEOREM HistoryKept == HiSpec => HistoryIsKept
  BY NoUpdateIsLost, TemporariesGo, PTL DEF HistoryIsKept
=============================================================================
