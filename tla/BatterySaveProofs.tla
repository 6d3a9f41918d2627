------------------------- MODULE BatterySaveProofs --------------------------
(***************************************************************************)
(* What holds of BatterySave for any number of sessions, exporters and RAM *)
(* images and any number of crashes: the type invariant, and the inductive *)
(* invariant IInv that exclusion, wholeness and the register rest on.      *)
(***************************************************************************)
EXTENDS BatterySave, TLAPS

(* While an actor writes, the sidecar still holds what it compared.        *)
Replacing == {"create", "write", "sync", "rename"}
Compared ==
  \A a \in Actors : pc[a] \in Replacing =>
    /\ dir["save"].data = base[a]
    /\ target[a] = "save.bak" => Exists(dir["save"])

(* The temporary file is complete before it is renamed.                    *)
TmpComplete ==
  \A a \in Actors :
    /\ pc[a] \in {"sync", "rename"} => dir[Tmp(a)].data = Bytes(a)
    /\ pc[a] = "rename" => dir[Tmp(a)].synced

(* A transaction that succeeded left its RAM in the sidecar.               *)
Stored ==
  \A a \in Actors : pc[a] = "unlock" /\ ok[a] => dir["save"].data = ram[a]

IInv ==
  /\ TypeOK
  /\ MutualExclusion
  /\ SaveIsWhole
  /\ Compared
  /\ TmpComplete
  /\ Stored

USE DEF Names, Targets, Outside, Locked, Replacing

(* IInv holds before any process opens the save.                           *)
LEMMA InitIInv == Init => IInv
  <1> SUFFICES ASSUME Init PROVE IInv
    OBVIOUS
  <1> PICK c \in Contents \cup {NoFile} :
         dir = [n \in Names |-> IF n = "save" THEN [data |-> c, synced |-> TRUE] ELSE Absent]
    BY DEF Init
  <1>1. TypeOK
    BY BoundAssumption DEF Init, TypeOK, Files, Absent
  <1>2. MutualExclusion /\ Compared /\ TmpComplete /\ Stored
    BY DEF Init, MutualExclusion, HoldsLock, Compared, TmpComplete, Stored
  <1>3. SaveIsWhole
    BY DEF Init, SaveIsWhole, Whole, Absent
  <1> QED
    BY <1>1, <1>2, <1>3 DEF IInv

-----------------------------------------------------------------------------
(* Every step preserves the invariant: one lemma per action.               *)

(* The game writes RAM outside of transactions.                            *)
LEMMA PlayIInv ==
  ASSUME IInv, NEW a \in Actors, Play(a) PROVE IInv'
  <1> USE DEF IInv, TypeOK, Files, Absent, Created, files, locals, baselines, Play
  <1>1. TypeOK'
    BY BoundAssumption DEF Compared, Bytes, Tmp, TmpOf, Exists, SaveIsWhole, Whole, ReleaseBase
  <1>2. MutualExclusion'
    BY ContentsAssumption DEF MutualExclusion, HoldsLock, Exists, Tmp, TmpOf
  <1>3. SaveIsWhole'
    BY ContentsAssumption DEF SaveIsWhole, Whole, TmpComplete, Compared, Tmp, TmpOf, Bytes, Exists
  <1>4. Compared'
    BY ContentsAssumption DEF Compared, Tmp, TmpOf, MutualExclusion, HoldsLock, Exists
  <1>5. TmpComplete'
    BY ContentsAssumption DEF TmpComplete, Tmp, TmpOf, Bytes, MutualExclusion, HoldsLock, Exists, Compared
  <1>6. Stored'
    BY ContentsAssumption DEF Stored, MutualExclusion, HoldsLock, Exists, Tmp, TmpOf, TmpComplete, Bytes
  <1> QED
    BY <1>1, <1>2, <1>3, <1>4, <1>5, <1>6

(* An opened session agrees with the file.                                 *)
LEMMA OpenIInv ==
  ASSUME IInv, NEW a \in Actors, Open(a) PROVE IInv'
  <1> USE DEF IInv, TypeOK, Files, Absent, Created, files, locals, baselines, Open, Exists
  <1>1. TypeOK'
    BY BoundAssumption DEF Compared, Bytes, Tmp, TmpOf, Exists, SaveIsWhole, Whole, ReleaseBase
  <1>2. MutualExclusion'
    BY ContentsAssumption DEF MutualExclusion, HoldsLock, Exists, Tmp, TmpOf
  <1>3. SaveIsWhole'
    BY ContentsAssumption DEF SaveIsWhole, Whole, TmpComplete, Compared, Tmp, TmpOf, Bytes, Exists
  <1>4. Compared'
    BY ContentsAssumption DEF Compared, Tmp, TmpOf, MutualExclusion, HoldsLock, Exists
  <1>5. TmpComplete'
    BY ContentsAssumption DEF TmpComplete, Tmp, TmpOf, Bytes, MutualExclusion, HoldsLock, Exists, Compared
  <1>6. Stored'
    BY ContentsAssumption DEF Stored, MutualExclusion, HoldsLock, Exists, Tmp, TmpOf, TmpComplete, Bytes
  <1> QED
    BY <1>1, <1>2, <1>3, <1>4, <1>5, <1>6

(* A flush asks for the lock.                                              *)
LEMMA FlushIInv ==
  ASSUME IInv, NEW a \in Actors, Flush(a) PROVE IInv'
  <1> USE DEF IInv, TypeOK, Files, Absent, Created, files, locals, baselines, Flush, Enter
  <1>1. TypeOK'
    BY BoundAssumption DEF Compared, Bytes, Tmp, TmpOf, Exists, SaveIsWhole, Whole, ReleaseBase
  <1>2. MutualExclusion'
    BY ContentsAssumption DEF MutualExclusion, HoldsLock, Exists, Tmp, TmpOf
  <1>3. SaveIsWhole'
    BY ContentsAssumption DEF SaveIsWhole, Whole, TmpComplete, Compared, Tmp, TmpOf, Bytes, Exists
  <1>4. Compared'
    BY ContentsAssumption DEF Compared, Tmp, TmpOf, MutualExclusion, HoldsLock, Exists
  <1>5. TmpComplete'
    BY ContentsAssumption DEF TmpComplete, Tmp, TmpOf, Bytes, MutualExclusion, HoldsLock, Exists, Compared
  <1>6. Stored'
    BY ContentsAssumption DEF Stored, MutualExclusion, HoldsLock, Exists, Tmp, TmpOf, TmpComplete, Bytes
  <1> QED
    BY <1>1, <1>2, <1>3, <1>4, <1>5, <1>6

(* An exporter remembers the file and asks for the lock.                   *)
LEMMA ExportIInv ==
  ASSUME IInv, NEW a \in Actors, Export(a) PROVE IInv'
  <1> USE DEF IInv, TypeOK, Files, Absent, Created, files, locals, baselines, Export, Enter
  <1>1. TypeOK'
    BY BoundAssumption DEF Compared, Bytes, Tmp, TmpOf, Exists, SaveIsWhole, Whole, ReleaseBase
  <1>2. MutualExclusion'
    BY ContentsAssumption DEF MutualExclusion, HoldsLock, Exists, Tmp, TmpOf
  <1>3. SaveIsWhole'
    BY ContentsAssumption DEF SaveIsWhole, Whole, TmpComplete, Compared, Tmp, TmpOf, Bytes, Exists
  <1>4. Compared'
    BY ContentsAssumption DEF Compared, Tmp, TmpOf, MutualExclusion, HoldsLock, Exists
  <1>5. TmpComplete'
    BY ContentsAssumption DEF TmpComplete, Tmp, TmpOf, Bytes, MutualExclusion, HoldsLock, Exists, Compared
  <1>6. Stored'
    BY ContentsAssumption DEF Stored, MutualExclusion, HoldsLock, Exists, Tmp, TmpOf, TmpComplete, Bytes
  <1> QED
    BY <1>1, <1>2, <1>3, <1>4, <1>5, <1>6

(* Whoever takes the lock is the only owner.                               *)
LEMMA AcquireLockIInv ==
  ASSUME IInv, NEW a \in Actors, AcquireLock(a) PROVE IInv'
  <1> USE DEF IInv, TypeOK, Files, Absent, Created, files, locals, baselines, AcquireLock
  <1>1. TypeOK'
    BY BoundAssumption DEF Compared, Bytes, Tmp, TmpOf, Exists, SaveIsWhole, Whole, ReleaseBase
  <1>2. MutualExclusion'
    BY ContentsAssumption DEF MutualExclusion, HoldsLock, Exists, Tmp, TmpOf
  <1>3. SaveIsWhole'
    BY ContentsAssumption DEF SaveIsWhole, Whole, TmpComplete, Compared, Tmp, TmpOf, Bytes, Exists
  <1>4. Compared'
    BY ContentsAssumption DEF Compared, Tmp, TmpOf, MutualExclusion, HoldsLock, Exists
  <1>5. TmpComplete'
    BY ContentsAssumption DEF TmpComplete, Tmp, TmpOf, Bytes, MutualExclusion, HoldsLock, Exists, Compared
  <1>6. Stored'
    BY ContentsAssumption DEF Stored, MutualExclusion, HoldsLock, Exists, Tmp, TmpOf, TmpComplete, Bytes
  <1> QED
    BY <1>1, <1>2, <1>3, <1>4, <1>5, <1>6

(* A refused call returns with nothing changed.                            *)
LEMMA LockRefusedIInv ==
  ASSUME IInv, NEW a \in Actors, LockRefused(a) PROVE IInv'
  <1> USE DEF IInv, TypeOK, Files, Absent, Created, files, locals, baselines, LockRefused, Return, ReleaseBase, ReleaseLocals
  <1>1. TypeOK'
    BY BoundAssumption DEF Compared, Bytes, Tmp, TmpOf, Exists, SaveIsWhole, Whole, ReleaseBase
  <1>2. MutualExclusion'
    BY ContentsAssumption DEF MutualExclusion, HoldsLock, Exists, Tmp, TmpOf
  <1>3. SaveIsWhole'
    BY ContentsAssumption DEF SaveIsWhole, Whole, TmpComplete, Compared, Tmp, TmpOf, Bytes, Exists
  <1>4. Compared'
    BY ContentsAssumption DEF Compared, Tmp, TmpOf, MutualExclusion, HoldsLock, Exists
  <1>5. TmpComplete'
    BY ContentsAssumption DEF TmpComplete, Tmp, TmpOf, Bytes, MutualExclusion, HoldsLock, Exists, Compared
  <1>6. Stored'
    BY ContentsAssumption DEF Stored, MutualExclusion, HoldsLock, Exists, Tmp, TmpOf, TmpComplete, Bytes
  <1> QED
    BY <1>1, <1>2, <1>3, <1>4, <1>5, <1>6

(* From the comparison on, the file is what the caller expects.            *)
LEMMA CheckIInv ==
  ASSUME IInv, NEW a \in Actors, Check(a) PROVE IInv'
  <1> USE DEF IInv, TypeOK, Files, Absent, Created, files, locals, baselines, Check, Finish
  <1>1. TypeOK'
    BY BoundAssumption DEF Compared, Bytes, Tmp, TmpOf, Exists, SaveIsWhole, Whole, ReleaseBase
  <1>2. MutualExclusion'
    BY ContentsAssumption DEF MutualExclusion, HoldsLock, Exists, Tmp, TmpOf
  <1>3. SaveIsWhole'
    BY ContentsAssumption DEF SaveIsWhole, Whole, TmpComplete, Compared, Tmp, TmpOf, Bytes, Exists
  <1>4. Compared'
    BY ContentsAssumption DEF Compared, Tmp, TmpOf, MutualExclusion, HoldsLock, Exists
  <1>5. TmpComplete'
    BY ContentsAssumption DEF TmpComplete, Tmp, TmpOf, Bytes, MutualExclusion, HoldsLock, Exists, Compared
  <1>6. Stored'
    BY ContentsAssumption DEF Stored, MutualExclusion, HoldsLock, Exists, Tmp, TmpOf, TmpComplete, Bytes
  <1> QED
    BY <1>1, <1>2, <1>3, <1>4, <1>5, <1>6

(* The temporary file belongs to the owner of the lock.                    *)
LEMMA CreateTmpIInv ==
  ASSUME IInv, NEW a \in Actors, CreateTmp(a) PROVE IInv'
  <1> USE DEF IInv, TypeOK, Files, Absent, Created, files, locals, baselines, CreateTmp
  <1>1. TypeOK'
    BY BoundAssumption DEF Compared, Bytes, Tmp, TmpOf, Exists, SaveIsWhole, Whole, ReleaseBase
  <1>2. MutualExclusion'
    BY ContentsAssumption DEF MutualExclusion, HoldsLock, Exists, Tmp, TmpOf
  <1>3. SaveIsWhole'
    BY ContentsAssumption DEF SaveIsWhole, Whole, TmpComplete, Compared, Tmp, TmpOf, Bytes, Exists
  <1>4. Compared'
    BY ContentsAssumption DEF Compared, Tmp, TmpOf, MutualExclusion, HoldsLock, Exists
  <1>5. TmpComplete'
    BY ContentsAssumption DEF TmpComplete, Tmp, TmpOf, Bytes, MutualExclusion, HoldsLock, Exists, Compared
  <1>6. Stored'
    BY ContentsAssumption DEF Stored, MutualExclusion, HoldsLock, Exists, Tmp, TmpOf, TmpComplete, Bytes
  <1> QED
    BY <1>1, <1>2, <1>3, <1>4, <1>5, <1>6

(* It holds the whole image.                                               *)
LEMMA WriteTmpIInv ==
  ASSUME IInv, NEW a \in Actors, WriteTmp(a) PROVE IInv'
  <1> USE DEF IInv, TypeOK, Files, Absent, Created, files, locals, baselines, WriteTmp
  <1>1. TypeOK'
    BY BoundAssumption DEF Compared, Bytes, Tmp, TmpOf, Exists, SaveIsWhole, Whole, ReleaseBase
  <1>2. MutualExclusion'
    BY ContentsAssumption DEF MutualExclusion, HoldsLock, Exists, Tmp, TmpOf
  <1>3. SaveIsWhole'
    BY ContentsAssumption DEF SaveIsWhole, Whole, TmpComplete, Compared, Tmp, TmpOf, Bytes, Exists
  <1>4. Compared'
    BY ContentsAssumption DEF Compared, Tmp, TmpOf, MutualExclusion, HoldsLock, Exists
  <1>5. TmpComplete'
    BY ContentsAssumption DEF TmpComplete, Tmp, TmpOf, Bytes, MutualExclusion, HoldsLock, Exists, Compared
  <1>6. Stored'
    BY ContentsAssumption DEF Stored, MutualExclusion, HoldsLock, Exists, Tmp, TmpOf, TmpComplete, Bytes
  <1> QED
    BY <1>1, <1>2, <1>3, <1>4, <1>5, <1>6

(* It is synced.                                                           *)
LEMMA SyncTmpIInv ==
  ASSUME IInv, NEW a \in Actors, SyncTmp(a) PROVE IInv'
  <1> USE DEF IInv, TypeOK, Files, Absent, Created, files, locals, baselines, SyncTmp
  <1>1. TypeOK'
    <2>1. Tmp(a) \in Names
      BY DEF Tmp, TmpOf
    <2>2. dir[Tmp(a)] \in Files
      BY <2>1
    <2>3. [dir[Tmp(a)] EXCEPT !.synced = TRUE] \in Files
      BY <2>2
    <2>4. dir' \in [Names -> Files]
      BY <2>1, <2>3
    <2> QED
      BY <2>4
  <1>2. MutualExclusion'
    BY ContentsAssumption DEF MutualExclusion, HoldsLock, Exists, Tmp, TmpOf
  <1>3. SaveIsWhole'
    BY ContentsAssumption DEF SaveIsWhole, Whole, TmpComplete, Compared, Tmp, TmpOf, Bytes, Exists
  <1>4. Compared'
    BY ContentsAssumption DEF Compared, Tmp, TmpOf, MutualExclusion, HoldsLock, Exists
  <1>5. TmpComplete'
    BY ContentsAssumption DEF TmpComplete, Tmp, TmpOf, Bytes, MutualExclusion, HoldsLock, Exists, Compared
  <1>6. Stored'
    BY ContentsAssumption DEF Stored, MutualExclusion, HoldsLock, Exists, Tmp, TmpOf, TmpComplete, Bytes
  <1> QED
    BY <1>1, <1>2, <1>3, <1>4, <1>5, <1>6

(* Only a whole, synced file is renamed.                                   *)
LEMMA RenameIInv ==
  ASSUME IInv, NEW a \in Actors, Rename(a) PROVE IInv'
  <1> USE DEF IInv, TypeOK, Files, Absent, Created, files, locals, baselines, Rename, Finish
  <1>1. TypeOK'
    BY BoundAssumption DEF Compared, Bytes, Tmp, TmpOf, Exists, SaveIsWhole, Whole, ReleaseBase
  <1>2. MutualExclusion'
    BY ContentsAssumption DEF MutualExclusion, HoldsLock, Exists, Tmp, TmpOf
  <1>3. SaveIsWhole'
    BY ContentsAssumption DEF SaveIsWhole, Whole, TmpComplete, Compared, Tmp, TmpOf, Bytes, Exists
  <1>4. Compared'
    BY ContentsAssumption DEF Compared, Tmp, TmpOf, MutualExclusion, HoldsLock, Exists
  <1>5. TmpComplete'
    BY ContentsAssumption DEF TmpComplete, Tmp, TmpOf, Bytes, MutualExclusion, HoldsLock, Exists, Compared
  <1>6. Stored'
    BY ContentsAssumption DEF Stored, MutualExclusion, HoldsLock, Exists, Tmp, TmpOf, TmpComplete, Bytes
  <1> QED
    BY <1>1, <1>2, <1>3, <1>4, <1>5, <1>6

(* A failed create touches no file.                                        *)
LEMMA CreateFailsIInv ==
  ASSUME IInv, NEW a \in Actors, CreateFails(a) PROVE IInv'
  <1> USE DEF IInv, TypeOK, Files, Absent, Created, files, locals, baselines, CreateFails, Finish
  <1>1. TypeOK'
    BY BoundAssumption DEF Compared, Bytes, Tmp, TmpOf, Exists, SaveIsWhole, Whole, ReleaseBase
  <1>2. MutualExclusion'
    BY ContentsAssumption DEF MutualExclusion, HoldsLock, Exists, Tmp, TmpOf
  <1>3. SaveIsWhole'
    BY ContentsAssumption DEF SaveIsWhole, Whole, TmpComplete, Compared, Tmp, TmpOf, Bytes, Exists
  <1>4. Compared'
    BY ContentsAssumption DEF Compared, Tmp, TmpOf, MutualExclusion, HoldsLock, Exists
  <1>5. TmpComplete'
    BY ContentsAssumption DEF TmpComplete, Tmp, TmpOf, Bytes, MutualExclusion, HoldsLock, Exists, Compared
  <1>6. Stored'
    BY ContentsAssumption DEF Stored, MutualExclusion, HoldsLock, Exists, Tmp, TmpOf, TmpComplete, Bytes
  <1> QED
    BY <1>1, <1>2, <1>3, <1>4, <1>5, <1>6

(* A failed write touches only the temporary file.                         *)
LEMMA WriteFailsIInv ==
  ASSUME IInv, NEW a \in Actors, WriteFails(a) PROVE IInv'
  <1> USE DEF IInv, TypeOK, Files, Absent, Created, files, locals, baselines, WriteFails, Finish
  <1>1. TypeOK'
    <2>1. Tmp(a) \in Names
      BY DEF Tmp, TmpOf
    <2>2. Absent \in Files
      OBVIOUS
    <2> HIDE DEF Files, Absent
    <2>3. accidents' \in 0 .. MaxAccidents
      BY BoundAssumption
    <2>4. dir' \in [Names -> Files]
      BY <2>1, <2>2
    <2> QED
      BY <2>3, <2>4
  <1>2. MutualExclusion'
    BY ContentsAssumption DEF MutualExclusion, HoldsLock, Exists, Tmp, TmpOf
  <1>3. SaveIsWhole'
    BY ContentsAssumption DEF SaveIsWhole, Whole, TmpComplete, Compared, Tmp, TmpOf, Bytes, Exists
  <1>4. Compared'
    BY ContentsAssumption DEF Compared, Tmp, TmpOf, MutualExclusion, HoldsLock, Exists
  <1>5. TmpComplete'
    BY ContentsAssumption DEF TmpComplete, Tmp, TmpOf, Bytes, MutualExclusion, HoldsLock, Exists, Compared
  <1>6. Stored'
    BY ContentsAssumption DEF Stored, MutualExclusion, HoldsLock, Exists, Tmp, TmpOf, TmpComplete, Bytes
  <1> QED
    BY <1>1, <1>2, <1>3, <1>4, <1>5, <1>6

(* The baselines move with a transaction that succeeded.                   *)
LEMMA UnlockIInv ==
  ASSUME IInv, NEW a \in Actors, Unlock(a) PROVE IInv'
  <1> USE DEF IInv, TypeOK, Files, Absent, Created, files, locals, baselines, Unlock, Return, ReleaseBase, ReleaseLocals, AdvanceBaselines
  <1>1. TypeOK'
    <2>0. Absent \in Files
      OBVIOUS
    <2> HIDE DEF Files, Absent
    <2>1. dir' \in [Names -> Files]
      BY <2>0
    <2>2. accidents' \in 0 .. MaxAccidents
      BY BoundAssumption
    <2>3. CASE a \in Sessions
      BY <2>1, <2>2, <2>3
    <2>4. CASE a \notin Sessions
      BY <2>1, <2>2, <2>4
    <2> QED
      BY <2>3, <2>4
  <1>2. MutualExclusion'
    BY ContentsAssumption DEF MutualExclusion, HoldsLock, Exists, Tmp, TmpOf
  <1>3. SaveIsWhole'
    BY ContentsAssumption DEF SaveIsWhole, Whole, TmpComplete, Compared, Tmp, TmpOf, Bytes, Exists
  <1>4. Compared'
    BY ContentsAssumption DEF Compared, Tmp, TmpOf, MutualExclusion, HoldsLock, Exists
  <1>5. TmpComplete'
    BY ContentsAssumption DEF TmpComplete, Tmp, TmpOf, Bytes, MutualExclusion, HoldsLock, Exists, Compared
  <1>6. Stored'
    BY ContentsAssumption DEF Stored, MutualExclusion, HoldsLock, Exists, Tmp, TmpOf, TmpComplete, Bytes
  <1> QED
    BY <1>1, <1>2, <1>3, <1>4, <1>5, <1>6

(* A crash leaves the files as they are.                                   *)
LEMMA CrashIInv ==
  ASSUME IInv, NEW a \in Actors, Crash(a) PROVE IInv'
  <1> USE DEF IInv, TypeOK, Files, Absent, Created, files, locals, baselines, Crash, ReleaseLocals
  <1>1. TypeOK'
    BY BoundAssumption DEF Compared, Bytes, Tmp, TmpOf, Exists, SaveIsWhole, Whole, ReleaseBase
  <1>2. MutualExclusion'
    BY ContentsAssumption DEF MutualExclusion, HoldsLock, Exists, Tmp, TmpOf
  <1>3. SaveIsWhole'
    BY ContentsAssumption DEF SaveIsWhole, Whole, TmpComplete, Compared, Tmp, TmpOf, Bytes, Exists
  <1>4. Compared'
    BY ContentsAssumption DEF Compared, Tmp, TmpOf, MutualExclusion, HoldsLock, Exists
  <1>5. TmpComplete'
    BY ContentsAssumption DEF TmpComplete, Tmp, TmpOf, Bytes, MutualExclusion, HoldsLock, Exists, Compared
  <1>6. Stored'
    BY ContentsAssumption DEF Stored, MutualExclusion, HoldsLock, Exists, Tmp, TmpOf, TmpComplete, Bytes
  <1> QED
    BY <1>1, <1>2, <1>3, <1>4, <1>5, <1>6
(* Writeback makes whole files durable.                                    *)
LEMMA SettleIInv ==
  ASSUME IInv, Settle PROVE IInv'
  BY DEF IInv, TypeOK, MutualExclusion, SaveIsWhole, Compared, TmpComplete, Stored,
         Settle, locals, baselines, Tmp, Bytes, HoldsLock

(* Nothing a power failure leaves is torn where it matters: what the       *)
(* directory held under the two target names was synced when it settled.   *)
LEMMA PowerFailureIInv ==
  ASSUME IInv, PowerFailure PROVE IInv'
  <1> USE DEF IInv, TypeOK, PowerFailure
  <1>1. TypeOK'
    <2>1. \A n \in Names : Survivor(settled[n]) \in Files
      BY DEF Survivor, Files
    <2>2. dir' \in [Names -> Files] /\ settled' \in [Names -> Files]
      BY <2>1
    <2> QED
      BY <2>2, BoundAssumption
  <1>2. MutualExclusion' /\ Compared' /\ TmpComplete' /\ Stored'
    BY DEF MutualExclusion, HoldsLock, Compared, TmpComplete, Stored
  <1>3. SaveIsWhole'
    BY DEF SaveIsWhole, Whole, Survivor
  <1> QED
    BY <1>1, <1>2, <1>3

(* A user edits only outside of transactions.                              *)
LEMMA ForeignEditIInv ==
  ASSUME IInv, ForeignEdit PROVE IInv'
  <1> USE DEF IInv, ForeignEdit, locals, baselines
  <1>1. TypeOK'
    BY DEF TypeOK, Files
  <1>2. \A a \in Actors : ~ HoldsLock(a)
    BY DEF MutualExclusion
  <1>3. MutualExclusion' /\ Compared' /\ TmpComplete' /\ Stored'
    BY <1>2 DEF MutualExclusion, HoldsLock, Compared, TmpComplete, Stored
  <1>4. SaveIsWhole'
    BY DEF SaveIsWhole, Whole, TypeOK
  <1> QED
    BY <1>1, <1>3, <1>4

(* Every step keeps IInv.                                                  *)
LEMMA NextIInv == IInv /\ [Next]_vars => IInv'
  <1>1. ASSUME IInv, Next PROVE IInv'
    <2>1. ASSUME NEW a \in Actors, Step(a) PROVE IInv'
      BY <1>1, <2>1, AcquireLockIInv, LockRefusedIInv, CheckIInv, CreateTmpIInv, WriteTmpIInv,
         SyncTmpIInv, RenameIInv, CreateFailsIInv, WriteFailsIInv, UnlockIInv
      DEF Step
    <2> QED
      BY <1>1, <2>1, PlayIInv, OpenIInv, FlushIInv, ExportIInv, CrashIInv,
         SettleIInv, PowerFailureIInv, ForeignEditIInv
      DEF Next
  <1>2. ASSUME IInv, UNCHANGED vars PROVE IInv'
    BY <1>2 DEF IInv, TypeOK, MutualExclusion, SaveIsWhole, Compared, TmpComplete, Stored,
            vars, Tmp, Bytes, HoldsLock
  <1> QED
    BY <1>1, <1>2

(* IInv is an invariant, for any number of processes.                      *)
THEOREM Inductive == Spec => []IInv
  BY InitIInv, NextIInv, PTL DEF Spec

-----------------------------------------------------------------------------
(* Every variable keeps its type, for any number of actors and accidents.  *)
THEOREM TypeCorrect == Spec => []TypeOK
  BY Inductive, PTL DEF IInv

(* replace_save is a critical section of the lock file.                    *)
THEOREM LockExcludes == Spec => []MutualExclusion
  BY Inductive, PTL DEF IInv

(* No crash, I/O error or power failure leaves a partial sidecar or backup. *)
THEOREM SaveAlwaysWhole == Spec => []SaveIsWhole
  BY Inductive, PTL DEF IInv

(* A failed flush leaves both baselines; a successful one moves both.      *)
THEOREM BaselinesStayTogether == Spec => []BaselinesAgree
  <1>1. Init => BaselinesAgree
    BY ActorsAssumption DEF Init, BaselinesAgree, Actors
  <1>2. TypeOK /\ BaselinesAgree /\ [Next]_vars => BaselinesAgree'
    <2> SUFFICES ASSUME TypeOK, BaselinesAgree, [Next]_vars, NEW s \in Sessions,
                        pc'[s] # "closed"
                 PROVE  base'[s] \in {NoFile, last'[s]}
      BY DEF BaselinesAgree
    <2> USE ActorsAssumption DEF TypeOK, BaselinesAgree, Actors, files, locals, baselines
    <2>1. ASSUME NEW a \in Actors, Play(a) \/ Flush(a) \/ Crash(a)
          PROVE base'[s] \in {NoFile, last'[s]}
      BY <2>1 DEF Play, Flush, Enter, Crash
    <2>2. ASSUME NEW a \in Actors, Open(a)
          PROVE base'[s] \in {NoFile, last'[s]}
      BY <2>2 DEF Open, Exists
    <2>3. ASSUME NEW a \in Actors, Export(a)
          PROVE base'[s] \in {NoFile, last'[s]}
      BY <2>3 DEF Export, Enter
    <2>4. ASSUME NEW a \in Actors, Step(a)
          PROVE base'[s] \in {NoFile, last'[s]}
      <3>1. CASE UNCHANGED baselines
        <4>1. pc[s] # "closed"
          BY <2>4, <3>1 DEF Step, AcquireLock, LockRefused, Check, CreateTmp, WriteTmp, SyncTmp,
                      Rename, CreateFails, WriteFails, Unlock, Finish, Return
        <4> QED
          BY <3>1, <4>1
      <3>2. CASE LockRefused(a)
        BY <3>2 DEF LockRefused, Return, ReleaseBase
      <3>3. CASE Unlock(a)
        BY <3>3 DEF Unlock, Return, AdvanceBaselines, ReleaseBase
      <3> QED
        BY <2>4, <3>1, <3>2, <3>3 DEF Step, AcquireLock, Check, CreateTmp, WriteTmp, SyncTmp,
                      Rename, CreateFails, WriteFails
    <2>5. CASE Settle \/ ForeignEdit \/ UNCHANGED vars
      BY <2>5 DEF Settle, ForeignEdit, vars
    <2>6. CASE PowerFailure
      BY <2>6 DEF PowerFailure
    <2> QED
      BY <2>1, <2>2, <2>3, <2>4, <2>5, <2>6 DEF Next
  <1> QED
    BY <1>1, <1>2, TypeCorrect, PTL DEF Spec

(* A lock file whose owner is gone stops every cooperating process.        *)
THEOREM OrphanedLockStops == Spec => OrphanedLockFreezes
  <1>1. [Next]_vars => [OrphanedLock => dir' = dir \/ PowerFailure]_vars
    <2> SUFFICES ASSUME Next, OrphanedLock PROVE dir' = dir \/ PowerFailure
      OBVIOUS
    <2>1. ASSUME NEW a \in Actors, Step(a) PROVE dir' = dir
      BY <2>1 DEF OrphanedLock, HoldsLock, Step, AcquireLock, LockRefused, Check, CreateTmp, WriteTmp,
                  SyncTmp, Rename, CreateFails, WriteFails, Unlock, files
    <2> QED
      BY <2>1 DEF Next, OrphanedLock, Play, Open, Flush, Export, Crash, Settle, ForeignEdit, files
  <1> QED
    BY <1>1, PTL DEF Spec, OrphanedLockFreezes

-----------------------------------------------------------------------------
(* What is left behind, and what is in the backup: a second invariant over *)
(* the first.                                                              *)

(* Without an accident, every lock and every temporary file has an owner.  *)
OwnsTmp(a, n) == pc[a] \in {"write", "sync", "rename"} /\ Tmp(a) = n
Owned ==
  accidents = 0 =>
    /\ Exists(dir["save.lock"]) => \E a \in Actors : HoldsLock(a)
    /\ \A n \in {"save.tmp", "save.bak.tmp"} :
         Exists(dir[n]) => \E a \in Actors : OwnsTmp(a, n)

(* Whoever is about to replace an existing sidecar has its bytes in the    *)
(* backup.                                                                 *)
BackedUp ==
  \A a \in Actors :
    pc[a] \in Replacing /\ target[a] = "save" /\ Exists(dir["save"])
      => dir["save.bak"].data = dir["save"].data

(* The owner of the lock is the only one to move, for all that matters     *)
(* here: a step of another actor that keeps the files keeps both.          *)
LEMMA OutsiderKeeps ==
  ASSUME IInv, Owned, BackedUp, NEW a \in Actors, dir' = dir, accidents' = accidents,
         ~ HoldsLock(a), pc'[a] \notin Locked,
         \A b \in Actors \ {a} : pc'[b] = pc[b] /\ target'[b] = target[b]
  PROVE  Owned' /\ BackedUp'
  BY DEF Owned, BackedUp, OwnsTmp, HoldsLock, Tmp, Exists

(* A step of the owner within its transaction: the lock stays owned, and   *)
(* nobody else has a temporary file.                                       *)
LEMMA OwnerKeeps ==
  ASSUME IInv, Owned, NEW a \in Actors, HoldsLock(a), HoldsLock(a)', accidents' = accidents,
         \A n \in {"save.tmp", "save.bak.tmp"} : Exists(dir'[n]) =>
           \/ OwnsTmp(a, n)'
           \/ Exists(dir[n]) /\ ~ OwnsTmp(a, n)
  PROVE  Owned'
  <1>1. \A b \in Actors : HoldsLock(b) => b = a
    BY DEF IInv, MutualExclusion
  <1>2. ASSUME NEW n \in {"save.tmp", "save.bak.tmp"}, Exists(dir[n]), accidents = 0
        PROVE OwnsTmp(a, n)
    BY <1>1, <1>2 DEF Owned, OwnsTmp, HoldsLock
  <1> QED
    BY <1>2 DEF Owned, Exists

(* A step of the owner: nobody else is replacing anything.                 *)
LEMMA OwnerBacksUp ==
  ASSUME IInv, NEW a \in Actors, HoldsLock(a), \A b \in Actors \ {a} : pc'[b] = pc[b],
         pc'[a] \in Replacing /\ target'[a] = "save" /\ Exists(dir'["save"])
           => dir'["save.bak"].data = dir'["save"].data
  PROVE  BackedUp'
  BY DEF IInv, MutualExclusion, HoldsLock, BackedUp, Exists

(* The steps of an actor, from the lock to its release.                    *)
LEMMA StepKeeps ==
  ASSUME IInv, Owned, BackedUp, NEW a \in Actors, Step(a) PROVE Owned' /\ BackedUp'
  <1> USE DEF IInv, TypeOK, files, locals, baselines
  <1>1. CASE AcquireLock(a)
    <2>1. \A b \in Actors : ~ HoldsLock(b)
      BY <1>1 DEF AcquireLock, MutualExclusion
    <2>2. Owned'
      BY <1>1, <2>1, ContentsAssumption DEF AcquireLock, Owned, OwnsTmp, HoldsLock, Tmp, Exists, Created
    <2> QED
      BY <1>1, <2>1, <2>2 DEF AcquireLock, BackedUp, HoldsLock
  <1>2. CASE LockRefused(a)
    BY <1>2, OutsiderKeeps DEF LockRefused, Return, ReleaseLocals, HoldsLock
  <1>3. CASE Check(a)
    <2>1. \A n \in {"save.tmp", "save.bak.tmp"} : ~ OwnsTmp(a, n)
      BY <1>3 DEF Check, OwnsTmp
    <2> QED
      BY <1>3, <2>1, OwnerKeeps, OwnerBacksUp DEF Check, Finish, HoldsLock, Exists
  <1>4. CASE CreateTmp(a)
    <2>1. Owned'
      BY <1>4, OwnerKeeps DEF CreateTmp, HoldsLock, OwnsTmp, Tmp, TmpOf, Exists
    <2> QED
      BY <1>4, <2>1, OwnerBacksUp DEF CreateTmp, HoldsLock, BackedUp, Exists, Tmp, TmpOf
  <1>5. CASE WriteTmp(a)
    <2>1. Owned'
      BY <1>5, OwnerKeeps DEF WriteTmp, HoldsLock, OwnsTmp, Tmp, TmpOf, Exists
    <2> QED
      BY <1>5, <2>1, OwnerBacksUp DEF WriteTmp, HoldsLock, BackedUp, Exists, Tmp, TmpOf
  <1>6. CASE SyncTmp(a)
    <2>1. Owned'
      BY <1>6, OwnerKeeps DEF SyncTmp, HoldsLock, OwnsTmp, Tmp, TmpOf, Exists
    <2> QED
      BY <1>6, <2>1, OwnerBacksUp DEF SyncTmp, HoldsLock, BackedUp, Exists, Tmp, TmpOf
  <1>7. CASE Rename(a)
    <2>1. Owned'
      BY <1>7, OwnerKeeps DEF Rename, Finish, HoldsLock, OwnsTmp, Tmp, TmpOf, Exists, Absent
    <2>2. CASE target[a] = "save"
      BY <1>7, <2>1, <2>2, OwnerBacksUp DEF Rename, Finish, HoldsLock
    <2>3. CASE target[a] = "save.bak"
      <3>1. dir["save.bak.tmp"].data = base[a] /\ dir["save"].data = base[a]
        BY <1>7, <2>3 DEF Rename, TmpComplete, Compared, Tmp, TmpOf, Bytes
      <3>2. dir'["save.bak"] = dir["save.bak.tmp"] /\ dir'["save"] = dir["save"]
        BY <1>7, <2>3 DEF Rename, Tmp, TmpOf
      <3>3. dir'["save.bak"].data = dir'["save"].data
        BY <3>1, <3>2
      <3>4. HoldsLock(a) /\ \A b \in Actors \ {a} : pc'[b] = pc[b]
        BY <1>7, <2>3 DEF Rename, HoldsLock
      <3> QED
        BY <2>1, <3>3, <3>4, OwnerBacksUp
    <2> QED
      BY <2>2, <2>3
  <1>8. CASE CreateFails(a)
    <2>1. \A n \in {"save.tmp", "save.bak.tmp"} : ~ OwnsTmp(a, n)
      BY <1>8 DEF CreateFails, OwnsTmp
    <2> QED
      BY <1>8, <2>1, OwnerKeeps, OwnerBacksUp DEF CreateFails, Finish, HoldsLock, Exists
  <1>9. CASE WriteFails(a)
    <2>1. BackedUp'
      BY <1>9, OwnerBacksUp DEF WriteFails, Finish, HoldsLock
    <2>2. CASE accidents' = accidents
      BY <1>9, <2>1, <2>2, OwnerKeeps, BoundAssumption
      DEF WriteFails, Finish, HoldsLock, OwnsTmp, Tmp, TmpOf, Exists, Absent
    <2>3. CASE accidents' = accidents + 1
      BY <2>1, <2>3, BoundAssumption DEF Owned
    <2> QED
      BY <1>9, <2>2, <2>3 DEF WriteFails
  <1>10. CASE Unlock(a)
    <2>1. \A b \in Actors : ~ HoldsLock(b)'
      BY <1>10 DEF Unlock, Return, MutualExclusion, HoldsLock
    <2>2. BackedUp'
      BY <2>1 DEF BackedUp, HoldsLock
    <2>3. CASE accidents' = accidents + 1
      BY <2>2, <2>3, BoundAssumption DEF Owned
    <2>4. CASE dir' = [dir EXCEPT !["save.lock"] = Absent] /\ accidents' = accidents
      <3>1. \A b \in Actors, n \in {"save.tmp", "save.bak.tmp"} : ~ OwnsTmp(b, n)
        BY <1>10 DEF Unlock, MutualExclusion, HoldsLock, OwnsTmp
      <3> QED
        BY <2>2, <2>4, <3>1 DEF Owned, Exists, Absent
    <2> QED
      BY <1>10, <2>3, <2>4 DEF Unlock
  <1> QED
    BY <1>1, <1>2, <1>3, <1>4, <1>5, <1>6, <1>7, <1>8, <1>9, <1>10 DEF Step

(* Every step keeps both.                                                  *)
LEMMA NextKeeps == IInv /\ Owned /\ BackedUp /\ [Next]_vars => Owned' /\ BackedUp'
  <1> SUFFICES ASSUME IInv, Owned, BackedUp, [Next]_vars PROVE Owned' /\ BackedUp'
    OBVIOUS
  <1> USE DEF IInv, TypeOK, files, locals, baselines
  <1>1. ASSUME NEW a \in Actors, Play(a) \/ Open(a) \/ Flush(a) \/ Export(a)
        PROVE Owned' /\ BackedUp'
    BY <1>1, OutsiderKeeps DEF Play, Open, Flush, Export, Enter, HoldsLock
  <1>2. ASSUME NEW a \in Actors, Crash(a) PROVE Owned' /\ BackedUp'
    BY <1>2, BoundAssumption DEF Crash, ReleaseLocals, Owned, BackedUp
  <1>3. CASE PowerFailure
    BY <1>3, BoundAssumption DEF PowerFailure, Owned, BackedUp
  <1>4. CASE ForeignEdit
    <2>1. \A a \in Actors : ~ HoldsLock(a)
      BY <1>4 DEF ForeignEdit, MutualExclusion
    <2> QED
      BY <1>4, <2>1 DEF ForeignEdit, Owned, BackedUp, HoldsLock, OwnsTmp, Exists, Tmp
  <1>5. CASE Settle \/ UNCHANGED vars
    BY <1>5 DEF Settle, vars, Owned, BackedUp, HoldsLock, OwnsTmp, Exists, Tmp
  <1> QED
    BY <1>1, <1>2, <1>3, <1>4, <1>5, StepKeeps DEF Next

(* Both hold all along.                                                    *)
LEMMA OwnedAndBackedUp == Spec => [](Owned /\ BackedUp)
  <1>1. Init => Owned /\ BackedUp
    BY DEF Init, Owned, BackedUp, Exists, Absent
  <1> QED
    BY <1>1, NextKeeps, Inductive, PTL DEF Spec

(* A process that ends without an accident removes its lock and temporary  *)
(* files: once nobody holds the lock, the directory has no trace of any.   *)
THEOREM NothingStaysBehind == Spec => []NothingLeftBehind
  <1>1. Owned => NothingLeftBehind
    BY DEF Owned, NothingLeftBehind, OwnsTmp, HoldsLock
  <1> QED
    BY <1>1, OwnedAndBackedUp, PTL

(* No sidecar is replaced before the backup has its bytes, whichever       *)
(* processes crash or fail before.                                         *)
THEOREM BackupComesFirst == Spec => BackupFirst
  <1>1. IInv /\ BackedUp /\ [Next]_vars =>
          [\A a \in Actors :
             /\ Rename(a)
             /\ Exists(dir["save"]) /\ dir'["save"] # dir["save"]
             => dir'["save.bak"].data = dir["save"].data]_vars
    <2> SUFFICES ASSUME IInv, BackedUp, NEW a \in Actors, Rename(a),
                        Exists(dir["save"]), dir'["save"] # dir["save"]
                 PROVE  dir'["save.bak"].data = dir["save"].data
      OBVIOUS
    <2>1. target[a] = "save"
      BY DEF IInv, TypeOK, Rename, Tmp, TmpOf
    <2>2. dir'["save.bak"] = dir["save.bak"]
      BY <2>1 DEF IInv, TypeOK, Rename, Tmp, TmpOf
    <2> QED
      BY <2>1, <2>2 DEF BackedUp, Rename
  <1> QED
    BY <1>1, OwnedAndBackedUp, Inductive, PTL DEF Spec, BackupFirst

-----------------------------------------------------------------------------
(* The refinement.  Only the last rename changes the register; a step that *)
(* ends a call, a crash or an open moves what its actor believes.          *)

(* Initial states are initial states of the register.                      *)
LEMMA RegisterInit == Init => Register!Init
  BY DEF Init, Register!Init, Register!States, Believes, Absent

(* A step that leaves the sidecar and every belief but the actor's alone.  *)
LEMMA BeliefStep ==
  ASSUME TypeOK, NEW a \in Actors,
         dir'["save"] = dir["save"], settled'["save"] = settled["save"],
         \A b \in Actors \ {a} : pc'[b] = pc[b] /\ ok'[b] = ok[b] /\ ram'[b] = ram[b] /\ base'[b] = base[b],
         Believes(a)' \in {Believes(a), Unknown, dir["save"].data}
  PROVE  [Register!Next]_Register!vars
  <1> DEFINE seen == [b \in Actors |-> Believes(b)]
  <1>1. \A b \in Actors \ {a} : Believes(b)' = Believes(b)
    BY DEF Believes
  <1>2. seen' = [seen EXCEPT ![a] = Believes(a)']
    BY <1>1
  <1>3. CASE Believes(a)' = Believes(a)
    BY <1>1, <1>3 DEF Register!vars
  <1>4. CASE Believes(a)' = Unknown
    BY <1>2, <1>4 DEF Register!Next, Register!Forget
  <1>5. CASE Believes(a)' = dir["save"].data
    BY <1>2, <1>5 DEF Register!Next, Register!Observe
  <1> QED
    BY <1>3, <1>4, <1>5

(* The one step that replaces the sidecar is a compare-and-set.            *)
LEMMA RenameCommits ==
  ASSUME IInv, NEW a \in Actors, Rename(a), target[a] = "save"
  PROVE  Register!Commit(a, ram[a]) /\ ram[a] \in Contents
  <1> USE DEF IInv, TypeOK, Rename, Finish, baselines
  <1>1. dir["save"].data = base[a] /\ Believes(a) = base[a]
    BY DEF Compared, Believes
  <1>2. dir'["save"].data = ram[a] /\ Believes(a)' = ram[a]
    BY DEF TmpComplete, Tmp, TmpOf, Bytes, Believes
  <1>3. [b \in Actors |-> Believes(b)]' = [[b \in Actors |-> Believes(b)] EXCEPT ![a] = ram[a]]
    BY <1>2 DEF Believes
  <1> QED
    BY <1>1, <1>2, <1>3 DEF Register!Commit

(* Every step is a step of the register, or a stutter.                     *)
LEMMA RegisterStep == IInv /\ [Next]_vars => [Register!Next]_Register!vars
  <1> SUFFICES ASSUME IInv, [Next]_vars PROVE [Register!Next]_Register!vars
    OBVIOUS
  <1> USE DEF IInv, files, locals, baselines
  <1>1. ASSUME NEW a \in Actors, Play(a) \/ Open(a) \/ Flush(a) \/ Export(a) \/ Crash(a)
        PROVE [Register!Next]_Register!vars
    BY <1>1, BeliefStep DEF TypeOK, Believes, Play, Open, Flush, Export, Enter, Crash, ReleaseLocals
  <1>2. ASSUME NEW a \in Actors, Step(a) PROVE [Register!Next]_Register!vars
    <2>1. CASE Rename(a) /\ target[a] = "save"
      BY <2>1, RenameCommits DEF Register!Next
    <2>2. CASE Rename(a) /\ target[a] = "save.bak"
      BY <2>2, BeliefStep DEF TypeOK, Believes, Rename, Tmp, TmpOf
    <2>3. CASE AcquireLock(a) \/ CreateTmp(a) \/ WriteTmp(a) \/ SyncTmp(a)
      BY <2>3, BeliefStep DEF TypeOK, Believes, AcquireLock, CreateTmp, WriteTmp, SyncTmp, Tmp, TmpOf
    <2>4. CASE LockRefused(a)
      BY <2>4, BeliefStep DEF TypeOK, Believes, LockRefused, Return, ReleaseBase, ReleaseLocals
    <2>5. CASE Check(a) \/ CreateFails(a) \/ WriteFails(a)
      BY <2>5, BeliefStep DEF TypeOK, Believes, Check, CreateFails, WriteFails, Finish, Tmp, TmpOf
    <2>6. CASE Unlock(a)
      BY <2>6, BeliefStep DEF TypeOK, Believes, Unlock, Return, ReleaseLocals, AdvanceBaselines, ReleaseBase
    <2> QED
      BY <1>2, <2>1, <2>2, <2>3, <2>4, <2>5, <2>6 DEF Step, TypeOK
  <1>3. CASE Settle
    BY <1>3 DEF Settle, Register!Next, Register!Settle, Believes
  <1>4. CASE PowerFailure
    BY <1>4 DEF PowerFailure, Survivor, SaveIsWhole, Whole, Register!Next, Register!PowerFailure, Believes
  <1>5. CASE ForeignEdit
    BY <1>5 DEF ForeignEdit, TypeOK, Register!Next, Register!Edit, Register!States, Believes
  <1>6. CASE UNCHANGED vars
    BY <1>6 DEF vars, Register!vars, Believes
  <1> QED
    BY <1>1, <1>2, <1>3, <1>4, <1>5, <1>6 DEF Next

(* battery.rs implements the compare-and-set register.                     *)
THEOREM ImplementsRegister == Spec => RegisterSpec
  BY RegisterInit, RegisterStep, Inductive, PTL DEF Spec, RegisterSpec, Register!Spec
=============================================================================
