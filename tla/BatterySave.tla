---------------------------- MODULE BatterySave -----------------------------
(***************************************************************************)
(* The battery RAM sidecar of battery.rs.  Several emulator processes      *)
(* share one save path.  A session (BatterySession) opens it, plays, and   *)
(* flushes its RAM; an exporter runs the one-shot save_battery_file.  Both *)
(* go through replace_save, which takes a sibling ".lock" file, compares   *)
(* the sidecar with the bytes its caller expects, copies it to ".bak" and  *)
(* replaces it, each by atomic_write: create ".tmp", write, sync, rename.  *)
(*                                                                         *)
(* Every file operation is a step of its own, so that another process, an  *)
(* I/O error, a crash of the process or a power failure can fall between   *)
(* any two of them.  The file system is external: it keeps a directory,    *)
(* settles it to stable storage whenever it likes, and a power failure     *)
(* leaves the settled directory, with whatever was not synced torn.        *)
(***************************************************************************)
EXTENDS Naturals

CONSTANTS
  Sessions,       (* BatterySession values, one per process               *)
  Exporters,      (* calls of save_battery_file, one per process          *)
  Contents,       (* battery RAM images of the right size                 *)
  NoFile, Empty, Torn, Unknown,
  MaxAccidents    (* bound on crashes, power failures and lost cleanups   *)

ASSUME ContentsAssumption ==
  /\ NoFile \notin Contents /\ Empty \notin Contents
  /\ Torn \notin Contents /\ Unknown \notin Contents
  /\ NoFile # Empty /\ NoFile # Torn /\ NoFile # Unknown
  /\ Empty # Torn

ASSUME ActorsAssumption == Sessions \cap Exporters = {}

ASSUME BoundAssumption == MaxAccidents \in Nat

Actors == Sessions \cup Exporters

(* suffix(path, ...): the sidecar and the four files beside it.            *)
Names == {"save", "save.lock", "save.tmp", "save.bak", "save.bak.tmp"}
Targets == {"save", "save.bak"}
TmpOf(t) == IF t = "save" THEN "save.tmp" ELSE "save.bak.tmp"

Files == [data : Contents \cup {NoFile, Empty, Torn}, synced : BOOLEAN]
Absent == [data |-> NoFile, synced |-> TRUE]
Created == [data |-> Empty, synced |-> FALSE]
Exists(f) == f.data # NoFile

VARIABLES
  dir,        (* the directory as every process sees it                   *)
  settled,    (* the directory a power failure would leave                *)
  pc,         (* where each actor is                                      *)
  target,     (* the file its atomic_write is replacing                   *)
  ok,         (* whether the transaction so far succeeded                 *)
  ram,        (* the emulator's battery RAM                               *)
  base,       (* BatterySession.disk, or `old' of save_battery_file       *)
  last,       (* BatterySession.last_ram                                  *)
  accidents

files == <<dir, settled>>
locals == <<target, ok>>
baselines == <<base, last>>
vars == <<dir, settled, pc, target, ok, ram, base, last, accidents>>

Outside == {"closed", "open"}
Locked == {"check", "create", "write", "sync", "rename", "unlock"}
InTransaction(a) == pc[a] \in Locked \cup {"lock"}
HoldsLock(a) == pc[a] \in Locked

TypeOK ==
  /\ dir \in [Names -> Files]
  /\ settled \in [Names -> Files]
  /\ pc \in [Actors -> Outside \cup {"lock"} \cup Locked]
  /\ target \in [Actors -> Targets]
  /\ ok \in [Actors -> BOOLEAN]
  /\ ram \in [Actors -> Contents]
  /\ base \in [Actors -> Contents \cup {NoFile, Unknown}]
  /\ last \in [Sessions -> Contents]
  /\ accidents \in 0 .. MaxAccidents

Init ==
  /\ \E c \in Contents \cup {NoFile} :
       dir = [n \in Names |->
                IF n = "save" THEN [data |-> c, synced |-> TRUE] ELSE Absent]
  /\ settled = dir
  /\ pc = [a \in Actors |-> "closed"]
  /\ target = [a \in Actors |-> "save"]
  /\ ok = [a \in Actors |-> FALSE]
  /\ ram \in [Actors -> Contents]
  /\ base = [a \in Actors |-> Unknown]
  /\ last \in [Sessions -> Contents]
  /\ \A s \in Sessions : last[s] = ram[s]
  /\ accidents = 0

-----------------------------------------------------------------------------
(* Between two calls the game writes battery RAM, a snapshot is imported.  *)
Play(a) ==
  /\ pc[a] \in Outside
  /\ \E c \in Contents : ram' = [ram EXCEPT ![a] = c]
  /\ UNCHANGED <<files, pc, locals, baselines, accidents>>

(* BatterySession::open imports an existing sidecar, and takes the RAM as  *)
(* it is when there is none.  A sidecar of the wrong size is an error.     *)
Open(s) ==
  /\ s \in Sessions /\ pc[s] = "closed"
  /\ dir["save"].data \in Contents \cup {NoFile}
  /\ ram' = [ram EXCEPT ![s] = IF Exists(dir["save"]) THEN dir["save"].data ELSE @]
  /\ last' = [last EXCEPT ![s] = ram'[s]]
  /\ base' = [base EXCEPT ![s] = dir["save"].data]
  /\ pc' = [pc EXCEPT ![s] = "open"]
  /\ UNCHANGED <<files, locals, accidents>>

Enter(a) == pc' = [pc EXCEPT ![a] = "lock"]

(* BatterySession::flush does no I/O while the RAM equals last_ram.        *)
Flush(s) ==
  /\ s \in Sessions /\ pc[s] = "open"
  /\ ram[s] # last[s]
  /\ Enter(s)
  /\ UNCHANGED <<files, locals, ram, baselines, accidents>>

(* save_battery_file reads the old sidecar before it asks for the lock.    *)
Export(e) ==
  /\ e \in Exporters /\ pc[e] = "closed"
  /\ dir["save"].data \in Contents \cup {NoFile}
  /\ base' = [base EXCEPT ![e] = dir["save"].data]
  /\ Enter(e)
  /\ UNCHANGED <<files, locals, ram, last, accidents>>

-----------------------------------------------------------------------------
(* replace_save, from the lock to the last rename.                         *)

Return(a) == pc' = [pc EXCEPT ![a] = IF a \in Sessions THEN "open" ELSE "closed"]

(* Mutant: the lock file is opened with create instead of create_new.      *)
AcquireLockTwice(a) ==
  /\ pc[a] = "lock"
  /\ dir' = [dir EXCEPT !["save.lock"] = Created]
  /\ pc' = [pc EXCEPT ![a] = "check"]
  /\ UNCHANGED <<settled, locals, ram, baselines, accidents>>

(* create_new on the lock file: taken, refused because the file exists, or *)
(* an I/O error.                                                           *)
AcquireLock(a) ==
  /\ pc[a] = "lock"
  /\ ~ Exists(dir["save.lock"])
  /\ dir' = [dir EXCEPT !["save.lock"] = Created]
  /\ pc' = [pc EXCEPT ![a] = "check"]
  /\ UNCHANGED <<settled, locals, ram, baselines, accidents>>

(* What the call kept on its stack is gone when it returns: an exporter's  *)
(* `old' with it, while a session keeps its baseline.                      *)
ReleaseBase(a) ==
  base' = IF a \in Sessions THEN base ELSE [base EXCEPT ![a] = Unknown]
ReleaseLocals(a) ==
  /\ target' = [target EXCEPT ![a] = "save"]
  /\ ok' = [ok EXCEPT ![a] = FALSE]

(* Mutants: the guard that unlinks the lock is armed before the open has   *)
(* succeeded; a refused lock is asked for again until it is free.          *)
LockRefusedUnlinks(a) ==
  /\ pc[a] = "lock"
  /\ dir' = [dir EXCEPT !["save.lock"] = Absent]
  /\ Return(a)
  /\ ReleaseBase(a)
  /\ ReleaseLocals(a)
  /\ UNCHANGED <<settled, ram, last, accidents>>

LockRefusedRetries(a) ==
  /\ pc[a] = "lock"
  /\ Exists(dir["save.lock"])
  /\ UNCHANGED vars

LockRefused(a) ==
  /\ pc[a] = "lock"
  /\ Return(a)
  /\ ReleaseBase(a)
  /\ ReleaseLocals(a)
  /\ UNCHANGED <<files, ram, last, accidents>>

Finish(a, result) ==
  /\ ok' = [ok EXCEPT ![a] = result]
  /\ pc' = [pc EXCEPT ![a] = "unlock"]

(* Mutants: the sidecar is replaced without a backup; it is replaced       *)
(* whatever it holds.                                                      *)
CheckWithoutBackup(a) ==
  /\ pc[a] = "check"
  /\ IF dir["save"].data = base[a]
     THEN /\ pc' = [pc EXCEPT ![a] = "create"]
          /\ UNCHANGED ok
     ELSE Finish(a, FALSE)
  /\ UNCHANGED <<files, target, ram, baselines, accidents>>

CheckNothing(a) ==
  /\ pc[a] = "check"
  /\ target' = [target EXCEPT ![a] =
                  IF Exists(dir["save"]) THEN "save.bak" ELSE "save"]
  /\ pc' = [pc EXCEPT ![a] = "create"]
  /\ UNCHANGED <<files, ok, ram, baselines, accidents>>

(* The comparison under the lock: a conflict or a sidecar that cannot be   *)
(* read, nothing to do, or a backup of what is there followed by the       *)
(* replacement.                                                            *)
Check(a) ==
  LET current == dir["save"].data IN
  /\ pc[a] = "check"
  /\ \/ /\ Finish(a, FALSE)
        /\ UNCHANGED target
     \/ /\ current = base[a] /\ current = ram[a]
        /\ Finish(a, TRUE)
        /\ UNCHANGED target
     \/ /\ current = base[a] /\ current # ram[a]
        /\ target' = [target EXCEPT ![a] =
                        IF Exists(dir["save"]) THEN "save.bak" ELSE "save"]
        /\ pc' = [pc EXCEPT ![a] = "create"]
        /\ UNCHANGED ok
  /\ UNCHANGED <<files, ram, baselines, accidents>>

(* atomic_write(target, bytes).                                            *)
Tmp(a) == TmpOf(target[a])
Bytes(a) == IF target[a] = "save" THEN ram[a] ELSE base[a]

CreateTmp(a) ==
  /\ pc[a] = "create"
  /\ ~ Exists(dir[Tmp(a)])
  /\ dir' = [dir EXCEPT ![Tmp(a)] = Created]
  /\ pc' = [pc EXCEPT ![a] = "write"]
  /\ UNCHANGED <<settled, locals, ram, baselines, accidents>>

(* Mutant: the temporary file is renamed before it is synced.              *)
WriteTmpUnsynced(a) ==
  /\ pc[a] = "write"
  /\ dir' = [dir EXCEPT ![Tmp(a)] = [data |-> Bytes(a), synced |-> FALSE]]
  /\ pc' = [pc EXCEPT ![a] = "rename"]
  /\ UNCHANGED <<settled, locals, ram, baselines, accidents>>

WriteTmp(a) ==
  /\ pc[a] = "write"
  /\ dir' = [dir EXCEPT ![Tmp(a)] = [data |-> Bytes(a), synced |-> FALSE]]
  /\ pc' = [pc EXCEPT ![a] = "sync"]
  /\ UNCHANGED <<settled, locals, ram, baselines, accidents>>

SyncTmp(a) ==
  /\ pc[a] = "sync"
  /\ dir' = [dir EXCEPT ![Tmp(a)].synced = TRUE]
  /\ pc' = [pc EXCEPT ![a] = "rename"]
  /\ UNCHANGED <<settled, locals, ram, baselines, accidents>>

(* The rename moves the temporary file over the target; the guard then     *)
(* finds nothing to remove.  After the backup comes the sidecar itself.    *)
Rename(a) ==
  /\ pc[a] = "rename"
  /\ dir' = [dir EXCEPT ![target[a]] = dir[Tmp(a)], ![Tmp(a)] = Absent]
  /\ IF target[a] = "save"
     THEN Finish(a, TRUE) /\ UNCHANGED target
     ELSE /\ target' = [target EXCEPT ![a] = "save"]
          /\ pc' = [pc EXCEPT ![a] = "create"]
          /\ UNCHANGED ok
  /\ UNCHANGED <<settled, ram, baselines, accidents>>

(* create_new meets an existing temporary file or an I/O error; it owns    *)
(* nothing yet, so nothing is removed.                                     *)
CreateFails(a) ==
  /\ pc[a] = "create"
  /\ Finish(a, FALSE)
  /\ UNCHANGED <<files, target, ram, baselines, accidents>>

(* Mutant: an error leaves the temporary file.                             *)
WriteFailsUncleaned(a) ==
  /\ pc[a] \in {"write", "sync", "rename"}
  /\ Finish(a, FALSE)
  /\ UNCHANGED <<files, target, ram, baselines, accidents>>

(* write_all, sync_all or rename returns an error: OwnedFile removes the   *)
(* temporary file, best effort.  A removal that fails is an accident.      *)
WriteFails(a) ==
  /\ pc[a] \in {"write", "sync", "rename"}
  /\ \/ dir' = [dir EXCEPT ![Tmp(a)] = Absent] /\ UNCHANGED accidents
     \/ /\ accidents < MaxAccidents
        /\ accidents' = accidents + 1
        /\ UNCHANGED dir
  /\ Finish(a, FALSE)
  /\ UNCHANGED <<settled, target, ram, baselines>>

(* Mutant: last_ram moves although the transaction failed.                 *)
AdvanceLastAlways(a) ==
  IF a \in Sessions
  THEN /\ base' = IF ok[a] THEN [base EXCEPT ![a] = ram[a]] ELSE base
       /\ last' = [last EXCEPT ![a] = ram[a]]
  ELSE ReleaseBase(a) /\ UNCHANGED last

(* SaveLock's drop unlinks the lock, best effort; flush then moves its     *)
(* baselines, only when the whole transaction succeeded.                   *)
AdvanceBaselines(a) ==
  IF a \in Sessions
  THEN IF ok[a]
       THEN /\ base' = [base EXCEPT ![a] = ram[a]]
            /\ last' = [last EXCEPT ![a] = ram[a]]
       ELSE UNCHANGED baselines
  ELSE ReleaseBase(a) /\ UNCHANGED last

Unlock(a) ==
  /\ pc[a] = "unlock"
  /\ \/ dir' = [dir EXCEPT !["save.lock"] = Absent] /\ UNCHANGED accidents
     \/ /\ accidents < MaxAccidents
        /\ accidents' = accidents + 1
        /\ UNCHANGED dir
  /\ Return(a)
  /\ ReleaseLocals(a)
  /\ AdvanceBaselines(a)
  /\ UNCHANGED <<settled, ram>>

-----------------------------------------------------------------------------
(* The environment.                                                        *)

(* The process dies: no destructor runs.                                   *)
Crash(a) ==
  /\ accidents < MaxAccidents
  /\ accidents' = accidents + 1
  /\ pc[a] # "closed"
  /\ pc' = [pc EXCEPT ![a] = "closed"]
  /\ base' = [base EXCEPT ![a] = Unknown]
  /\ ReleaseLocals(a)
  /\ UNCHANGED <<files, ram, last>>

(* Background writeback.  It matters only while the bound still allows the *)
(* power to fail.                                                          *)
Settle ==
  /\ accidents < MaxAccidents
  /\ settled' = dir
  /\ UNCHANGED <<dir, pc, locals, ram, baselines, accidents>>

Survivor(f) == IF f.synced THEN f ELSE [data |-> Torn, synced |-> TRUE]

PowerFailure ==
  /\ accidents < MaxAccidents
  /\ accidents' = accidents + 1
  /\ dir' = [n \in Names |-> Survivor(settled[n])]
  /\ settled' = dir'
  /\ pc' = [a \in Actors |-> "closed"]
  /\ base' = [a \in Actors |-> Unknown]
  /\ target' = [a \in Actors |-> "save"]
  /\ ok' = [a \in Actors |-> FALSE]
  /\ UNCHANGED <<ram, last>>

(* Somebody replaces or deletes the sidecar without the lock, but not in   *)
(* the middle of a transaction: the lock protects only cooperating users.  *)
ForeignEdit ==
  /\ ~ Exists(dir["save.lock"])
  /\ \E c \in Contents \cup {NoFile} :
       dir' = [dir EXCEPT !["save"] = [data |-> c, synced |-> TRUE]]
  /\ UNCHANGED <<settled, pc, locals, ram, baselines, accidents>>

-----------------------------------------------------------------------------
Step(a) ==
  \/ AcquireLock(a) \/ LockRefused(a) \/ Check(a)
  \/ CreateTmp(a) \/ WriteTmp(a) \/ SyncTmp(a) \/ Rename(a)
  \/ CreateFails(a) \/ WriteFails(a) \/ Unlock(a)

Next ==
  \/ \E a \in Actors : Play(a) \/ Open(a) \/ Flush(a) \/ Export(a) \/ Step(a)
  \/ \E a \in Actors : Crash(a)
  \/ Settle
  \/ PowerFailure
  \/ ForeignEdit

(* A call runs to its end: it blocks on nothing and retries nothing.       *)
Spec == Init /\ [][Next]_vars /\ \A a \in Actors : WF_vars(Step(a))

-----------------------------------------------------------------------------
(* At most one process is between taking the lock and dropping it, and the *)
(* lock file is there all that time.                                       *)
MutualExclusion ==
  \A a, b \in Actors :
    HoldsLock(a) => Exists(dir["save.lock"]) /\ (HoldsLock(b) => a = b)

(* Whatever crashes and whenever the power fails, the sidecar and its      *)
(* backup are each missing or a complete RAM image.                        *)
Whole(f) == f.synced /\ f.data \in Contents \cup {NoFile}
SaveIsWhole ==
  \A n \in Targets : Whole(dir[n]) /\ Whole(settled[n])

(* A sidecar that a transaction replaces is in the backup by then.         *)
BackupFirst ==
  [][\A a \in Actors :
       /\ Rename(a)
       /\ Exists(dir["save"]) /\ dir'["save"] # dir["save"]
       => dir'["save.bak"].data = dir["save"].data]_vars

(* An error never strands a session: what it would compare the RAM with is *)
(* what it would compare the file with, so a failed flush is retried by    *)
(* the next one instead of being taken for clean.                          *)
BaselinesAgree ==
  \A s \in Sessions :
    pc[s] # "closed" => base[s] \in {NoFile, last[s]}

(* Without an accident no process leaves its lock or a temporary file.     *)
NothingLeftBehind ==
  /\ accidents = 0
  /\ \A a \in Actors : ~ HoldsLock(a)
  => \A n \in {"save.lock", "save.tmp", "save.bak.tmp"} : ~ Exists(dir[n])

(* A lock whose owner died stops every later transaction: from then on the *)
(* cooperating processes leave all the files as they are.                  *)
OrphanedLock == Exists(dir["save.lock"]) /\ \A a \in Actors : ~ HoldsLock(a)
OrphanedLockFreezes ==
  [][OrphanedLock => \/ dir' = dir
                     \/ PowerFailure]_vars

(* A call that asked for the lock returns.                                 *)
TransactionsEnd == \A a \in Actors : InTransaction(a) ~> ~ InTransaction(a)

(* The sidecar as a compare-and-set register.                              *)
Believes(a) ==
  IF pc[a] = "unlock" /\ ok[a] THEN ram[a] ELSE base[a]
Register == INSTANCE SaveRegister WITH
  Clients <- Actors, Values <- Contents,
  value <- dir["save"].data, durable <- settled["save"].data,
  seen <- [a \in Actors |-> Believes(a)]
RegisterSpec == Register!Spec
=============================================================================
