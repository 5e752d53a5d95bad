--------------------------- MODULE ManagerStorage ---------------------------
(***************************************************************************)
(* The Manager's crash-safe handling of one save slot (manager_storage.c): *)
(* recover, back up and restore, and the launch of the game behind a       *)
(* recovery (manager_main.c).                                              *)
(*                                                                         *)
(* Every call that changes the card is a step.  Any call may fail, and the *)
(* power may fail between two calls: then the card shows one of the states *)
(* it went through since the last successful sync_device, and a file whose *)
(* data was not synced may be torn.                                        *)
(***************************************************************************)
EXTENDS Naturals, FiniteSets

CONSTANTS
  Places,       \* numbered names slotN-0000 ... in the backup root (10000)
  MaxFaults,    \* bound: I/O calls that fail
  MaxCrashes,   \* bound: power failures
  MaxSessions,  \* bound: game sessions that write the save
  None,         \* no file
  Torn          \* neither the old nor the new bytes

ASSUME ManagerStorageAssumption ==
  /\ Places \in Nat \ {0}
  /\ MaxFaults \in Nat /\ MaxCrashes \in Nat /\ MaxSessions \in Nat
  /\ None # Torn /\ {None, Torn} \cap Nat = {}

Indices       == 0 .. Places - 1
Target        == <<"persistentgamedata", 0>>
Rollback      == <<"rollback", 0>>
RestoreTemp   == <<"restoreTemp", 0>>
BackupTemp    == <<"backupTemp", 0>>
External      == <<"external", 0>>          \* a dated or sync backup
Root          == <<"root", 0>>              \* the backup directory
Archive(i)    == <<"slot", i>>
Quarantine(i) == <<"recovered", i>>

Archives == {Archive(i) : i \in Indices}
Keeping  == {Target, Rollback, External} \cup Archives \cup {Quarantine(i) : i \in Indices}
Names    == Keeping \cup {RestoreTemp, BackupTemp, Root}

Contents == 0 .. MaxSessions + 1  \* 0: the external backup, 1: the first save
NoFile   == [data |-> None, synced |-> TRUE]
Whole(c) == [data |-> c, synced |-> TRUE]

VARIABLES
  fs,        \* the card as the program sees it
  images,    \* states the card went through since the last sync_device
  pc,        \* where the Manager is
  op,        \* its operation and the backup it restores from
  aside,     \* moved_target, had_old
  place,     \* the free index it found
  result,    \* what the operation returns
  faults, crashes, sessions,
  before     \* history: the slot's save when the operation began

card == <<fs, images>>
vars == <<fs, images, pc, op, aside, place, result, faults, crashes, sessions, before>>

(* The save the slot has: an interrupted restore is rolled back.           *)
Save(f) == IF f[Rollback] # NoFile THEN f[Rollback] ELSE f[Target]

(* The card may hold an interrupted restore, and no backup directory.      *)
Init ==
  /\ \E target \in {NoFile, Whole(0)}, rollback \in {NoFile, Whole(1)} :
       fs = [n \in Names |-> CASE n = External -> Whole(0) [] n = Target -> target
                               [] n = Rollback -> rollback [] OTHER -> NoFile]
  /\ images = {fs} /\ before = Save(fs)
  /\ pc = "boot" /\ op = [kind |-> "boot", from |-> External]
  /\ aside = FALSE /\ place = 0 /\ result = "OK"
  /\ faults = 0 /\ crashes = 0 /\ sessions = 0

-----------------------------------------------------------------------------
(* The I/O calls.  A call that can succeed fails only by a fault.          *)

Goto(l) == pc' = l /\ UNCHANGED result

Fail(l, error) ==      \* the first error is the one returned
  pc' = l /\ result' = IF result \in {"OK", "WARNING"} THEN error ELSE result

Warn(l) == pc' = l /\ result' = IF result = "OK" THEN "WARNING" ELSE result

Refused(can) == IF can THEN faults < MaxFaults /\ faults' = faults + 1 ELSE UNCHANGED faults
Fault        == Refused(TRUE) /\ UNCHANGED card

Change(f) == fs' = f /\ images' = images \cup {f} /\ UNCHANGED faults

Locals == <<op, aside, place, crashes, sessions, before>>

Free(n) == fs[n] = NoFile

Moved(a, b) == [fs EXCEPT ![b] = fs[a], ![a] = NoFile]
Rename(l, a, b, ok, bad) ==
  /\ pc = l
  /\ LET can == ~Free(a) /\ Free(b) IN
       \/ can /\ Change(Moved(a, b)) /\ Goto(ok)
       \/ Refused(can) /\ UNCHANGED card /\ Fail(bad, "IO_ERROR")

Remove(l, n, ok, bad) ==
  /\ pc = l
  /\ \/ Change([fs EXCEPT ![n] = NoFile]) /\ Goto(ok)
     \/ ~Free(n) /\ Fault /\ Fail(bad, "IO_ERROR")

Flushed == [n \in Names |-> [fs[n] EXCEPT !.synced = TRUE]]
SyncDevice(ok) == fs' = Flushed /\ images' = {Flushed} /\ UNCHANGED faults /\ Goto(ok)

(* sync_device whose failure is a warning, or an error                     *)
SyncOrWarn(l, ok) ==
  /\ pc = l /\ UNCHANGED Locals
  /\ SyncDevice(ok) \/ (Fault /\ Warn(ok))
SyncOrFail(l, ok, bad) ==
  /\ pc = l /\ UNCHANGED Locals
  /\ SyncDevice(ok) \/ (Fault /\ Fail(bad, "IO_ERROR"))

RenameStep(l, a, b, ok, bad) == UNCHANGED Locals /\ Rename(l, a, b, ok, bad)

(* manager_storage_ensure_backup_root                                      *)
EnsureRoot(l, sync, next) ==
  /\ pc = l /\ UNCHANGED Locals
  /\ \/ ~Free(Root) /\ UNCHANGED <<card, faults>> /\ Goto(next)
     \/ Free(Root) /\ Change([fs EXCEPT ![Root] = Whole(0)]) /\ Goto(sync)
     \/ Fault /\ Fail("menu", "IO_ERROR")

RootSynced(l, next) ==      \* and looks at it once more
  SyncOrWarn(l, next) \/ (pc = l /\ UNCHANGED Locals /\ Fault /\ Fail("menu", "IO_ERROR"))

(* manager_storage_find_free_backup: the lowest index that is not there    *)
FindFree(prefix, i) ==
  i \in Indices /\ Free(<<prefix, i>>) /\ \A j \in Indices : j < i => ~Free(<<prefix, j>>)
NoneFree(prefix) == \A i \in Indices : ~Free(<<prefix, i>>)

-----------------------------------------------------------------------------
(* manager_storage_recover_slot                                            *)

Inspect_DropsRollback ==
  /\ pc = "recover" /\ Goto("sweep")
  /\ IF Free(Rollback) \/ Free(Target) THEN UNCHANGED <<card, faults>>
                                      ELSE Change([fs EXCEPT ![Rollback] = NoFile])
  /\ aside' = FALSE /\ UNCHANGED <<op, place, crashes, sessions, before>>

Inspect_Refuses ==
  /\ pc = "recover" /\ UNCHANGED <<card, faults>>
  /\ IF Free(Rollback) THEN Goto("sweep")
     ELSE IF Free(Target) THEN Goto("unroll") ELSE Fail("menu", "CONFLICT")
  /\ aside' = FALSE /\ UNCHANGED <<op, place, crashes, sessions, before>>

Inspect ==
  /\ pc = "recover"
  /\ aside' = FALSE
  /\ \/ /\ Goto(IF Free(Rollback) THEN "sweep" ELSE IF Free(Target) THEN "unroll" ELSE "rootR")
        /\ UNCHANGED <<card, faults>>
     \/ Fault /\ Fail("menu", "IO_ERROR")
  /\ UNCHANGED <<op, place, crashes, sessions, before>>

QuarantineTarget ==
  /\ \/ /\ \E i \in Indices : FindFree("recovered", i) /\ place' = i
        /\ Rename("quarantine", Target, Quarantine(place'), "unroll", "menu")
     \/ /\ pc = "quarantine" /\ NoneFree("recovered") /\ Fail("menu", "CAPACITY")
        /\ UNCHANGED <<card, faults, place>>
  /\ aside' = TRUE
  /\ UNCHANGED <<op, crashes, sessions, before>>

Unroll ==
  RenameStep("unroll", Rollback, Target, "syncUnroll", IF aside THEN "undoQuarantine" ELSE "menu")

Sweep             == UNCHANGED Locals /\ Remove("sweep", RestoreTemp, "sweepCopy", "menu")
SweepCopy         == UNCHANGED Locals /\ Remove("sweepCopy", BackupTemp, "syncSweep", "menu")

(* What a finished recovery goes on to                                     *)
Continuation ==
  IF op.kind = "launch" /\ result \in {"OK", "WARNING"} THEN "game"
  ELSE IF op.kind = "backup" THEN "rootB" ELSE IF op.kind = "restore" THEN "source" ELSE "menu"

Recover ==
  \/ Inspect
  \/ EnsureRoot("rootR", "syncRootR", "quarantine")
  \/ RootSynced("syncRootR", "quarantine")
  \/ QuarantineTarget
  \/ Unroll
  \/ RenameStep("undoQuarantine", Quarantine(place), Target, "menu", "menu")
  \/ SyncOrWarn("syncUnroll", "sweep")
  \/ Sweep
  \/ SweepCopy
  \/ SyncOrWarn("syncSweep", Continuation)

-----------------------------------------------------------------------------
(* manager_storage_copy_verified                                           *)

CopyFrom == IF op.kind = "backup" THEN Target ELSE op.from
CopyTo   == IF op.kind = "backup" THEN BackupTemp ELSE RestoreTemp

(* The source is there, the backup root too, and a numbered name is free.  *)
FindPlace ==
  /\ pc = "place"
  /\ \/ \E i \in Indices : FindFree("slot", i) /\ place' = i
        /\ Goto("open") /\ UNCHANGED <<card, faults>>
     \/ NoneFree("slot") /\ Fail("menu", "CAPACITY") /\ UNCHANGED <<card, faults, place>>
     \/ Fault /\ Fail("menu", "IO_ERROR") /\ UNCHANGED place
  /\ UNCHANGED <<op, aside, crashes, sessions, before>>

CopyOpen ==           \* open_write_exclusive
  /\ pc = "open" /\ UNCHANGED Locals
  /\ \/ Free(CopyTo) /\ Change([fs EXCEPT ![CopyTo] = [data |-> Torn, synced |-> FALSE]])
                     /\ Goto("write")
     \/ Refused(Free(CopyTo)) /\ UNCHANGED card /\ Fail("menu", "CONFLICT")

(* A write fails, or is corrupted silently.                                *)
CopyWrite ==
  /\ pc = "write" /\ UNCHANGED Locals
  /\ \/ Change([fs EXCEPT ![CopyTo].data = fs[CopyFrom].data]) /\ Goto("syncFile")
     \/ Fault /\ (Fail("discard", "IO_ERROR") \/ Goto("syncFile"))

CopySync ==
  /\ pc = "syncFile" /\ UNCHANGED Locals
  /\ \/ Change([fs EXCEPT ![CopyTo].synced = TRUE]) /\ Goto("verify")
     \/ Fault /\ Fail("discard", "IO_ERROR")

CopyVerify_Trusts ==
  /\ pc = "verify" /\ UNCHANGED Locals
  /\ UNCHANGED <<card, faults>> /\ Goto(IF op.kind = "backup" THEN "promoteCopy" ELSE "inspect")

CopyVerify ==
  /\ pc = "verify" /\ UNCHANGED Locals
  /\ LET same == fs[CopyTo].data = fs[CopyFrom].data IN
       \/ /\ same /\ UNCHANGED <<card, faults>>
          /\ Goto(IF op.kind = "backup" THEN "promoteCopy" ELSE "inspect")
       \/ Refused(same) /\ UNCHANGED card /\ Fail("discard", "HASH_MISMATCH")

Copy ==
  \/ FindPlace \/ CopyOpen \/ CopyWrite \/ CopySync \/ CopyVerify
  \/ UNCHANGED Locals /\ Remove("discard", CopyTo, "menu", "menu")

-----------------------------------------------------------------------------
(* manager_storage_backup_slot                                             *)

Backup ==
  \/ EnsureRoot("rootB", "syncRoot", "source")
  \/ RenameStep("promoteCopy", BackupTemp, Archive(place), "syncCopy", "discard")
  \/ SyncOrWarn("syncCopy", "menu")

(* The stat of the source, for both operations                             *)
StatSource ==
  /\ pc = "source" /\ UNCHANGED Locals
  /\ \/ /\ ~Free(CopyFrom) /\ UNCHANGED <<card, faults>>
        /\ Goto(IF op.kind = "backup" THEN "place" ELSE "rootS")
     \/ Refused(~Free(CopyFrom)) /\ UNCHANGED card /\ Fail("menu", "INVALID")

-----------------------------------------------------------------------------
(* manager_storage_restore_backup and manager_storage_rollback_promotion   *)

StatTarget ==
  /\ pc = "inspect"
  /\ \/ aside' = ~Free(Target) /\ UNCHANGED <<card, faults>>
        /\ Goto(IF aside' THEN "setAside" ELSE "promote")
     \/ Fault /\ Fail("discard", "IO_ERROR") /\ UNCHANGED aside
  /\ UNCHANGED <<op, place, crashes, sessions, before>>

SyncPromote_Skipped ==
  pc = "syncPromote" /\ UNCHANGED <<Locals, card, faults>> /\ Goto(IF aside THEN "archive" ELSE "menu")
SyncPromote == SyncOrFail("syncPromote", IF aside THEN "archive" ELSE "menu", "demote")

CheckTarget ==        \* the hash of the promoted file
  /\ pc = "check" /\ UNCHANGED Locals
  /\ LET same == fs[Target].data = fs[op.from].data IN
       \/ same /\ UNCHANGED <<card, faults>> /\ Goto("syncPromote")
       \/ Refused(same) /\ UNCHANGED card /\ Fail("demote", "HASH_MISMATCH")

(* Too late for an error: the backup is the slot's save.                   *)
SyncArchive_Fails == SyncOrFail("syncArchive", "menu", "menu")
SyncArchive       == SyncOrWarn("syncArchive", "menu")

AfterDemote == IF aside THEN "reinstate" ELSE "discardSync"

(* An error of the stat leaves the target where it is.                     *)
Demote ==
  \/ RenameStep("demote", Target, RestoreTemp, AfterDemote, "menu")
  \/ pc = "demote" /\ UNCHANGED Locals /\ Fault /\ Goto(AfterDemote)

Restore ==
  \/ EnsureRoot("rootS", "syncRoot", "place")
  \/ RootSynced("syncRoot", IF op.kind = "backup" THEN "source" ELSE "place")
  \/ StatTarget
  \/ RenameStep("setAside", Target, Rollback, "syncAside", "discard")
  \/ SyncOrFail("syncAside", "promote", "undoAside")
  \/ RenameStep("undoAside", Rollback, Target, "discard", "discard")
  \/ RenameStep("promote", RestoreTemp, Target, "check", IF aside THEN "undoPromote" ELSE "discardSync")
  \/ RenameStep("undoPromote", Rollback, Target, "discardSync", "discardSync")
  \/ CheckTarget
  \/ SyncPromote
  \/ RenameStep("archive", Rollback, Archive(place), "syncArchive", "demote")
  \/ SyncArchive
  \/ Demote
  \/ RenameStep("reinstate", Rollback, Target, "discardSync", "undoDemote")
  \/ RenameStep("undoDemote", RestoreTemp, Target, "menu", "menu")
  \/ UNCHANGED Locals /\ Remove("discardSync", RestoreTemp, "syncDiscard", "syncDiscard")
  \/ SyncOrFail("syncDiscard", "menu", "menu")

-----------------------------------------------------------------------------
(* The user at the Manager, the game, and the power                        *)

Begin(kind, n) ==
  /\ op' = [kind |-> kind, from |-> n] /\ pc' = "recover"
  /\ result' = "OK" /\ before' = Save(fs)
  /\ UNCHANGED <<card, aside, place, faults, crashes, sessions>>

(* The files the Manager lists as backups of the slot                      *)
Listed == {n \in Archives \cup {External} : ~Free(n)}

Launch_Unrecovered ==
  /\ pc = "menu" /\ pc' = "game" /\ op' = [kind |-> "launch", from |-> External]
  /\ UNCHANGED <<card, aside, place, result, faults, crashes, sessions, before>>
Launch == pc = "menu" /\ Begin("launch", External)

User ==
  \/ pc = "boot" /\ Begin("boot", External)
  \/ Launch
  \/ pc = "menu" /\ ~Free(Target) /\ Begin("backup", External)
  \/ pc = "menu" /\ \E n \in Listed : Begin("restore", n)

(* A session replaces the save; it is on the card when the Manager starts. *)
Play ==
  /\ pc = "game" /\ pc' = "boot"
  /\ \/ /\ sessions < MaxSessions /\ sessions' = sessions + 1
        /\ fs' = [Flushed EXCEPT ![Target] = Whole(sessions + 2)] /\ images' = {fs'}
     \/ UNCHANGED <<card, sessions>>
  /\ UNCHANGED <<op, aside, place, result, faults, crashes, before>>

(* The cards a power failure may leave                                     *)
Settled(f) ==
  {[n \in Names |-> IF n \in T THEN Whole(Torn) ELSE [f[n] EXCEPT !.synced = TRUE]] :
     T \in SUBSET {n \in Names : ~f[n].synced}}

PowerFails ==
  /\ pc # "boot" /\ crashes < MaxCrashes /\ crashes' = crashes + 1
  /\ \E i \in images : \E f \in Settled(i) : fs' = f
  /\ images' = {fs'}
  /\ op' = [kind |-> "boot", from |-> External] /\ pc' = "boot" /\ result' = "OK"
  /\ UNCHANGED <<aside, place, faults, sessions, before>>

Step == Recover \/ Copy \/ Backup \/ StatSource \/ Restore

Next == Step \/ User \/ Play \/ PowerFails

Spec     == Init /\ [][Next]_vars
FairSpec == Spec /\ WF_vars(Step)

-----------------------------------------------------------------------------
(* Properties                                                              *)

Files   == [data : Contents \cup {None, Torn}, synced : BOOLEAN]
Results == {"OK", "WARNING", "IO_ERROR", "CONFLICT", "CAPACITY", "INVALID", "HASH_MISMATCH"}
Labels  == {"boot", "menu", "game", "recover", "rootR", "syncRootR", "quarantine", "unroll",
            "undoQuarantine", "syncUnroll", "sweep", "sweepCopy", "syncSweep", "rootB", "rootS",
            "syncRoot", "source", "place", "open", "write", "syncFile", "verify", "discard",
            "promoteCopy", "syncCopy", "inspect", "setAside", "syncAside", "undoAside", "promote",
            "undoPromote", "check", "syncPromote", "archive", "syncArchive", "demote",
            "reinstate", "undoDemote", "discardSync", "syncDiscard"}

TypeOK ==
  /\ fs \in [Names -> Files] /\ fs \in images /\ images \subseteq [Names -> Files]
  /\ pc \in Labels
  /\ op \in [kind : {"boot", "launch", "backup", "restore"}, from : Archives \cup {External}]
  /\ aside \in BOOLEAN /\ place \in Indices /\ result \in Results
  /\ faults \in 0 .. MaxFaults /\ crashes \in 0 .. MaxCrashes
  /\ sessions \in 0 .. MaxSessions /\ before \in Files

(* No step of the Manager and no power failure loses a save: bytes that    *)
(* every power failure would have left under some name of the user's still *)
(* are there after it.                                                     *)
Durable    == {c \in Contents : \A i \in images : \E n \in Keeping : i[n] = Whole(c)}
NoSaveLost == [][pc # "game" => Durable \subseteq Durable']_vars

(* A slot changes its save only to the backup being restored, and at once: *)
(* whenever the power fails, recovery finds the old save or the whole new  *)
(* one; recover, backup and launch never change it.                        *)
Choices      == {Save(i) : i \in images}
SlotIsAtomic ==
  [][pc # "game" =>
       Choices' \subseteq Choices \cup IF op.kind = "restore" THEN {fs[op.from]} ELSE {}]_vars

(* What a restore or a backup reports is true.  OK means durable: no power *)
(* failure after it undoes the restore, or loses the new backup.           *)
OkIsDurable ==
  pc = "menu" /\ result = "OK" => \A i \in images :
    /\ op.kind = "restore" => Save(i) = i[op.from]
    /\ op.kind = "backup"  => \E n \in Archives : i[n] = Save(i)

(* A restore that reports an error left the slot's save as it was.         *)
ErrorChangesNothing ==
  pc = "menu" /\ before # NoFile /\ result \notin {"OK", "WARNING"} => Save(fs) = before

(* Both: a result the user reads tells what is on the card.                *)
ResultsAreTrue == OkIsDurable /\ ErrorChangesNothing

(* The game never runs beside a half-done restore, whose rollback would    *)
(* later replace what the game saved.                                      *)
NothingPendingInGame ==
  pc = "game" => Free(Rollback) /\ Free(RestoreTemp) /\ Free(BackupTemp)

(* With no more faults the launch reaches the game, from whatever earlier  *)
(* faults and crashes left, while a quarantine name is free.               *)
LaunchReturns ==
  /\ pc = "recover" /\ op.kind = "launch" /\ faults = MaxFaults /\ crashes = MaxCrashes
  /\ ~NoneFree("recovered")
  ~> pc = "game"
=============================================================================
