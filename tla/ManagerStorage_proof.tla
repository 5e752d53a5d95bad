------------------------ MODULE ManagerStorage_proof ------------------------
(***************************************************************************)
(* Proofs about ManagerStorage, for any number of numbered names, failing  *)
(* calls, power failures and sessions: no save is ever lost, a slot goes   *)
(* from one save to another in one step, every result is true, and the     *)
(* game never starts on a half-done restore.                               *)
(*                                                                         *)
(* The inductive invariant has one part per thing the code relies on       *)
(* between two calls: which of the slot's files exist (RollbackIs), what   *)
(* the copies hold (CopyIs), which operation runs (OpIs), whether it has   *)
(* failed (ResultIs), and which save the slot still has (SaveIs).          *)
(***************************************************************************)
EXTENDS ManagerStorage, TLAPS

Temps     == {RestoreTemp, BackupTemp}
Failed(r) == r \notin {"OK", "WARNING"}

(* Only a work file is ever unsynced, in every state a power failure can   *)
(* bring back.                                                             *)
Card ==
  /\ fs \in images /\ images \subseteq [Names -> Files]
  /\ \A i \in images : \A n \in Names \ Temps : i[n].synced

Typed ==
  /\ pc \in Labels /\ result \in Results
  /\ op \in [kind : {"boot", "launch", "backup", "restore"}, from : Archives \cup {External}]
  /\ aside \in BOOLEAN /\ place \in Indices /\ before \in Files
  /\ faults \in 0 .. MaxFaults /\ crashes \in 0 .. MaxCrashes /\ sessions \in 0 .. MaxSessions

(* The rollback file is there exactly while a restore, or the recovery of  *)
(* one, has the old save out of the way.                                   *)
Unrolled  == {"syncUnroll", "sweep", "sweepCopy", "syncSweep", "game", "rootB", "rootS", "syncRoot",
              "source", "place", "open", "write", "syncFile", "verify", "promoteCopy", "syncCopy",
              "inspect", "setAside", "syncArchive"}
RolledOut == {"rootR", "syncRootR", "quarantine", "unroll", "undoQuarantine", "syncAside",
              "undoAside"}
Swap      == {"promote", "check", "syncPromote", "archive", "demote", "reinstate", "undoDemote"}
RollbackIs ==
  /\ pc \in Unrolled => Free(Rollback)
  /\ pc \in RolledOut => ~Free(Rollback)
  /\ pc \in {"setAside", "syncAside", "undoAside", "archive", "reinstate", "undoDemote"} => aside
  /\ pc \in Swap => (aside <=> ~Free(Rollback))

(* A copy takes a save's or a backup's name only when it is one.           *)
Verified == {"inspect", "setAside", "syncAside", "promote"}
Promoted == {"check", "syncPromote", "archive", "demote"}
CopyIs ==
  /\ pc = "verify" => fs[CopyTo].synced
  /\ pc = "promoteCopy" => fs[BackupTemp] = fs[Target]
  /\ pc = "syncCopy" => fs[Archive(place)] = fs[Target]
  /\ pc \in Verified => fs[RestoreTemp] = fs[op.from]
  /\ pc \in Promoted \cup {"syncArchive"} => fs[Target] = fs[op.from]
  /\ pc \in Promoted \cup {"reinstate", "undoDemote"} => fs[RestoreTemp].synced
  /\ pc \in {"sweepCopy", "syncSweep", "game"} => Free(RestoreTemp)
  /\ pc \in {"syncSweep", "game"} => Free(BackupTemp)

Copying   == {"syncRoot", "place", "open", "write", "syncFile", "verify"}
OfBackup  == {"rootB", "promoteCopy", "syncCopy"}
OfRestore == {"rootS", "undoAside", "undoPromote", "syncArchive", "reinstate", "undoDemote",
              "discardSync", "syncDiscard", "inspect", "setAside", "syncAside", "promote",
              "check", "syncPromote", "archive", "demote"}
FromThere == {"syncRoot", "place", "open", "write", "syncFile", "verify", "inspect", "setAside",
              "syncAside", "promote", "check", "syncPromote", "archive", "demote", "rootS",
              "syncArchive"}
OpIs ==
  /\ pc \in OfBackup => op.kind = "backup"
  /\ pc \in OfRestore => op.kind = "restore"
  /\ pc \in Copying \cup {"source", "discard"} => op.kind \in {"backup", "restore"}
  /\ op.kind = "restore" /\ pc \in FromThere => ~Free(op.from)

(* An operation that undoes what it did will report an error.              *)
Failing == {"undoQuarantine", "discard", "undoAside", "undoPromote", "demote", "reinstate",
            "undoDemote", "discardSync", "syncDiscard"}
ResultIs ==
  /\ pc \in Failing => Failed(result)
  /\ pc \in Labels \ (Failing \cup {"boot", "menu", "game"}) => ~Failed(result)

(* Up to the rename that archives the old save the slot has the save it    *)
(* had; a slot that had none can still be found without one.               *)
Busy == Labels \ {"boot", "menu", "game", "syncArchive"}
SaveIs ==
  /\ before # NoFile => /\ pc \in Busy => Save(fs) = before
                        /\ pc = "menu" /\ Failed(result) => Save(fs) = before
                        /\ pc \in Swap => aside
  /\ pc \in {"check", "syncPromote", "demote"} /\ ~aside => NoFile \in Choices

Control == RollbackIs /\ CopyIs /\ OpIs /\ ResultIs /\ SaveIs
IInv    == Card /\ Typed /\ Control /\ OkIsDurable

-----------------------------------------------------------------------------
(* Names and files                                                         *)

(* The names a slot uses are different files.                              *)
LEMMA NamesApart ==
  /\ {Target, Rollback, External} \subseteq Keeping /\ Keeping \subseteq Names
  /\ {RestoreTemp, BackupTemp, Root} \subseteq Names /\ Root \notin Temps
  /\ Keeping \cap {RestoreTemp, BackupTemp, Root} = {}
  /\ Target # Rollback /\ RestoreTemp # BackupTemp /\ Archives \subseteq Keeping
  /\ \A n \in Names : n \in Keeping \/ n \in {RestoreTemp, BackupTemp, Root}
  /\ \A n \in Archives \cup {External} : n \in Keeping /\ n # Target /\ n # Rollback
  /\ \A i \in Indices : /\ Archive(i) \in Archives /\ Quarantine(i) \in Keeping
                        /\ Quarantine(i) # Target /\ Quarantine(i) # Rollback
  /\ \A i \in Indices : \A n \in Archives \cup {External} : Quarantine(i) # n
BY DEF Target, Rollback, External, RestoreTemp, BackupTemp, Root, Archive, Quarantine, Archives,
       Keeping, Names, Temps

(* An operation restores from a name that is none of the slot's own.       *)
LEMMA FromPlace ==
  ASSUME Typed
  PROVE  /\ op.from \in Keeping /\ op.from \in Names \ Temps /\ op.from # Root
         /\ op.from # Target /\ op.from # Rollback
BY NamesApart DEF Typed, Temps

(* The values a name can have.                                             *)
LEMMA FilesTyped ==
  /\ NoFile \in Files /\ Whole(Torn) \in Files
  /\ NoFile.synced /\ NoFile.data = None
  /\ \A c \in Contents : Whole(c) \in Files
  /\ \A f \in Files : [f EXCEPT !.synced = TRUE] \in Files
BY ManagerStorageAssumption DEF NoFile, Whole, Files, Contents

-----------------------------------------------------------------------------
(* What the calls do to the card                                           *)

(* Files are the same when their fields are.                               *)
LEMMA SameFile ==
  \A f, g \in Files : f.data = g.data /\ f.synced = g.synced => f = g
BY DEF Files

(* A file that is synced is not changed by a sync.                         *)
Synced(f) == [f EXCEPT !.synced = TRUE]
(* What a sync makes of a file.                                            *)
LEMMA SyncedFile ==
  ASSUME NEW f \in Files
  PROVE  /\ Synced(f) \in Files /\ Synced(f).synced /\ Synced(f).data = f.data
         /\ f.synced => Synced(f) = f
         /\ f = NoFile => Synced(f) = NoFile
<1>1. Synced(f) \in Files /\ Synced(f).synced = TRUE /\ Synced(f).data = f.data
  BY DEF Files, Synced
<1>2. f.synced \in BOOLEAN
  BY DEF Files
<1>3. f.synced => Synced(f) = f
  BY SameFile, <1>1, <1>2, Zenon
<1>4. f = NoFile => f.synced
  BY DEF NoFile
<1> QED
  BY <1>1, <1>3, <1>4, Zenon

(* A new state of the card keeps Card when only work files are unsynced.   *)
LEMMA CardAdds ==
  ASSUME Card, fs' \in [Names -> Files], images' = images \cup {fs'},
         \A n \in Names \ Temps : fs'[n].synced
  PROVE  Card'
BY DEF Card

(* A rename moves one file and leaves the others.                          *)
MovedTo(a, b) ==
  /\ fs' \in [Names -> Files] /\ images' = images \cup {fs'}
  /\ fs[b] = NoFile /\ fs[a] # NoFile /\ fs'[b] = fs[a] /\ fs'[a] = NoFile
  /\ \A n \in Names : n # a /\ n # b => fs'[n] = fs[n]

FailsWith(error) == result' = IF result \in {"OK", "WARNING"} THEN error ELSE result

(* A rename takes effect at once, or changes nothing and fails.            *)
LEMMA RenameMoves ==
  ASSUME Card, Typed, NEW a \in Names, NEW b \in Names, a # b, NEW l, NEW ok, NEW bad,
         Rename(l, a, b, ok, bad)
  PROVE  /\ pc = l /\ faults' \in 0 .. MaxFaults
         /\ \/ MovedTo(a, b) /\ pc' = ok /\ result' = result
            \/ UNCHANGED card /\ pc' = bad /\ FailsWith("IO_ERROR")
<1>1. fs \in [Names -> Files]
  BY DEF Card
<1>2. CASE ~Free(a) /\ Free(b) /\ Change(Moved(a, b)) /\ Goto(ok)
  BY <1>1, <1>2, FilesTyped DEF Rename, Free, Change, Goto, Moved, MovedTo, Typed
<1>3. CASE Refused(~Free(a) /\ Free(b)) /\ UNCHANGED card /\ Fail(bad, "IO_ERROR")
  BY <1>3, ManagerStorageAssumption DEF Rename, Refused, Fail, FailsWith, Typed
<1> QED
  BY <1>2, <1>3 DEF Rename

(* Of the files that have names for good, a rename loses none and leaves   *)
(* none unsynced, unless it takes one to a work file's name.               *)
LEMMA RenameCard ==
  ASSUME Card, NEW a \in Names, NEW b \in Names, MovedTo(a, b), b \in Temps \/ fs[a].synced
  PROVE  Card'
BY CardAdds, FilesTyped DEF Card, MovedTo

(* A sync leaves the files that are synced, and one state of the card.     *)
LEMMA SyncFlushes ==
  ASSUME Card, fs' = Flushed, images' = {Flushed}
  PROVE  /\ Card'
         /\ \A n \in Names : /\ fs'[n] = Synced(fs[n])
                             /\ fs[n] = NoFile => fs'[n] = NoFile
                             /\ fs[n].synced => fs'[n] = fs[n]
         /\ \A n \in Names \ Temps : fs'[n] = fs[n]
<1>1. \A n \in Names : fs[n] \in Files /\ fs'[n] = Synced(fs[n])
  BY DEF Card, Flushed, Synced
<1>2. \A n \in Names : /\ fs'[n] \in Files /\ fs'[n].synced
                       /\ fs[n] = NoFile => fs'[n] = NoFile
                       /\ fs[n].synced => fs'[n] = fs[n]
  BY <1>1, SyncedFile
<1>3. fs' \in [Names -> Files]
  BY <1>2 DEF Flushed
<1> QED
  BY <1>1, <1>2, <1>3 DEF Card

(* Any other change of a file.                                             *)
LEMMA ChangeCard ==
  ASSUME Card, NEW n \in Names, NEW v \in Files, Change([fs EXCEPT ![n] = v]),
         n \in Temps \/ v.synced
  PROVE  /\ Card' /\ fs'[n] = v /\ UNCHANGED faults
         /\ \A m \in Names : m # n => fs'[m] = fs[m]
BY CardAdds DEF Card, Change

(* The removal of a work file.                                             *)
LEMMA RemoveTakes ==
  ASSUME Card, Typed, NEW n \in Temps, NEW l, NEW ok, NEW bad, Remove(l, n, ok, bad)
  PROVE  /\ pc = l /\ Card' /\ faults' \in 0 .. MaxFaults
         /\ images' \subseteq images \cup {fs'}
         /\ \A m \in Names : m # n => fs'[m] = fs[m]
         /\ \/ fs'[n] = NoFile /\ pc' = ok /\ result' = result
            \/ UNCHANGED card /\ pc' = bad /\ FailsWith("IO_ERROR")
<1>1. n \in Names
  BY NamesApart DEF Temps
<1>2. CASE Change([fs EXCEPT ![n] = NoFile]) /\ Goto(ok)
  <2>1. UNCHANGED faults /\ images' = images \cup {fs'} /\ pc' = ok /\ result' = result
    BY <1>2 DEF Change, Goto
  <2>2. Card' /\ fs'[n] = NoFile /\ \A m \in Names : m # n => fs'[m] = fs[m]
    BY <1>1, <1>2, ChangeCard, FilesTyped
  <2> QED
    BY <2>1, <2>2 DEF Remove, Typed
<1>3. CASE Fault /\ Fail(bad, "IO_ERROR")
  BY <1>3, ManagerStorageAssumption DEF Remove, Fault, Refused, Fail, FailsWith, Typed, Card, card
<1> QED
  BY <1>2, <1>3 DEF Remove

(* A sync of the device, whose failure is a warning or an error.           *)
SyncedTo(l) ==
  /\ pc = l /\ Card' /\ faults' \in 0 .. MaxFaults /\ UNCHANGED Locals
  /\ images' \subseteq images \cup {fs'}
  /\ \A n \in Names \ Temps : fs'[n] = fs[n]
  /\ \A n \in Names : fs[n].synced => fs'[n] = fs[n]

(* Where a failed sync of the device is a warning ...                      *)
LEMMA SyncWarns ==
  ASSUME Card, Typed, NEW l, NEW ok, SyncOrWarn(l, ok)
  PROVE  /\ SyncedTo(l) /\ pc' = ok
         /\ \/ images' = {fs'} /\ result' = result
            \/ UNCHANGED card /\ result' = IF result = "OK" THEN "WARNING" ELSE result
<1>1. CASE SyncDevice(ok)
  <2>1. fs' = Flushed /\ images' = {Flushed} /\ UNCHANGED faults /\ pc' = ok /\ result' = result
    BY <1>1 DEF SyncDevice, Goto
  <2> QED
    BY <2>1, SyncFlushes DEF SyncOrWarn, SyncedTo, Typed
<1>2. CASE Fault /\ Warn(ok)
  BY <1>2, ManagerStorageAssumption
     DEF SyncOrWarn, SyncedTo, Fault, Refused, Warn, Typed, Card, card
<1> QED
  BY <1>1, <1>2 DEF SyncOrWarn

(* ... and where it is an error.                                           *)
LEMMA SyncFails ==
  ASSUME Card, Typed, NEW l, NEW ok, NEW bad, SyncOrFail(l, ok, bad)
  PROVE  /\ SyncedTo(l)
         /\ \/ images' = {fs'} /\ pc' = ok /\ result' = result
            \/ UNCHANGED card /\ pc' = bad /\ FailsWith("IO_ERROR")
<1>1. CASE SyncDevice(ok)
  <2>1. fs' = Flushed /\ images' = {Flushed} /\ UNCHANGED faults /\ pc' = ok /\ result' = result
    BY <1>1 DEF SyncDevice, Goto
  <2> QED
    BY <2>1, SyncFlushes DEF SyncOrFail, SyncedTo, Typed
<1>2. CASE Fault /\ Fail(bad, "IO_ERROR")
  BY <1>2, ManagerStorageAssumption
     DEF SyncOrFail, SyncedTo, Fault, Refused, Fail, FailsWith, Typed, Card, card
<1> QED
  BY <1>1, <1>2 DEF SyncOrFail

(* The backup directory is made, and nothing else.                         *)
LEMMA RootMade ==
  ASSUME Card, Typed, NEW l, NEW sync, NEW next, EnsureRoot(l, sync, next)
  PROVE  /\ pc = l /\ Card' /\ faults' \in 0 .. MaxFaults /\ UNCHANGED Locals
         /\ images' \subseteq images \cup {fs'}
         /\ \A n \in Names : n # Root => fs'[n] = fs[n]
         /\ \/ pc' \in {sync, next} /\ result' = result
            \/ UNCHANGED card /\ pc' = "menu" /\ FailsWith("IO_ERROR")
<1>1. CASE Change([fs EXCEPT ![Root] = Whole(0)]) /\ Goto(sync)
  <2>1. Whole(0) \in Files /\ Whole(0).synced
    BY FilesTyped, ManagerStorageAssumption DEF Contents, Whole
  <2>2. UNCHANGED faults /\ images' = images \cup {fs'} /\ pc' = sync /\ result' = result
    BY <1>1 DEF Change, Goto
  <2>3. Card' /\ \A n \in Names : n # Root => fs'[n] = fs[n]
    BY <1>1, <2>1, ChangeCard, NamesApart
  <2> QED
    BY <2>2, <2>3 DEF EnsureRoot, Typed
<1>2. CASE UNCHANGED <<card, faults>> /\ Goto(next)
  BY <1>2 DEF EnsureRoot, Goto, card, Card, Typed
<1>3. CASE Fault /\ Fail("menu", "IO_ERROR")
  BY <1>3, ManagerStorageAssumption
     DEF EnsureRoot, Fault, Refused, Fail, FailsWith, Typed, Card, card
<1> QED
  BY <1>1, <1>2, <1>3 DEF EnsureRoot

(* The directory is synced and looked at again.                            *)
LEMMA RootSyncs ==
  ASSUME Card, Typed, NEW l, NEW next, RootSynced(l, next)
  PROVE  /\ SyncedTo(l)
         /\ \/ /\ pc' = next
               /\ \/ images' = {fs'} /\ result' = result
                  \/ UNCHANGED card /\ result' = IF result = "OK" THEN "WARNING" ELSE result
            \/ UNCHANGED card /\ pc' = "menu" /\ FailsWith("IO_ERROR")
<1>1. CASE SyncOrWarn(l, next)
  BY <1>1, SyncWarns
<1>2. CASE pc = l /\ UNCHANGED Locals /\ Fault /\ Fail("menu", "IO_ERROR")
  BY <1>2, ManagerStorageAssumption
     DEF SyncedTo, Fault, Refused, Fail, FailsWith, Typed, Card, card
<1> QED
  BY <1>1, <1>2 DEF RootSynced

(* A change of a work file's bytes, or of its sync, touches nothing else.  *)
LEMMA TempChange ==
  ASSUME Card, Typed, NEW n \in Temps, NEW v \in Files, Change([fs EXCEPT ![n] = v])
  PROVE  /\ Card' /\ faults' \in 0 .. MaxFaults /\ images' \subseteq images \cup {fs'}
         /\ fs'[n] = v /\ \A m \in Names \ Temps : fs'[m] = fs[m]
<1>1. n \in Names
  BY NamesApart DEF Temps
<1>2. Card' /\ fs'[n] = v /\ UNCHANGED faults /\ \A m \in Names : m # n => fs'[m] = fs[m]
  BY <1>1, ChangeCard
<1>3. images' = images \cup {fs'}
  BY DEF Change
<1> QED
  BY <1>2, <1>3 DEF Typed

(* A refused call leaves the card.                                         *)
LEMMA CallFails ==
  ASSUME Card, Typed, NEW can \in BOOLEAN, Refused(can), UNCHANGED card
  PROVE  Card' /\ faults' \in 0 .. MaxFaults /\ images' \subseteq images \cup {fs'}
BY ManagerStorageAssumption DEF Refused, Typed, Card, card

TempOnly(l) ==
  /\ pc = l /\ Card' /\ faults' \in 0 .. MaxFaults /\ UNCHANGED Locals
  /\ images' \subseteq images \cup {fs'}
  /\ \A n \in Names \ Temps : fs'[n] = fs[n]

(* The four calls of a copy: the creation of the work file,                *)
LEMMA OpenCreates ==
  ASSUME Card, Typed, CopyOpen
  PROVE  /\ TempOnly("open")
         /\ \/ pc' = "write" /\ result' = result
            \/ UNCHANGED card /\ pc' = "menu" /\ FailsWith("CONFLICT")
<1>1. CASE Change([fs EXCEPT ![CopyTo] = [data |-> Torn, synced |-> FALSE]]) /\ Goto("write")
  <2>1. CopyTo \in Temps /\ [data |-> Torn, synced |-> FALSE] \in Files
    BY DEF CopyTo, Temps, Files
  <2>2. /\ Card' /\ faults' \in 0 .. MaxFaults /\ images' \subseteq images \cup {fs'}
        /\ \A m \in Names \ Temps : fs'[m] = fs[m]
    BY <1>1, <2>1, TempChange
  <2> QED
    BY <1>1, <2>2 DEF CopyOpen, TempOnly, Goto
<1>2. CASE Refused(Free(CopyTo)) /\ UNCHANGED card /\ Fail("menu", "CONFLICT")
  BY <1>2, CallFails DEF CopyOpen, TempOnly, Fail, FailsWith, Free, card
<1> QED
  BY <1>1, <1>2 DEF CopyOpen

(* ... its write,                                                          *)
LEMMA WriteCopies ==
  ASSUME Card, Typed, CopyWrite
  PROVE  /\ TempOnly("write")
         /\ \/ pc' = "syncFile" /\ result' = result
            \/ UNCHANGED card /\ pc' = "discard" /\ FailsWith("IO_ERROR")
<1>1. CASE Change([fs EXCEPT ![CopyTo].data = fs[CopyFrom].data]) /\ Goto("syncFile")
  <2> DEFINE v == [fs[CopyTo] EXCEPT !.data = fs[CopyFrom].data]
  <2>1. CopyTo \in Temps /\ fs[CopyTo] \in Files /\ fs[CopyFrom] \in Files
    BY NamesApart DEF CopyTo, CopyFrom, Temps, Card, Typed
  <2>2. v \in Files
    BY <2>1 DEF Files
  <2>3. Change([fs EXCEPT ![CopyTo] = v])
    BY <1>1 DEF Change
  <2> HIDE DEF v
  <2>4. /\ Card' /\ faults' \in 0 .. MaxFaults /\ images' \subseteq images \cup {fs'}
        /\ \A m \in Names \ Temps : fs'[m] = fs[m]
    BY <2>1, <2>2, <2>3, TempChange
  <2> QED
    BY <1>1, <2>4 DEF CopyWrite, TempOnly, Goto
<1>2. CASE Fault /\ (Fail("discard", "IO_ERROR") \/ Goto("syncFile"))
  BY <1>2, CallFails DEF CopyWrite, TempOnly, Fault, Fail, FailsWith, Goto, card
<1> QED
  BY <1>1, <1>2 DEF CopyWrite

(* ... its sync,                                                           *)
LEMMA FileSyncs ==
  ASSUME Card, Typed, CopySync
  PROVE  /\ TempOnly("syncFile")
         /\ \/ pc' = "verify" /\ result' = result /\ fs'[CopyTo].synced
            \/ UNCHANGED card /\ pc' = "discard" /\ FailsWith("IO_ERROR")
<1>1. CASE Change([fs EXCEPT ![CopyTo].synced = TRUE]) /\ Goto("verify")
  <2>1. CopyTo \in Temps /\ fs[CopyTo] \in Files
    BY NamesApart DEF CopyTo, Temps, Card
  <2>2. Synced(fs[CopyTo]) \in Files /\ Synced(fs[CopyTo]).synced
    BY <2>1, SyncedFile
  <2>3. Change([fs EXCEPT ![CopyTo] = Synced(fs[CopyTo])])
    BY <1>1 DEF Change, Synced
  <2>4. /\ Card' /\ faults' \in 0 .. MaxFaults /\ images' \subseteq images \cup {fs'}
        /\ fs'[CopyTo].synced /\ \A m \in Names \ Temps : fs'[m] = fs[m]
    BY <2>1, <2>2, <2>3, TempChange
  <2> QED
    BY <1>1, <2>4 DEF CopySync, TempOnly, Goto
<1>2. CASE Fault /\ Fail("discard", "IO_ERROR")
  BY <1>2, CallFails DEF CopySync, TempOnly, Fault, Fail, FailsWith, card
<1> QED
  BY <1>1, <1>2 DEF CopySync

(* ... and the comparison with its source.                                 *)
LEMMA VerifyCompares ==
  ASSUME Card, Typed, CopyIs, CopyVerify
  PROVE  /\ pc = "verify" /\ UNCHANGED card /\ faults' \in 0 .. MaxFaults /\ UNCHANGED Locals
         /\ \/ /\ pc' = (IF op.kind = "backup" THEN "promoteCopy" ELSE "inspect")
               /\ result' = result
               /\ fs[CopyTo] = fs[CopyFrom]
            \/ pc' = "discard" /\ FailsWith("HASH_MISMATCH")
<1>1. CASE fs[CopyTo].data = fs[CopyFrom].data
  <2>1. /\ fs[CopyTo] \in Files /\ fs[CopyTo].synced
        /\ fs[CopyFrom] \in Files /\ fs[CopyFrom].synced
    BY NamesApart DEF CopyTo, CopyFrom, Temps, Card, Typed, CopyIs, CopyVerify
  <2>2. fs[CopyTo] = fs[CopyFrom]
    BY <1>1, <2>1, SyncedFile, SameFile
  <2> QED
    BY <1>1, <2>2, ManagerStorageAssumption
       DEF CopyVerify, Goto, Refused, Fail, FailsWith, Typed, card
<1>2. CASE fs[CopyTo].data # fs[CopyFrom].data
  BY <1>2 DEF CopyVerify, Refused, Fail, FailsWith, Typed, card
<1> QED
  BY <1>1, <1>2

(* What a step keeps: the invariant; every file with a name for good, in   *)
(* some place; and the save, unless the one being restored takes over.     *)
Safe ==
  /\ images' \subseteq images \cup {fs'}
  /\ \A n \in Keeping : fs[n] # NoFile => \E m \in Keeping : fs'[m] = fs[n]
  /\ Save(fs') \in Choices \cup IF op.kind = "restore" THEN {fs[op.from]} ELSE {}
Keeps == IInv' /\ Safe

-----------------------------------------------------------------------------
(* The steps, component by component                                       *)

(* manager_storage_recover_slot                                            *)
LEMMA RecoverKeeps ==
  ASSUME Card, Typed, RollbackIs, CopyIs, OpIs, ResultIs, SaveIs, OkIsDurable, Recover
  PROVE  Keeps
<1>1. CASE Inspect
  <2>1. /\ pc = "recover" /\ UNCHANGED card /\ faults' \in 0 .. MaxFaults /\ aside' \in BOOLEAN
        /\ UNCHANGED <<op, place, crashes, sessions, before>>
        /\ \/ /\ result' = result
              /\ \/ pc' = "sweep" /\ Free(Rollback)
                 \/ pc' \in {"unroll", "rootR"} /\ ~Free(Rollback)
           \/ pc' = "menu" /\ FailsWith("IO_ERROR")
    <3>1. aside' \in BOOLEAN /\ UNCHANGED card
      BY <1>1 DEF Inspect, Fault
    <3> QED
      BY <1>1, <3>1, ManagerStorageAssumption
         DEF Inspect, Goto, Fault, Refused, Fail, FailsWith, Typed
  <2>2. Card'
    BY <2>1 DEF Card, card
  <2>3. Typed'
    BY <2>1 DEF Typed, Labels, Results, FailsWith
  <2>4. RollbackIs'
    BY <2>1 DEF RollbackIs, Unrolled, RolledOut, Swap, Free, card
  <2>5. CopyIs'
    BY <2>1 DEF CopyIs, Verified, Promoted
  <2>6. OpIs'
    BY <2>1 DEF OpIs, Copying, OfBackup, OfRestore, FromThere
  <2>7. ResultIs'
    BY <2>1 DEF ResultIs, Failing, Labels
  <2>8. SaveIs'
    BY <2>1 DEF SaveIs, Busy, Swap, Typed, card
  <2>9. OkIsDurable'
    BY <2>1 DEF OkIsDurable, FailsWith
  <2>10. Safe
    BY <2>1 DEF Safe, card, Choices, Card
  <2> QED
    BY <2>2, <2>3, <2>4, <2>5, <2>6, <2>7, <2>8, <2>9, <2>10 DEF Keeps, IInv, Control
<1>2. CASE EnsureRoot("rootR", "syncRootR", "quarantine")
  <2>1. /\ pc = "rootR" /\ Card' /\ faults' \in 0 .. MaxFaults /\ UNCHANGED Locals
        /\ images' \subseteq images \cup {fs'}
        /\ \A n \in Names : n # Root => fs'[n] = fs[n]
        /\ \/ pc' \in {"syncRootR", "quarantine"} /\ result' = result
           \/ UNCHANGED card /\ pc' = "menu" /\ FailsWith("IO_ERROR")
    BY <1>2, RootMade
  <2>2. Card'
    BY <2>1
  <2>3. Typed'
    BY <2>1 DEF Typed, Locals, Labels, Results, FailsWith
  <2>4. RollbackIs'
    BY <2>1, NamesApart DEF RollbackIs, Unrolled, RolledOut, Swap, Free
  <2>5. CopyIs'
    BY <2>1 DEF CopyIs, Verified, Promoted
  <2>6. OpIs'
    BY <2>1 DEF OpIs, Copying, OfBackup, OfRestore, FromThere
  <2>7. ResultIs'
    BY <2>1 DEF ResultIs, Failing, Labels
  <2>8. SaveIs'
    BY <2>1, NamesApart DEF SaveIs, Save, Busy, Swap, Labels, Locals
  <2>9. OkIsDurable'
    BY <2>1 DEF OkIsDurable, FailsWith
  <2>10. Safe
    BY <2>1, NamesApart DEF Safe, Save, Choices, Card
  <2> QED
    BY <2>2, <2>3, <2>4, <2>5, <2>6, <2>7, <2>8, <2>9, <2>10 DEF Keeps, IInv, Control
<1>3. CASE RootSynced("syncRootR", "quarantine")
  <2>1. /\ SyncedTo("syncRootR")
        /\ \/ /\ pc' = "quarantine"
              /\ \/ images' = {fs'} /\ result' = result
                 \/ UNCHANGED card /\ result' = IF result = "OK" THEN "WARNING" ELSE result
           \/ UNCHANGED card /\ pc' = "menu" /\ FailsWith("IO_ERROR")
    BY <1>3, RootSyncs
  <2>2. Card'
    BY <2>1 DEF SyncedTo
  <2>3. Typed'
    BY <2>1 DEF Typed, Locals, Labels, Results, FailsWith, SyncedTo
  <2>4. RollbackIs'
    BY <2>1, NamesApart DEF RollbackIs, Unrolled, RolledOut, Swap, Free, SyncedTo, Temps
  <2>5. CopyIs'
    BY <2>1 DEF CopyIs, Verified, Promoted
  <2>6. OpIs'
    BY <2>1 DEF OpIs, Copying, OfBackup, OfRestore, FromThere
  <2>7. ResultIs'
    BY <2>1 DEF ResultIs, Failing, Failed, Labels, SyncedTo
  <2>8. SaveIs'
    BY <2>1, NamesApart DEF SaveIs, Save, Busy, Swap, SyncedTo, Temps, Typed, Locals
  <2>9. OkIsDurable'
    BY <2>1 DEF OkIsDurable, FailsWith
  <2>10. Safe
    BY <2>1, NamesApart DEF Safe, SyncedTo, Temps, Save, Choices, Card
  <2> QED
    BY <2>2, <2>3, <2>4, <2>5, <2>6, <2>7, <2>8, <2>9, <2>10 DEF Keeps, IInv, Control
<1>4. CASE QuarantineTarget
  <2>1. /\ pc = "quarantine" /\ faults' \in 0 .. MaxFaults /\ aside' = TRUE /\ place' \in Indices
        /\ UNCHANGED <<op, crashes, sessions, before>>
        /\ \/ MovedTo(Target, Quarantine(place')) /\ pc' = "unroll" /\ result' = result
           \/ UNCHANGED card /\ pc' = "menu" /\ (FailsWith("IO_ERROR") \/ FailsWith("CAPACITY"))
    BY <1>4, RenameMoves, NamesApart DEF QuarantineTarget, Fail, FailsWith, Typed
  <2>2. Card'
    BY <2>1, RenameCard, NamesApart DEF Card, Temps, card
  <2>3. Typed'
    BY <2>1 DEF Typed, Labels, Results, FailsWith
  <2>4. RollbackIs'
    BY <2>1, NamesApart DEF RollbackIs, Unrolled, RolledOut, Free, card, MovedTo
  <2>5. CopyIs'
    BY <2>1 DEF CopyIs, Verified, Promoted
  <2>6. OpIs'
    BY <2>1 DEF OpIs, Copying, OfBackup, OfRestore, FromThere
  <2>7. ResultIs'
    BY <2>1 DEF ResultIs, Failing, Labels
  <2>8. SaveIs'
    BY <2>1, NamesApart DEF SaveIs, Save, Free, Busy, Typed, card, MovedTo, RollbackIs, RolledOut
  <2>9. OkIsDurable'
    BY <2>1 DEF OkIsDurable, FailsWith
  <2>10. Safe
    BY <2>1, NamesApart DEF Safe, Free, card, Save, Choices, Card, MovedTo, RollbackIs, RolledOut
  <2> QED
    BY <2>2, <2>3, <2>4, <2>5, <2>6, <2>7, <2>8, <2>9, <2>10 DEF Keeps, IInv, Control
<1>5. CASE RenameStep("unroll", Rollback, Target, "syncUnroll",
                     (IF aside THEN "undoQuarantine" ELSE "menu"))
  <2>1. /\ pc = "unroll" /\ faults' \in 0 .. MaxFaults /\ UNCHANGED Locals
        /\ \/ MovedTo(Rollback, Target) /\ pc' = "syncUnroll" /\ result' = result
           \/ /\ UNCHANGED card /\ FailsWith("IO_ERROR")
              /\ pc' = (IF aside THEN "undoQuarantine" ELSE "menu")
    BY <1>5, RenameMoves, NamesApart DEF RenameStep
  <2>2. Card'
    BY <2>1, RenameCard, NamesApart DEF Card, Temps, card
  <2>3. Typed'
    BY <2>1 DEF Typed, Locals, Labels, Results, FailsWith
  <2>4. RollbackIs'
    BY <2>1 DEF RollbackIs, Unrolled, RolledOut, Swap, Free, MovedTo, card
  <2>5. CopyIs'
    BY <2>1 DEF CopyIs, Verified, Promoted
  <2>6. OpIs'
    BY <2>1 DEF OpIs, Copying, OfBackup, OfRestore, FromThere
  <2>7. ResultIs'
    BY <2>1 DEF ResultIs, Failing, Failed, FailsWith, Labels
  <2>8. SaveIs'
    BY <2>1 DEF SaveIs, Save, Busy, Swap, MovedTo, Typed, Locals, card
  <2>9. OkIsDurable'
    BY <2>1 DEF OkIsDurable, FailsWith
  <2>10. Safe
    BY <2>1, NamesApart DEF Safe, MovedTo, card, Save, Choices, Card
  <2> QED
    BY <2>2, <2>3, <2>4, <2>5, <2>6, <2>7, <2>8, <2>9, <2>10 DEF Keeps, IInv, Control
<1>6. CASE RenameStep("undoQuarantine", Quarantine(place), Target, "menu", "menu")
  <2>1. /\ pc = "undoQuarantine" /\ faults' \in 0 .. MaxFaults /\ UNCHANGED Locals
        /\ \/ MovedTo(Quarantine(place), Target) /\ pc' = "menu" /\ result' = result
           \/ UNCHANGED card /\ pc' = "menu" /\ FailsWith("IO_ERROR")
    BY <1>6, RenameMoves, NamesApart DEF RenameStep, Typed
  <2>2. Card'
    BY <2>1, RenameCard, NamesApart DEF Card, Typed, Temps, card
  <2>3. Typed'
    BY <2>1 DEF Typed, Locals, Labels, Results, FailsWith
  <2>4. RollbackIs'
    BY <2>1 DEF RollbackIs, Unrolled, RolledOut, Swap
  <2>5. CopyIs'
    BY <2>1 DEF CopyIs, Verified, Promoted
  <2>6. OpIs'
    BY <2>1 DEF OpIs, Copying, OfBackup, OfRestore, FromThere
  <2>7. ResultIs'
    BY <2>1 DEF ResultIs, Failing
  <2>8. SaveIs'
    BY <2>1, NamesApart DEF SaveIs, Save, Busy, Swap, MovedTo, Typed, Locals, card
  <2>9. OkIsDurable'
    BY <2>1 DEF OkIsDurable, ResultIs, Failing, Failed, FailsWith
  <2>10. Safe
    BY <2>1, NamesApart DEF Safe, Free, MovedTo, card, Save, Choices, Card, RollbackIs, RolledOut
  <2> QED
    BY <2>2, <2>3, <2>4, <2>5, <2>6, <2>7, <2>8, <2>9, <2>10 DEF Keeps, IInv, Control
<1>7. CASE SyncOrWarn("syncUnroll", "sweep")
  <2>1. /\ SyncedTo("syncUnroll") /\ pc' = "sweep"
        /\ \/ images' = {fs'} /\ result' = result
           \/ UNCHANGED card /\ result' = IF result = "OK" THEN "WARNING" ELSE result
    BY <1>7, SyncWarns
  <2>2. Card'
    BY <2>1 DEF SyncedTo
  <2>3. Typed'
    BY <2>1 DEF Typed, Locals, Labels, Results, SyncedTo
  <2>4. RollbackIs'
    BY <2>1, NamesApart DEF RollbackIs, Unrolled, RolledOut, Swap, Free, SyncedTo, Temps
  <2>5. CopyIs'
    BY <2>1 DEF CopyIs, Verified, Promoted
  <2>6. OpIs'
    BY <2>1 DEF OpIs, Copying, OfBackup, OfRestore, FromThere
  <2>7. ResultIs'
    BY <2>1 DEF ResultIs, Failing, Failed, Labels, SyncedTo
  <2>8. SaveIs'
    BY <2>1, NamesApart DEF SaveIs, Save, Busy, Swap, SyncedTo, Temps, Typed, Locals
  <2>9. OkIsDurable'
    BY <2>1 DEF OkIsDurable
  <2>10. Safe
    BY <2>1, NamesApart DEF Safe, SyncedTo, Temps, Save, Choices, Card
  <2> QED
    BY <2>2, <2>3, <2>4, <2>5, <2>6, <2>7, <2>8, <2>9, <2>10 DEF Keeps, IInv, Control
<1>8. CASE Sweep
  <2>1. /\ pc = "sweep" /\ Card' /\ faults' \in 0 .. MaxFaults /\ UNCHANGED Locals
        /\ images' \subseteq images \cup {fs'}
        /\ \A m \in Names : m # RestoreTemp => fs'[m] = fs[m]
        /\ \/ fs'[RestoreTemp] = NoFile /\ pc' = "sweepCopy" /\ result' = result
           \/ UNCHANGED card /\ pc' = "menu" /\ FailsWith("IO_ERROR")
    BY <1>8, RemoveTakes DEF Temps, Sweep
  <2>2. Card'
    BY <2>1
  <2>3. Typed'
    BY <2>1 DEF Typed, Locals, Labels, Results, FailsWith
  <2>4. RollbackIs'
    BY <2>1, NamesApart DEF RollbackIs, Unrolled, RolledOut, Swap, Free
  <2>5. CopyIs'
    BY <2>1 DEF CopyIs, Verified, Promoted, Free
  <2>6. OpIs'
    BY <2>1 DEF OpIs, Copying, OfBackup, OfRestore, FromThere
  <2>7. ResultIs'
    BY <2>1 DEF ResultIs, Failing, Labels
  <2>8. SaveIs'
    BY <2>1, NamesApart DEF SaveIs, Save, Busy, Swap, Typed, Locals
  <2>9. OkIsDurable'
    BY <2>1 DEF OkIsDurable, FailsWith
  <2>10. Safe
    BY <2>1, NamesApart DEF Safe, Save, Choices, Card
  <2> QED
    BY <2>2, <2>3, <2>4, <2>5, <2>6, <2>7, <2>8, <2>9, <2>10 DEF Keeps, IInv, Control
<1>9. CASE SweepCopy
  <2>1. /\ pc = "sweepCopy" /\ Card' /\ faults' \in 0 .. MaxFaults /\ UNCHANGED Locals
        /\ images' \subseteq images \cup {fs'}
        /\ \A m \in Names : m # BackupTemp => fs'[m] = fs[m]
        /\ \/ fs'[BackupTemp] = NoFile /\ pc' = "syncSweep" /\ result' = result
           \/ UNCHANGED card /\ pc' = "menu" /\ FailsWith("IO_ERROR")
    BY <1>9, RemoveTakes DEF Temps, SweepCopy
  <2>2. Card'
    BY <2>1
  <2>3. Typed'
    BY <2>1 DEF Typed, Locals, Labels, Results, FailsWith
  <2>4. RollbackIs'
    BY <2>1, NamesApart DEF RollbackIs, Unrolled, RolledOut, Swap, Free
  <2>5. CopyIs'
    BY <2>1, NamesApart DEF CopyIs, Verified, Promoted, Free
  <2>6. OpIs'
    BY <2>1 DEF OpIs, Copying, OfBackup, OfRestore, FromThere
  <2>7. ResultIs'
    BY <2>1 DEF ResultIs, Failing, Labels
  <2>8. SaveIs'
    BY <2>1, NamesApart DEF SaveIs, Save, Busy, Swap, Typed, Locals
  <2>9. OkIsDurable'
    BY <2>1 DEF OkIsDurable, FailsWith
  <2>10. Safe
    BY <2>1, NamesApart DEF Safe, Save, Choices, Card
  <2> QED
    BY <2>2, <2>3, <2>4, <2>5, <2>6, <2>7, <2>8, <2>9, <2>10 DEF Keeps, IInv, Control
<1>10. CASE SyncOrWarn("syncSweep", Continuation)
  <2>1. /\ SyncedTo("syncSweep") /\ pc' = Continuation
        /\ \/ images' = {fs'} /\ result' = result
           \/ UNCHANGED card /\ result' = IF result = "OK" THEN "WARNING" ELSE result
    BY <1>10, SyncWarns
  <2>2. Card'
    BY <2>1 DEF SyncedTo
  <2>3. Typed'
    BY <2>1 DEF Typed, Locals, Labels, Results, SyncedTo, Continuation
  <2>4. RollbackIs'
    BY <2>1, NamesApart
       DEF RollbackIs, Unrolled, RolledOut, Swap, Free, SyncedTo, Temps, Continuation
  <2>5. CopyIs'
    BY <2>1, NamesApart, FilesTyped DEF CopyIs, Verified, Promoted, Free, SyncedTo, Continuation
  <2>6. OpIs'
    BY <2>1 DEF OpIs, Copying, OfBackup, OfRestore, FromThere, SyncedTo, Locals, Continuation
  <2>7. ResultIs'
    BY <2>1 DEF ResultIs, Failing, Failed, Labels, SyncedTo, Continuation
  <2>8. SaveIs'
    BY <2>1, NamesApart DEF SaveIs, Save, Busy, Swap, SyncedTo, Temps, Typed, Locals, Continuation
  <2>9. OkIsDurable'
    BY <2>1 DEF OkIsDurable, SyncedTo, Locals, Continuation
  <2>10. Safe
    BY <2>1, NamesApart DEF Safe, SyncedTo, Temps, Save, Choices, Card
  <2> QED
    BY <2>2, <2>3, <2>4, <2>5, <2>6, <2>7, <2>8, <2>9, <2>10 DEF Keeps, IInv, Control
<1> QED
  BY <1>1, <1>2, <1>3, <1>4, <1>5, <1>6, <1>7, <1>8, <1>9, <1>10 DEF Recover, Unroll

(* manager_storage_copy_verified                                           *)
LEMMA CopyKeeps ==
  ASSUME Card, Typed, RollbackIs, CopyIs, OpIs, ResultIs, SaveIs, OkIsDurable, Copy
  PROVE  Keeps
<1>1. CASE FindPlace
  <2>1. /\ pc = "place" /\ UNCHANGED card /\ faults' \in 0 .. MaxFaults /\ place' \in Indices
        /\ UNCHANGED <<op, aside, crashes, sessions, before>>
        /\ \/ pc' = "open" /\ result' = result
           \/ pc' = "menu" /\ (FailsWith("IO_ERROR") \/ FailsWith("CAPACITY"))
    BY <1>1, ManagerStorageAssumption DEF FindPlace, Goto, Fault, Refused, Fail, FailsWith, Typed
  <2>2. Card'
    BY <2>1 DEF Card, card
  <2>3. Typed'
    BY <2>1 DEF Typed, Labels, Results, FailsWith
  <2>4. RollbackIs'
    BY <2>1 DEF RollbackIs, Unrolled, RolledOut, Swap, Free, card
  <2>5. CopyIs'
    BY <2>1 DEF CopyIs, Verified, Promoted
  <2>6. OpIs'
    BY <2>1 DEF OpIs, Copying, OfBackup, OfRestore, FromThere, Free, card
  <2>7. ResultIs'
    BY <2>1 DEF ResultIs, Failing, Labels
  <2>8. SaveIs'
    BY <2>1 DEF SaveIs, Busy, Swap, Typed, card
  <2>9. OkIsDurable'
    BY <2>1 DEF OkIsDurable, FailsWith
  <2>10. Safe
    BY <2>1 DEF Safe, card, Choices, Card
  <2> QED
    BY <2>2, <2>3, <2>4, <2>5, <2>6, <2>7, <2>8, <2>9, <2>10 DEF Keeps, IInv, Control
<1>2. CASE CopyOpen
  <2>1. /\ TempOnly("open")
        /\ \/ pc' = "write" /\ result' = result
           \/ UNCHANGED card /\ pc' = "menu" /\ FailsWith("CONFLICT")
    BY <1>2, OpenCreates
  <2>2. Card'
    BY <2>1 DEF TempOnly
  <2>3. Typed'
    BY <2>1 DEF Typed, Locals, Labels, Results, FailsWith, TempOnly
  <2>4. RollbackIs'
    BY <2>1, NamesApart DEF RollbackIs, Unrolled, RolledOut, Swap, Free, Temps, TempOnly
  <2>5. CopyIs'
    BY <2>1 DEF CopyIs, Verified, Promoted
  <2>6. OpIs'
    BY <2>1, NamesApart
       DEF OpIs, Copying, OfBackup, OfRestore, FromThere, Free, Typed, Locals, Temps, TempOnly
  <2>7. ResultIs'
    BY <2>1 DEF ResultIs, Failing, Labels, TempOnly
  <2>8. SaveIs'
    BY <2>1, NamesApart DEF SaveIs, Save, Busy, Swap, Typed, Locals, Temps, TempOnly
  <2>9. OkIsDurable'
    BY <2>1 DEF OkIsDurable, FailsWith
  <2>10. Safe
    BY <2>1, NamesApart DEF Safe, Temps, TempOnly, Save, Choices, Card
  <2> QED
    BY <2>2, <2>3, <2>4, <2>5, <2>6, <2>7, <2>8, <2>9, <2>10 DEF Keeps, IInv, Control
<1>3. CASE CopyWrite
  <2>1. /\ TempOnly("write")
        /\ \/ pc' = "syncFile" /\ result' = result
           \/ UNCHANGED card /\ pc' = "discard" /\ FailsWith("IO_ERROR")
    BY <1>3, WriteCopies
  <2>2. Card'
    BY <2>1 DEF TempOnly
  <2>3. Typed'
    BY <2>1 DEF Typed, Locals, Labels, Results, FailsWith, TempOnly
  <2>4. RollbackIs'
    BY <2>1, NamesApart DEF RollbackIs, Unrolled, RolledOut, Swap, Free, Temps, TempOnly
  <2>5. CopyIs'
    BY <2>1 DEF CopyIs, Verified, Promoted
  <2>6. OpIs'
    BY <2>1, NamesApart
       DEF OpIs, Copying, OfBackup, OfRestore, FromThere, Free, Typed, Locals, Temps, TempOnly
  <2>7. ResultIs'
    BY <2>1 DEF ResultIs, Failing, Failed, FailsWith, Labels, TempOnly
  <2>8. SaveIs'
    BY <2>1, NamesApart DEF SaveIs, Save, Busy, Swap, Typed, Locals, Temps, TempOnly
  <2>9. OkIsDurable'
    BY <2>1 DEF OkIsDurable
  <2>10. Safe
    BY <2>1, NamesApart DEF Safe, Temps, TempOnly, Save, Choices, Card
  <2> QED
    BY <2>2, <2>3, <2>4, <2>5, <2>6, <2>7, <2>8, <2>9, <2>10 DEF Keeps, IInv, Control
<1>4. CASE CopySync
  <2>1. /\ TempOnly("syncFile")
        /\ \/ pc' = "verify" /\ result' = result /\ fs'[CopyTo].synced
           \/ UNCHANGED card /\ pc' = "discard" /\ FailsWith("IO_ERROR")
    BY <1>4, FileSyncs
  <2>2. Card'
    BY <2>1 DEF TempOnly
  <2>3. Typed'
    BY <2>1 DEF Typed, Locals, Labels, Results, FailsWith, TempOnly
  <2>4. RollbackIs'
    BY <2>1, NamesApart DEF RollbackIs, Unrolled, RolledOut, Swap, Free, Temps, TempOnly
  <2>5. CopyIs'
    BY <2>1 DEF CopyIs, Verified, Promoted, Locals, TempOnly, CopyTo
  <2>6. OpIs'
    BY <2>1, NamesApart
       DEF OpIs, Copying, OfBackup, OfRestore, FromThere, Free, Typed, Locals, Temps, TempOnly
  <2>7. ResultIs'
    BY <2>1 DEF ResultIs, Failing, Failed, FailsWith, Labels, TempOnly
  <2>8. SaveIs'
    BY <2>1, NamesApart DEF SaveIs, Save, Busy, Swap, Typed, Locals, Temps, TempOnly
  <2>9. OkIsDurable'
    BY <2>1 DEF OkIsDurable
  <2>10. Safe
    BY <2>1, NamesApart DEF Safe, Temps, TempOnly, Save, Choices, Card
  <2> QED
    BY <2>2, <2>3, <2>4, <2>5, <2>6, <2>7, <2>8, <2>9, <2>10 DEF Keeps, IInv, Control
<1>5. CASE CopyVerify
  <2>1. /\ pc = "verify" /\ UNCHANGED card /\ faults' \in 0 .. MaxFaults /\ UNCHANGED Locals
        /\ \/ /\ pc' = (IF op.kind = "backup" THEN "promoteCopy" ELSE "inspect")
               /\ result' = result
              /\ fs[CopyTo] = fs[CopyFrom]
           \/ pc' = "discard" /\ FailsWith("HASH_MISMATCH")
    BY <1>5, VerifyCompares
  <2>2. Card'
    BY <2>1 DEF Card, card
  <2>3. Typed'
    BY <2>1 DEF Typed, Locals, Labels, Results, FailsWith
  <2>4. RollbackIs'
    BY <2>1 DEF RollbackIs, Unrolled, RolledOut, Swap, Free, card
  <2>5. CopyIs'
    BY <2>1 DEF CopyIs, Verified, Promoted, Locals, card, CopyFrom, CopyTo
  <2>6. OpIs'
    BY <2>1 DEF OpIs, Copying, OfBackup, OfRestore, FromThere, Free, Locals, card
  <2>7. ResultIs'
    BY <2>1 DEF ResultIs, Failing, Failed, FailsWith, Labels
  <2>8. SaveIs'
    BY <2>1 DEF SaveIs, Busy, Swap, Typed, Locals, card
  <2>9. OkIsDurable'
    BY <2>1 DEF OkIsDurable
  <2>10. Safe
    BY <2>1 DEF Safe, card, Choices, Card
  <2> QED
    BY <2>2, <2>3, <2>4, <2>5, <2>6, <2>7, <2>8, <2>9, <2>10 DEF Keeps, IInv, Control
<1>6. CASE (UNCHANGED Locals /\ Remove("discard", CopyTo, "menu", "menu"))
  <2>1. /\ pc = "discard" /\ Card' /\ faults' \in 0 .. MaxFaults /\ UNCHANGED Locals
        /\ images' \subseteq images \cup {fs'}
        /\ \A m \in Names : m # CopyTo => fs'[m] = fs[m]
        /\ \/ fs'[CopyTo] = NoFile /\ pc' = "menu" /\ result' = result
           \/ UNCHANGED card /\ pc' = "menu" /\ FailsWith("IO_ERROR")
    BY <1>6, RemoveTakes DEF Temps, CopyTo
  <2>2. Card'
    BY <2>1
  <2>3. Typed'
    BY <2>1 DEF Typed, Locals, Labels, Results, FailsWith
  <2>4. RollbackIs'
    BY <2>1 DEF RollbackIs, Unrolled, RolledOut, Swap
  <2>5. CopyIs'
    BY <2>1 DEF CopyIs, Verified, Promoted
  <2>6. OpIs'
    BY <2>1 DEF OpIs, OfBackup, OfRestore, FromThere, Locals
  <2>7. ResultIs'
    BY <2>1 DEF ResultIs, Failing
  <2>8. SaveIs'
    BY <2>1, NamesApart DEF SaveIs, Save, Busy, Swap, Typed, Locals, CopyTo
  <2>9. OkIsDurable'
    BY <2>1 DEF OkIsDurable, ResultIs, Failing, Failed, FailsWith
  <2>10. Safe
    BY <2>1, NamesApart DEF Safe, CopyTo, Save, Choices, Card
  <2> QED
    BY <2>2, <2>3, <2>4, <2>5, <2>6, <2>7, <2>8, <2>9, <2>10 DEF Keeps, IInv, Control
<1> QED
  BY <1>1, <1>2, <1>3, <1>4, <1>5, <1>6 DEF Copy

(* manager_storage_backup_slot, and the look at the source                 *)
LEMMA BackupKeeps ==
  ASSUME Card, Typed, RollbackIs, CopyIs, OpIs, ResultIs, SaveIs, OkIsDurable, Backup \/ StatSource
  PROVE  Keeps
<1>1. CASE EnsureRoot("rootB", "syncRoot", "source")
  <2>1. /\ pc = "rootB" /\ Card' /\ faults' \in 0 .. MaxFaults /\ UNCHANGED Locals
        /\ images' \subseteq images \cup {fs'}
        /\ \A n \in Names : n # Root => fs'[n] = fs[n]
        /\ \/ pc' \in {"syncRoot", "source"} /\ result' = result
           \/ UNCHANGED card /\ pc' = "menu" /\ FailsWith("IO_ERROR")
    BY <1>1, RootMade
  <2>2. Card'
    BY <2>1
  <2>3. Typed'
    BY <2>1 DEF Typed, Locals, Labels, Results, FailsWith
  <2>4. RollbackIs'
    BY <2>1, NamesApart DEF RollbackIs, Unrolled, RolledOut, Swap, Free
  <2>5. CopyIs'
    BY <2>1 DEF CopyIs, Verified, Promoted
  <2>6. OpIs'
    BY <2>1 DEF OpIs, OfBackup, OfRestore, Locals
  <2>7. ResultIs'
    BY <2>1 DEF ResultIs, Failing, Labels
  <2>8. SaveIs'
    BY <2>1, NamesApart DEF SaveIs, Save, Busy, Swap, Labels, Locals
  <2>9. OkIsDurable'
    BY <2>1 DEF OkIsDurable, FailsWith
  <2>10. Safe
    BY <2>1, NamesApart DEF Safe, Save, Choices, Card
  <2> QED
    BY <2>2, <2>3, <2>4, <2>5, <2>6, <2>7, <2>8, <2>9, <2>10 DEF Keeps, IInv, Control
<1>2. CASE RenameStep("promoteCopy", BackupTemp, Archive(place), "syncCopy", "discard")
  <2>1. /\ pc = "promoteCopy" /\ faults' \in 0 .. MaxFaults /\ UNCHANGED Locals
        /\ \/ MovedTo(BackupTemp, Archive(place)) /\ pc' = "syncCopy" /\ result' = result
           \/ UNCHANGED card /\ pc' = "discard" /\ FailsWith("IO_ERROR")
    BY <1>2, RenameMoves, NamesApart DEF RenameStep, Typed
  <2>2. Card'
    BY <2>1, RenameCard, NamesApart DEF Card, CopyIs, Typed, Temps, card
  <2>3. Typed'
    BY <2>1 DEF Typed, Locals, Labels, Results, FailsWith
  <2>4. RollbackIs'
    BY <2>1, NamesApart DEF RollbackIs, Unrolled, RolledOut, Swap, Free, MovedTo, Typed
  <2>5. CopyIs'
    BY <2>1, NamesApart DEF CopyIs, Verified, Promoted, MovedTo, Locals
  <2>6. OpIs'
    BY <2>1 DEF OpIs, OfBackup, OfRestore, Locals
  <2>7. ResultIs'
    BY <2>1 DEF ResultIs, Failing, Failed, FailsWith, Labels
  <2>8. SaveIs'
    BY <2>1, NamesApart DEF SaveIs, Save, Busy, Swap, MovedTo, Typed, Locals, card
  <2>9. OkIsDurable'
    BY <2>1 DEF OkIsDurable
  <2>10. Safe
    BY <2>1, NamesApart DEF Safe, MovedTo, Typed, card, Save, Choices, Card
  <2> QED
    BY <2>2, <2>3, <2>4, <2>5, <2>6, <2>7, <2>8, <2>9, <2>10 DEF Keeps, IInv, Control
<1>3. CASE SyncOrWarn("syncCopy", "menu")
  <2>1. /\ SyncedTo("syncCopy") /\ pc' = "menu"
        /\ \/ images' = {fs'} /\ result' = result
           \/ UNCHANGED card /\ result' = IF result = "OK" THEN "WARNING" ELSE result
    BY <1>3, SyncWarns
  <2>2. Card'
    BY <2>1 DEF SyncedTo
  <2>3. Typed'
    BY <2>1 DEF Typed, Locals, Labels, Results, SyncedTo
  <2>4. RollbackIs'
    BY <2>1 DEF RollbackIs, Unrolled, RolledOut, Swap
  <2>5. CopyIs'
    BY <2>1 DEF CopyIs, Verified, Promoted
  <2>6. OpIs'
    BY <2>1 DEF OpIs, OfBackup, OfRestore, SyncedTo, Locals
  <2>7. ResultIs'
    BY <2>1 DEF ResultIs, Failing
  <2>8. SaveIs'
    BY <2>1, NamesApart DEF SaveIs, Save, Busy, Swap, SyncedTo, Temps, Typed, Locals
  <2>9. OkIsDurable'
    BY <2>1, NamesApart
       DEF OkIsDurable, SyncedTo, Temps, Typed, Locals, CopyIs, RollbackIs, Unrolled, Save, Free,
           OpIs, OfBackup
  <2>10. Safe
    BY <2>1, NamesApart DEF Safe, SyncedTo, Temps, Save, Choices, Card
  <2> QED
    BY <2>2, <2>3, <2>4, <2>5, <2>6, <2>7, <2>8, <2>9, <2>10 DEF Keeps, IInv, Control
<1>4. CASE StatSource
  <2>1. /\ pc = "source" /\ UNCHANGED card /\ faults' \in 0 .. MaxFaults /\ UNCHANGED Locals
        /\ \/ /\ ~Free(CopyFrom) /\ result' = result
              /\ pc' = (IF op.kind = "backup" THEN "place" ELSE "rootS")
           \/ pc' = "menu" /\ FailsWith("INVALID")
    BY <1>4, ManagerStorageAssumption DEF StatSource, Goto, Refused, Fail, FailsWith, Typed
  <2>2. Card'
    BY <2>1 DEF Card, card
  <2>3. Typed'
    BY <2>1 DEF Typed, Locals, Labels, Results, FailsWith
  <2>4. RollbackIs'
    BY <2>1 DEF RollbackIs, Unrolled, RolledOut, Swap, Free, card
  <2>5. CopyIs'
    BY <2>1 DEF CopyIs, Verified, Promoted
  <2>6. OpIs'
    BY <2>1 DEF OpIs, OfBackup, OfRestore, FromThere, Free, Locals, card, CopyFrom
  <2>7. ResultIs'
    BY <2>1 DEF ResultIs, Failing, Labels
  <2>8. SaveIs'
    BY <2>1 DEF SaveIs, Busy, Swap, Typed, Locals, card
  <2>9. OkIsDurable'
    BY <2>1 DEF OkIsDurable, FailsWith
  <2>10. Safe
    BY <2>1 DEF Safe, card, Choices, Card
  <2> QED
    BY <2>2, <2>3, <2>4, <2>5, <2>6, <2>7, <2>8, <2>9, <2>10 DEF Keeps, IInv, Control
<1> QED
  BY <1>1, <1>2, <1>3, <1>4 DEF Backup

(* manager_storage_restore_backup and manager_storage_rollback_promotion   *)
LEMMA RestoreKeeps ==
  ASSUME Card, Typed, RollbackIs, CopyIs, OpIs, ResultIs, SaveIs, OkIsDurable, Restore
  PROVE  Keeps
<1>1. CASE EnsureRoot("rootS", "syncRoot", "place")
  <2>1. /\ pc = "rootS" /\ Card' /\ faults' \in 0 .. MaxFaults /\ UNCHANGED Locals
        /\ images' \subseteq images \cup {fs'}
        /\ \A n \in Names : n # Root => fs'[n] = fs[n]
        /\ \/ pc' \in {"syncRoot", "place"} /\ result' = result
           \/ UNCHANGED card /\ pc' = "menu" /\ FailsWith("IO_ERROR")
    BY <1>1, RootMade
  <2>2. Card'
    BY <2>1
  <2>3. Typed'
    BY <2>1 DEF Typed, Locals, Labels, Results, FailsWith
  <2>4. RollbackIs'
    BY <2>1, NamesApart DEF RollbackIs, Unrolled, RolledOut, Swap, Free
  <2>5. CopyIs'
    BY <2>1 DEF CopyIs, Verified, Promoted
  <2>6. OpIs'
    BY <2>1, FromPlace DEF OpIs, OfBackup, OfRestore, FromThere, Free, Locals
  <2>7. ResultIs'
    BY <2>1 DEF ResultIs, Failing, Labels
  <2>8. SaveIs'
    BY <2>1, NamesApart DEF SaveIs, Save, Busy, Swap, Labels, Locals
  <2>9. OkIsDurable'
    BY <2>1 DEF OkIsDurable, FailsWith
  <2>10. Safe
    BY <2>1, NamesApart DEF Safe, Save, Choices, Card
  <2> QED
    BY <2>2, <2>3, <2>4, <2>5, <2>6, <2>7, <2>8, <2>9, <2>10 DEF Keeps, IInv, Control
<1>2. CASE RootSynced("syncRoot", (IF op.kind = "backup" THEN "source" ELSE "place"))
  <2>1. /\ SyncedTo("syncRoot")
        /\ \/ /\ pc' = (IF op.kind = "backup" THEN "source" ELSE "place")
              /\ \/ images' = {fs'} /\ result' = result
                 \/ UNCHANGED card /\ result' = IF result = "OK" THEN "WARNING" ELSE result
           \/ UNCHANGED card /\ pc' = "menu" /\ FailsWith("IO_ERROR")
    BY <1>2, RootSyncs
  <2>2. Card'
    BY <2>1 DEF SyncedTo
  <2>3. Typed'
    BY <2>1 DEF Typed, Locals, Labels, Results, FailsWith, SyncedTo
  <2>4. RollbackIs'
    BY <2>1, NamesApart DEF RollbackIs, Unrolled, RolledOut, Swap, Free, SyncedTo, Temps
  <2>5. CopyIs'
    BY <2>1 DEF CopyIs, Verified, Promoted
  <2>6. OpIs'
    BY <2>1, NamesApart
       DEF OpIs, Copying, OfBackup, OfRestore, FromThere, Free, SyncedTo, Temps, Typed, Locals
  <2>7. ResultIs'
    BY <2>1 DEF ResultIs, Failing, Failed, Labels, SyncedTo
  <2>8. SaveIs'
    BY <2>1, NamesApart DEF SaveIs, Save, Busy, Swap, SyncedTo, Temps, Typed, Locals
  <2>9. OkIsDurable'
    BY <2>1 DEF OkIsDurable, FailsWith
  <2>10. Safe
    BY <2>1, NamesApart DEF Safe, SyncedTo, Temps, Save, Choices, Card
  <2> QED
    BY <2>2, <2>3, <2>4, <2>5, <2>6, <2>7, <2>8, <2>9, <2>10 DEF Keeps, IInv, Control
<1>3. CASE StatTarget
  <2>1. /\ pc = "inspect" /\ UNCHANGED card /\ faults' \in 0 .. MaxFaults /\ aside' \in BOOLEAN
        /\ UNCHANGED <<op, place, crashes, sessions, before>>
        /\ \/ aside' /\ ~Free(Target) /\ pc' = "setAside" /\ result' = result
           \/ ~aside' /\ Free(Target) /\ pc' = "promote" /\ result' = result
           \/ pc' = "discard" /\ FailsWith("IO_ERROR")
    <3>1. CASE /\ UNCHANGED <<card, faults>> /\ aside' = ~Free(Target)
               /\ Goto(IF aside' THEN "setAside" ELSE "promote")
      <4>1. aside' \in BOOLEAN /\ (aside' <=> ~Free(Target))
        BY <3>1
      <4> QED
        BY <1>3, <3>1, <4>1 DEF StatTarget, Goto, Typed
    <3>2. CASE Fault /\ Fail("discard", "IO_ERROR") /\ UNCHANGED aside
      BY <1>3, <3>2, ManagerStorageAssumption
         DEF StatTarget, Fault, Refused, Fail, FailsWith, Typed
    <3> QED
      BY <1>3, <3>1, <3>2 DEF StatTarget
  <2>2. Card'
    BY <2>1 DEF Card, card
  <2>3. Typed'
    BY <2>1 DEF Typed, Labels, Results, FailsWith
  <2>4. RollbackIs'
    BY <2>1 DEF RollbackIs, Unrolled, RolledOut, Swap, Free, card
  <2>5. CopyIs'
    BY <2>1 DEF CopyIs, Verified, Promoted, card
  <2>6. OpIs'
    BY <2>1 DEF OpIs, OfBackup, OfRestore, FromThere, Free, card
  <2>7. ResultIs'
    BY <2>1 DEF ResultIs, Failing, Failed, FailsWith, Labels
  <2>8. SaveIs'
    BY <2>1 DEF SaveIs, Save, Free, Busy, Swap, Typed, card, RollbackIs, Unrolled
  <2>9. OkIsDurable'
    BY <2>1 DEF OkIsDurable
  <2>10. Safe
    BY <2>1 DEF Safe, card, Choices, Card
  <2> QED
    BY <2>2, <2>3, <2>4, <2>5, <2>6, <2>7, <2>8, <2>9, <2>10 DEF Keeps, IInv, Control
<1>4. CASE RenameStep("setAside", Target, Rollback, "syncAside", "discard")
  <2>1. /\ pc = "setAside" /\ faults' \in 0 .. MaxFaults /\ UNCHANGED Locals
        /\ \/ MovedTo(Target, Rollback) /\ pc' = "syncAside" /\ result' = result
           \/ UNCHANGED card /\ pc' = "discard" /\ FailsWith("IO_ERROR")
    BY <1>4, RenameMoves, NamesApart DEF RenameStep
  <2>2. Card'
    BY <2>1, RenameCard, NamesApart DEF Card, Temps, card
  <2>3. Typed'
    BY <2>1 DEF Typed, Locals, Labels, Results, FailsWith
  <2>4. RollbackIs'
    BY <2>1 DEF RollbackIs, Unrolled, RolledOut, Swap, Free, MovedTo, Locals
  <2>5. CopyIs'
    BY <2>1, NamesApart DEF CopyIs, Verified, Promoted, MovedTo, Typed, Locals
  <2>6. OpIs'
    BY <2>1, NamesApart DEF OpIs, OfBackup, OfRestore, FromThere, Free, MovedTo, Typed, Locals
  <2>7. ResultIs'
    BY <2>1 DEF ResultIs, Failing, Failed, FailsWith, Labels
  <2>8. SaveIs'
    BY <2>1 DEF SaveIs, Save, Busy, Swap, MovedTo, Typed, Locals, card
  <2>9. OkIsDurable'
    BY <2>1 DEF OkIsDurable
  <2>10. Safe
    BY <2>1, NamesApart DEF Safe, MovedTo, card, Save, Choices, Card
  <2> QED
    BY <2>2, <2>3, <2>4, <2>5, <2>6, <2>7, <2>8, <2>9, <2>10 DEF Keeps, IInv, Control
<1>5. CASE SyncOrFail("syncAside", "promote", "undoAside")
  <2>1. /\ SyncedTo("syncAside")
        /\ \/ images' = {fs'} /\ pc' = "promote" /\ result' = result
           \/ UNCHANGED card /\ pc' = "undoAside" /\ FailsWith("IO_ERROR")
    BY <1>5, SyncFails
  <2>2. Card'
    BY <2>1 DEF SyncedTo
  <2>3. Typed'
    BY <2>1 DEF Typed, Locals, Labels, Results, FailsWith, SyncedTo
  <2>4. RollbackIs'
    BY <2>1, NamesApart DEF RollbackIs, Unrolled, RolledOut, Free, SyncedTo, Temps, Locals
  <2>5. CopyIs'
    BY <2>1, NamesApart DEF CopyIs, Verified, Promoted, SyncedTo, Temps, Typed, Locals, Card
  <2>6. OpIs'
    BY <2>1, NamesApart
       DEF OpIs, OfBackup, OfRestore, FromThere, Free, SyncedTo, Temps, Typed, Locals
  <2>7. ResultIs'
    BY <2>1 DEF ResultIs, Failing, Failed, FailsWith, Labels, SyncedTo
  <2>8. SaveIs'
    BY <2>1, NamesApart DEF SaveIs, Save, Busy, SyncedTo, Temps, Typed, Locals, RollbackIs
  <2>9. OkIsDurable'
    BY <2>1 DEF OkIsDurable
  <2>10. Safe
    BY <2>1, NamesApart DEF Safe, SyncedTo, Temps, Save, Choices, Card
  <2> QED
    BY <2>2, <2>3, <2>4, <2>5, <2>6, <2>7, <2>8, <2>9, <2>10 DEF Keeps, IInv, Control
<1>6. CASE RenameStep("undoAside", Rollback, Target, "discard", "discard")
  <2>1. /\ pc = "undoAside" /\ faults' \in 0 .. MaxFaults /\ UNCHANGED Locals
        /\ \/ MovedTo(Rollback, Target) /\ pc' = "discard" /\ result' = result
           \/ UNCHANGED card /\ pc' = "discard" /\ FailsWith("IO_ERROR")
    BY <1>6, RenameMoves, NamesApart DEF RenameStep
  <2>2. Card'
    BY <2>1, RenameCard, NamesApart DEF Card, Temps, card
  <2>3. Typed'
    BY <2>1 DEF Typed, Locals, Labels, Results, FailsWith
  <2>4. RollbackIs'
    BY <2>1 DEF RollbackIs, Unrolled, RolledOut, Swap
  <2>5. CopyIs'
    BY <2>1 DEF CopyIs, Verified, Promoted
  <2>6. OpIs'
    BY <2>1 DEF OpIs, OfBackup, OfRestore, FromThere, Locals
  <2>7. ResultIs'
    BY <2>1 DEF ResultIs, Failing, Failed, FailsWith
  <2>8. SaveIs'
    BY <2>1 DEF SaveIs, Save, Busy, Swap, MovedTo, Typed, Locals, card
  <2>9. OkIsDurable'
    BY <2>1 DEF OkIsDurable
  <2>10. Safe
    BY <2>1, NamesApart DEF Safe, MovedTo, card, Save, Choices, Card
  <2> QED
    BY <2>2, <2>3, <2>4, <2>5, <2>6, <2>7, <2>8, <2>9, <2>10 DEF Keeps, IInv, Control
<1>7. CASE RenameStep("promote", RestoreTemp, Target, "check",
                     (IF aside THEN "undoPromote" ELSE "discardSync"))
  <2>1. /\ pc = "promote" /\ faults' \in 0 .. MaxFaults /\ UNCHANGED Locals
        /\ \/ MovedTo(RestoreTemp, Target) /\ pc' = "check" /\ result' = result
           \/ /\ UNCHANGED card /\ FailsWith("IO_ERROR")
              /\ pc' = (IF aside THEN "undoPromote" ELSE "discardSync")
    BY <1>7, RenameMoves, NamesApart DEF RenameStep
  <2>2. Card'
    BY <2>1, RenameCard, NamesApart DEF Card, CopyIs, Verified, Typed, Temps, card
  <2>3. Typed'
    BY <2>1 DEF Typed, Locals, Labels, Results, FailsWith
  <2>4. RollbackIs'
    BY <2>1, NamesApart DEF RollbackIs, Unrolled, RolledOut, Swap, Free, MovedTo, Locals
  <2>5. CopyIs'
    BY <2>1, NamesApart, FilesTyped DEF CopyIs, Verified, Promoted, MovedTo, Typed, Locals
  <2>6. OpIs'
    BY <2>1, NamesApart DEF OpIs, OfBackup, OfRestore, FromThere, Free, MovedTo, Typed, Locals
  <2>7. ResultIs'
    BY <2>1 DEF ResultIs, Failing, Failed, FailsWith, Labels
  <2>8. SaveIs'
    BY <2>1, NamesApart
       DEF SaveIs, Save, Choices, Free, Busy, Swap, MovedTo, Typed, Locals, card, RollbackIs,
           Card
  <2>9. OkIsDurable'
    BY <2>1 DEF OkIsDurable
  <2>10. Safe
    BY <2>1, NamesApart
       DEF Safe, MovedTo, card, Save, Choices, Card, CopyIs, Verified, OpIs, OfRestore
  <2> QED
    BY <2>2, <2>3, <2>4, <2>5, <2>6, <2>7, <2>8, <2>9, <2>10 DEF Keeps, IInv, Control
<1>8. CASE RenameStep("undoPromote", Rollback, Target, "discardSync", "discardSync")
  <2>1. /\ pc = "undoPromote" /\ faults' \in 0 .. MaxFaults /\ UNCHANGED Locals
        /\ \/ MovedTo(Rollback, Target) /\ pc' = "discardSync" /\ result' = result
           \/ UNCHANGED card /\ pc' = "discardSync" /\ FailsWith("IO_ERROR")
    BY <1>8, RenameMoves, NamesApart DEF RenameStep
  <2>2. Card'
    BY <2>1, RenameCard, NamesApart DEF Card, Temps, card
  <2>3. Typed'
    BY <2>1 DEF Typed, Locals, Labels, Results, FailsWith
  <2>4. RollbackIs'
    BY <2>1 DEF RollbackIs, Unrolled, RolledOut, Swap
  <2>5. CopyIs'
    BY <2>1 DEF CopyIs, Verified, Promoted
  <2>6. OpIs'
    BY <2>1 DEF OpIs, OfBackup, OfRestore, FromThere, Locals
  <2>7. ResultIs'
    BY <2>1 DEF ResultIs, Failing, Failed, FailsWith
  <2>8. SaveIs'
    BY <2>1 DEF SaveIs, Save, Busy, Swap, MovedTo, Typed, Locals, card
  <2>9. OkIsDurable'
    BY <2>1 DEF OkIsDurable
  <2>10. Safe
    BY <2>1, NamesApart DEF Safe, MovedTo, card, Save, Choices, Card
  <2> QED
    BY <2>2, <2>3, <2>4, <2>5, <2>6, <2>7, <2>8, <2>9, <2>10 DEF Keeps, IInv, Control
<1>9. CASE CheckTarget
  <2>1. /\ pc = "check" /\ UNCHANGED card /\ faults' \in 0 .. MaxFaults /\ UNCHANGED Locals
        /\ \/ pc' = "syncPromote" /\ result' = result
           \/ pc' = "demote" /\ FailsWith("HASH_MISMATCH")
    BY <1>9, ManagerStorageAssumption DEF CheckTarget, Goto, Refused, Fail, FailsWith, Typed
  <2>2. Card'
    BY <2>1 DEF Card, card
  <2>3. Typed'
    BY <2>1 DEF Typed, Locals, Labels, Results, FailsWith
  <2>4. RollbackIs'
    BY <2>1 DEF RollbackIs, Unrolled, RolledOut, Swap, Free, Locals, card
  <2>5. CopyIs'
    BY <2>1 DEF CopyIs, Verified, Promoted, Locals, card
  <2>6. OpIs'
    BY <2>1 DEF OpIs, OfBackup, OfRestore, FromThere, Free, Locals, card
  <2>7. ResultIs'
    BY <2>1 DEF ResultIs, Failing, Failed, FailsWith, Labels
  <2>8. SaveIs'
    BY <2>1 DEF SaveIs, Choices, Busy, Swap, Typed, Locals, card
  <2>9. OkIsDurable'
    BY <2>1 DEF OkIsDurable
  <2>10. Safe
    BY <2>1 DEF Safe, card, Choices, Card
  <2> QED
    BY <2>2, <2>3, <2>4, <2>5, <2>6, <2>7, <2>8, <2>9, <2>10 DEF Keeps, IInv, Control
<1>10. CASE SyncOrFail("syncPromote", (IF aside THEN "archive" ELSE "menu"), "demote")
  <2>1. /\ SyncedTo("syncPromote")
        /\ \/ images' = {fs'} /\ pc' = (IF aside THEN "archive" ELSE "menu") /\ result' = result
           \/ UNCHANGED card /\ pc' = "demote" /\ FailsWith("IO_ERROR")
    BY <1>10, SyncFails
  <2>2. Card'
    BY <2>1 DEF SyncedTo
  <2>3. Typed'
    BY <2>1 DEF Typed, Locals, Labels, Results, FailsWith, SyncedTo
  <2>4. RollbackIs'
    BY <2>1, NamesApart DEF RollbackIs, Unrolled, RolledOut, Swap, Free, SyncedTo, Temps, Locals
  <2>5. CopyIs'
    BY <2>1, NamesApart DEF CopyIs, Verified, Promoted, SyncedTo, Temps, Typed, Locals
  <2>6. OpIs'
    BY <2>1, NamesApart
       DEF OpIs, OfBackup, OfRestore, FromThere, Free, SyncedTo, Temps, Typed, Locals
  <2>7. ResultIs'
    BY <2>1 DEF ResultIs, Failing, Failed, FailsWith, Labels, SyncedTo
  <2>8. SaveIs'
    BY <2>1, NamesApart
       DEF SaveIs, Save, Choices, Busy, Swap, SyncedTo, Temps, Typed, Locals, card
  <2>9. OkIsDurable'
    BY <2>1, NamesApart
       DEF OkIsDurable, SyncedTo, Temps, Typed, Locals, CopyIs, Promoted, RollbackIs, Swap, Save,
           Free, OpIs, OfRestore
  <2>10. Safe
    BY <2>1, NamesApart DEF Safe, SyncedTo, Temps, Save, Choices, Card
  <2> QED
    BY <2>2, <2>3, <2>4, <2>5, <2>6, <2>7, <2>8, <2>9, <2>10 DEF Keeps, IInv, Control
<1>11. CASE RenameStep("archive", Rollback, Archive(place), "syncArchive", "demote")
  <2>1. /\ pc = "archive" /\ faults' \in 0 .. MaxFaults /\ UNCHANGED Locals
        /\ \/ MovedTo(Rollback, Archive(place)) /\ pc' = "syncArchive" /\ result' = result
           \/ UNCHANGED card /\ pc' = "demote" /\ FailsWith("IO_ERROR")
    BY <1>11, RenameMoves, NamesApart DEF RenameStep, Typed
  <2>2. Card'
    BY <2>1, RenameCard, NamesApart DEF Card, Typed, Temps, card
  <2>3. Typed'
    BY <2>1 DEF Typed, Locals, Labels, Results, FailsWith
  <2>4. RollbackIs'
    BY <2>1 DEF RollbackIs, Unrolled, RolledOut, Swap, Free, MovedTo, Locals, card
  <2>5. CopyIs'
    BY <2>1, NamesApart
       DEF CopyIs, Verified, Promoted, Free, MovedTo, Typed, Locals, card, OpIs, OfRestore,
           FromThere
  <2>6. OpIs'
    BY <2>1, NamesApart
       DEF OpIs, OfBackup, OfRestore, FromThere, Free, MovedTo, Typed, Locals, card
  <2>7. ResultIs'
    BY <2>1 DEF ResultIs, Failing, Failed, FailsWith, Labels
  <2>8. SaveIs'
    BY <2>1 DEF SaveIs, Busy, Typed, Locals, card, RollbackIs
  <2>9. OkIsDurable'
    BY <2>1 DEF OkIsDurable
  <2>10. Safe
    BY <2>1, NamesApart
       DEF Safe, MovedTo, Typed, card, Save, Choices, Card, CopyIs, Promoted, OpIs, OfRestore
  <2> QED
    BY <2>2, <2>3, <2>4, <2>5, <2>6, <2>7, <2>8, <2>9, <2>10 DEF Keeps, IInv, Control
<1>12. CASE SyncOrWarn("syncArchive", "menu")
  <2>1. /\ SyncedTo("syncArchive") /\ pc' = "menu"
        /\ \/ images' = {fs'} /\ result' = result
           \/ UNCHANGED card /\ result' = IF result = "OK" THEN "WARNING" ELSE result
    BY <1>12, SyncWarns
  <2>2. Card'
    BY <2>1 DEF SyncedTo
  <2>3. Typed'
    BY <2>1 DEF Typed, Locals, Labels, Results, SyncedTo
  <2>4. RollbackIs'
    BY <2>1 DEF RollbackIs, Unrolled, RolledOut, Swap
  <2>5. CopyIs'
    BY <2>1 DEF CopyIs, Verified, Promoted
  <2>6. OpIs'
    BY <2>1 DEF OpIs, OfBackup, OfRestore, FromThere, SyncedTo, Locals
  <2>7. ResultIs'
    BY <2>1 DEF ResultIs, Failing
  <2>8. SaveIs'
    BY <2>1 DEF SaveIs, Busy, Swap, Failed, SyncedTo, Typed, ResultIs, Failing
  <2>9. OkIsDurable'
    BY <2>1, NamesApart
       DEF OkIsDurable, SyncedTo, Temps, Typed, Locals, CopyIs, RollbackIs, Unrolled, Save, Free,
           OpIs, OfRestore
  <2>10. Safe
    BY <2>1, NamesApart DEF Safe, SyncedTo, Temps, Save, Choices, Card
  <2> QED
    BY <2>2, <2>3, <2>4, <2>5, <2>6, <2>7, <2>8, <2>9, <2>10 DEF Keeps, IInv, Control
<1>13. CASE RenameStep("demote", Target, RestoreTemp, AfterDemote, "menu")
  <2>1. /\ pc = "demote" /\ faults' \in 0 .. MaxFaults /\ UNCHANGED Locals
        /\ \/ MovedTo(Target, RestoreTemp) /\ pc' = AfterDemote /\ result' = result
           \/ UNCHANGED card /\ pc' = "menu" /\ FailsWith("IO_ERROR")
    BY <1>13, RenameMoves, NamesApart DEF RenameStep
  <2>2. Card'
    BY <2>1, RenameCard, NamesApart DEF Card, Temps, card
  <2>3. Typed'
    BY <2>1 DEF Typed, Locals, Labels, Results, FailsWith, AfterDemote
  <2>4. RollbackIs'
    BY <2>1, NamesApart
       DEF RollbackIs, Unrolled, RolledOut, Swap, Free, MovedTo, Locals, AfterDemote
  <2>5. CopyIs'
    BY <2>1, NamesApart DEF CopyIs, Verified, Promoted, MovedTo, AfterDemote, Card, Temps
  <2>6. OpIs'
    BY <2>1 DEF OpIs, OfBackup, OfRestore, FromThere, Locals, AfterDemote
  <2>7. ResultIs'
    BY <2>1 DEF ResultIs, Failing, AfterDemote
  <2>8. SaveIs'
    BY <2>1, NamesApart
       DEF SaveIs, Save, Free, Busy, Swap, MovedTo, Typed, Locals, card, AfterDemote, RollbackIs
  <2>9. OkIsDurable'
    BY <2>1 DEF OkIsDurable, FailsWith, AfterDemote
  <2>10. Safe
    BY <2>1, NamesApart
       DEF Safe, Free, MovedTo, Typed, card, Save, Choices, Card, RollbackIs, Swap, CopyIs,
           Promoted, SaveIs
  <2> QED
    BY <2>2, <2>3, <2>4, <2>5, <2>6, <2>7, <2>8, <2>9, <2>10 DEF Keeps, IInv, Control
<1>14. CASE (pc = "demote" /\ UNCHANGED Locals /\ Fault /\ Goto(AfterDemote))
  <2>1. /\ pc = "demote" /\ UNCHANGED card /\ faults' \in 0 .. MaxFaults /\ UNCHANGED Locals
        /\ pc' = AfterDemote /\ result' = result
    BY <1>14, ManagerStorageAssumption DEF Goto, Fault, Refused, Typed
  <2>2. Card'
    BY <2>1 DEF Card, card
  <2>3. Typed'
    BY <2>1 DEF Typed, Locals, Labels, AfterDemote
  <2>4. RollbackIs'
    BY <2>1 DEF RollbackIs, Unrolled, RolledOut, Swap, Free, Locals, card, AfterDemote
  <2>5. CopyIs'
    BY <2>1 DEF CopyIs, Verified, Promoted, card, AfterDemote
  <2>6. OpIs'
    BY <2>1 DEF OpIs, OfBackup, OfRestore, FromThere, Locals, AfterDemote
  <2>7. ResultIs'
    BY <2>1 DEF ResultIs, Failing, AfterDemote
  <2>8. SaveIs'
    BY <2>1 DEF SaveIs, Busy, Swap, Typed, Locals, card, AfterDemote
  <2>9. OkIsDurable'
    BY <2>1 DEF OkIsDurable, AfterDemote
  <2>10. Safe
    BY <2>1 DEF Safe, card, Choices, Card
  <2> QED
    BY <2>2, <2>3, <2>4, <2>5, <2>6, <2>7, <2>8, <2>9, <2>10 DEF Keeps, IInv, Control
<1>15. CASE RenameStep("reinstate", Rollback, Target, "discardSync", "undoDemote")
  <2>1. /\ pc = "reinstate" /\ faults' \in 0 .. MaxFaults /\ UNCHANGED Locals
        /\ \/ MovedTo(Rollback, Target) /\ pc' = "discardSync" /\ result' = result
           \/ UNCHANGED card /\ pc' = "undoDemote" /\ FailsWith("IO_ERROR")
    BY <1>15, RenameMoves, NamesApart DEF RenameStep
  <2>2. Card'
    BY <2>1, RenameCard, NamesApart DEF Card, Temps, card
  <2>3. Typed'
    BY <2>1 DEF Typed, Locals, Labels, Results, FailsWith
  <2>4. RollbackIs'
    BY <2>1 DEF RollbackIs, Unrolled, RolledOut, Swap, Free, Locals, card
  <2>5. CopyIs'
    BY <2>1 DEF CopyIs, Verified, Promoted, card
  <2>6. OpIs'
    BY <2>1 DEF OpIs, OfBackup, OfRestore, FromThere, Locals
  <2>7. ResultIs'
    BY <2>1 DEF ResultIs, Failing, Failed, FailsWith
  <2>8. SaveIs'
    BY <2>1 DEF SaveIs, Save, Busy, Swap, MovedTo, Typed, Locals, card
  <2>9. OkIsDurable'
    BY <2>1 DEF OkIsDurable
  <2>10. Safe
    BY <2>1, NamesApart DEF Safe, MovedTo, card, Save, Choices, Card
  <2> QED
    BY <2>2, <2>3, <2>4, <2>5, <2>6, <2>7, <2>8, <2>9, <2>10 DEF Keeps, IInv, Control
<1>16. CASE RenameStep("undoDemote", RestoreTemp, Target, "menu", "menu")
  <2>1. /\ pc = "undoDemote" /\ faults' \in 0 .. MaxFaults /\ UNCHANGED Locals
        /\ \/ MovedTo(RestoreTemp, Target) /\ pc' = "menu" /\ result' = result
           \/ UNCHANGED card /\ pc' = "menu" /\ FailsWith("IO_ERROR")
    BY <1>16, RenameMoves, NamesApart DEF RenameStep
  <2>2. Card'
    BY <2>1, RenameCard, NamesApart DEF Card, CopyIs, card
  <2>3. Typed'
    BY <2>1 DEF Typed, Locals, Labels, Results, FailsWith
  <2>4. RollbackIs'
    BY <2>1, NamesApart DEF RollbackIs, Unrolled, Swap, Free, MovedTo, card
  <2>5. CopyIs'
    BY <2>1 DEF CopyIs, Verified, Promoted
  <2>6. OpIs'
    BY <2>1 DEF OpIs, OfBackup, OfRestore, FromThere, Locals
  <2>7. ResultIs'
    BY <2>1 DEF ResultIs, Failing
  <2>8. SaveIs'
    BY <2>1, NamesApart DEF SaveIs, Save, Busy, Swap, MovedTo, Typed, Locals, card
  <2>9. OkIsDurable'
    BY <2>1 DEF OkIsDurable, ResultIs, Failing, Failed, FailsWith
  <2>10. Safe
    BY <2>1, NamesApart DEF Safe, Free, MovedTo, card, Save, Choices, Card, RollbackIs, Swap
  <2> QED
    BY <2>2, <2>3, <2>4, <2>5, <2>6, <2>7, <2>8, <2>9, <2>10 DEF Keeps, IInv, Control
<1>17. CASE (UNCHANGED Locals /\ Remove("discardSync", RestoreTemp, "syncDiscard", "syncDiscard"))
  <2>1. /\ pc = "discardSync" /\ Card' /\ faults' \in 0 .. MaxFaults /\ UNCHANGED Locals
        /\ images' \subseteq images \cup {fs'}
        /\ \A m \in Names : m # RestoreTemp => fs'[m] = fs[m]
        /\ \/ fs'[RestoreTemp] = NoFile /\ pc' = "syncDiscard" /\ result' = result
           \/ UNCHANGED card /\ pc' = "syncDiscard" /\ FailsWith("IO_ERROR")
    BY <1>17, RemoveTakes DEF Temps
  <2>2. Card'
    BY <2>1
  <2>3. Typed'
    BY <2>1 DEF Typed, Locals, Labels, Results, FailsWith
  <2>4. RollbackIs'
    BY <2>1 DEF RollbackIs, Unrolled, RolledOut, Swap
  <2>5. CopyIs'
    BY <2>1 DEF CopyIs, Verified, Promoted
  <2>6. OpIs'
    BY <2>1 DEF OpIs, OfBackup, OfRestore, FromThere, Locals
  <2>7. ResultIs'
    BY <2>1 DEF ResultIs, Failing, Failed, FailsWith
  <2>8. SaveIs'
    BY <2>1, NamesApart DEF SaveIs, Save, Busy, Swap, Typed, Locals
  <2>9. OkIsDurable'
    BY <2>1 DEF OkIsDurable
  <2>10. Safe
    BY <2>1, NamesApart DEF Safe, Save, Choices, Card
  <2> QED
    BY <2>2, <2>3, <2>4, <2>5, <2>6, <2>7, <2>8, <2>9, <2>10 DEF Keeps, IInv, Control
<1>18. CASE SyncOrFail("syncDiscard", "menu", "menu")
  <2>1. /\ SyncedTo("syncDiscard")
        /\ \/ images' = {fs'} /\ pc' = "menu" /\ result' = result
           \/ UNCHANGED card /\ pc' = "menu" /\ FailsWith("IO_ERROR")
    BY <1>18, SyncFails
  <2>2. Card'
    BY <2>1 DEF SyncedTo
  <2>3. Typed'
    BY <2>1 DEF Typed, Locals, Labels, Results, FailsWith, SyncedTo
  <2>4. RollbackIs'
    BY <2>1 DEF RollbackIs, Unrolled, RolledOut, Swap
  <2>5. CopyIs'
    BY <2>1 DEF CopyIs, Verified, Promoted
  <2>6. OpIs'
    BY <2>1 DEF OpIs, OfBackup, OfRestore, FromThere, SyncedTo, Locals
  <2>7. ResultIs'
    BY <2>1 DEF ResultIs, Failing
  <2>8. SaveIs'
    BY <2>1, NamesApart DEF SaveIs, Save, Busy, Swap, SyncedTo, Temps, Typed, Locals
  <2>9. OkIsDurable'
    BY <2>1 DEF OkIsDurable, ResultIs, Failing, Failed, FailsWith, SyncedTo
  <2>10. Safe
    BY <2>1, NamesApart DEF Safe, SyncedTo, Temps, Save, Choices, Card
  <2> QED
    BY <2>2, <2>3, <2>4, <2>5, <2>6, <2>7, <2>8, <2>9, <2>10 DEF Keeps, IInv, Control
<1> QED
  BY <1>1, <1>2, <1>3, <1>4, <1>5, <1>6, <1>7, <1>8, <1>9, <1>10, <1>11, <1>12, <1>13, <1>14,
     <1>15, <1>16, <1>17, <1>18
     DEF Restore, SyncPromote, SyncArchive, Demote

(* The user's calls leave the card alone.                                  *)
LEMMA UserKeeps ==
  ASSUME IInv, User
  PROVE  IInv' /\ UNCHANGED card
<1>1. /\ UNCHANGED <<card, aside, place, faults, crashes, sessions>>
      /\ pc' = "recover" /\ result' = "OK" /\ before' = Save(fs)
      /\ op' \in [kind : {"boot", "launch", "backup", "restore"}, from : Archives \cup {External}]
  BY DEF User, Launch, Begin, Listed
<1>2. Card' /\ Save(fs) \in Files
  BY <1>1, NamesApart DEF IInv, Card, Save, card
<1>3. Typed'
  BY <1>1, <1>2 DEF IInv, Typed, Labels, Results
<1>4. RollbackIs' /\ OpIs' /\ ResultIs'
  BY <1>1
     DEF RollbackIs, OpIs, ResultIs, Unrolled, RolledOut, Swap, OfBackup, OfRestore, Copying,
         FromThere, Failing, Failed
<1>5. CopyIs' /\ OkIsDurable'
  BY <1>1 DEF CopyIs, OkIsDurable, Verified, Promoted
<1>6. SaveIs'
  BY <1>1 DEF SaveIs, Save, Swap, card
<1> QED
  BY <1>1, <1>2, <1>3, <1>4, <1>5, <1>6 DEF IInv, Control

(* A control state that every later step leaves by a fresh start.          *)
LEMMA BootIsIdle ==
  ASSUME pc' = "boot"
  PROVE  Control' /\ OkIsDurable'
<1>1. RollbackIs' /\ OpIs' /\ ResultIs'
  BY DEF RollbackIs, OpIs, ResultIs, Unrolled, RolledOut, Swap, OfBackup, OfRestore, Copying,
         FromThere, Failing
<1>2. CopyIs' /\ SaveIs' /\ OkIsDurable'
  BY DEF CopyIs, SaveIs, OkIsDurable, Verified, Promoted, Busy, Swap
<1> QED
  BY <1>1, <1>2 DEF Control

(* A session writes a whole save, and everything else is on the card.      *)
LEMMA PlayKeeps ==
  ASSUME IInv, Play
  PROVE  IInv'
<1>1. Card' /\ sessions' \in 0 .. MaxSessions
  <2>1. CASE UNCHANGED <<card, sessions>>
    BY <2>1 DEF IInv, Card, Typed, card
  <2>2. CASE /\ sessions < MaxSessions /\ sessions' = sessions + 1
             /\ fs' = [Flushed EXCEPT ![Target] = Whole(sessions + 2)] /\ images' = {fs'}
    <3>1. \A n \in Names : fs[n] \in Files /\ Flushed[n] = Synced(fs[n])
      BY DEF IInv, Card, Flushed, Synced
    <3>2. Flushed \in [Names -> Files] /\ \A n \in Names : Flushed[n].synced
      BY <3>1, SyncedFile DEF Flushed
    <3>3. Whole(sessions + 2) \in Files /\ Whole(sessions + 2).synced
      BY <2>2, FilesTyped, ManagerStorageAssumption DEF IInv, Typed, Contents, Whole
    <3>4. fs' \in [Names -> Files] /\ \A n \in Names : fs'[n].synced
      BY <2>2, <3>2, <3>3
    <3>5. Card'
      BY <2>2, <3>4 DEF Card
    <3> QED
      BY <2>2, <3>5, ManagerStorageAssumption DEF IInv, Typed
  <2> QED
    BY <2>1, <2>2 DEF Play
<1>2. Typed'
  BY <1>1 DEF Play, IInv, Typed, Labels
<1> QED
  BY <1>1, <1>2, BootIsIdle DEF Play, IInv

(* What a power failure leaves is a state the card went through, but for   *)
(* the work files.                                                         *)
LEMMA SettledCard ==
  ASSUME Card, NEW i \in images, NEW f \in Settled(i)
  PROVE  /\ f \in [Names -> Files] /\ \A n \in Names : f[n].synced
         /\ \A n \in Names \ Temps : f[n] = i[n]
<1>1. PICK T \in SUBSET {n \in Names : ~i[n].synced} :
        f = [n \in Names |-> IF n \in T THEN Whole(Torn) ELSE Synced(i[n])]
  BY DEF Settled, Synced
<1>2. \A n \in Names : /\ i[n] \in Files /\ Synced(i[n]) \in Files /\ Synced(i[n]).synced
                       /\ i[n].synced => Synced(i[n]) = i[n]
  BY SyncedFile DEF Card
<1>3. Whole(Torn) \in Files /\ Whole(Torn).synced
  BY FilesTyped DEF Whole
<1>4. \A n \in Names : f[n] \in Files /\ f[n].synced
  BY <1>1, <1>2, <1>3
<1>5. \A n \in Names \ Temps : i[n].synced /\ n \notin T
  BY <1>1 DEF Card
<1> QED
  BY <1>1, <1>2, <1>4, <1>5

(* A power failure brings back one of the card's images.                   *)
LEMMA PowerFailureKeeps ==
  ASSUME IInv, PowerFails
  PROVE  IInv'
<1>1. PICK i \in images : fs' \in Settled(i)
  BY DEF PowerFails
<1>2. Card'
  BY <1>1, SettledCard DEF PowerFails, IInv, Card
<1>3. Typed'
  BY ManagerStorageAssumption DEF PowerFails, IInv, Typed, Labels, Results
<1> QED
  BY <1>2, <1>3, BootIsIdle DEF PowerFails, IInv

(* The invariant holds at first ...                                        *)
LEMMA Initially == Init => IInv
<1> SUFFICES ASSUME Init
             PROVE  IInv
  OBVIOUS
<1>1. Whole(0) \in Files /\ Whole(1) \in Files /\ Whole(0).synced /\ Whole(1).synced
  BY FilesTyped, ManagerStorageAssumption DEF Contents, Whole
<1>2. fs \in [Names -> Files] /\ \A n \in Names : fs[n].synced
  BY <1>1, FilesTyped DEF Init
<1>3. Card
  BY <1>2 DEF Init, Card
<1>4. Typed
  <2>1. before \in Files
    BY <1>2, NamesApart DEF Init, Save
  <2>2. place \in Indices
    BY ManagerStorageAssumption DEF Init, Indices
  <2>3. aside \in BOOLEAN /\ pc \in Labels /\ result \in Results
    BY DEF Init, Labels, Results
  <2>4. op \in [kind : {"boot", "launch", "backup", "restore"}, from : Archives \cup {External}]
    BY DEF Init
  <2> QED
    BY <2>1, <2>2, <2>3, <2>4, ManagerStorageAssumption DEF Init, Typed
<1>5. RollbackIs /\ OpIs /\ ResultIs
  BY DEF Init, RollbackIs, OpIs, ResultIs, Unrolled, RolledOut, Swap, OfBackup, OfRestore,
         Copying, FromThere, Failing
<1>6. CopyIs /\ SaveIs /\ OkIsDurable
  BY DEF Init, CopyIs, SaveIs, OkIsDurable, Verified, Promoted, Busy, Swap
<1> QED
  BY <1>3, <1>4, <1>5, <1>6 DEF IInv, Control

(* ... every step of an operation keeps it, and the saves ...              *)
LEMMA StepKeeps ==
  ASSUME IInv, Step
  PROVE  Keeps
<1>1. Card /\ Typed /\ RollbackIs /\ CopyIs /\ OpIs /\ ResultIs /\ SaveIs /\ OkIsDurable
  BY DEF IInv, Control
<1> QED
  BY <1>1, RecoverKeeps, CopyKeeps, BackupKeeps, RestoreKeeps DEF Step

(* ... and so does every step.                                             *)
LEMMA NextKeeps ==
  ASSUME IInv, [Next]_vars
  PROVE  IInv'
<1>1. CASE Step
  BY <1>1, StepKeeps DEF Keeps
<1>2. CASE User
  BY <1>2, UserKeeps
<1>3. CASE Play
  BY <1>3, PlayKeeps
<1>4. CASE PowerFails
  BY <1>4, PowerFailureKeeps
<1>5. CASE UNCHANGED vars
  BY <1>5
     DEF vars, IInv, Card, Typed, Control, RollbackIs, CopyIs, OpIs, ResultIs, SaveIs,
         OkIsDurable, CopyTo, Choices, Save, Free
<1> QED
  BY <1>1, <1>2, <1>3, <1>4, <1>5 DEF Next

(* The invariant behind every result below holds in every reachable state. *)
THEOREM Invariance == Spec => []IInv
<1>1. Init => IInv
  BY Initially
<1>2. IInv /\ [Next]_vars => IInv'
  BY NextKeeps
<1> QED
  BY <1>1, <1>2, PTL DEF Spec

-----------------------------------------------------------------------------
(* The results                                                             *)

(* Every variable keeps its type, for any number of numbered names, faults *)
(* and power failures.                                                     *)
THEOREM TypeCorrect == Spec => []TypeOK
<1>1. IInv => TypeOK
  BY DEF IInv, Card, Typed, TypeOK
<1> QED
  BY <1>1, Invariance, PTL

(* The game never runs beside a half-done restore or backup, however the   *)
(* Manager was interrupted before.                                         *)
THEOREM NothingPending == Spec => []NothingPendingInGame
<1>1. IInv => NothingPendingInGame
  BY DEF IInv, Control, RollbackIs, CopyIs, Unrolled, NothingPendingInGame
<1> QED
  BY <1>1, Invariance, PTL

(* A result the user reads is true: OK survives every later power failure, *)
(* an error left the save as it was.                                       *)
THEOREM ResultsTell == Spec => []ResultsAreTrue
<1>1. IInv => ResultsAreTrue
  BY DEF IInv, Control, SaveIs, Failed, ErrorChangesNothing, ResultsAreTrue
<1> QED
  BY <1>1, Invariance, PTL

(* No step and no power failure loses a save.                              *)
LEMMA DurableStays ==
  ASSUME IInv, [Next]_vars, pc # "game"
  PROVE  Durable \subseteq Durable'
<1>1. ASSUME NEW c \in Contents
      PROVE  Whole(c) # NoFile
  BY <1>1, ManagerStorageAssumption DEF Contents, Whole, NoFile
<1>2. CASE Step
  <2> SUFFICES ASSUME NEW c \in Durable, NEW i \in images'
               PROVE  \E n \in Keeping : i[n] = Whole(c)
    BY DEF Durable
  <2>1. c \in Contents /\ \A j \in images : \E n \in Keeping : j[n] = Whole(c)
    BY DEF Durable
  <2>2. CASE i \in images
    BY <2>1, <2>2
  <2>3. CASE i = fs'
    <3>1. PICK n \in Keeping : fs[n] = Whole(c)
      BY <2>1 DEF IInv, Card
    <3>2. \E m \in Keeping : fs'[m] = fs[n]
      BY <1>1, <1>2, <2>1, <3>1, StepKeeps DEF Keeps, Safe
    <3> QED
      BY <2>3, <3>1, <3>2
  <2> QED
    BY <1>2, <2>2, <2>3, StepKeeps DEF Keeps, Safe
<1>3. CASE User \/ UNCHANGED vars
  BY <1>3, UserKeeps DEF Durable, card, vars
<1>4. CASE PowerFails
  <2>1. PICK i \in images : fs' \in Settled(i)
    BY <1>4 DEF PowerFails
  <2>2. \A n \in Keeping : fs'[n] = i[n]
    BY <2>1, SettledCard, NamesApart DEF IInv, Temps
  <2> QED
    BY <1>4, <2>1, <2>2 DEF PowerFails, Durable
<1> QED
  BY <1>2, <1>3, <1>4 DEF Next, Play

(* Whatever fails, and whenever the power does: bytes that every power     *)
(* failure would have left under some name stay so until the game writes.  *)
THEOREM NoSaveIsLost == Spec => NoSaveLost
<1>1. IInv /\ [Next]_vars => [pc # "game" => Durable \subseteq Durable']_vars
  BY DurableStays
<1> QED
  BY <1>1, Invariance, PTL DEF Spec, NoSaveLost

(* A step adds no other save to those a recovery may find.                 *)
LEMMA ChoicesStay ==
  ASSUME IInv, [Next]_vars, pc # "game"
  PROVE  Choices' \subseteq Choices \cup IF op.kind = "restore" THEN {fs[op.from]} ELSE {}
<1>1. Choices' = {Save(i) : i \in images'}
  BY DEF Choices, Save
<1>2. CASE Step
  BY <1>1, <1>2, StepKeeps DEF Keeps, Safe, Choices
<1>3. CASE User \/ UNCHANGED vars
  BY <1>1, <1>3, UserKeeps DEF Choices, card, vars
<1>4. CASE PowerFails
  <2>1. PICK i \in images : fs' \in Settled(i)
    BY <1>4 DEF PowerFails
  <2>2. Save(fs') = Save(i)
    BY <2>1, SettledCard, NamesApart DEF IInv, Temps, Save
  <2> QED
    BY <1>1, <1>4, <2>1, <2>2 DEF PowerFails, Choices
<1> QED
  BY <1>2, <1>3, <1>4 DEF Next, Play

(* A slot changes its save only to the backup being restored, and in one   *)
(* step: a recovery after any interruption finds the one or the other.     *)
THEOREM SlotsAreAtomic == Spec => SlotIsAtomic
<1>1. IInv /\ [Next]_vars =>
        [pc # "game" =>
          Choices' \subseteq Choices \cup IF op.kind = "restore" THEN {fs[op.from]} ELSE {}]_vars
  BY ChoicesStay
<1> QED
  BY <1>1, Invariance, PTL DEF Spec, SlotIsAtomic
=============================================================================
