----------------------------- MODULE BrainRestore -----------------------------
(***************************************************************************)
(* Restoring a local brain from a cloud bundle                             *)
(* (brain_sync_restore_materializer.py): the brain's directory, its record *)
(* in the brain registry, and, under .brain_sync_restore, each             *)
(* transaction's file, backup, rollback staging and idempotency files.     *)
(*                                                                         *)
(* _exclusive_restore_lock admits one apply, retry or rollback at a time;   *)
(* nothing else takes it, so edits of the brain and of the registry fall   *)
(* between any two steps, and copies of either that were read before them  *)
(* are stored after them. Every step is one rename, one removal or one     *)
(* atomic write (_atomic_json_write); it can fail, and the process can     *)
(* crash before it.                                                        *)
(***************************************************************************)
EXTENDS Naturals, FiniteSets

CONSTANTS
  Txs,         \* transactions, one per idempotency key
  Own,         \* the writer of what no restore wrote
  Writers,     \* requests that read the brain or the registry, then store it
  NoDir,       \* no directory
  NoCopy,      \* no copy of the registry
  NoRecord,    \* no record in the registry
  MaxEdits,    \* bound on edits of the brain and of the registry
  MaxFaults,   \* bound on steps that fail
  MaxCrashes,  \* bound on crashes
  MaxRemakes,  \* bound on directories that are made again
  MaxMishaps   \* bound on all three together

ASSUME RestoreAssumption ==
  /\ Own \notin Txs /\ NoRecord \notin Txs \cup {Own}
  /\ {MaxEdits, MaxFaults, MaxCrashes, MaxRemakes, MaxMishaps} \subseteq Nat

VARIABLES
  dest, registry,             \* the brain's directory; the registry file
  backup, kept,               \* backups/, rollback_staging/ of a transaction
  status, orig,               \* the transaction file: its status, what the
  base, installed, after,     \*   apply found, and the three recorded hashes
  idem,                       \* the apply's idempotency file
  seen,                       \* the destination state a preflight answered
  pc, cur, retry, loaded,     \* the operation that holds the lock
  copy, draft,                \* the brain, the registry as a writer read it
  clock, quiet, used,         \* edits made, those under no lock, mishaps
  crossed                     \* history: restores a stale copy was stored in

files == <<dest, registry, backup, kept>>
hashes == <<base, installed, after>>
record == <<status, orig, base, installed, after>>
answers == <<idem, seen>>
op == <<pc, cur, retry, loaded>>
copies == <<copy, draft>>
vars == <<files, record, answers, op, copies, clock, quiet, used, crossed>>

-----------------------------------------------------------------------------
(* What is in a directory and in the registry. A hash is the content.      *)

Edits == 0 .. MaxEdits

\* root: who wrote the brain's graph; edits: the edits made to it since.
Content(root, edits) == [root |-> root, edits |-> edits]

Contents == [root : Txs \cup {Own}, edits : SUBSET Edits]

ASSUME NoDirAssumption == NoDir \notin Contents

\* The brain as the first restore finds it; edit 0 stands for all it holds.
Original == Content(Own, {0})

\* What refresh_local_brain_registry makes of a registered brain's missing
\* directory.
Blank == Content(Own, {})

Reg(rec, edits) == [record |-> rec, edits |-> edits]

Registries == [record : Txs \cup {Own, NoRecord}, edits : SUBSET Edits]

ASSUME NoCopyAssumption == NoCopy \notin Registries

\* Nothing loaded.
NotLoaded == Reg(NoRecord, {})

\* What an apply found: the directory, original_registry, and (history) how
\* many edits had been made.
Found(d, r, c) == [dest |-> d, registry |-> r, began |-> c]

Existed(t) == orig[t].registry.record # NoRecord

Binding == <<registry.record, dest>>

EditsIn(d) == IF d = NoDir THEN {} ELSE d.edits

\* Edits of the brain that are in some directory.
Held == EditsIn(dest) \cup
        UNION {EditsIn(backup[t]) \cup EditsIn(kept[t]) : t \in Txs}

\* d is w, edited or not.
Follows(d, w) == d # NoDir /\ d.root = w.root /\ w.edits \subseteq d.edits

Applying == {"check", "move", "recordBackup", "install", "recordInstalled",
             "loadRegistry", "updateRegistry", "recordRegistry",
             "writeReceipt", "recordApplied"}
Undoing == {"undo", "undoMove", "undoRegistry", "recordUndone"}
RollingBack == {"retain", "installBackup", "restoreRegistry",
                "recordRolledBack"}
Reverting == {"revert", "revertMove", "revertRegistry", "recordReverted",
              "revertReceipt"}
Steps == {"idle", "recover", "cleanup"} \cup
         Applying \cup Undoing \cup RollingBack \cup Reverting

\* staging is a part of staged: an undo treats them alike.
Moved == {"backup_created", "destination_installed", "registry_committed"}
Unrolled == {"rollback_pending", "rollback_recovery_required"}
Status == {"none", "staged", "applied", "apply_rolled_back", "rolled_back"} \cup
          Moved \cup Unrolled

Mishaps == {"faults", "crashes", "remakes"}

Bound == [faults |-> MaxFaults, crashes |-> MaxCrashes, remakes |-> MaxRemakes]

TypeOK ==
  /\ dest \in Contents \cup {NoDir}
  /\ registry \in Registries
  /\ backup \in [Txs -> Contents \cup {NoDir}]
  /\ kept \in [Txs -> Contents \cup {NoDir}]
  /\ status \in [Txs -> Status]
  /\ orig \in [Txs -> [dest : Contents \cup {NoDir}, registry : Registries,
                       began : Edits]]
  /\ base \in [Txs -> Contents \cup {NoDir}]
  /\ installed \in [Txs -> Contents \cup {NoDir}]
  /\ after \in [Txs -> Registries]
  /\ idem \in [Txs -> BOOLEAN]
  /\ seen \in [Txs -> (Txs \cup {Own, NoRecord}) \X (Contents \cup {NoDir})]
  /\ pc \in Steps /\ cur \in Txs /\ retry \in BOOLEAN /\ loaded \in Registries
  /\ copy \in [Writers -> Contents \cup {NoDir}]
  /\ draft \in [Writers -> Registries \cup {NoCopy}]
  /\ clock \in Edits
  /\ quiet \in SUBSET Edits
  /\ used \in [Mishaps -> Nat]
  /\ crossed \in SUBSET Txs

Init ==
  /\ \/ dest = Original /\ registry = Reg(Own, {0})
     \/ dest = NoDir /\ registry = Reg(NoRecord, {0})
  /\ backup = [t \in Txs |-> NoDir] /\ kept = [t \in Txs |-> NoDir]
  /\ status = [t \in Txs |-> "none"]
  /\ orig = [t \in Txs |-> Found(dest, registry, 0)]
  /\ base = [t \in Txs |-> NoDir] /\ installed = [t \in Txs |-> NoDir]
  /\ after = [t \in Txs |-> registry]
  /\ idem = [t \in Txs |-> FALSE]
  /\ seen = [t \in Txs |-> Binding]
  /\ pc = "idle" /\ cur \in Txs /\ retry = FALSE /\ loaded = NotLoaded
  /\ copy = [w \in Writers |-> NoDir] /\ draft = [w \in Writers |-> NoCopy]
  /\ clock = 0 /\ quiet = {0}
  /\ used = [m \in Mishaps |-> 0]
  /\ crossed = {}

Goto(step) == pc' = step /\ UNCHANGED <<cur, retry, loaded>>

\* The tail of an atomic write of the transaction file.
Records(t, s, step) == status' = [status EXCEPT ![t] = s] /\ Goto(step)

Calm == UNCHANGED <<copies, clock, quiet, used, crossed>>

-----------------------------------------------------------------------------
(* The rest of the program (brain_registry.py and every writer of a brain), *)
(* which does not take the lock. Brains are created and deleted here only  *)
(* while no operation runs, by a request that just read the registry.      *)

MishapsSoFar == used["faults"] + used["crashes"] + used["remakes"]

Uses(m) ==
  /\ used[m] < Bound[m] /\ MishapsSoFar < MaxMishaps
  /\ used' = [used EXCEPT ![m] = @ + 1]

Happens(m) == Uses(m) /\ UNCHANGED <<copies, clock, quiet, crossed>>

\* The last edit number is kept for a copy that is about to be stored.
Busy(w) == copy[w] # NoDir \/ draft[w] # NoCopy

Pending == \E w \in Writers : Busy(w)

Dated == clock' = clock + 1 /\ clock < MaxEdits

Edited ==
  /\ Dated /\ (Pending => clock' < MaxEdits)
  /\ quiet' = IF pc = "idle" THEN quiet \cup {clock'} ELSE quiet

Elsewhere == UNCHANGED <<backup, kept, record, answers, op>>

\* A writer that reads and writes the brain in one transaction.
EditBrain ==
  /\ dest # NoDir /\ Edited
  /\ dest' = Content(dest.root, dest.edits \cup {clock'})
  /\ UNCHANGED <<registry, copies, used, crossed>> /\ Elsewhere

\* The others read the whole graph, or load the whole registry, edit their
\* copy and store it, and nothing is compared or locked from the first to the
\* second (refresh_local_brain_record takes a lock that no restore takes).
ReadBrain(w) ==
  /\ ~Busy(w) /\ dest # NoDir
  /\ clock + (IF Pending THEN 1 ELSE 0) < MaxEdits
  /\ copy' = [copy EXCEPT ![w] = dest]
  /\ UNCHANGED <<dest, registry, draft, clock, quiet, used, crossed>> /\ Elsewhere

ReadRegistry(w) ==
  /\ ~Busy(w)
  /\ clock + (IF Pending THEN 1 ELSE 0) < MaxEdits
  /\ draft' = [draft EXCEPT ![w] = registry]
  /\ UNCHANGED <<dest, registry, copy, clock, quiet, used, crossed>> /\ Elsewhere

\* Storing a copy where edits old were. What it removes or brings back is
\* nobody's edit any more, and what restores found and left is overwritten.
Stores(old, new) ==
  quiet' = {e \in quiet : e \in old <=> e \in new}
           \cup IF pc = "idle" THEN {clock'} ELSE {}

Crosses(fresh) == crossed' = IF fresh THEN crossed ELSE Txs

\* replace_runtime_graph. Its connection makes the directory if it is gone.
StoreBrain(w) ==
  /\ copy[w] # NoDir /\ Dated
  /\ dest' = Content(copy[w].root, copy[w].edits \cup {clock'})
  /\ Stores(EditsIn(dest), dest'.edits) /\ Crosses(dest = copy[w])
  /\ IF dest = NoDir THEN Uses("remakes") ELSE UNCHANGED used
  /\ copy' = [copy EXCEPT ![w] = NoDir]
  /\ UNCHANGED <<registry, draft>> /\ Elsewhere

\* _finalize_registry.
StoreRegistry(w) ==
  /\ draft[w] # NoCopy /\ Dated
  /\ registry' = Reg(draft[w].record, draft[w].edits \cup {clock'})
  /\ Stores(registry.edits, registry'.edits) /\ Crosses(registry = draft[w])
  /\ draft' = [draft EXCEPT ![w] = NoCopy]
  /\ UNCHANGED <<dest, copy, used>> /\ Elsewhere

\* Makes the directory, or takes over the one an unregistered brain left.
CreateBrain ==
  /\ pc = "idle" /\ registry.record = NoRecord /\ Edited
  /\ dest' = IF dest = NoDir THEN Content(Own, {clock'})
             ELSE Content(dest.root, dest.edits \cup {clock'})
  /\ registry' = Reg(Own, registry.edits)
  /\ UNCHANGED <<copies, used, crossed>> /\ Elsewhere

\* With its storage, or leaving the directory behind.
DeleteBrain ==
  /\ pc = "idle" /\ registry.record # NoRecord
  /\ dest' \in {dest, NoDir}
  /\ registry' = Reg(NoRecord, registry.edits)
  /\ Calm /\ Elsewhere

\* A request keeps the path of its brain, and a refresh the brains it loaded.
Known(w) == copy[w] # NoDir \/ (draft[w] # NoCopy /\ draft[w].record # NoRecord)

\* build_local_brain_record and connect make the directory of such a brain.
Remake ==
  /\ dest = NoDir
  /\ registry.record # NoRecord \/ \E w \in Writers : Known(w)
  /\ Happens("remakes")
  /\ dest' = Blank
  /\ UNCHANGED registry /\ Elsewhere

-----------------------------------------------------------------------------
(* Preflight and apply.                                                    *)

\* The apply's fingerprint holds what the preflight answered, so a key that
\* has a transaction keeps the answer its first apply was sent with.
Preflight(t) ==
  /\ pc = "idle" /\ status[t] = "none"
  /\ seen' = [seen EXCEPT ![t] = Binding]
  /\ Calm /\ UNCHANGED <<files, record, idem, op>>

\* An apply whose key has no idempotency file: a new transaction, or one that
\* did not reach its end, which is undone before it is begun again.
Request(t) ==
  /\ pc = "idle" /\ ~idem[t]
  /\ pc' = IF status[t] = "none" THEN "check" ELSE "undo"
  /\ cur' = t /\ retry' = (status[t] # "none") /\ UNCHANGED loaded
  /\ Calm /\ UNCHANGED <<files, record, answers>>

\* Flaw: the receipt is answered whatever became of the restore.
Answers_Always(t) == idem[t]

\* An apply whose key has one: the receipt is answered, and nothing is done.
Answers(t) == idem[t] /\ status[t] \notin {"rolled_back"} \cup Unrolled

Acceptable(t) ==
  /\ registry.record = NoRecord => dest = NoDir
  /\ Binding = seen[t]
  /\ backup[t] = NoDir

Begins(t) == crossed' = crossed \ {t} /\ UNCHANGED <<copies, clock, quiet, used>>

\* Flaw: the directory's move is recorded before it is made.
Check_RecordsMove(t) ==
  /\ pc = "check" /\ cur = t
  /\ \/ ~Acceptable(t) /\ Goto("idle") /\ Calm /\ UNCHANGED record
     \/ /\ Acceptable(t) /\ Begins(t)
        /\ orig' = [orig EXCEPT ![t] = Found(dest, registry, clock)]
        /\ IF registry.record # NoRecord THEN Records(t, "backup_created", "move")
           ELSE Records(t, "staged", "install")
        /\ UNCHANGED hashes
  /\ UNCHANGED <<files, answers>>

\* The checks, the transaction file and the staged brain.
Check(t) ==
  /\ pc = "check" /\ cur = t
  /\ \/ ~Acceptable(t) /\ Goto("idle") /\ Calm /\ UNCHANGED record
     \/ /\ Acceptable(t) /\ Begins(t)
        /\ orig' = [orig EXCEPT ![t] = Found(dest, registry, clock)]
        /\ Records(t, "staged",
                   IF registry.record # NoRecord THEN "move" ELSE "install")
        /\ UNCHANGED hashes
  /\ UNCHANGED <<files, answers>>

\* An exception in the apply, at a step whose effect does not happen.
Undo == pc' = "undo" /\ retry' = FALSE /\ UNCHANGED <<cur, loaded, files>>

Move(t) ==
  /\ pc = "move" /\ cur = t
  /\ \/ dest = NoDir /\ Undo
     \/ /\ dest # NoDir
        /\ backup' = [backup EXCEPT ![t] = dest]
        /\ dest' = NoDir
        /\ Goto("recordBackup") /\ UNCHANGED <<registry, kept>>
  /\ Calm /\ UNCHANGED <<record, answers>>

RecordBackup(t) ==
  /\ pc = "recordBackup" /\ cur = t
  /\ base' = [base EXCEPT ![t] = backup[t]]
  /\ Records(t, "backup_created", "install")
  /\ Calm /\ UNCHANGED <<files, orig, installed, after, answers>>

\* Renaming the staged brain to a directory that is there fails.
Install(t) ==
  /\ pc = "install" /\ cur = t
  /\ \/ dest # NoDir /\ Undo
     \/ /\ dest = NoDir
        /\ dest' = Content(t, {})
        /\ Goto("recordInstalled") /\ UNCHANGED <<registry, backup, kept>>
  /\ Calm /\ UNCHANGED <<record, answers>>

RecordInstalled(t) ==
  /\ pc = "recordInstalled" /\ cur = t
  /\ installed' = [installed EXCEPT ![t] = dest]
  /\ Records(t, "destination_installed", "loadRegistry")
  /\ Calm /\ UNCHANGED <<files, orig, base, after, answers>>

\* _update_registry_after_restore is such a writer of the registry itself.
LoadRegistry(t) ==
  /\ pc = "loadRegistry" /\ cur = t
  /\ loaded' = registry
  /\ pc' = "updateRegistry" /\ UNCHANGED <<cur, retry>>
  /\ Calm /\ UNCHANGED <<files, record, answers>>

UpdateRegistry(t) ==
  /\ pc = "updateRegistry" /\ cur = t
  /\ registry' = Reg(t, loaded.edits)
  /\ loaded' = NotLoaded
  /\ pc' = "recordRegistry" /\ UNCHANGED <<cur, retry>>
  /\ Calm /\ UNCHANGED <<dest, backup, kept, record, answers>>

RecordRegistry(t) ==
  /\ pc = "recordRegistry" /\ cur = t
  /\ after' = [after EXCEPT ![t] = registry]
  /\ Records(t, "registry_committed", "writeReceipt")
  /\ Calm /\ UNCHANGED <<files, orig, base, installed, answers>>

WriteReceipt(t) ==
  /\ pc = "writeReceipt" /\ cur = t
  /\ idem' = [idem EXCEPT ![t] = TRUE]
  /\ Goto("recordApplied")
  /\ Calm /\ UNCHANGED <<files, record, seen>>

RecordApplied(t) ==
  /\ pc = "recordApplied" /\ cur = t
  /\ Records(t, "applied", "idle")
  /\ Calm /\ UNCHANGED <<files, orig, hashes, answers>>

-----------------------------------------------------------------------------
(* _rollback_restore_transaction, of a failed apply and before a retry.    *)

\* Where the directory that was moved aside should be and is not.
BackupMissing(t) == Existed(t) /\ backup[t] = NoDir /\ status[t] \in Moved

\* Flaw: the undo trusts the recorded status, not the directories.
Removes_Recorded(t) == Existed(t) <=> status[t] \in Moved

Removes(t) == Existed(t) <=> backup[t] # NoDir

UndoDest(t) ==
  /\ pc = "undo" /\ cur = t
  /\ \/ BackupMissing(t) /\ Goto("idle") /\ UNCHANGED dest
     \/ /\ ~BackupMissing(t)
        /\ dest' = IF Removes(t) THEN NoDir ELSE dest
        /\ Goto(IF Existed(t) /\ Removes(t) THEN "undoMove" ELSE "undoRegistry")
  /\ Calm /\ UNCHANGED <<registry, backup, kept, record, answers>>

UndoMove(t) ==
  /\ pc = "undoMove" /\ cur = t
  /\ \/ dest # NoDir /\ Goto("idle") /\ UNCHANGED files
     \/ /\ dest = NoDir
        /\ dest' = backup[t]
        /\ backup' = [backup EXCEPT ![t] = NoDir]
        /\ Goto("undoRegistry") /\ UNCHANGED <<registry, kept>>
  /\ Calm /\ UNCHANGED <<record, answers>>

UndoRegistry(t) ==
  /\ pc = "undoRegistry" /\ cur = t
  /\ registry' = orig[t].registry
  /\ Goto("recordUndone")
  /\ Calm /\ UNCHANGED <<dest, backup, kept, record, answers>>

RecordUndone(t) ==
  /\ pc = "recordUndone" /\ cur = t
  /\ status' = [status EXCEPT ![t] = "apply_rolled_back"]
  /\ pc' = IF retry THEN "check" ELSE "idle"
  /\ retry' = FALSE /\ UNCHANGED <<cur, loaded>>
  /\ Calm /\ UNCHANGED <<files, orig, hashes, answers>>

-----------------------------------------------------------------------------
(* The public rollback of an applied restore, and its reversal.            *)

\* Flaw: what the brain is now is not compared.
CanRollBack_AnyBrain(t) ==
  /\ status[t] = "applied" /\ Existed(t)
  /\ dest # NoDir
  /\ backup[t] # NoDir /\ backup[t] = base[t]
  /\ registry = after[t]
  /\ kept[t] = NoDir

CanRollBack(t) ==
  /\ status[t] = "applied" /\ Existed(t)
  /\ dest # NoDir /\ dest = installed[t]
  /\ backup[t] # NoDir /\ backup[t] = base[t]
  /\ registry = after[t]
  /\ kept[t] = NoDir

Rollback(t) ==
  /\ pc = "idle" /\ CanRollBack(t)
  /\ status' = [status EXCEPT ![t] = "rollback_pending"]
  /\ pc' = "retain" /\ cur' = t /\ retry' = FALSE /\ UNCHANGED loaded
  /\ Calm /\ UNCHANGED <<files, orig, hashes, answers>>

\* dest is a directory here: CanRollBack saw it, and DeleteBrain waits.
Retain(t) ==
  /\ pc = "retain" /\ cur = t
  /\ kept' = [kept EXCEPT ![t] = dest]
  /\ dest' = NoDir
  /\ Goto("installBackup")
  /\ Calm /\ UNCHANGED <<registry, backup, record, answers>>

InstallBackup(t) ==
  /\ pc = "installBackup" /\ cur = t
  /\ \/ dest # NoDir /\ Goto("revert") /\ UNCHANGED files
     \/ /\ dest = NoDir
        /\ dest' = backup[t]
        /\ backup' = [backup EXCEPT ![t] = NoDir]
        /\ Goto("restoreRegistry") /\ UNCHANGED <<registry, kept>>
  /\ Calm /\ UNCHANGED <<record, answers>>

RestoreRegistry(t) ==
  /\ pc = "restoreRegistry" /\ cur = t
  /\ \/ dest # base[t] /\ Goto("revert") /\ UNCHANGED registry
     \/ /\ dest = base[t]
        /\ registry' = orig[t].registry
        /\ Goto("recordRolledBack")
  /\ Calm /\ UNCHANGED <<dest, backup, kept, record, answers>>

RecordRolledBack(t) ==
  /\ pc = "recordRolledBack" /\ cur = t
  /\ Records(t, "rolled_back", "cleanup")
  /\ Calm /\ UNCHANGED <<files, orig, hashes, answers>>

Cleanup(t) ==
  /\ pc = "cleanup" /\ cur = t
  /\ kept' = [kept EXCEPT ![t] = NoDir]
  /\ Goto("idle")
  /\ Calm /\ UNCHANGED <<dest, registry, backup, record, answers>>

\* Flaw: the reversal refuses although the backup's place is free.
Collision_AnyBrain(t) == kept[t] # NoDir /\ dest # NoDir

Collision(t) == kept[t] # NoDir /\ dest # NoDir /\ backup[t] # NoDir

\* Flaw: the reversal removes the brain that the rollback had installed.
Revert_Removes(t) ==
  /\ pc = "revert" /\ cur = t
  /\ \/ Collision(t) /\ Goto("recover") /\ UNCHANGED dest
     \/ ~Collision(t) /\ kept[t] # NoDir /\ dest' = NoDir /\ Goto("revertMove")
     \/ kept[t] = NoDir /\ Goto("revertRegistry") /\ UNCHANGED dest
  /\ Calm /\ UNCHANGED <<registry, backup, kept, record, answers>>

\* dest goes back to the backup, when both renames had been made.
Revert(t) ==
  /\ pc = "revert" /\ cur = t
  /\ \/ Collision(t) /\ Goto("recover") /\ UNCHANGED <<dest, backup>>
     \/ /\ ~Collision(t) /\ kept[t] # NoDir
        /\ dest' = NoDir
        /\ backup' = [backup EXCEPT ![t] = IF dest = NoDir THEN @ ELSE dest]
        /\ Goto("revertMove")
     \/ kept[t] = NoDir /\ Goto("revertRegistry") /\ UNCHANGED <<dest, backup>>
  /\ Calm /\ UNCHANGED <<registry, kept, record, answers>>

RevertMove(t) ==
  /\ pc = "revertMove" /\ cur = t
  /\ \/ dest # NoDir /\ Goto("recover") /\ UNCHANGED <<dest, kept>>
     \/ /\ dest = NoDir
        /\ dest' = kept[t]
        /\ kept' = [kept EXCEPT ![t] = NoDir]
        /\ Goto("revertRegistry")
  /\ Calm /\ UNCHANGED <<registry, backup, record, answers>>

RevertRegistry(t) ==
  /\ pc = "revertRegistry" /\ cur = t
  /\ registry' = after[t]
  /\ Goto("recordReverted")
  /\ Calm /\ UNCHANGED <<dest, backup, kept, record, answers>>

RecordReverted(t) ==
  /\ pc = "recordReverted" /\ cur = t
  /\ Records(t, "applied", "revertReceipt")
  /\ Calm /\ UNCHANGED <<files, orig, hashes, answers>>

\* Unlinking the rollback's receipt and idempotency file; a replay reads them
\* only under rolled_back, so they are left out.
RevertReceipt(t) ==
  /\ pc = "revertReceipt" /\ cur = t
  /\ Goto("idle")
  /\ Calm /\ UNCHANGED <<files, record, answers>>

\* Flaw: the name of the error instead of the status.
Recover_ErrorName(t) ==
  /\ pc = "recover" /\ cur = t
  /\ Records(t, "recovery_required", "idle")
  /\ Calm /\ UNCHANGED <<files, orig, hashes, answers>>

Recover(t) ==
  /\ pc = "recover" /\ cur = t
  /\ Records(t, "rollback_recovery_required", "idle")
  /\ Calm /\ UNCHANGED <<files, orig, hashes, answers>>

-----------------------------------------------------------------------------
(* A step that raises, and a crash of the process, which frees the lock.   *)

Handler(step) ==
  IF step \in Applying \ {"check"} THEN "undo"
  ELSE IF step \in RollingBack THEN "revert"
  ELSE IF step \in Reverting THEN "recover" ELSE "idle"

Fault ==
  /\ pc # "idle" /\ Happens("faults")
  /\ pc' = Handler(pc)
  /\ retry' = (retry /\ pc' # "undo")
  /\ loaded' = NotLoaded
  /\ UNCHANGED <<cur, files, record, answers>>

Crash ==
  /\ pc # "idle" /\ Happens("crashes")
  /\ pc' = "idle" /\ loaded' = NotLoaded
  /\ UNCHANGED <<cur, retry, files, record, answers>>

Apply(t) ==
  \/ Preflight(t) \/ Request(t) \/ Check(t) \/ Move(t) \/ RecordBackup(t)
  \/ Install(t) \/ RecordInstalled(t) \/ LoadRegistry(t) \/ UpdateRegistry(t)
  \/ RecordRegistry(t) \/ WriteReceipt(t) \/ RecordApplied(t)

UndoApply(t) ==
  UndoDest(t) \/ UndoMove(t) \/ UndoRegistry(t) \/ RecordUndone(t)

RollBack(t) ==
  \/ Rollback(t) \/ Retain(t) \/ InstallBackup(t) \/ RestoreRegistry(t)
  \/ RecordRolledBack(t) \/ Cleanup(t)

RevertRollback(t) ==
  \/ Revert(t) \/ RevertMove(t) \/ RevertRegistry(t) \/ RecordReverted(t)
  \/ RevertReceipt(t) \/ Recover(t)

Next ==
  \/ \E t \in Txs : Apply(t) \/ UndoApply(t) \/ RollBack(t) \/ RevertRollback(t)
  \/ \E w \in Writers :
       ReadBrain(w) \/ ReadRegistry(w) \/ StoreBrain(w) \/ StoreRegistry(w)
  \/ EditBrain \/ CreateBrain \/ DeleteBrain \/ Remake
  \/ Fault \/ Crash

Spec == Init /\ [][Next]_vars

-----------------------------------------------------------------------------
(* Properties.                                                             *)

\* Nothing anyone did while no restore was running, the brain as it first was
\* included, is lost by a step of a restore, of its undo or of its rollback;
\* except by a retry, which undoes what it left behind before it looks at the
\* destination again, and then only what is newer than the retried apply, or
\* may have been brought back by another restore's undo.
QuietEditsKept ==
  [][pc # "idle" /\ pc' # pc =>
       \A e \in quiet :
         \/ /\ e \in Held => e \in Held'
            /\ e \in registry.edits => e \in registry'.edits
         \/ /\ retry
            /\ \/ e > orig[cur].began
               \/ \E t \in Txs \ {cur} : status[t] # "none"]_vars

\* A failed apply that says it is undone, and a rollback that says it is done,
\* leave the brain that the apply found, in the registry as it was, and no
\* older: nothing is there that was not, nothing that was there is missing.
\* Except where a copy of the brain or of the registry, read before something
\* changed it, was stored since the apply began (crossed): it is stored over
\* what the undo put back, and nothing compares it. And except in a retry.
SettledIsBefore ==
  [][\A t \in Txs :
       /\ status'[t] # status[t]
       /\ status'[t] \in {"apply_rolled_back", "rolled_back"}
       /\ ~retry /\ t \notin crossed
       => /\ IF orig[t].dest = NoDir THEN dest = NoDir \/ dest.root = Own
             ELSE Follows(dest, orig[t].dest)
          /\ registry.record = orig[t].registry.record
          /\ orig[t].registry.edits \subseteq registry.edits]_vars

\* As long as a restore is applied, the brain it replaced is retained: through
\* failed rollbacks, their reversals, and other restores; and whole, unless a
\* stale copy was stored where a rollback had just put it.
BackupRetained ==
  \A t \in Txs : status[t] = "applied" /\ Existed(t) =>
    backup[t] # NoDir /\ (t \notin crossed => Follows(backup[t], base[t]))

\* A replayed apply answers a receipt only of a restore that is applied; a
\* crash before the last write, or its failure, is the one exception, and
\* then the restore stands at its last step or is undone.
ReceiptsApplied ==
  \A t \in Txs :
    pc = "idle" /\ Answers(t) =>
      \/ status[t] = "applied"
      \/ status[t] \in {"registry_committed", "apply_rolled_back"}
         /\ MishapsSoFar > 0

\* One failed step or crash never leaves an apply that no retry can undo.
ApplyRecovers ==
  pc = "idle" /\ MishapsSoFar < 2 => \A t \in Txs : ~BackupMissing(t)

\* One failed step never leaves a rollback half done, when nobody edited the
\* brain under it: it ends as rolled back or as applied. (A crash does leave
\* it so, and a registry refresh between the two renames.)
RollbackReverts ==
  /\ pc = "idle" /\ quiet = 0 .. clock
  /\ used["crashes"] + used["remakes"] = 0 /\ used["faults"] < 2
  => \A t \in Txs : status[t] \notin Unrolled
=============================================================================
