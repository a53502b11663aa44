-------------------------- MODULE BrainRestoreEdits --------------------------
(***************************************************************************)
(* What was edited while no restore was running is kept: the proof of the  *)
(* QuietEditsKept of BrainRestore, for any number of transactions, edits,  *)
(* faults and crashes.                                                     *)
(*                                                                         *)
(* A step of an operation loses an edit only by removing a directory or by *)
(* putting a registry in place of another. Spared says that the directory  *)
(* removed holds no quiet edit, RegistrySpared that both registries hold   *)
(* the same of them; a retry alone escapes both, and Lonely bounds what it *)
(* may lose.                                                               *)
(***************************************************************************)
EXTENDS BrainRestoreProofs

-----------------------------------------------------------------------------
(* Every edit is of the past.                                              *)

Past(S) == \A e \in S : e <= clock

PastEdits ==
  /\ Past(EditsIn(dest)) /\ Past(registry.edits)
  /\ \A t \in Txs :
       /\ Past(EditsIn(backup[t])) /\ Past(EditsIn(kept[t]))
       /\ Past(EditsIn(installed[t])) /\ Past(after[t].edits)
       /\ Past(orig[t].registry.edits) /\ orig[t].began <= clock
  /\ Past(loaded.edits)
  /\ \A w \in Writers :
       /\ Past(EditsIn(copy[w]))
       /\ draft[w] # NoCopy => Past(draft[w].edits)

LEMMA ClockTyped ==
  ASSUME TypeOK
  PROVE  clock \in Nat /\ Edits \subseteq Nat
  BY RestoreAssumption DEF TypeOK, Edits

LEMMA DatedTicks ==
  ASSUME TypeOK, Dated
  PROVE  clock' = clock + 1 /\ clock' \in Nat
  BY ClockTyped DEF Dated

LEMMA EditsTyped ==
  ASSUME TypeOK
  PROVE  /\ EditsIn(dest) \subseteq Nat /\ registry.edits \subseteq Nat
         /\ loaded.edits \subseteq Nat
         /\ \A w \in Writers :
              /\ EditsIn(copy[w]) \subseteq Nat
              /\ draft[w] # NoCopy => draft[w].edits \subseteq Nat
         /\ \A t \in Txs :
              /\ EditsIn(backup[t]) \subseteq Nat /\ EditsIn(kept[t]) \subseteq Nat
              /\ EditsIn(installed[t]) \subseteq Nat /\ after[t].edits \subseteq Nat
              /\ orig[t].registry.edits \subseteq Nat /\ orig[t].began \in Nat
<1>1. \A d \in Contents \cup {NoDir} : EditsIn(d) \subseteq Nat
  BY ClockTyped DEF EditsIn, Contents
<1>2. \A r \in Registries : r.edits \subseteq Nat
  BY ClockTyped DEF Registries
<1> QED
  BY <1>1, <1>2, ClockTyped DEF TypeOK

LEMMA EditIn ==
  ASSUME TypeOK, EditBrain
  PROVE  EditsIn(dest') = EditsIn(dest) \cup {clock'}
<1>1. dest' = Content(dest.root, dest.edits \cup {clock'}) /\ dest # NoDir
  BY DEF EditBrain
<1> QED
  BY <1>1, EditStays DEF EditsIn, Content

LEMMA CreateIn ==
  ASSUME TypeOK, CreateBrain
  PROVE  EditsIn(dest') = EditsIn(dest) \cup {clock'}
<1>1. clock' \in Edits
  BY DatedTyped DEF CreateBrain
<1>2. dest' = IF dest = NoDir THEN Content(Own, {clock'})
              ELSE Content(dest.root, dest.edits \cup {clock'})
  BY DEF CreateBrain
<1>3. dest' # NoDir
  BY <1>1, <1>2, NoDirAssumption DEF TypeOK, Content, Contents
<1> QED
  BY <1>2, <1>3 DEF EditsIn, Content

LEMMA StoreIn ==
  ASSUME TypeOK, NEW w \in Writers, StoreBrain(w)
  PROVE  EditsIn(dest') = EditsIn(copy[w]) \cup {clock'}
<1>1. dest' = Content(copy[w].root, copy[w].edits \cup {clock'}) /\ copy[w] # NoDir
  BY DEF StoreBrain
<1> QED
  BY <1>1, StoreStays DEF EditsIn, Content

LEMMA NothingIn == EditsIn(NoDir) = {}
  BY DEF EditsIn

LEMMA NewBrainIn ==
  ASSUME NEW root \in Txs \cup {Own}
  PROVE  Content(root, {}) # NoDir /\ EditsIn(Content(root, {})) = {}
  BY NoDirAssumption DEF EditsIn, Content, Contents

LEMMA PastEditsNext ==
  ASSUME TypeOK, PastEdits, [Next]_vars
  PROVE  PastEdits'
<1> USE DEF files, hashes, record, answers, op, copies, Calm, Goto, Records,
           Elsewhere, Applying, Undoing, RollingBack, Reverting
<1>1. ASSUME NEW t \in Txs, Preflight(t)
      PROVE  PastEdits'
  BY <1>1, NothingIn DEF Preflight, TypeOK, PastEdits, Past
<1>2. ASSUME NEW t \in Txs, Request(t)
      PROVE  PastEdits'
  BY <1>2, NothingIn DEF Request, TypeOK, PastEdits, Past
<1>3. ASSUME NEW t \in Txs, Check(t)
      PROVE  PastEdits'
  <2>1. CASE UNCHANGED orig
    BY <1>3, <2>1 DEF Check, Begins, PastEdits, Past
  <2>2. CASE orig' = [orig EXCEPT ![t] = Found(dest, registry, clock)]
    BY <1>3, <2>2, ClockTyped DEF Check, Begins, Found, TypeOK, PastEdits, Past
  <2> QED
    BY <1>3, <2>1, <2>2 DEF Check
<1>4. ASSUME NEW t \in Txs, Move(t)
      PROVE  PastEdits'
  BY <1>4, NothingIn DEF Move, Undo, TypeOK, PastEdits, Past
<1>5. ASSUME NEW t \in Txs, RecordBackup(t)
      PROVE  PastEdits'
  BY <1>5, NothingIn DEF RecordBackup, TypeOK, PastEdits, Past
<1>6. ASSUME NEW t \in Txs, Install(t)
      PROVE  PastEdits'
  BY <1>6, NewBrainIn, NothingIn DEF Install, Undo, TypeOK, PastEdits, Past
<1>7. ASSUME NEW t \in Txs, RecordInstalled(t)
      PROVE  PastEdits'
  BY <1>7, NothingIn DEF RecordInstalled, TypeOK, PastEdits, Past
<1>8. ASSUME NEW t \in Txs, LoadRegistry(t)
      PROVE  PastEdits'
  BY <1>8, NothingIn DEF LoadRegistry, Reg, TypeOK, PastEdits, Past
<1>9. ASSUME NEW t \in Txs, UpdateRegistry(t)
      PROVE  PastEdits'
  BY <1>9, NothingIn DEF NotLoaded, Reg, UpdateRegistry, TypeOK, PastEdits,
     Past
<1>10. ASSUME NEW t \in Txs, RecordRegistry(t)
      PROVE  PastEdits'
  BY <1>10, NothingIn DEF RecordRegistry, TypeOK, PastEdits, Past
<1>11. ASSUME NEW t \in Txs, WriteReceipt(t)
      PROVE  PastEdits'
  BY <1>11, NothingIn DEF WriteReceipt, TypeOK, PastEdits, Past
<1>12. ASSUME NEW t \in Txs, RecordApplied(t)
      PROVE  PastEdits'
  BY <1>12, NothingIn DEF RecordApplied, TypeOK, PastEdits, Past
<1>13. ASSUME NEW t \in Txs, UndoDest(t)
      PROVE  PastEdits'
  BY <1>13, NothingIn DEF UndoDest, TypeOK, PastEdits, Past
<1>14. ASSUME NEW t \in Txs, UndoMove(t)
      PROVE  PastEdits'
  BY <1>14, NothingIn DEF UndoMove, TypeOK, PastEdits, Past
<1>15. ASSUME NEW t \in Txs, UndoRegistry(t)
      PROVE  PastEdits'
  BY <1>15, NothingIn DEF UndoRegistry, TypeOK, PastEdits, Past
<1>16. ASSUME NEW t \in Txs, RecordUndone(t)
      PROVE  PastEdits'
  BY <1>16, NothingIn DEF RecordUndone, TypeOK, PastEdits, Past
<1>17. ASSUME NEW t \in Txs, Rollback(t)
      PROVE  PastEdits'
  BY <1>17, NothingIn DEF Rollback, TypeOK, PastEdits, Past
<1>18. ASSUME NEW t \in Txs, Retain(t)
      PROVE  PastEdits'
  BY <1>18, NothingIn DEF Retain, TypeOK, PastEdits, Past
<1>19. ASSUME NEW t \in Txs, InstallBackup(t)
      PROVE  PastEdits'
  BY <1>19, NothingIn DEF InstallBackup, TypeOK, PastEdits, Past
<1>20. ASSUME NEW t \in Txs, RestoreRegistry(t)
      PROVE  PastEdits'
  BY <1>20, NothingIn DEF RestoreRegistry, TypeOK, PastEdits, Past
<1>21. ASSUME NEW t \in Txs, RecordRolledBack(t)
      PROVE  PastEdits'
  BY <1>21, NothingIn DEF RecordRolledBack, TypeOK, PastEdits, Past
<1>22. ASSUME NEW t \in Txs, Cleanup(t)
      PROVE  PastEdits'
  BY <1>22, NothingIn DEF Cleanup, TypeOK, PastEdits, Past
<1>23. ASSUME NEW t \in Txs, Revert(t)
      PROVE  PastEdits'
  BY <1>23, NothingIn DEF Revert, TypeOK, PastEdits, Past
<1>24. ASSUME NEW t \in Txs, RevertMove(t)
      PROVE  PastEdits'
  BY <1>24, NothingIn DEF RevertMove, TypeOK, PastEdits, Past
<1>25. ASSUME NEW t \in Txs, RevertRegistry(t)
      PROVE  PastEdits'
  BY <1>25, NothingIn DEF RevertRegistry, TypeOK, PastEdits, Past
<1>26. ASSUME NEW t \in Txs, RecordReverted(t)
      PROVE  PastEdits'
  BY <1>26, NothingIn DEF RecordReverted, TypeOK, PastEdits, Past
<1>27. ASSUME NEW t \in Txs, RevertReceipt(t)
      PROVE  PastEdits'
  BY <1>27, NothingIn DEF RevertReceipt, TypeOK, PastEdits, Past
<1>28. ASSUME NEW t \in Txs, Recover(t)
      PROVE  PastEdits'
  BY <1>28, NothingIn DEF Recover, TypeOK, PastEdits, Past
<1>29. CASE EditBrain
  <2>1. clock' = clock + 1 /\ clock \in Nat /\ clock' \in Nat
    BY <1>29, DatedTicks, ClockTyped DEF EditBrain, Edited
  <2>2. \A e \in Nat : e <= clock => e <= clock'
    BY <2>1
  <2>3. EditsIn(dest') = EditsIn(dest) \cup {clock'} /\ registry' = registry
    BY <1>29, EditIn DEF EditBrain, Reg
  <2>4. UNCHANGED <<backup, kept, installed, after, orig, loaded>>
    BY <1>29 DEF EditBrain
  <2>5. UNCHANGED <<copy, draft>>
    BY <1>29 DEF EditBrain, copies
  <2>6. Past(EditsIn(dest))' /\ Past(registry.edits)' /\ Past(loaded.edits)'
    BY <2>1, <2>2, <2>3, <2>4, EditsTyped DEF PastEdits, Past
  <2>7. ASSUME NEW t \in Txs
        PROVE  /\ Past(EditsIn(backup[t]))' /\ Past(EditsIn(kept[t]))'
               /\ Past(EditsIn(installed[t]))' /\ Past(after[t].edits)'
               /\ Past(orig[t].registry.edits)' /\ (orig[t].began <= clock)'
    BY <2>2, <2>4, EditsTyped DEF PastEdits, Past
  <2>8. ASSUME NEW v \in Writers
        PROVE  Past(EditsIn(copy[v]))' /\ (draft[v] # NoCopy => Past(draft[v].edits))'
    BY <2>2, <2>5, EditsTyped, NothingIn DEF TypeOK, PastEdits, Past
  <2> QED
    BY <2>6, <2>7, <2>8 DEF PastEdits
<1>30. ASSUME NEW w \in Writers, ReadBrain(w)
      PROVE  PastEdits'
  BY <1>30 DEF ReadBrain, TypeOK, PastEdits, Past
<1>31. ASSUME NEW w \in Writers, ReadRegistry(w)
      PROVE  PastEdits'
  BY <1>31 DEF ReadRegistry, TypeOK, PastEdits, Past
<1>32. ASSUME NEW w \in Writers, StoreBrain(w)
      PROVE  PastEdits'
  <2>1. clock' = clock + 1 /\ clock \in Nat /\ clock' \in Nat
    BY <1>32, DatedTicks, ClockTyped DEF StoreBrain, Edited
  <2>2. \A e \in Nat : e <= clock => e <= clock'
    BY <2>1
  <2>3. EditsIn(dest') = EditsIn(copy[w]) \cup {clock'} /\ registry' = registry
    BY <1>32, StoreIn DEF StoreBrain, Reg
  <2>4. UNCHANGED <<backup, kept, installed, after, orig, loaded>>
    BY <1>32 DEF StoreBrain
  <2>5. draft' = draft /\ copy' = [copy EXCEPT ![w] = NoDir]
    BY <1>32 DEF StoreBrain, copies
  <2>6. Past(EditsIn(dest))' /\ Past(registry.edits)' /\ Past(loaded.edits)'
    BY <2>1, <2>2, <2>3, <2>4, EditsTyped, <1>32 DEF PastEdits, Past
  <2>7. ASSUME NEW t \in Txs
        PROVE  /\ Past(EditsIn(backup[t]))' /\ Past(EditsIn(kept[t]))'
               /\ Past(EditsIn(installed[t]))' /\ Past(after[t].edits)'
               /\ Past(orig[t].registry.edits)' /\ (orig[t].began <= clock)'
    BY <2>2, <2>4, EditsTyped DEF PastEdits, Past
  <2>8. ASSUME NEW v \in Writers
        PROVE  Past(EditsIn(copy[v]))' /\ (draft[v] # NoCopy => Past(draft[v].edits))'
    BY <2>2, <2>5, EditsTyped, NothingIn DEF TypeOK, PastEdits, Past
  <2> QED
    BY <2>6, <2>7, <2>8 DEF PastEdits
<1>33. ASSUME NEW w \in Writers, StoreRegistry(w)
      PROVE  PastEdits'
  <2>1. clock' = clock + 1 /\ clock \in Nat /\ clock' \in Nat
    BY <1>33, DatedTicks, ClockTyped DEF StoreRegistry, Edited
  <2>2. \A e \in Nat : e <= clock => e <= clock'
    BY <2>1
  <2>3. dest' = dest /\ registry'.edits = draft[w].edits \cup {clock'} /\ draft[w] # NoCopy
    BY <1>33 DEF StoreRegistry, Reg
  <2>4. UNCHANGED <<backup, kept, installed, after, orig, loaded>>
    BY <1>33 DEF StoreRegistry
  <2>5. copy' = copy /\ draft' = [draft EXCEPT ![w] = NoCopy]
    BY <1>33 DEF StoreRegistry, copies
  <2>6. Past(EditsIn(dest))' /\ Past(registry.edits)' /\ Past(loaded.edits)'
    BY <2>1, <2>2, <2>3, <2>4, EditsTyped, <1>33 DEF PastEdits, Past
  <2>7. ASSUME NEW t \in Txs
        PROVE  /\ Past(EditsIn(backup[t]))' /\ Past(EditsIn(kept[t]))'
               /\ Past(EditsIn(installed[t]))' /\ Past(after[t].edits)'
               /\ Past(orig[t].registry.edits)' /\ (orig[t].began <= clock)'
    BY <2>2, <2>4, EditsTyped DEF PastEdits, Past
  <2>8. ASSUME NEW v \in Writers
        PROVE  Past(EditsIn(copy[v]))' /\ (draft[v] # NoCopy => Past(draft[v].edits))'
    BY <2>2, <2>5, EditsTyped, NothingIn DEF TypeOK, PastEdits, Past
  <2> QED
    BY <2>6, <2>7, <2>8 DEF PastEdits
<1>34. CASE CreateBrain
  <2>1. clock' = clock + 1 /\ clock \in Nat /\ clock' \in Nat
    BY <1>34, DatedTicks, ClockTyped DEF CreateBrain, Edited
  <2>2. \A e \in Nat : e <= clock => e <= clock'
    BY <2>1
  <2>3. EditsIn(dest') = EditsIn(dest) \cup {clock'} /\ registry'.edits = registry.edits
    BY <1>34, CreateIn DEF CreateBrain, Reg
  <2>4. UNCHANGED <<backup, kept, installed, after, orig, loaded>>
    BY <1>34 DEF CreateBrain
  <2>5. UNCHANGED <<copy, draft>>
    BY <1>34 DEF CreateBrain, copies
  <2>6. Past(EditsIn(dest))' /\ Past(registry.edits)' /\ Past(loaded.edits)'
    BY <2>1, <2>2, <2>3, <2>4, EditsTyped DEF PastEdits, Past
  <2>7. ASSUME NEW t \in Txs
        PROVE  /\ Past(EditsIn(backup[t]))' /\ Past(EditsIn(kept[t]))'
               /\ Past(EditsIn(installed[t]))' /\ Past(after[t].edits)'
               /\ Past(orig[t].registry.edits)' /\ (orig[t].began <= clock)'
    BY <2>2, <2>4, EditsTyped DEF PastEdits, Past
  <2>8. ASSUME NEW v \in Writers
        PROVE  Past(EditsIn(copy[v]))' /\ (draft[v] # NoCopy => Past(draft[v].edits))'
    BY <2>2, <2>5, EditsTyped, NothingIn DEF TypeOK, PastEdits, Past
  <2> QED
    BY <2>6, <2>7, <2>8 DEF PastEdits
<1>35. CASE DeleteBrain
  BY <1>35, NothingIn DEF DeleteBrain, Reg, TypeOK, PastEdits, Past
<1>36. CASE Remake
  BY <1>36, NewBrainIn, NothingIn DEF Remake, Happens, Uses, Blank, TypeOK,
     PastEdits, Past
<1>37. CASE Fault
  BY <1>37, NothingIn DEF NotLoaded, Reg, Fault, Handler, Happens, Uses,
     TypeOK, PastEdits, Past
<1>38. CASE Crash
  BY <1>38, NothingIn DEF NotLoaded, Reg, Crash, Happens, Uses, TypeOK,
     PastEdits, Past
<1>39. CASE UNCHANGED vars
  BY <1>39, NothingIn DEF vars, TypeOK, PastEdits, Past
<1> QED
  BY <1>1, <1>2, <1>3, <1>4, <1>5, <1>6, <1>7, <1>8, <1>9, <1>10, <1>11, <1>12,
     <1>13, <1>14, <1>15, <1>16, <1>17, <1>18, <1>19, <1>20, <1>21, <1>22,
     <1>23, <1>24, <1>25, <1>26, <1>27, <1>28, <1>29, <1>30, <1>31, <1>32,
     <1>33, <1>34, <1>35, <1>36, <1>37, <1>38, <1>39 DEF Next, Apply,
     UndoApply, RollBack, RevertRollback

-----------------------------------------------------------------------------
(* What an operation may remove holds no quiet edit.                       *)

Loud(S) == S \cap quiet = {}

Spared ==
  /\ pc \in Applying \ {"check", "move"} => Loud(EditsIn(dest))
  /\ pc = "undo" /\ ~retry /\ Removes(cur) => Loud(EditsIn(dest))
  /\ \A t \in Txs : Loud(EditsIn(installed[t]))
  /\ pc = "retain" => kept[cur] = NoDir /\ Loud(EditsIn(dest))
  /\ pc \in {"installBackup", "restoreRegistry", "recordRolledBack", "cleanup"}
       => Loud(EditsIn(kept[cur]))

LEMMA EditedLoud ==
  ASSUME TypeOK, QuietPast, Edited, NEW S, S \subseteq Nat, Past(S)
  PROVE  /\ S \cap quiet' = S \cap quiet
         /\ clock' \notin S
         /\ pc # "idle" => quiet' = quiet /\ clock' \notin quiet'
<1>1. clock' = clock + 1 /\ clock \in Nat
  BY DatedTicks, ClockTyped DEF Edited
<1>2. quiet' = IF pc = "idle" THEN quiet \cup {clock'} ELSE quiet
  BY DEF Edited
<1>3. clock' \notin S /\ clock' \notin quiet
  BY <1>1 DEF Past, QuietPast
<1> QED
  BY <1>2, <1>3

(* A stored copy takes away, and brings back, no edit that stays quiet.    *)
LEMMA StoredLoud ==
  ASSUME TypeOK, QuietPast, Dated, NEW old, NEW new, Stores(old, new),
         NEW S, S \subseteq Nat, Past(S)
  PROVE  /\ S \cap quiet' \subseteq S \cap quiet
         /\ clock' \notin S
         /\ pc # "idle" => quiet' \subseteq quiet /\ old \cap quiet' = new \cap quiet'
<1>1. clock' = clock + 1 /\ clock \in Nat
  BY DatedTicks, ClockTyped
<1>2. clock' \notin S
  BY <1>1 DEF Past
<1>3. \A e \in quiet' : (e \in quiet /\ (e \in old <=> e \in new))
                       \/ (pc = "idle" /\ e = clock')
  BY DEF Stores
<1> QED
  BY <1>2, <1>3

LEMMA SparedNext ==
  ASSUME TypeOK, QuietPast, PastEdits, Settling, Spared, [Next]_vars
  PROVE  Spared'
<1> USE DEF files, hashes, record, answers, op, copies, Calm, Goto, Records,
           Elsewhere, Applying, Undoing, RollingBack, Reverting
<1>1. ASSUME NEW t \in Txs, Preflight(t)
      PROVE  Spared'
  BY <1>1, NothingIn DEF Preflight, TypeOK, Settling, Spared, Existed, Loud
<1>2. ASSUME NEW t \in Txs, Request(t)
      PROVE  Spared'
  BY <1>2, NothingIn DEF Request, TypeOK, Settling, Spared, Existed, Loud
<1>3. ASSUME NEW t \in Txs, Check(t)
      PROVE  Spared'
  BY <1>3, NothingIn DEF Check, Begins, Found, Acceptable, TypeOK, Settling,
     Spared, Existed, Loud
<1>4. ASSUME NEW t \in Txs, Move(t)
      PROVE  Spared'
  BY <1>4, NothingIn DEF Move, Undo, Removes, TypeOK, Settling, Spared,
     Existed, Loud
<1>5. ASSUME NEW t \in Txs, RecordBackup(t)
      PROVE  Spared'
  BY <1>5, NothingIn DEF RecordBackup, TypeOK, Settling, Spared, Existed, Loud
<1>6. ASSUME NEW t \in Txs, Install(t)
      PROVE  Spared'
  BY <1>6, NewBrainIn, NothingIn DEF Install, Undo, Removes, TypeOK, Settling,
     Spared, Existed, Loud
<1>7. ASSUME NEW t \in Txs, RecordInstalled(t)
      PROVE  Spared'
  BY <1>7, NothingIn DEF RecordInstalled, TypeOK, Settling, Spared, Existed,
     Loud
<1>8. ASSUME NEW t \in Txs, LoadRegistry(t)
      PROVE  Spared'
  BY <1>8, NothingIn DEF LoadRegistry, Reg, TypeOK, Settling, Spared, Existed,
     Loud
<1>9. ASSUME NEW t \in Txs, UpdateRegistry(t)
      PROVE  Spared'
  BY <1>9, NothingIn DEF UpdateRegistry, Reg, TypeOK, Settling, Spared,
     Existed, Loud
<1>10. ASSUME NEW t \in Txs, RecordRegistry(t)
      PROVE  Spared'
  BY <1>10, NothingIn DEF RecordRegistry, TypeOK, Settling, Spared, Existed,
     Loud
<1>11. ASSUME NEW t \in Txs, WriteReceipt(t)
      PROVE  Spared'
  BY <1>11, NothingIn DEF WriteReceipt, TypeOK, Settling, Spared, Existed, Loud
<1>12. ASSUME NEW t \in Txs, RecordApplied(t)
      PROVE  Spared'
  BY <1>12, NothingIn DEF RecordApplied, TypeOK, Settling, Spared, Existed,
     Loud
<1>13. ASSUME NEW t \in Txs, UndoDest(t)
      PROVE  Spared'
  BY <1>13, NothingIn DEF UndoDest, Removes, TypeOK, Settling, Spared, Existed,
     Loud
<1>14. ASSUME NEW t \in Txs, UndoMove(t)
      PROVE  Spared'
  BY <1>14, NothingIn DEF UndoMove, TypeOK, Settling, Spared, Existed, Loud
<1>15. ASSUME NEW t \in Txs, UndoRegistry(t)
      PROVE  Spared'
  BY <1>15, NothingIn DEF UndoRegistry, TypeOK, Settling, Spared, Existed, Loud
<1>16. ASSUME NEW t \in Txs, RecordUndone(t)
      PROVE  Spared'
  BY <1>16, NothingIn DEF RecordUndone, TypeOK, Settling, Spared, Existed, Loud
<1>17. ASSUME NEW t \in Txs, Rollback(t)
      PROVE  Spared'
  BY <1>17, NothingIn DEF Rollback, CanRollBack, TypeOK, Settling, Spared,
     Existed, Loud
<1>18. ASSUME NEW t \in Txs, Retain(t)
      PROVE  Spared'
  BY <1>18, NothingIn DEF Retain, TypeOK, Settling, Spared, Existed, Loud
<1>19. ASSUME NEW t \in Txs, InstallBackup(t)
      PROVE  Spared'
  BY <1>19, NothingIn DEF InstallBackup, TypeOK, Settling, Spared, Existed,
     Loud
<1>20. ASSUME NEW t \in Txs, RestoreRegistry(t)
      PROVE  Spared'
  BY <1>20, NothingIn DEF RestoreRegistry, TypeOK, Settling, Spared, Existed,
     Loud
<1>21. ASSUME NEW t \in Txs, RecordRolledBack(t)
      PROVE  Spared'
  BY <1>21, NothingIn DEF RecordRolledBack, TypeOK, Settling, Spared, Existed,
     Loud
<1>22. ASSUME NEW t \in Txs, Cleanup(t)
      PROVE  Spared'
  BY <1>22, NothingIn DEF Cleanup, TypeOK, Settling, Spared, Existed, Loud
<1>23. ASSUME NEW t \in Txs, Revert(t)
      PROVE  Spared'
  BY <1>23, NothingIn DEF Revert, Collision, TypeOK, Settling, Spared, Existed,
     Loud
<1>24. ASSUME NEW t \in Txs, RevertMove(t)
      PROVE  Spared'
  BY <1>24, NothingIn DEF RevertMove, TypeOK, Settling, Spared, Existed, Loud
<1>25. ASSUME NEW t \in Txs, RevertRegistry(t)
      PROVE  Spared'
  BY <1>25, NothingIn DEF RevertRegistry, TypeOK, Settling, Spared, Existed,
     Loud
<1>26. ASSUME NEW t \in Txs, RecordReverted(t)
      PROVE  Spared'
  BY <1>26, NothingIn DEF RecordReverted, TypeOK, Settling, Spared, Existed,
     Loud
<1>27. ASSUME NEW t \in Txs, RevertReceipt(t)
      PROVE  Spared'
  BY <1>27, NothingIn DEF RevertReceipt, TypeOK, Settling, Spared, Existed,
     Loud
<1>28. ASSUME NEW t \in Txs, Recover(t)
      PROVE  Spared'
  BY <1>28, NothingIn DEF Recover, TypeOK, Settling, Spared, Existed, Loud
<1>29. CASE EditBrain
  <2>1. Edited /\ UNCHANGED <<backup, kept, installed, orig, pc, cur, retry>>
    BY <1>29 DEF EditBrain
  <2>2. \A t \in Txs : /\ EditsIn(installed[t]) \cap quiet' = EditsIn(installed[t]) \cap quiet
                      /\ EditsIn(kept[t]) \cap quiet' = EditsIn(kept[t]) \cap quiet
    BY <2>1, EditedLoud, EditsTyped DEF PastEdits
  <2>3. cur \in Txs
    BY DEF TypeOK
  <2>4. pc # "idle" => EditsIn(dest') \cap quiet' = EditsIn(dest) \cap quiet
    <3>1. ASSUME pc # "idle"
          PROVE  EditsIn(dest') \cap quiet' = EditsIn(dest) \cap quiet
      <4>1. quiet' = quiet /\ clock' \notin quiet
        BY <2>1, <3>1, EditedLoud, EditsTyped DEF PastEdits
      <4> QED
        BY <4>1, <1>29, EditIn
    <3> QED
      BY <3>1
  <2> QED
    BY <2>1, <2>2, <2>3, <2>4 DEF Spared, Loud, Removes, Existed
<1>30. ASSUME NEW w \in Writers, ReadBrain(w)
      PROVE  Spared'
  BY <1>30 DEF ReadBrain, TypeOK, Spared, Loud, Removes, Existed
<1>31. ASSUME NEW w \in Writers, ReadRegistry(w)
      PROVE  Spared'
  BY <1>31 DEF ReadRegistry, TypeOK, Spared, Loud, Removes, Existed
<1>32. ASSUME NEW w \in Writers, StoreBrain(w)
      PROVE  Spared'
  <2>1. Dated /\ Stores(EditsIn(dest), dest'.edits)
    BY <1>32 DEF StoreBrain
  <2>2. UNCHANGED <<backup, kept, installed, orig, pc, cur, retry>>
    BY <1>32 DEF StoreBrain
  <2>3. \A t \in Txs :
          /\ EditsIn(installed[t]) \cap quiet' \subseteq EditsIn(installed[t]) \cap quiet
          /\ EditsIn(kept[t]) \cap quiet' \subseteq EditsIn(kept[t]) \cap quiet
    BY <2>1, StoredLoud, EditsTyped DEF PastEdits
  <2>4. pc # "idle" => EditsIn(dest') \cap quiet' \subseteq EditsIn(dest) \cap quiet
    BY <1>32, <2>1, StoredLoud, StoreStays, EditsTyped DEF PastEdits, EditsIn
  <2>5. cur \in Txs
    BY DEF TypeOK
  <2> QED
    BY <2>2, <2>3, <2>4, <2>5 DEF Spared, Loud, Removes, Existed
<1>33. ASSUME NEW w \in Writers, StoreRegistry(w)
      PROVE  Spared'
  <2>1. Dated /\ Stores(registry.edits, registry'.edits)
    BY <1>33 DEF StoreRegistry
  <2>2. UNCHANGED <<dest, backup, kept, installed, orig, pc, cur, retry>>
    BY <1>33 DEF StoreRegistry
  <2>3. \A t \in Txs :
          /\ EditsIn(installed[t]) \cap quiet' \subseteq EditsIn(installed[t]) \cap quiet
          /\ EditsIn(kept[t]) \cap quiet' \subseteq EditsIn(kept[t]) \cap quiet
    BY <2>1, StoredLoud, EditsTyped DEF PastEdits
  <2>4. pc # "idle" => EditsIn(dest') \cap quiet' \subseteq EditsIn(dest) \cap quiet
    BY <2>1, <2>2, StoredLoud, EditsTyped DEF PastEdits
  <2>5. cur \in Txs
    BY DEF TypeOK
  <2> QED
    BY <2>2, <2>3, <2>4, <2>5 DEF Spared, Loud, Removes, Existed
<1>34. CASE CreateBrain
  <2>1. Edited /\ UNCHANGED <<backup, kept, installed, orig, pc, cur, retry>>
    BY <1>34 DEF CreateBrain
  <2>2. \A t \in Txs : /\ EditsIn(installed[t]) \cap quiet' = EditsIn(installed[t]) \cap quiet
                      /\ EditsIn(kept[t]) \cap quiet' = EditsIn(kept[t]) \cap quiet
    BY <2>1, EditedLoud, EditsTyped DEF PastEdits
  <2>3. cur \in Txs
    BY DEF TypeOK
  <2>4. pc # "idle" => EditsIn(dest') \cap quiet' = EditsIn(dest) \cap quiet
    BY <1>34 DEF CreateBrain
  <2> QED
    BY <2>1, <2>2, <2>3, <2>4 DEF Spared, Loud, Removes, Existed
<1>35. CASE DeleteBrain
  BY <1>35, NothingIn DEF DeleteBrain, Reg, TypeOK, Settling, Spared, Existed,
     Loud
<1>36. CASE Remake
  BY <1>36, NewBrainIn, NothingIn DEF Remake, Happens, Uses, Blank, Removes,
     TypeOK, Settling, Spared, Existed, Loud
<1>37. CASE Fault
  BY <1>37, NothingIn DEF Fault, Handler, Happens, Uses, Removes, TypeOK,
     Settling, Spared, Existed, Loud
<1>38. CASE Crash
  BY <1>38, NothingIn DEF Crash, Happens, Uses, TypeOK, Settling, Spared,
     Existed, Loud
<1>39. CASE UNCHANGED vars
  BY <1>39, NothingIn DEF vars, Removes, TypeOK, Settling, Spared, Existed,
     Loud
<1> QED
  BY <1>1, <1>2, <1>3, <1>4, <1>5, <1>6, <1>7, <1>8, <1>9, <1>10, <1>11, <1>12,
     <1>13, <1>14, <1>15, <1>16, <1>17, <1>18, <1>19, <1>20, <1>21, <1>22,
     <1>23, <1>24, <1>25, <1>26, <1>27, <1>28, <1>29, <1>30, <1>31, <1>32,
     <1>33, <1>34, <1>35, <1>36, <1>37, <1>38, <1>39 DEF Next, Apply,
     UndoApply, RollBack, RevertRollback

-----------------------------------------------------------------------------
(* The registry that an operation may put back, and the one it loaded, hold *)
(* the quiet edits of the registry that they replace.                      *)

Same(S, T) == S \cap quiet = T \cap quiet

Committed == {"registry_committed", "applied", "rolled_back"} \cup Unrolled

RegistrySpared ==
  /\ \A t \in Txs : status[t] \in Committed =>
       Same(after[t].edits, orig[t].registry.edits)
  /\ pc \in (Applying \ {"check"}) \cup RollingBack \/ (pc \in Undoing /\ ~retry)
       => Same(registry.edits, orig[cur].registry.edits)
  /\ pc = "updateRegistry" => Same(loaded.edits, orig[cur].registry.edits)
  /\ pc \in Reverting => Same(registry.edits, after[cur].edits)
  /\ pc \in RollingBack \cup Reverting \cup {"recover"} => status[cur] \in Committed

LEMMA RegistrySparedNext ==
  ASSUME TypeOK, QuietPast, PastEdits, Receipted, RegistrySpared, [Next]_vars
  PROVE  RegistrySpared'
<1> USE DEF files, hashes, record, answers, op, copies, Calm, Goto, Records,
           Elsewhere, Applying, Undoing, RollingBack, Reverting
<1>1. ASSUME NEW t \in Txs, Preflight(t)
      PROVE  RegistrySpared'
  BY <1>1 DEF Preflight, TypeOK, Receipted, RegistrySpared, Same,
     Committed, Unrolled
<1>2. ASSUME NEW t \in Txs, Request(t)
      PROVE  RegistrySpared'
  BY <1>2 DEF Request, TypeOK, Receipted, RegistrySpared, Same, Committed,
     Unrolled
<1>3. ASSUME NEW t \in Txs, Check(t)
      PROVE  RegistrySpared'
  BY <1>3 DEF Check, Begins, Found, Acceptable, TypeOK, Receipted,
     RegistrySpared, Same, Committed, Unrolled
<1>4. ASSUME NEW t \in Txs, Move(t)
      PROVE  RegistrySpared'
  BY <1>4 DEF Move, Undo, TypeOK, Receipted, RegistrySpared, Same,
     Committed, Unrolled
<1>5. ASSUME NEW t \in Txs, RecordBackup(t)
      PROVE  RegistrySpared'
  BY <1>5 DEF RecordBackup, TypeOK, Receipted, RegistrySpared, Same,
     Committed, Unrolled
<1>6. ASSUME NEW t \in Txs, Install(t)
      PROVE  RegistrySpared'
  BY <1>6 DEF Install, Undo, TypeOK, Receipted, RegistrySpared, Same,
     Committed, Unrolled
<1>7. ASSUME NEW t \in Txs, RecordInstalled(t)
      PROVE  RegistrySpared'
  BY <1>7 DEF RecordInstalled, TypeOK, Receipted, RegistrySpared, Same,
     Committed, Unrolled
<1>8. ASSUME NEW t \in Txs, LoadRegistry(t)
      PROVE  RegistrySpared'
  BY <1>8 DEF LoadRegistry, Reg, TypeOK, Receipted, RegistrySpared, Same,
     Committed, Unrolled
<1>9. ASSUME NEW t \in Txs, UpdateRegistry(t)
      PROVE  RegistrySpared'
  BY <1>9 DEF UpdateRegistry, Reg, TypeOK, Receipted, RegistrySpared, Same,
     Committed, Unrolled
<1>10. ASSUME NEW t \in Txs, RecordRegistry(t)
      PROVE  RegistrySpared'
  BY <1>10 DEF RecordRegistry, TypeOK, Receipted, RegistrySpared, Same,
     Committed, Unrolled
<1>11. ASSUME NEW t \in Txs, WriteReceipt(t)
      PROVE  RegistrySpared'
  BY <1>11 DEF WriteReceipt, TypeOK, Receipted, RegistrySpared, Same,
     Committed, Unrolled
<1>12. ASSUME NEW t \in Txs, RecordApplied(t)
      PROVE  RegistrySpared'
  BY <1>12 DEF RecordApplied, TypeOK, Receipted, RegistrySpared, Same,
     Committed, Unrolled
<1>13. ASSUME NEW t \in Txs, UndoDest(t)
      PROVE  RegistrySpared'
  BY <1>13 DEF UndoDest, Removes, TypeOK, Receipted, RegistrySpared, Same,
     Committed, Unrolled
<1>14. ASSUME NEW t \in Txs, UndoMove(t)
      PROVE  RegistrySpared'
  BY <1>14 DEF UndoMove, TypeOK, Receipted, RegistrySpared, Same,
     Committed, Unrolled
<1>15. ASSUME NEW t \in Txs, UndoRegistry(t)
      PROVE  RegistrySpared'
  BY <1>15 DEF UndoRegistry, TypeOK, Receipted, RegistrySpared, Same,
     Committed, Unrolled
<1>16. ASSUME NEW t \in Txs, RecordUndone(t)
      PROVE  RegistrySpared'
  BY <1>16 DEF RecordUndone, TypeOK, Receipted, RegistrySpared, Same,
     Committed, Unrolled
<1>17. ASSUME NEW t \in Txs, Rollback(t)
      PROVE  RegistrySpared'
  BY <1>17 DEF Rollback, CanRollBack, TypeOK, Receipted, RegistrySpared,
     Same, Committed, Unrolled
<1>18. ASSUME NEW t \in Txs, Retain(t)
      PROVE  RegistrySpared'
  BY <1>18 DEF Retain, TypeOK, Receipted, RegistrySpared, Same, Committed,
     Unrolled
<1>19. ASSUME NEW t \in Txs, InstallBackup(t)
      PROVE  RegistrySpared'
  BY <1>19 DEF InstallBackup, TypeOK, Receipted, RegistrySpared, Same,
     Committed, Unrolled
<1>20. ASSUME NEW t \in Txs, RestoreRegistry(t)
      PROVE  RegistrySpared'
  BY <1>20 DEF RestoreRegistry, TypeOK, Receipted, RegistrySpared, Same,
     Committed, Unrolled
<1>21. ASSUME NEW t \in Txs, RecordRolledBack(t)
      PROVE  RegistrySpared'
  BY <1>21 DEF RecordRolledBack, TypeOK, Receipted, RegistrySpared, Same,
     Committed, Unrolled
<1>22. ASSUME NEW t \in Txs, Cleanup(t)
      PROVE  RegistrySpared'
  BY <1>22 DEF Cleanup, TypeOK, Receipted, RegistrySpared, Same, Committed,
     Unrolled
<1>23. ASSUME NEW t \in Txs, Revert(t)
      PROVE  RegistrySpared'
  BY <1>23 DEF Revert, Collision, TypeOK, Receipted, RegistrySpared, Same,
     Committed, Unrolled
<1>24. ASSUME NEW t \in Txs, RevertMove(t)
      PROVE  RegistrySpared'
  BY <1>24 DEF RevertMove, TypeOK, Receipted, RegistrySpared, Same,
     Committed, Unrolled
<1>25. ASSUME NEW t \in Txs, RevertRegistry(t)
      PROVE  RegistrySpared'
  BY <1>25 DEF RevertRegistry, TypeOK, Receipted, RegistrySpared, Same,
     Committed, Unrolled
<1>26. ASSUME NEW t \in Txs, RecordReverted(t)
      PROVE  RegistrySpared'
  BY <1>26 DEF RecordReverted, TypeOK, Receipted, RegistrySpared, Same,
     Committed, Unrolled
<1>27. ASSUME NEW t \in Txs, RevertReceipt(t)
      PROVE  RegistrySpared'
  BY <1>27 DEF RevertReceipt, TypeOK, Receipted, RegistrySpared, Same,
     Committed, Unrolled
<1>28. ASSUME NEW t \in Txs, Recover(t)
      PROVE  RegistrySpared'
  BY <1>28 DEF Recover, TypeOK, Receipted, RegistrySpared, Same, Committed,
     Unrolled
<1>29. CASE EditBrain
  <2>1. Edited /\ UNCHANGED <<status, orig, after, pc, cur, retry, loaded>>
    BY <1>29 DEF EditBrain
  <2>2. \A t \in Txs : orig[t].registry.edits \cap quiet' = orig[t].registry.edits \cap quiet
                      /\ after[t].edits \cap quiet' = after[t].edits \cap quiet
    BY <2>1, EditedLoud, EditsTyped DEF PastEdits
  <2>3. cur \in Txs
    BY DEF TypeOK
  <2>4. pc # "idle" => quiet' = quiet /\ registry'.edits = registry.edits
    BY <1>29 DEF EditBrain, Edited
  <2> QED
    BY <2>1, <2>2, <2>3, <2>4 DEF RegistrySpared, Same
<1>30. ASSUME NEW w \in Writers, ReadBrain(w)
      PROVE  RegistrySpared'
  BY <1>30 DEF ReadBrain, TypeOK, RegistrySpared, Same
<1>31. ASSUME NEW w \in Writers, ReadRegistry(w)
      PROVE  RegistrySpared'
  BY <1>31 DEF ReadRegistry, TypeOK, RegistrySpared, Same
<1>32. ASSUME NEW w \in Writers, StoreBrain(w)
      PROVE  RegistrySpared'
  <2>1. Dated /\ Stores(EditsIn(dest), dest'.edits)
    BY <1>32 DEF StoreBrain
  <2>2. UNCHANGED <<status, orig, after, pc, cur, retry, loaded>>
    BY <1>32 DEF StoreBrain
  <2>3. registry' = registry
    BY <1>32 DEF StoreBrain
  <2>4. \A t \in Txs : Same(after[t].edits, orig[t].registry.edits)
                      => Same(after[t].edits, orig[t].registry.edits)'
    BY <2>1, <2>2, StoredLoud, EditsTyped DEF PastEdits, Same
  <2>5. pc # "idle" => /\ quiet' \subseteq quiet
                      /\ registry'.edits \cap quiet' = registry.edits \cap quiet'
    BY <2>1, <2>3, StoredLoud, EditsTyped DEF PastEdits
  <2>6. cur \in Txs
    BY DEF TypeOK
  <2> QED
    BY <2>2, <2>4, <2>5, <2>6 DEF RegistrySpared, Same
<1>33. ASSUME NEW w \in Writers, StoreRegistry(w)
      PROVE  RegistrySpared'
  <2>1. Dated /\ Stores(registry.edits, registry'.edits)
    BY <1>33 DEF StoreRegistry
  <2>2. UNCHANGED <<status, orig, after, pc, cur, retry, loaded>>
    BY <1>33 DEF StoreRegistry
  <2>3. dest' = dest
    BY <1>33 DEF StoreRegistry
  <2>4. \A t \in Txs : Same(after[t].edits, orig[t].registry.edits)
                      => Same(after[t].edits, orig[t].registry.edits)'
    BY <2>1, <2>2, StoredLoud, EditsTyped DEF PastEdits, Same
  <2>5. pc # "idle" => /\ quiet' \subseteq quiet
                      /\ registry'.edits \cap quiet' = registry.edits \cap quiet'
    BY <2>1, StoredLoud, EditsTyped DEF PastEdits
  <2>6. cur \in Txs
    BY DEF TypeOK
  <2> QED
    BY <2>2, <2>4, <2>5, <2>6 DEF RegistrySpared, Same
<1>34. CASE CreateBrain
  <2>1. Edited /\ UNCHANGED <<status, orig, after, pc, cur, retry, loaded>>
    BY <1>34 DEF CreateBrain
  <2>2. \A t \in Txs : orig[t].registry.edits \cap quiet' = orig[t].registry.edits \cap quiet
                      /\ after[t].edits \cap quiet' = after[t].edits \cap quiet
    BY <2>1, EditedLoud, EditsTyped DEF PastEdits
  <2>3. cur \in Txs
    BY DEF TypeOK
  <2>4. pc # "idle" => quiet' = quiet /\ registry'.edits = registry.edits
    BY <1>34 DEF CreateBrain, Edited
  <2> QED
    BY <2>1, <2>2, <2>3, <2>4 DEF RegistrySpared, Same
<1>35. CASE DeleteBrain
  BY <1>35 DEF DeleteBrain, Reg, TypeOK, Receipted, RegistrySpared, Same,
     Committed, Unrolled
<1>36. CASE Remake
  BY <1>36 DEF Remake, Happens, Uses, Blank, TypeOK, Receipted, RegistrySpared,
     Same, Committed, Unrolled
<1>37. CASE Fault
  BY <1>37 DEF Fault, Handler, Happens, Uses, TypeOK, Receipted,
     RegistrySpared, Same, Committed, Unrolled
<1>38. CASE Crash
  BY <1>38 DEF Crash, Happens, Uses, TypeOK, Receipted, RegistrySpared,
     Same, Committed, Unrolled
<1>39. CASE UNCHANGED vars
  BY <1>39 DEF vars, TypeOK, Receipted, RegistrySpared, Same, Committed,
     Unrolled
<1> QED
  BY <1>1, <1>2, <1>3, <1>4, <1>5, <1>6, <1>7, <1>8, <1>9, <1>10, <1>11, <1>12,
     <1>13, <1>14, <1>15, <1>16, <1>17, <1>18, <1>19, <1>20, <1>21, <1>22,
     <1>23, <1>24, <1>25, <1>26, <1>27, <1>28, <1>29, <1>30, <1>31, <1>32,
     <1>33, <1>34, <1>35, <1>36, <1>37, <1>38, <1>39 DEF Next, Apply,
     UndoApply, RollBack, RevertRollback

-----------------------------------------------------------------------------
(* A retry removes what its own apply left, and what was edited since: an   *)
(* older edit can be in its way only when another restore, or a stored     *)
(* copy, put it there, and then it is not quiet or the retry not alone.    *)

Retrying == retry /\ pc # "idle" => pc \in Undoing /\ ~idem[cur]

Lone(t) == \A u \in Txs \ {t} : status[u] = "none"

Newer(S, t) == \A e \in S : e > orig[t].began

Lonely ==
  \A t \in Txs : Lone(t) /\ ~idem[t] /\ status[t] # "none" =>
    /\ (Existed(t) /\ backup[t] = NoDir) \/ Newer(EditsIn(dest) \cap quiet, t)
    /\ Newer((registry.edits \ orig[t].registry.edits) \cap quiet, t)

LEMMA RetryingNext ==
  ASSUME TypeOK, Retrying, [Next]_vars
  PROVE  Retrying'
<1> USE DEF files, hashes, record, answers, op, copies, Calm, Goto, Records,
           Elsewhere, Applying, Undoing, RollingBack, Reverting
<1>1. ASSUME NEW t \in Txs, Preflight(t)
      PROVE  Retrying'
  BY <1>1 DEF Preflight, TypeOK, Retrying
<1>2. ASSUME NEW t \in Txs, Request(t)
      PROVE  Retrying'
  BY <1>2 DEF Request, TypeOK, Retrying
<1>3. ASSUME NEW t \in Txs, Check(t)
      PROVE  Retrying'
  BY <1>3 DEF Check, Begins, Found, TypeOK, Retrying
<1>4. ASSUME NEW t \in Txs, Move(t)
      PROVE  Retrying'
  BY <1>4 DEF Move, Undo, TypeOK, Retrying
<1>5. ASSUME NEW t \in Txs, RecordBackup(t)
      PROVE  Retrying'
  BY <1>5 DEF RecordBackup, TypeOK, Retrying
<1>6. ASSUME NEW t \in Txs, Install(t)
      PROVE  Retrying'
  BY <1>6 DEF Install, Undo, TypeOK, Retrying
<1>7. ASSUME NEW t \in Txs, RecordInstalled(t)
      PROVE  Retrying'
  BY <1>7 DEF RecordInstalled, TypeOK, Retrying
<1>8. ASSUME NEW t \in Txs, LoadRegistry(t)
      PROVE  Retrying'
  BY <1>8 DEF LoadRegistry, TypeOK, Retrying
<1>9. ASSUME NEW t \in Txs, UpdateRegistry(t)
      PROVE  Retrying'
  BY <1>9 DEF UpdateRegistry, TypeOK, Retrying
<1>10. ASSUME NEW t \in Txs, RecordRegistry(t)
      PROVE  Retrying'
  BY <1>10 DEF RecordRegistry, TypeOK, Retrying
<1>11. ASSUME NEW t \in Txs, WriteReceipt(t)
      PROVE  Retrying'
  BY <1>11 DEF WriteReceipt, TypeOK, Retrying
<1>12. ASSUME NEW t \in Txs, RecordApplied(t)
      PROVE  Retrying'
  BY <1>12 DEF RecordApplied, TypeOK, Retrying
<1>13. ASSUME NEW t \in Txs, UndoDest(t)
      PROVE  Retrying'
  BY <1>13 DEF UndoDest, TypeOK, Retrying
<1>14. ASSUME NEW t \in Txs, UndoMove(t)
      PROVE  Retrying'
  BY <1>14 DEF UndoMove, TypeOK, Retrying
<1>15. ASSUME NEW t \in Txs, UndoRegistry(t)
      PROVE  Retrying'
  BY <1>15 DEF UndoRegistry, TypeOK, Retrying
<1>16. ASSUME NEW t \in Txs, RecordUndone(t)
      PROVE  Retrying'
  BY <1>16 DEF RecordUndone, TypeOK, Retrying
<1>17. ASSUME NEW t \in Txs, Rollback(t)
      PROVE  Retrying'
  BY <1>17 DEF Rollback, TypeOK, Retrying
<1>18. ASSUME NEW t \in Txs, Retain(t)
      PROVE  Retrying'
  BY <1>18 DEF Retain, TypeOK, Retrying
<1>19. ASSUME NEW t \in Txs, InstallBackup(t)
      PROVE  Retrying'
  BY <1>19 DEF InstallBackup, TypeOK, Retrying
<1>20. ASSUME NEW t \in Txs, RestoreRegistry(t)
      PROVE  Retrying'
  BY <1>20 DEF RestoreRegistry, TypeOK, Retrying
<1>21. ASSUME NEW t \in Txs, RecordRolledBack(t)
      PROVE  Retrying'
  BY <1>21 DEF RecordRolledBack, TypeOK, Retrying
<1>22. ASSUME NEW t \in Txs, Cleanup(t)
      PROVE  Retrying'
  BY <1>22 DEF Cleanup, TypeOK, Retrying
<1>23. ASSUME NEW t \in Txs, Revert(t)
      PROVE  Retrying'
  BY <1>23 DEF Revert, TypeOK, Retrying
<1>24. ASSUME NEW t \in Txs, RevertMove(t)
      PROVE  Retrying'
  BY <1>24 DEF RevertMove, TypeOK, Retrying
<1>25. ASSUME NEW t \in Txs, RevertRegistry(t)
      PROVE  Retrying'
  BY <1>25 DEF RevertRegistry, TypeOK, Retrying
<1>26. ASSUME NEW t \in Txs, RecordReverted(t)
      PROVE  Retrying'
  BY <1>26 DEF RecordReverted, TypeOK, Retrying
<1>27. ASSUME NEW t \in Txs, RevertReceipt(t)
      PROVE  Retrying'
  BY <1>27 DEF RevertReceipt, TypeOK, Retrying
<1>28. ASSUME NEW t \in Txs, Recover(t)
      PROVE  Retrying'
  BY <1>28 DEF Recover, TypeOK, Retrying
<1>29. CASE EditBrain
  BY <1>29 DEF EditBrain, TypeOK, Retrying
<1>30. ASSUME NEW w \in Writers, ReadBrain(w)
      PROVE  Retrying'
  BY <1>30 DEF ReadBrain, TypeOK, Retrying
<1>31. ASSUME NEW w \in Writers, ReadRegistry(w)
      PROVE  Retrying'
  BY <1>31 DEF ReadRegistry, TypeOK, Retrying
<1>32. ASSUME NEW w \in Writers, StoreBrain(w)
      PROVE  Retrying'
  BY <1>32 DEF StoreBrain, TypeOK, Retrying
<1>33. ASSUME NEW w \in Writers, StoreRegistry(w)
      PROVE  Retrying'
  BY <1>33 DEF StoreRegistry, TypeOK, Retrying
<1>34. CASE CreateBrain
  BY <1>34 DEF CreateBrain, TypeOK, Retrying
<1>35. CASE DeleteBrain
  BY <1>35 DEF DeleteBrain, TypeOK, Retrying
<1>36. CASE Remake
  BY <1>36 DEF Remake, Happens, Uses, TypeOK, Retrying
<1>37. CASE Fault
  BY <1>37 DEF Fault, Handler, Happens, Uses, TypeOK, Retrying
<1>38. CASE Crash
  BY <1>38 DEF Crash, Happens, Uses, TypeOK, Retrying
<1>39. CASE UNCHANGED vars
  BY <1>39 DEF vars, TypeOK, Retrying
<1> QED
  BY <1>1, <1>2, <1>3, <1>4, <1>5, <1>6, <1>7, <1>8, <1>9, <1>10, <1>11, <1>12,
     <1>13, <1>14, <1>15, <1>16, <1>17, <1>18, <1>19, <1>20, <1>21, <1>22,
     <1>23, <1>24, <1>25, <1>26, <1>27, <1>28, <1>29, <1>30, <1>31, <1>32,
     <1>33, <1>34, <1>35, <1>36, <1>37, <1>38, <1>39 DEF Next, Apply,
     UndoApply, RollBack, RevertRollback

LEMMA StoresAdds ==
  ASSUME NEW old, NEW new, Stores(old, new)
  PROVE  /\ new \cap quiet' \subseteq (old \cap quiet) \cup {clock'}
         /\ quiet' \subseteq quiet \cup {clock'}
  BY DEF Stores

LEMMA LonelyStays ==
  ASSUME TypeOK, PastEdits, Lonely, Dated, UNCHANGED <<status, orig, backup, idem>>,
         EditsIn(dest') \cap quiet' \subseteq (EditsIn(dest) \cap quiet) \cup {clock'},
         registry'.edits \cap quiet' \subseteq (registry.edits \cap quiet) \cup {clock'}
  PROVE  Lonely'
<1>1. \A t \in Txs : clock' > orig[t].began
  BY DatedTicks, EditsTyped, ClockTyped DEF PastEdits
<1> QED
  BY <1>1 DEF Lonely, Lone, Newer, Existed

LEMMA LonelyNext ==
  ASSUME TypeOK, Marked, PastEdits, Settling, RegistrySpared, Lonely, [Next]_vars
  PROVE  Lonely'
<1> USE DEF files, hashes, record, answers, op, copies, Calm, Goto, Records,
           Elsewhere, Applying, Undoing, RollingBack, Reverting
<1>1. ASSUME NEW t \in Txs, Preflight(t)
      PROVE  Lonely'
  BY <1>1, NothingIn DEF Preflight, TypeOK, Marked, Settling, Lonely, Lone,
     Newer, Existed
<1>2. ASSUME NEW t \in Txs, Request(t)
      PROVE  Lonely'
  BY <1>2, NothingIn DEF Request, TypeOK, Marked, Settling, Lonely, Lone,
     Newer, Existed
<1>3. ASSUME NEW t \in Txs, Check(t)
      PROVE  Lonely'
  BY <1>3, NothingIn DEF Check, Begins, Found, Acceptable, TypeOK, Marked,
     Settling, Lonely, Lone, Newer, Existed
<1>4. ASSUME NEW t \in Txs, Move(t)
      PROVE  Lonely'
  BY <1>4, NothingIn DEF Move, Undo, TypeOK, Marked, Settling, Lonely, Lone,
     Newer, Existed
<1>5. ASSUME NEW t \in Txs, RecordBackup(t)
      PROVE  Lonely'
  BY <1>5, NothingIn DEF RecordBackup, TypeOK, Marked, Settling, Lonely, Lone,
     Newer, Existed
<1>6. ASSUME NEW t \in Txs, Install(t)
      PROVE  Lonely'
  BY <1>6, NewBrainIn, NothingIn DEF Install, Undo, TypeOK, Marked, Settling,
     Lonely, Lone, Newer, Existed
<1>7. ASSUME NEW t \in Txs, RecordInstalled(t)
      PROVE  Lonely'
  BY <1>7, NothingIn DEF RecordInstalled, TypeOK, Marked, Settling, Lonely,
     Lone, Newer, Existed
<1>8. ASSUME NEW t \in Txs, LoadRegistry(t)
      PROVE  Lonely'
  BY <1>8, NothingIn DEF LoadRegistry, Reg, TypeOK, Marked, Settling, Lonely,
     Lone, Newer, Existed
<1>9. ASSUME NEW t \in Txs, UpdateRegistry(t)
      PROVE  Lonely'
  <2>1. cur = t /\ status[t] # "none" /\ registry'.edits = loaded.edits
    BY <1>9 DEF UpdateRegistry, Settling, Reg
  <2>2. UNCHANGED <<dest, backup, status, orig, idem, quiet>>
    BY <1>9 DEF UpdateRegistry
  <2>3. loaded.edits \cap quiet = orig[t].registry.edits \cap quiet
    BY <1>9, <2>1 DEF UpdateRegistry, RegistrySpared, Same
  <2>4. \A u \in Txs : Lone(u) => u = t
    BY <2>1 DEF Lone
  <2> QED
    BY <2>1, <2>2, <2>3, <2>4 DEF Lonely, Lone, Newer, Existed
<1>10. ASSUME NEW t \in Txs, RecordRegistry(t)
      PROVE  Lonely'
  BY <1>10, NothingIn DEF RecordRegistry, TypeOK, Marked, Settling, Lonely,
     Lone, Newer, Existed
<1>11. ASSUME NEW t \in Txs, WriteReceipt(t)
      PROVE  Lonely'
  BY <1>11, NothingIn DEF WriteReceipt, TypeOK, Marked, Settling, Lonely, Lone,
     Newer, Existed
<1>12. ASSUME NEW t \in Txs, RecordApplied(t)
      PROVE  Lonely'
  BY <1>12, NothingIn DEF RecordApplied, TypeOK, Marked, Settling, Lonely,
     Lone, Newer, Existed
<1>13. ASSUME NEW t \in Txs, UndoDest(t)
      PROVE  Lonely'
  BY <1>13, NothingIn DEF UndoDest, Removes, TypeOK, Marked, Settling, Lonely,
     Lone, Newer, Existed
<1>14. ASSUME NEW t \in Txs, UndoMove(t)
      PROVE  Lonely'
  BY <1>14, NothingIn DEF UndoMove, TypeOK, Marked, Settling, Lonely, Lone,
     Newer, Existed
<1>15. ASSUME NEW t \in Txs, UndoRegistry(t)
      PROVE  Lonely'
  BY <1>15, NothingIn DEF UndoRegistry, TypeOK, Marked, Settling, Lonely, Lone,
     Newer, Existed
<1>16. ASSUME NEW t \in Txs, RecordUndone(t)
      PROVE  Lonely'
  BY <1>16, NothingIn DEF RecordUndone, TypeOK, Marked, Settling, Lonely, Lone,
     Newer, Existed
<1>17. ASSUME NEW t \in Txs, Rollback(t)
      PROVE  Lonely'
  BY <1>17, NothingIn DEF Rollback, CanRollBack, TypeOK, Marked, Settling,
     Lonely, Lone, Newer, Existed
<1>18. ASSUME NEW t \in Txs, Retain(t)
      PROVE  Lonely'
  BY <1>18, NothingIn DEF Retain, TypeOK, Marked, Settling, Lonely, Lone,
     Newer, Existed
<1>19. ASSUME NEW t \in Txs, InstallBackup(t)
      PROVE  Lonely'
  BY <1>19, NothingIn DEF InstallBackup, TypeOK, Marked, Settling, Lonely,
     Lone, Newer, Existed
<1>20. ASSUME NEW t \in Txs, RestoreRegistry(t)
      PROVE  Lonely'
  BY <1>20, NothingIn DEF RestoreRegistry, TypeOK, Marked, Settling, Lonely,
     Lone, Newer, Existed
<1>21. ASSUME NEW t \in Txs, RecordRolledBack(t)
      PROVE  Lonely'
  BY <1>21, NothingIn DEF RecordRolledBack, TypeOK, Marked, Settling, Lonely,
     Lone, Newer, Existed
<1>22. ASSUME NEW t \in Txs, Cleanup(t)
      PROVE  Lonely'
  BY <1>22, NothingIn DEF Cleanup, TypeOK, Marked, Settling, Lonely, Lone,
     Newer, Existed
<1>23. ASSUME NEW t \in Txs, Revert(t)
      PROVE  Lonely'
  BY <1>23, NothingIn DEF Revert, Collision, TypeOK, Marked, Settling, Lonely,
     Lone, Newer, Existed
<1>24. ASSUME NEW t \in Txs, RevertMove(t)
      PROVE  Lonely'
  BY <1>24, NothingIn DEF RevertMove, TypeOK, Marked, Settling, Lonely, Lone,
     Newer, Existed
<1>25. ASSUME NEW t \in Txs, RevertRegistry(t)
      PROVE  Lonely'
  BY <1>25, NothingIn DEF RevertRegistry, TypeOK, Marked, Settling, Lonely,
     Lone, Newer, Existed
<1>26. ASSUME NEW t \in Txs, RecordReverted(t)
      PROVE  Lonely'
  BY <1>26, NothingIn DEF RecordReverted, TypeOK, Marked, Settling, Lonely,
     Lone, Newer, Existed
<1>27. ASSUME NEW t \in Txs, RevertReceipt(t)
      PROVE  Lonely'
  BY <1>27, NothingIn DEF RevertReceipt, TypeOK, Marked, Settling, Lonely,
     Lone, Newer, Existed
<1>28. ASSUME NEW t \in Txs, Recover(t)
      PROVE  Lonely'
  BY <1>28, NothingIn DEF Recover, TypeOK, Marked, Settling, Lonely, Lone,
     Newer, Existed
<1>29. CASE EditBrain
  <2>1. Edited /\ UNCHANGED <<status, orig, backup, idem>>
    BY <1>29 DEF EditBrain
  <2>2. EditsIn(dest') = EditsIn(dest) \cup {clock'} /\ registry'.edits = registry.edits
    BY <1>29, EditIn DEF EditBrain, Reg
  <2>3. quiet' \subseteq quiet \cup {clock'} /\ Dated
    BY <2>1 DEF Edited
  <2>4. /\ EditsIn(dest') \cap quiet' \subseteq (EditsIn(dest) \cap quiet) \cup {clock'}
        /\ registry'.edits \cap quiet' \subseteq (registry.edits \cap quiet) \cup {clock'}
    BY <2>2, <2>3
  <2> QED
    BY <2>1, <2>3, <2>4, LonelyStays
<1>30. ASSUME NEW w \in Writers, ReadBrain(w)
      PROVE  Lonely'
  BY <1>30 DEF ReadBrain, TypeOK, Lonely, Lone, Newer, Existed
<1>31. ASSUME NEW w \in Writers, ReadRegistry(w)
      PROVE  Lonely'
  BY <1>31 DEF ReadRegistry, TypeOK, Lonely, Lone, Newer, Existed
<1>32. ASSUME NEW w \in Writers, StoreBrain(w)
      PROVE  Lonely'
  <2>1. Dated /\ Stores(EditsIn(dest), dest'.edits) /\ dest'.edits = EditsIn(dest')
    BY <1>32, StoreStays DEF StoreBrain, EditsIn
  <2>2. registry' = registry /\ UNCHANGED <<status, orig, backup, idem>>
    BY <1>32 DEF StoreBrain
  <2>3. /\ EditsIn(dest') \cap quiet' \subseteq (EditsIn(dest) \cap quiet) \cup {clock'}
        /\ registry'.edits \cap quiet' \subseteq (registry.edits \cap quiet) \cup {clock'}
    BY <2>1, <2>2, StoresAdds
  <2> QED
    BY <2>1, <2>2, <2>3, LonelyStays
<1>33. ASSUME NEW w \in Writers, StoreRegistry(w)
      PROVE  Lonely'
  <2>1. Dated /\ Stores(registry.edits, registry'.edits)
    BY <1>33 DEF StoreRegistry
  <2>2. dest' = dest /\ UNCHANGED <<status, orig, backup, idem>>
    BY <1>33 DEF StoreRegistry
  <2>3. /\ EditsIn(dest') \cap quiet' \subseteq (EditsIn(dest) \cap quiet) \cup {clock'}
        /\ registry'.edits \cap quiet' \subseteq (registry.edits \cap quiet) \cup {clock'}
    BY <2>1, <2>2, StoresAdds
  <2> QED
    BY <2>1, <2>2, <2>3, LonelyStays
<1>34. CASE CreateBrain
  <2>1. Edited /\ UNCHANGED <<status, orig, backup, idem>>
    BY <1>34 DEF CreateBrain
  <2>2. EditsIn(dest') = EditsIn(dest) \cup {clock'} /\ registry'.edits = registry.edits
    BY <1>34, CreateIn DEF CreateBrain, Reg
  <2>3. quiet' \subseteq quiet \cup {clock'} /\ Dated
    BY <2>1 DEF Edited
  <2>4. /\ EditsIn(dest') \cap quiet' \subseteq (EditsIn(dest) \cap quiet) \cup {clock'}
        /\ registry'.edits \cap quiet' \subseteq (registry.edits \cap quiet) \cup {clock'}
    BY <2>2, <2>3
  <2> QED
    BY <2>1, <2>3, <2>4, LonelyStays
<1>35. CASE DeleteBrain
  BY <1>35, NothingIn DEF DeleteBrain, Reg, TypeOK, Marked, Settling, Lonely,
     Lone, Newer, Existed
<1>36. CASE Remake
  BY <1>36, NewBrainIn, NothingIn DEF Remake, Happens, Uses, Blank, TypeOK,
     Marked, Settling, Lonely, Lone, Newer, Existed
<1>37. CASE Fault
  BY <1>37, NothingIn DEF Fault, Handler, Happens, Uses, TypeOK, Marked,
     Settling, Lonely, Lone, Newer, Existed
<1>38. CASE Crash
  BY <1>38, NothingIn DEF Crash, Happens, Uses, TypeOK, Marked, Settling,
     Lonely, Lone, Newer, Existed
<1>39. CASE UNCHANGED vars
  BY <1>39, NothingIn DEF vars, TypeOK, Marked, Settling, Lonely, Lone, Newer,
     Existed
<1> QED
  BY <1>1, <1>2, <1>3, <1>4, <1>5, <1>6, <1>7, <1>8, <1>9, <1>10, <1>11, <1>12,
     <1>13, <1>14, <1>15, <1>16, <1>17, <1>18, <1>19, <1>20, <1>21, <1>22,
     <1>23, <1>24, <1>25, <1>26, <1>27, <1>28, <1>29, <1>30, <1>31, <1>32,
     <1>33, <1>34, <1>35, <1>36, <1>37, <1>38, <1>39 DEF Next, Apply,
     UndoApply, RollBack, RevertRollback

-----------------------------------------------------------------------------
(* No step of an operation loses a quiet edit.                             *)

Holds(e) == \/ e \in EditsIn(dest)
            \/ \E t \in Txs : e \in EditsIn(backup[t]) \/ e \in EditsIn(kept[t])

LEMMA HeldHolds ==
  ASSUME NEW e
  PROVE  /\ e \in Held <=> Holds(e)
         /\ e \in Held' <=> Holds(e)'
  BY DEF Held, Holds

(* What the property lets go: a retry, of an edit newer than what it       *)
(* retries, or beside another restore.                                     *)
Excepted(e) == retry /\ (e > orig[cur].began \/ ~Lone(cur))

Kept(e) == Holds(e) => Holds(e)'

RegistryKept(e) == e \in registry.edits => e \in registry'.edits

EditsInv ==
  /\ TypeOK /\ Marked /\ Unfinished /\ Secured /\ Receipted
  /\ Settling /\ BackupsFaithful
  /\ QuietPast /\ PastEdits /\ Spared /\ RegistrySpared /\ Retrying /\ Lonely

LEMMA DirectoriesKept ==
  ASSUME EditsInv, pc # "idle", pc' # pc, NEW e \in quiet, ~Excepted(e),
         [Next]_vars
  PROVE  Kept(e)
<1> USE DEF files, hashes, record, answers, op, copies, Calm, Goto, Records,
           Elsewhere, Applying, Undoing, RollingBack, Reverting
<1>1. ASSUME NEW t \in Txs, Preflight(t)
      PROVE  Kept(e)
  BY <1>1, NothingIn DEF Preflight, TypeOK, EditsInv, Holds, Kept
<1>2. ASSUME NEW t \in Txs, Request(t)
      PROVE  Kept(e)
  BY <1>2, NothingIn DEF Request, TypeOK, EditsInv, Holds, Kept
<1>3. ASSUME NEW t \in Txs, Check(t)
      PROVE  Kept(e)
  BY <1>3, NothingIn DEF Check, Begins, Found, Acceptable, TypeOK, EditsInv,
     Holds, Kept
<1>4. ASSUME NEW t \in Txs, Move(t)
      PROVE  Kept(e)
  BY <1>4, NothingIn DEF Move, Undo, Settling, TypeOK, EditsInv, Holds, Kept
<1>5. ASSUME NEW t \in Txs, RecordBackup(t)
      PROVE  Kept(e)
  BY <1>5, NothingIn DEF RecordBackup, TypeOK, EditsInv, Holds, Kept
<1>6. ASSUME NEW t \in Txs, Install(t)
      PROVE  Kept(e)
  BY <1>6, NothingIn DEF Install, Undo, TypeOK, EditsInv, Holds, Kept
<1>7. ASSUME NEW t \in Txs, RecordInstalled(t)
      PROVE  Kept(e)
  BY <1>7, NothingIn DEF RecordInstalled, TypeOK, EditsInv, Holds, Kept
<1>8. ASSUME NEW t \in Txs, LoadRegistry(t)
      PROVE  Kept(e)
  BY <1>8, NothingIn DEF LoadRegistry, TypeOK, EditsInv, Holds, Kept
<1>9. ASSUME NEW t \in Txs, UpdateRegistry(t)
      PROVE  Kept(e)
  BY <1>9, NothingIn DEF UpdateRegistry, TypeOK, EditsInv, Holds, Kept
<1>10. ASSUME NEW t \in Txs, RecordRegistry(t)
      PROVE  Kept(e)
  BY <1>10, NothingIn DEF RecordRegistry, TypeOK, EditsInv, Holds, Kept
<1>11. ASSUME NEW t \in Txs, WriteReceipt(t)
      PROVE  Kept(e)
  BY <1>11, NothingIn DEF WriteReceipt, TypeOK, EditsInv, Holds, Kept
<1>12. ASSUME NEW t \in Txs, RecordApplied(t)
      PROVE  Kept(e)
  BY <1>12, NothingIn DEF RecordApplied, TypeOK, EditsInv, Holds, Kept
<1>13. ASSUME NEW t \in Txs, UndoDest(t)
      PROVE  Kept(e)
  <2>1. CASE retry
    <3>1. cur = t /\ cur \in Txs /\ Lone(cur) /\ ~(e > orig[cur].began)
      BY <1>13, <2>1 DEF UndoDest, EditsInv, TypeOK, Excepted
    <3>2. ~idem[cur] /\ status[cur] # "none"
      BY <1>13, <2>1 DEF UndoDest, EditsInv, Settling, Retrying
    <3>3. (Existed(cur) /\ backup[cur] = NoDir) \/ e \notin EditsIn(dest)
      BY <3>1, <3>2 DEF EditsInv, Lonely, Newer
    <3> QED
      BY <1>13, <3>1, <3>3, NothingIn DEF UndoDest, Removes, Holds, Kept
  <2>2. CASE ~retry
    BY <1>13, <2>2, NothingIn
       DEF UndoDest, EditsInv, Spared, Loud, Holds, Kept
  <2> QED
    BY <2>1, <2>2
<1>14. ASSUME NEW t \in Txs, UndoMove(t)
      PROVE  Kept(e)
  BY <1>14, NothingIn DEF UndoMove, TypeOK, EditsInv, Holds, Kept
<1>15. ASSUME NEW t \in Txs, UndoRegistry(t)
      PROVE  Kept(e)
  BY <1>15, NothingIn DEF UndoRegistry, TypeOK, EditsInv, Holds, Kept
<1>16. ASSUME NEW t \in Txs, RecordUndone(t)
      PROVE  Kept(e)
  BY <1>16, NothingIn DEF RecordUndone, TypeOK, EditsInv, Holds, Kept
<1>17. ASSUME NEW t \in Txs, Rollback(t)
      PROVE  Kept(e)
  BY <1>17, NothingIn DEF Rollback, CanRollBack, TypeOK, EditsInv, Holds, Kept
<1>18. ASSUME NEW t \in Txs, Retain(t)
      PROVE  Kept(e)
  BY <1>18, NothingIn DEF Retain, Spared, TypeOK, EditsInv, Holds, Kept
<1>19. ASSUME NEW t \in Txs, InstallBackup(t)
      PROVE  Kept(e)
  BY <1>19, NothingIn DEF InstallBackup, TypeOK, EditsInv, Holds, Kept
<1>20. ASSUME NEW t \in Txs, RestoreRegistry(t)
      PROVE  Kept(e)
  BY <1>20, NothingIn DEF RestoreRegistry, TypeOK, EditsInv, Holds, Kept
<1>21. ASSUME NEW t \in Txs, RecordRolledBack(t)
      PROVE  Kept(e)
  BY <1>21, NothingIn DEF RecordRolledBack, TypeOK, EditsInv, Holds, Kept
<1>22. ASSUME NEW t \in Txs, Cleanup(t)
      PROVE  Kept(e)
  BY <1>22, NothingIn DEF Cleanup, Spared, Loud, TypeOK, EditsInv, Holds, Kept
<1>23. ASSUME NEW t \in Txs, Revert(t)
      PROVE  Kept(e)
  BY <1>23, NothingIn DEF Revert, Collision, TypeOK, EditsInv, Holds, Kept
<1>24. ASSUME NEW t \in Txs, RevertMove(t)
      PROVE  Kept(e)
  BY <1>24, NothingIn DEF RevertMove, TypeOK, EditsInv, Holds, Kept
<1>25. ASSUME NEW t \in Txs, RevertRegistry(t)
      PROVE  Kept(e)
  BY <1>25, NothingIn DEF RevertRegistry, TypeOK, EditsInv, Holds, Kept
<1>26. ASSUME NEW t \in Txs, RecordReverted(t)
      PROVE  Kept(e)
  BY <1>26, NothingIn DEF RecordReverted, TypeOK, EditsInv, Holds, Kept
<1>27. ASSUME NEW t \in Txs, RevertReceipt(t)
      PROVE  Kept(e)
  BY <1>27, NothingIn DEF RevertReceipt, TypeOK, EditsInv, Holds, Kept
<1>28. ASSUME NEW t \in Txs, Recover(t)
      PROVE  Kept(e)
  BY <1>28, NothingIn DEF Recover, TypeOK, EditsInv, Holds, Kept
<1>29. CASE EditBrain
  BY <1>29 DEF EditBrain
<1>30. ASSUME NEW w \in Writers, ReadBrain(w)
      PROVE  Kept(e)
  BY <1>30 DEF ReadBrain
<1>31. ASSUME NEW w \in Writers, ReadRegistry(w)
      PROVE  Kept(e)
  BY <1>31 DEF ReadRegistry
<1>32. ASSUME NEW w \in Writers, StoreBrain(w)
      PROVE  Kept(e)
  BY <1>32 DEF StoreBrain
<1>33. ASSUME NEW w \in Writers, StoreRegistry(w)
      PROVE  Kept(e)
  BY <1>33 DEF StoreRegistry
<1>34. CASE CreateBrain
  BY <1>34 DEF CreateBrain
<1>35. CASE DeleteBrain
  BY <1>35 DEF DeleteBrain
<1>36. CASE Remake
  BY <1>36 DEF Remake
<1>37. CASE Fault
  BY <1>37, NothingIn DEF Fault, Handler, Happens, Uses, TypeOK, EditsInv,
     Holds, Kept
<1>38. CASE Crash
  BY <1>38, NothingIn DEF Crash, Happens, Uses, TypeOK, EditsInv, Holds, Kept
<1>39. CASE UNCHANGED vars
  BY <1>39, NothingIn DEF vars, TypeOK, EditsInv, Holds, Kept
<1> QED
  BY <1>1, <1>2, <1>3, <1>4, <1>5, <1>6, <1>7, <1>8, <1>9, <1>10, <1>11, <1>12,
     <1>13, <1>14, <1>15, <1>16, <1>17, <1>18, <1>19, <1>20, <1>21, <1>22,
     <1>23, <1>24, <1>25, <1>26, <1>27, <1>28, <1>29, <1>30, <1>31, <1>32,
     <1>33, <1>34, <1>35, <1>36, <1>37, <1>38, <1>39 DEF Next, Apply,
     UndoApply, RollBack, RevertRollback

LEMMA RegistryStays ==
  ASSUME EditsInv, pc # "idle", pc' # pc, NEW e \in quiet, ~Excepted(e),
         [Next]_vars
  PROVE  RegistryKept(e)
<1> USE DEF files, hashes, record, answers, op, copies, Calm, Goto, Records,
           Elsewhere, Applying, Undoing, RollingBack, Reverting
<1>1. ASSUME NEW t \in Txs, Preflight(t)
      PROVE  RegistryKept(e)
  BY <1>1 DEF Preflight, EditsInv, RegistryKept
<1>2. ASSUME NEW t \in Txs, Request(t)
      PROVE  RegistryKept(e)
  BY <1>2 DEF Request, EditsInv, RegistryKept
<1>3. ASSUME NEW t \in Txs, Check(t)
      PROVE  RegistryKept(e)
  BY <1>3 DEF Check, Begins, Found, EditsInv, RegistryKept
<1>4. ASSUME NEW t \in Txs, Move(t)
      PROVE  RegistryKept(e)
  BY <1>4 DEF Move, Undo, EditsInv, RegistryKept
<1>5. ASSUME NEW t \in Txs, RecordBackup(t)
      PROVE  RegistryKept(e)
  BY <1>5 DEF RecordBackup, EditsInv, RegistryKept
<1>6. ASSUME NEW t \in Txs, Install(t)
      PROVE  RegistryKept(e)
  BY <1>6 DEF Install, Undo, EditsInv, RegistryKept
<1>7. ASSUME NEW t \in Txs, RecordInstalled(t)
      PROVE  RegistryKept(e)
  BY <1>7 DEF RecordInstalled, EditsInv, RegistryKept
<1>8. ASSUME NEW t \in Txs, LoadRegistry(t)
      PROVE  RegistryKept(e)
  BY <1>8 DEF LoadRegistry, Reg, EditsInv, RegistryKept
<1>9. ASSUME NEW t \in Txs, UpdateRegistry(t)
      PROVE  RegistryKept(e)
  BY <1>9 DEF UpdateRegistry, Reg, RegistrySpared, Same, EditsInv, RegistryKept
<1>10. ASSUME NEW t \in Txs, RecordRegistry(t)
      PROVE  RegistryKept(e)
  BY <1>10 DEF RecordRegistry, EditsInv, RegistryKept
<1>11. ASSUME NEW t \in Txs, WriteReceipt(t)
      PROVE  RegistryKept(e)
  BY <1>11 DEF WriteReceipt, EditsInv, RegistryKept
<1>12. ASSUME NEW t \in Txs, RecordApplied(t)
      PROVE  RegistryKept(e)
  BY <1>12 DEF RecordApplied, EditsInv, RegistryKept
<1>13. ASSUME NEW t \in Txs, UndoDest(t)
      PROVE  RegistryKept(e)
  BY <1>13 DEF UndoDest, EditsInv, RegistryKept
<1>14. ASSUME NEW t \in Txs, UndoMove(t)
      PROVE  RegistryKept(e)
  BY <1>14 DEF UndoMove, EditsInv, RegistryKept
<1>15. ASSUME NEW t \in Txs, UndoRegistry(t)
      PROVE  RegistryKept(e)
  <2>1. CASE retry
    <3>1. cur = t /\ cur \in Txs /\ Lone(cur) /\ ~(e > orig[cur].began)
      BY <1>15, <2>1 DEF UndoRegistry, EditsInv, TypeOK, Excepted
    <3>2. ~idem[cur] /\ status[cur] # "none"
      BY <1>15, <2>1 DEF UndoRegistry, EditsInv, Settling, Retrying
    <3>3. e \notin registry.edits \ orig[cur].registry.edits
      BY <3>1, <3>2 DEF EditsInv, Lonely, Newer
    <3> QED
      BY <1>15, <3>1, <3>3 DEF UndoRegistry, RegistryKept
  <2>2. CASE ~retry
    BY <1>15, <2>2 DEF UndoRegistry, EditsInv, RegistrySpared, Same, RegistryKept
  <2> QED
    BY <2>1, <2>2
<1>16. ASSUME NEW t \in Txs, RecordUndone(t)
      PROVE  RegistryKept(e)
  BY <1>16 DEF RecordUndone, EditsInv, RegistryKept
<1>17. ASSUME NEW t \in Txs, Rollback(t)
      PROVE  RegistryKept(e)
  BY <1>17 DEF Rollback, EditsInv, RegistryKept
<1>18. ASSUME NEW t \in Txs, Retain(t)
      PROVE  RegistryKept(e)
  BY <1>18 DEF Retain, EditsInv, RegistryKept
<1>19. ASSUME NEW t \in Txs, InstallBackup(t)
      PROVE  RegistryKept(e)
  BY <1>19 DEF InstallBackup, EditsInv, RegistryKept
<1>20. ASSUME NEW t \in Txs, RestoreRegistry(t)
      PROVE  RegistryKept(e)
  BY <1>20 DEF RestoreRegistry, RegistrySpared, Same, EditsInv,
     RegistryKept
<1>21. ASSUME NEW t \in Txs, RecordRolledBack(t)
      PROVE  RegistryKept(e)
  BY <1>21 DEF RecordRolledBack, EditsInv, RegistryKept
<1>22. ASSUME NEW t \in Txs, Cleanup(t)
      PROVE  RegistryKept(e)
  BY <1>22 DEF Cleanup, EditsInv, RegistryKept
<1>23. ASSUME NEW t \in Txs, Revert(t)
      PROVE  RegistryKept(e)
  BY <1>23 DEF Revert, EditsInv, RegistryKept
<1>24. ASSUME NEW t \in Txs, RevertMove(t)
      PROVE  RegistryKept(e)
  BY <1>24 DEF RevertMove, EditsInv, RegistryKept
<1>25. ASSUME NEW t \in Txs, RevertRegistry(t)
      PROVE  RegistryKept(e)
  BY <1>25 DEF RevertRegistry, RegistrySpared, Same, EditsInv, RegistryKept
<1>26. ASSUME NEW t \in Txs, RecordReverted(t)
      PROVE  RegistryKept(e)
  BY <1>26 DEF RecordReverted, EditsInv, RegistryKept
<1>27. ASSUME NEW t \in Txs, RevertReceipt(t)
      PROVE  RegistryKept(e)
  BY <1>27 DEF RevertReceipt, EditsInv, RegistryKept
<1>28. ASSUME NEW t \in Txs, Recover(t)
      PROVE  RegistryKept(e)
  BY <1>28 DEF Recover, EditsInv, RegistryKept
<1>29. CASE EditBrain
  BY <1>29 DEF EditBrain
<1>30. ASSUME NEW w \in Writers, ReadBrain(w)
      PROVE  RegistryKept(e)
  BY <1>30 DEF ReadBrain
<1>31. ASSUME NEW w \in Writers, ReadRegistry(w)
      PROVE  RegistryKept(e)
  BY <1>31 DEF ReadRegistry
<1>32. ASSUME NEW w \in Writers, StoreBrain(w)
      PROVE  RegistryKept(e)
  BY <1>32 DEF StoreBrain
<1>33. ASSUME NEW w \in Writers, StoreRegistry(w)
      PROVE  RegistryKept(e)
  BY <1>33 DEF StoreRegistry
<1>34. CASE CreateBrain
  BY <1>34 DEF CreateBrain
<1>35. CASE DeleteBrain
  BY <1>35 DEF DeleteBrain
<1>36. CASE Remake
  BY <1>36 DEF Remake
<1>37. CASE Fault
  BY <1>37 DEF Fault, Handler, Happens, Uses, EditsInv, RegistryKept
<1>38. CASE Crash
  BY <1>38 DEF Crash, Happens, Uses, EditsInv, RegistryKept
<1>39. CASE UNCHANGED vars
  BY <1>39 DEF vars, EditsInv, RegistryKept
<1> QED
  BY <1>1, <1>2, <1>3, <1>4, <1>5, <1>6, <1>7, <1>8, <1>9, <1>10, <1>11, <1>12,
     <1>13, <1>14, <1>15, <1>16, <1>17, <1>18, <1>19, <1>20, <1>21, <1>22,
     <1>23, <1>24, <1>25, <1>26, <1>27, <1>28, <1>29, <1>30, <1>31, <1>32,
     <1>33, <1>34, <1>35, <1>36, <1>37, <1>38, <1>39 DEF Next, Apply,
     UndoApply, RollBack, RevertRollback

LEMMA EditsInvInit == Init => EditsInv
  BY TypeInit, RetainedInit, ReceiptedInit, SettlingInit, QuietPastInit, NothingIn,
     ClockTyped
     DEF Init, EditsInv, PastEdits, Past, Spared, RegistrySpared, Retrying, Lonely,
     Loud, Same, Committed, Unrolled, Found, Original, Content, Reg, NotLoaded,
     EditsIn,
     Applying, Undoing, RollingBack, Reverting

LEMMA EditsInvNext == EditsInv /\ [Next]_vars => EditsInv'
  BY TypeNext, MarkedNext, UnfinishedNext, SecuredNext, ReceiptedNext, SettlingNext,
     BackupsFaithfulNext,
     QuietPastNext, PastEditsNext, SparedNext, RegistrySparedNext, RetryingNext,
     LonelyNext DEF EditsInv

(* Nothing anyone did while no restore was running is lost by a step of a  *)
(* restore, of its undo or of its rollback, except by a retry, and then    *)
(* only what is newer than what is retried, or another restore brought     *)
(* back.                                                                   *)
THEOREM QuietEditsAlwaysKept == Spec => QuietEditsKept
<1> DEFINE Keeps ==
      pc # "idle" /\ pc' # pc =>
        \A e \in quiet :
          \/ /\ e \in Held => e \in Held'
             /\ e \in registry.edits => e \in registry'.edits
          \/ /\ retry
             /\ \/ e > orig[cur].began
                \/ \E t \in Txs \ {cur} : status[t] # "none"
<1>1. EditsInv /\ [Next]_vars => Keeps
  <2> SUFFICES ASSUME EditsInv, [Next]_vars, pc # "idle", pc' # pc, NEW e \in quiet,
                      ~(retry /\ (\/ e > orig[cur].began
                                 \/ \E t \in Txs \ {cur} : status[t] # "none"))
               PROVE  /\ e \in Held => e \in Held'
                      /\ e \in registry.edits => e \in registry'.edits
    OBVIOUS
  <2>1. ~Excepted(e)
    BY DEF Excepted, Lone
  <2>2. Kept(e) /\ RegistryKept(e)
    BY <2>1, DirectoriesKept, RegistryStays
  <2> QED
    BY <2>2, HeldHolds DEF Kept, RegistryKept
<1>2. Spec => []EditsInv
  BY EditsInvInit, EditsInvNext, PTL DEF Spec
<1> QED
  BY <1>1, <1>2, PTL DEF Spec, QuietEditsKept
==============================================================================
