-------------------------- MODULE BrainRestoreProofs --------------------------
(***************************************************************************)
(* Proofs about BrainRestore, for any number of transactions and any       *)
(* bounds: type correctness; the backup of an applied restore; replayed    *)
(* receipts; a way on for a failed apply, and for a failed rollback; what  *)
(* an undo and a rollback leave behind. Each section has one inductive     *)
(* invariant, and a lemma that goes through the actions.                   *)
(***************************************************************************)
EXTENDS BrainRestore, TLAPS

-----------------------------------------------------------------------------
(* Type correctness.                                                       *)

LEMMA ContentTyped ==
  ASSUME NEW root \in Txs \cup {Own}, NEW edits \in SUBSET Edits
  PROVE  Content(root, edits) \in Contents
  BY DEF Content, Contents

LEMMA RegTyped ==
  ASSUME NEW rec \in Txs \cup {Own, NoRecord}, NEW edits \in SUBSET Edits
  PROVE  Reg(rec, edits) \in Registries
  BY DEF Reg, Registries

LEMMA FoundTyped ==
  ASSUME NEW d \in Contents \cup {NoDir}, NEW r \in Registries, NEW c \in Edits
  PROVE  Found(d, r, c) \in [dest : Contents \cup {NoDir}, registry : Registries,
                            began : Edits]
  BY DEF Found

LEMMA DatedTyped ==
  ASSUME TypeOK, Edited
  PROVE  clock' \in Edits /\ quiet' \in SUBSET Edits
  BY RestoreAssumption DEF TypeOK, Edited, Dated, Edits

LEMMA StoresTyped ==
  ASSUME TypeOK, Dated, NEW old, NEW new, Stores(old, new)
  PROVE  clock' \in Edits /\ quiet' \in SUBSET Edits
<1>1. clock' \in Edits
  BY RestoreAssumption DEF TypeOK, Dated, Edits
<1>2. quiet' \subseteq quiet \cup {clock'}
  BY DEF Stores
<1> QED
  BY <1>1, <1>2 DEF TypeOK

LEMMA NotLoadedTyped == NotLoaded \in Registries
  BY RegTyped DEF NotLoaded

LEMMA UsesTyped ==
  ASSUME TypeOK, NEW m \in Mishaps, Uses(m)
  PROVE  used' \in [Mishaps -> Nat]
  BY DEF TypeOK, Uses

LEMMA HappensTyped ==
  ASSUME TypeOK, NEW m \in Mishaps, Happens(m)
  PROVE  used' \in [Mishaps -> Nat] /\ UNCHANGED <<copy, draft, clock, quiet, crossed>>
  BY UsesTyped DEF Happens, copies

LEMMA TypeInit == Init => TypeOK
<1> SUFFICES ASSUME Init
             PROVE  TypeOK
  OBVIOUS
<1>1. 0 \in Edits
  BY RestoreAssumption DEF Edits
<1>2. dest \in Contents \cup {NoDir} /\ registry \in Registries
  BY <1>1 DEF Init, Original, Content, Contents, Reg, Registries
<1> DEFINE found == Found(dest, registry, 0)
           bound == Binding
<1>3. found \in [dest : Contents \cup {NoDir}, registry : Registries, began : Edits]
  BY <1>1, <1>2, FoundTyped
<1>4. bound \in (Txs \cup {Own, NoRecord}) \X (Contents \cup {NoDir})
  BY <1>2 DEF Binding, Registries
<1>5. orig = [t \in Txs |-> found] /\ seen = [t \in Txs |-> bound]
  BY DEF Init
<1> HIDE DEF found, bound
<1> QED
  BY <1>1, <1>2, <1>3, <1>4, <1>5, NotLoadedTyped DEF Init, TypeOK, Steps, Status,
     Mishaps

LEMMA TypeNext == TypeOK /\ [Next]_vars => TypeOK'
<1> SUFFICES ASSUME TypeOK, [Next]_vars
             PROVE  TypeOK'
  OBVIOUS
<1>1. ASSUME NEW t \in Txs, Preflight(t)
      PROVE  TypeOK'
  BY <1>1 DEF TypeOK, Preflight, files, hashes, record, answers, op, Calm,
     copies, Goto, Records, Elsewhere, Steps, Applying, Undoing, RollingBack,
     Reverting, Status, Moved, Unrolled, Binding, Registries
<1>2. ASSUME NEW t \in Txs, Request(t)
      PROVE  TypeOK'
  BY <1>2 DEF TypeOK, Request, files, hashes, record, answers, op, Calm,
     copies, Goto, Records, Elsewhere, Steps, Applying, Undoing, RollingBack,
     Reverting, Status, Moved, Unrolled
<1>3. ASSUME NEW t \in Txs, Check(t)
      PROVE  TypeOK'
  <2>1. CASE ~Acceptable(t) /\ Goto("idle") /\ UNCHANGED record
    BY <1>3, <2>1 DEF Check, Begins, TypeOK, files, record, answers, Calm, copies, Goto, Steps
  <2>2. CASE Acceptable(t) /\ UNCHANGED hashes
             /\ orig' = [orig EXCEPT ![t] = Found(dest, registry, clock)]
             /\ Records(t, "staged",
                        IF registry.record # NoRecord THEN "move" ELSE "install")
    <3> DEFINE found == Found(dest, registry, clock)
    <3>1. found \in [dest : Contents \cup {NoDir}, registry : Registries, began : Edits]
      BY FoundTyped DEF TypeOK
    <3>2. orig' = [orig EXCEPT ![t] = found]
      BY <2>2
    <3> HIDE DEF found
    <3>3. orig' \in [Txs -> [dest : Contents \cup {NoDir}, registry : Registries,
                             began : Edits]]
      BY <3>1, <3>2 DEF TypeOK
    <3>4. status' \in [Txs -> Status] /\ pc' \in Steps
      BY <2>2 DEF TypeOK, Records, Goto, Status, Steps, Applying
    <3> QED
      BY <1>3, <2>2, <3>3, <3>4
      DEF Check, Begins, TypeOK, files, hashes, record, answers, Calm, copies, Goto, Records
  <2> QED
    BY <1>3, <2>1, <2>2 DEF Check
<1>4. ASSUME NEW t \in Txs, Move(t)
      PROVE  TypeOK'
  <2>1. CASE dest = NoDir /\ Undo
    BY <1>4, <2>1 DEF Move, TypeOK, Undo, files, hashes, record, answers, Calm, copies,
       Steps, Undoing
  <2>2. CASE /\ dest # NoDir /\ dest' = NoDir
             /\ backup' = [backup EXCEPT ![t] = dest]
             /\ Goto("recordBackup") /\ UNCHANGED <<registry, kept>>
    BY <1>4, <2>2 DEF Move, TypeOK, Goto, hashes, record, answers, Calm, copies, Steps,
       Applying
  <2> QED
    BY <1>4, <2>1, <2>2 DEF Move
<1>5. ASSUME NEW t \in Txs, RecordBackup(t)
      PROVE  TypeOK'
  BY <1>5 DEF TypeOK, RecordBackup, files, hashes, record, answers, op, Calm,
     copies, Goto, Records, Elsewhere, Steps, Applying, Undoing, RollingBack,
     Reverting, Status, Moved, Unrolled
<1>6. ASSUME NEW t \in Txs, Install(t)
      PROVE  TypeOK'
  <2>1. CASE dest # NoDir /\ Undo
    BY <1>6, <2>1 DEF Install, TypeOK, Undo, files, hashes, record, answers,
       Calm, copies, Steps, Undoing
  <2>2. CASE /\ dest = NoDir /\ dest' = Content(t, {})
             /\ Goto("recordInstalled") /\ UNCHANGED <<registry, backup, kept>>
    <3>1. dest' \in Contents
      BY <2>2 DEF Content, Contents
    <3> QED
      BY <1>6, <2>2, <3>1 DEF Install, TypeOK, Goto, hashes, record, answers,
         Calm, copies, Steps, Applying
  <2> QED
    BY <1>6, <2>1, <2>2 DEF Install
<1>7. ASSUME NEW t \in Txs, RecordInstalled(t)
      PROVE  TypeOK'
  BY <1>7 DEF TypeOK, RecordInstalled, files, hashes, record, answers, op,
     Calm, copies, Goto, Records, Elsewhere, Steps, Applying, Undoing,
     RollingBack, Reverting, Status, Moved, Unrolled
<1>8. ASSUME NEW t \in Txs, LoadRegistry(t)
      PROVE  TypeOK'
  BY <1>8 DEF TypeOK, LoadRegistry, files, hashes, record, answers, op, copies,
     Calm, Steps, Applying
<1>9. ASSUME NEW t \in Txs, UpdateRegistry(t)
      PROVE  TypeOK'
  BY <1>9, RegTyped, NotLoadedTyped DEF TypeOK, UpdateRegistry, files, hashes,
     record, answers, op, Calm, copies, Goto, Records, Elsewhere, Steps,
     Applying, Undoing, RollingBack, Reverting, Status, Moved, Unrolled,
     Registries
<1>10. ASSUME NEW t \in Txs, RecordRegistry(t)
      PROVE  TypeOK'
  BY <1>10 DEF TypeOK, RecordRegistry, files, hashes, record, answers, op, Calm,
     copies, Goto, Records, Elsewhere, Steps, Applying, Undoing, RollingBack,
     Reverting, Status, Moved, Unrolled
<1>11. ASSUME NEW t \in Txs, WriteReceipt(t)
      PROVE  TypeOK'
  BY <1>11 DEF TypeOK, WriteReceipt, files, hashes, record, answers, op, Calm,
     copies, Goto, Records, Elsewhere, Steps, Applying, Undoing, RollingBack,
     Reverting, Status, Moved, Unrolled
<1>12. ASSUME NEW t \in Txs, RecordApplied(t)
      PROVE  TypeOK'
  BY <1>12 DEF TypeOK, RecordApplied, files, hashes, record, answers, op, Calm,
     copies, Goto, Records, Elsewhere, Steps, Applying, Undoing, RollingBack,
     Reverting, Status, Moved, Unrolled
<1>13. ASSUME NEW t \in Txs, UndoDest(t)
      PROVE  TypeOK'
  BY <1>13 DEF TypeOK, UndoDest, files, hashes, record, answers, op, Calm,
     copies, Goto, Records, Elsewhere, Steps, Applying, Undoing, RollingBack,
     Reverting, Status, Moved, Unrolled
<1>14. ASSUME NEW t \in Txs, UndoMove(t)
      PROVE  TypeOK'
  BY <1>14 DEF TypeOK, UndoMove, files, hashes, record, answers, op, Calm,
     copies, Goto, Records, Elsewhere, Steps, Applying, Undoing, RollingBack,
     Reverting, Status, Moved, Unrolled
<1>15. ASSUME NEW t \in Txs, UndoRegistry(t)
      PROVE  TypeOK'
  BY <1>15 DEF TypeOK, UndoRegistry, files, hashes, record, answers, op, Calm,
     copies, Goto, Records, Elsewhere, Steps, Applying, Undoing, RollingBack,
     Reverting, Status, Moved, Unrolled
<1>16. ASSUME NEW t \in Txs, RecordUndone(t)
      PROVE  TypeOK'
  BY <1>16 DEF TypeOK, RecordUndone, files, hashes, record, answers, op, Calm,
     copies, Goto, Records, Elsewhere, Steps, Applying, Undoing, RollingBack,
     Reverting, Status, Moved, Unrolled
<1>17. ASSUME NEW t \in Txs, Rollback(t)
      PROVE  TypeOK'
  BY <1>17 DEF TypeOK, Rollback, files, hashes, record, answers, op, Calm,
     copies, Goto, Records, Elsewhere, Steps, Applying, Undoing, RollingBack,
     Reverting, Status, Moved, Unrolled
<1>18. ASSUME NEW t \in Txs, Retain(t)
      PROVE  TypeOK'
  BY <1>18 DEF TypeOK, Retain, files, hashes, record, answers, op, Calm,
     copies, Goto, Records, Elsewhere, Steps, Applying, Undoing, RollingBack,
     Reverting, Status, Moved, Unrolled
<1>19. ASSUME NEW t \in Txs, InstallBackup(t)
      PROVE  TypeOK'
  BY <1>19 DEF TypeOK, InstallBackup, files, hashes, record, answers, op, Calm,
     copies, Goto, Records, Elsewhere, Steps, Applying, Undoing, RollingBack,
     Reverting, Status, Moved, Unrolled
<1>20. ASSUME NEW t \in Txs, RestoreRegistry(t)
      PROVE  TypeOK'
  BY <1>20 DEF TypeOK, RestoreRegistry, files, hashes, record, answers, op,
     Calm, copies, Goto, Records, Elsewhere, Steps, Applying, Undoing,
     RollingBack, Reverting, Status, Moved, Unrolled
<1>21. ASSUME NEW t \in Txs, RecordRolledBack(t)
      PROVE  TypeOK'
  BY <1>21 DEF TypeOK, RecordRolledBack, files, hashes, record, answers, op,
     Calm, copies, Goto, Records, Elsewhere, Steps, Applying, Undoing,
     RollingBack, Reverting, Status, Moved, Unrolled
<1>22. ASSUME NEW t \in Txs, Cleanup(t)
      PROVE  TypeOK'
  BY <1>22 DEF TypeOK, Cleanup, files, hashes, record, answers, op, Calm,
     copies, Goto, Records, Elsewhere, Steps, Applying, Undoing, RollingBack,
     Reverting, Status, Moved, Unrolled
<1>23. ASSUME NEW t \in Txs, Revert(t)
      PROVE  TypeOK'
  BY <1>23 DEF TypeOK, Revert, files, hashes, record, answers, op, Calm,
     copies, Goto, Records, Elsewhere, Steps, Applying, Undoing, RollingBack,
     Reverting, Status, Moved, Unrolled
<1>24. ASSUME NEW t \in Txs, RevertMove(t)
      PROVE  TypeOK'
  BY <1>24 DEF TypeOK, RevertMove, files, hashes, record, answers, op, Calm,
     copies, Goto, Records, Elsewhere, Steps, Applying, Undoing, RollingBack,
     Reverting, Status, Moved, Unrolled
<1>25. ASSUME NEW t \in Txs, RevertRegistry(t)
      PROVE  TypeOK'
  BY <1>25 DEF TypeOK, RevertRegistry, files, hashes, record, answers, op,
     Calm, copies, Goto, Records, Elsewhere, Steps, Applying, Undoing,
     RollingBack, Reverting, Status, Moved, Unrolled
<1>26. ASSUME NEW t \in Txs, RecordReverted(t)
      PROVE  TypeOK'
  BY <1>26 DEF TypeOK, RecordReverted, files, hashes, record, answers, op,
     Calm, copies, Goto, Records, Elsewhere, Steps, Applying, Undoing,
     RollingBack, Reverting, Status, Moved, Unrolled
<1>27. ASSUME NEW t \in Txs, RevertReceipt(t)
      PROVE  TypeOK'
  BY <1>27 DEF TypeOK, RevertReceipt, files, hashes, record, answers, op, Calm,
     copies, Goto, Records, Elsewhere, Steps, Applying, Undoing, RollingBack,
     Reverting, Status, Moved, Unrolled
<1>28. ASSUME NEW t \in Txs, Recover(t)
      PROVE  TypeOK'
  BY <1>28 DEF TypeOK, Recover, files, hashes, record, answers, op, Calm,
     copies, Goto, Records, Elsewhere, Steps, Applying, Undoing, RollingBack,
     Reverting, Status, Moved, Unrolled
<1>29. CASE EditBrain
  BY <1>29, DatedTyped, ContentTyped DEF TypeOK, EditBrain, files, hashes,
     record, answers, op, Calm, copies, Goto, Records, Elsewhere, Contents
<1>30. ASSUME NEW w \in Writers, ReadBrain(w)
      PROVE  TypeOK'
  BY <1>30 DEF TypeOK, ReadBrain, hashes, record, answers, op, Elsewhere
<1>31. ASSUME NEW w \in Writers, ReadRegistry(w)
      PROVE  TypeOK'
  BY <1>31 DEF TypeOK, ReadRegistry, hashes, record, answers, op, Elsewhere
<1>32. ASSUME NEW w \in Writers, StoreBrain(w)
      PROVE  TypeOK'
  <2>1. clock' \in Edits /\ quiet' \in SUBSET Edits
    BY <1>32, StoresTyped DEF StoreBrain
  <2>2. dest' \in Contents
    BY <1>32, <2>1, ContentTyped DEF TypeOK, StoreBrain, Contents
  <2>3. used' \in [Mishaps -> Nat]
    BY <1>32, UsesTyped DEF TypeOK, StoreBrain, Mishaps
  <2> QED
    BY <1>32, <2>1, <2>2, <2>3
       DEF TypeOK, StoreBrain, Crosses, hashes, record, answers, op, Elsewhere
<1>33. ASSUME NEW w \in Writers, StoreRegistry(w)
      PROVE  TypeOK'
  <2>1. clock' \in Edits /\ quiet' \in SUBSET Edits
    BY <1>33, StoresTyped DEF StoreRegistry
  <2>2. registry' \in Registries
    BY <1>33, <2>1, RegTyped DEF TypeOK, StoreRegistry, Registries
  <2> QED
    BY <1>33, <2>1, <2>2
       DEF TypeOK, StoreRegistry, Crosses, hashes, record, answers, op, Elsewhere
<1>34. CASE CreateBrain
  BY <1>34, DatedTyped, RegTyped DEF TypeOK, CreateBrain, files, hashes,
     record, answers, op, Calm, copies, Goto, Records, Elsewhere, Registries,
     Content, Contents
<1>35. CASE DeleteBrain
  BY <1>35, RegTyped DEF TypeOK, DeleteBrain, files, hashes, record, answers,
     op, Calm, copies, Goto, Records, Elsewhere, Registries
<1>36. CASE Remake
  BY <1>36, HappensTyped, ContentTyped DEF TypeOK, Remake, files, hashes,
     record, answers, op, Calm, copies, Goto, Records, Elsewhere, Blank,
     Mishaps
<1>37. CASE Fault
  BY <1>37, HappensTyped, NotLoadedTyped DEF TypeOK, Fault, files, hashes,
     record, answers, op, Calm, copies, Goto, Records, Elsewhere, Steps,
     Applying, Undoing, RollingBack, Reverting, Status, Moved, Unrolled,
     Handler, Mishaps
<1>38. CASE Crash
  BY <1>38, HappensTyped, NotLoadedTyped DEF TypeOK, Crash, files, hashes,
     record, answers, op, Calm, copies, Goto, Records, Elsewhere, Steps,
     Applying, Undoing, RollingBack, Reverting, Status, Moved, Unrolled,
     Mishaps
<1>39. CASE UNCHANGED vars
  BY <1>39 DEF TypeOK, vars, files, hashes, record, answers, op, copies
<1> QED
  BY <1>1, <1>2, <1>3, <1>4, <1>5, <1>6, <1>7, <1>8, <1>9, <1>10, <1>11, <1>12,
     <1>13, <1>14, <1>15, <1>16, <1>17, <1>18, <1>19, <1>20, <1>21, <1>22,
     <1>23, <1>24, <1>25, <1>26, <1>27, <1>28, <1>29, <1>30, <1>31, <1>32,
     <1>33, <1>34, <1>35, <1>36, <1>37, <1>38, <1>39 DEF Next, Apply,
     UndoApply, RollBack, RevertRollback

(* Every reachable state is well formed: no status and no step without a   *)
(* name, and no operation without a transaction.                           *)
THEOREM TypeCorrect == Spec => []TypeOK
  BY TypeInit, TypeNext, PTL DEF Spec

-----------------------------------------------------------------------------
(* The replaced brain stays retained. BackupRetained is not inductive: the *)
(* steps that write applied rely on where the brain is while they come.    *)

(* Only a transaction with an idempotency file is applied, or rolled back. *)
Marked ==
  /\ \A t \in Txs : status[t] = "applied" => idem[t]
  /\ pc \in {"recordApplied"} \cup RollingBack \cup Reverting => idem[cur]

(* What moves backups about works on a transaction that is not applied.    *)
Unfinished ==
  pc \in Applying \cup Undoing \cup RollingBack \cup (Reverting \ {"revertReceipt"})
    => status[cur] # "applied"

(* d can stand for the brain that t replaced, or a copy that was read       *)
(* before was stored over it since.                                        *)
Stands(t, d) == d # NoDir /\ (t \notin crossed => Follows(d, base[t]))

BackedUp(t) == Stands(t, backup[t])

(* Where the replaced brain is, step by step.                              *)
Secured ==
  /\ pc = "recordBackup" => backup[cur] # NoDir
  /\ pc \in {"install", "recordInstalled", "loadRegistry", "updateRegistry",
            "recordRegistry", "writeReceipt", "recordApplied"} /\ Existed(cur)
       => BackedUp(cur)
  /\ pc = "retain" => dest # NoDir
  /\ pc = "installBackup" => kept[cur] # NoDir
  /\ pc \in {"retain", "installBackup", "revertMove", "revertRegistry",
            "recordReverted", "revertReceipt"} => BackedUp(cur)
  /\ pc \in {"restoreRegistry", "recordRolledBack"}
       => kept[cur] # NoDir /\ backup[cur] = NoDir /\ Stands(cur, dest)
  /\ pc = "revert"
       => \/ BackedUp(cur)
          \/ kept[cur] # NoDir /\ backup[cur] = NoDir /\ Stands(cur, dest)

LEMMA SelfFollows ==
  ASSUME NEW d, d # NoDir
  PROVE  Follows(d, d)
  BY DEF Follows

LEMMA EditFollows ==
  ASSUME TypeOK, EditBrain, NEW w, Follows(dest, w)
  PROVE  Follows(dest', w)
<1>1. dest \in Contents /\ clock' \in Edits
  BY DatedTyped DEF TypeOK, EditBrain
<1>2. dest' = Content(dest.root, dest.edits \cup {clock'})
  BY DEF EditBrain
<1>3. dest' \in Contents /\ dest'.root = dest.root /\ dest.edits \subseteq dest'.edits
  BY <1>1, <1>2 DEF Content, Contents
<1> QED
  BY <1>3, NoDirAssumption DEF Follows

LEMMA EditStays ==
  ASSUME TypeOK, EditBrain
  PROVE  dest' # NoDir
<1>1. dest \in Contents /\ clock' \in Edits
  BY DatedTyped DEF TypeOK, EditBrain
<1>2. dest' = Content(dest.root, dest.edits \cup {clock'})
  BY DEF EditBrain
<1> QED
  BY <1>1, <1>2, NoDirAssumption DEF Content, Contents

LEMMA StoreStays ==
  ASSUME TypeOK, NEW w \in Writers, StoreBrain(w)
  PROVE  dest' # NoDir
<1>1. copy[w] \in Contents /\ clock' \in Edits
  BY StoresTyped DEF TypeOK, StoreBrain
<1>2. dest' = Content(copy[w].root, copy[w].edits \cup {clock'})
  BY DEF StoreBrain
<1> QED
  BY <1>1, <1>2, NoDirAssumption DEF Content, Contents

(* Only a stale copy changes what is there for something else.             *)
LEMMA StoreFollows ==
  ASSUME TypeOK, NEW w \in Writers, StoreBrain(w), NEW t \in Txs, t \notin crossed'
  PROVE  /\ t \notin crossed /\ dest # NoDir
         /\ \A d : Follows(dest, d) => Follows(dest', d)
<1>1. copy[w] \in Contents /\ clock' \in Edits
  BY StoresTyped DEF TypeOK, StoreBrain
<1>2. dest = copy[w] /\ t \notin crossed
  BY DEF StoreBrain, Crosses
<1>3. dest' = Content(dest.root, dest.edits \cup {clock'})
  BY <1>2 DEF StoreBrain
<1>4. dest'.root = dest.root /\ dest.edits \subseteq dest'.edits
  BY <1>1, <1>2, <1>3 DEF Content, Contents
<1> QED
  BY <1>1, <1>2, <1>4, StoreStays, NoDirAssumption DEF Follows

LEMMA MarkedNext ==
  ASSUME TypeOK, Marked, [Next]_vars
  PROVE  Marked'
<1>1. ASSUME NEW t \in Txs, Preflight(t)
      PROVE  Marked'
  BY <1>1 DEF TypeOK, Marked, Applying, Undoing, RollingBack, Reverting,
     Preflight, files, hashes, record, answers, op, Calm, Goto, Records
<1>2. ASSUME NEW t \in Txs, Request(t)
      PROVE  Marked'
  BY <1>2 DEF TypeOK, Marked, Applying, Undoing, RollingBack, Reverting,
     Request, files, hashes, record, answers, op, Calm, Goto, Records
<1>3. ASSUME NEW t \in Txs, Check(t)
      PROVE  Marked'
  BY <1>3 DEF TypeOK, Marked, Applying, Undoing, RollingBack, Reverting, Check,
     Begins, files, hashes, record, answers, op, Calm, Goto, Records
<1>4. ASSUME NEW t \in Txs, Move(t)
      PROVE  Marked'
  BY <1>4 DEF TypeOK, Marked, Applying, Undoing, RollingBack, Reverting, Move,
     files, hashes, record, answers, op, Calm, Goto, Records, Undo
<1>5. ASSUME NEW t \in Txs, RecordBackup(t)
      PROVE  Marked'
  BY <1>5 DEF TypeOK, Marked, Applying, Undoing, RollingBack, Reverting,
     RecordBackup, files, hashes, record, answers, op, Calm, Goto, Records
<1>6. ASSUME NEW t \in Txs, Install(t)
      PROVE  Marked'
  BY <1>6 DEF TypeOK, Marked, Applying, Undoing, RollingBack, Reverting,
     Install, files, hashes, record, answers, op, Calm, Goto, Records, Undo
<1>7. ASSUME NEW t \in Txs, RecordInstalled(t)
      PROVE  Marked'
  BY <1>7 DEF TypeOK, Marked, Applying, Undoing, RollingBack, Reverting,
     RecordInstalled, files, hashes, record, answers, op, Calm, Goto, Records
<1>8. ASSUME NEW t \in Txs, LoadRegistry(t)
      PROVE  Marked'
  BY <1>8 DEF TypeOK, Marked, Applying, Undoing, RollingBack, Reverting,
     LoadRegistry, files, hashes, record, answers, op, Calm, Goto, Records
<1>9. ASSUME NEW t \in Txs, UpdateRegistry(t)
      PROVE  Marked'
  BY <1>9 DEF TypeOK, Marked, Applying, Undoing, RollingBack, Reverting,
     UpdateRegistry, files, hashes, record, answers, op, Calm, Goto, Records
<1>10. ASSUME NEW t \in Txs, RecordRegistry(t)
      PROVE  Marked'
  BY <1>10 DEF TypeOK, Marked, Applying, Undoing, RollingBack, Reverting,
     RecordRegistry, files, hashes, record, answers, op, Calm, Goto, Records
<1>11. ASSUME NEW t \in Txs, WriteReceipt(t)
      PROVE  Marked'
  BY <1>11 DEF TypeOK, Marked, Applying, Undoing, RollingBack, Reverting,
     WriteReceipt, files, hashes, record, answers, op, Calm, Goto, Records
<1>12. ASSUME NEW t \in Txs, RecordApplied(t)
      PROVE  Marked'
  BY <1>12 DEF TypeOK, Marked, Applying, Undoing, RollingBack, Reverting,
     RecordApplied, files, hashes, record, answers, op, Calm, Goto, Records
<1>13. ASSUME NEW t \in Txs, UndoDest(t)
      PROVE  Marked'
  BY <1>13 DEF TypeOK, Marked, Applying, Undoing, RollingBack, Reverting,
     UndoDest, files, hashes, record, answers, op, Calm, Goto, Records
<1>14. ASSUME NEW t \in Txs, UndoMove(t)
      PROVE  Marked'
  BY <1>14 DEF TypeOK, Marked, Applying, Undoing, RollingBack, Reverting,
     UndoMove, files, hashes, record, answers, op, Calm, Goto, Records
<1>15. ASSUME NEW t \in Txs, UndoRegistry(t)
      PROVE  Marked'
  BY <1>15 DEF TypeOK, Marked, Applying, Undoing, RollingBack, Reverting,
     UndoRegistry, files, hashes, record, answers, op, Calm, Goto, Records
<1>16. ASSUME NEW t \in Txs, RecordUndone(t)
      PROVE  Marked'
  BY <1>16 DEF TypeOK, Marked, Applying, Undoing, RollingBack, Reverting,
     RecordUndone, files, hashes, record, answers, op, Calm, Goto, Records
<1>17. ASSUME NEW t \in Txs, Rollback(t)
      PROVE  Marked'
  BY <1>17 DEF TypeOK, Marked, Applying, Undoing, RollingBack, Reverting,
     Rollback, CanRollBack, files, hashes, record, answers, op, Calm, Goto,
     Records
<1>18. ASSUME NEW t \in Txs, Retain(t)
      PROVE  Marked'
  BY <1>18 DEF TypeOK, Marked, Applying, Undoing, RollingBack, Reverting,
     Retain, files, hashes, record, answers, op, Calm, Goto, Records
<1>19. ASSUME NEW t \in Txs, InstallBackup(t)
      PROVE  Marked'
  BY <1>19 DEF TypeOK, Marked, Applying, Undoing, RollingBack, Reverting,
     InstallBackup, files, hashes, record, answers, op, Calm, Goto, Records
<1>20. ASSUME NEW t \in Txs, RestoreRegistry(t)
      PROVE  Marked'
  BY <1>20 DEF TypeOK, Marked, Applying, Undoing, RollingBack, Reverting,
     RestoreRegistry, files, hashes, record, answers, op, Calm, Goto, Records
<1>21. ASSUME NEW t \in Txs, RecordRolledBack(t)
      PROVE  Marked'
  BY <1>21 DEF TypeOK, Marked, Applying, Undoing, RollingBack, Reverting,
     RecordRolledBack, files, hashes, record, answers, op, Calm, Goto, Records
<1>22. ASSUME NEW t \in Txs, Cleanup(t)
      PROVE  Marked'
  BY <1>22 DEF TypeOK, Marked, Applying, Undoing, RollingBack, Reverting,
     Cleanup, files, hashes, record, answers, op, Calm, Goto, Records
<1>23. ASSUME NEW t \in Txs, Revert(t)
      PROVE  Marked'
  BY <1>23 DEF TypeOK, Marked, Applying, Undoing, RollingBack, Reverting,
     Revert, files, hashes, record, answers, op, Calm, Goto, Records
<1>24. ASSUME NEW t \in Txs, RevertMove(t)
      PROVE  Marked'
  BY <1>24 DEF TypeOK, Marked, Applying, Undoing, RollingBack, Reverting,
     RevertMove, files, hashes, record, answers, op, Calm, Goto, Records
<1>25. ASSUME NEW t \in Txs, RevertRegistry(t)
      PROVE  Marked'
  BY <1>25 DEF TypeOK, Marked, Applying, Undoing, RollingBack, Reverting,
     RevertRegistry, files, hashes, record, answers, op, Calm, Goto, Records
<1>26. ASSUME NEW t \in Txs, RecordReverted(t)
      PROVE  Marked'
  BY <1>26 DEF TypeOK, Marked, Applying, Undoing, RollingBack, Reverting,
     RecordReverted, files, hashes, record, answers, op, Calm, Goto, Records
<1>27. ASSUME NEW t \in Txs, RevertReceipt(t)
      PROVE  Marked'
  BY <1>27 DEF TypeOK, Marked, Applying, Undoing, RollingBack, Reverting,
     RevertReceipt, files, hashes, record, answers, op, Calm, Goto, Records
<1>28. ASSUME NEW t \in Txs, Recover(t)
      PROVE  Marked'
  BY <1>28 DEF TypeOK, Marked, Applying, Undoing, RollingBack, Reverting,
     Recover, files, hashes, record, answers, op, Calm, Goto, Records
<1>29. CASE EditBrain
  BY <1>29 DEF TypeOK, Marked, Applying, Undoing, RollingBack, Reverting,
     EditBrain, files, hashes, record, answers, op, Calm, Goto, Elsewhere
<1>30. ASSUME NEW w \in Writers, ReadBrain(w)
      PROVE  Marked'
  BY <1>30 DEF TypeOK, Marked, Applying, Undoing, RollingBack, Reverting,
     ReadBrain, files, hashes, record, answers, op, Calm, Goto, Elsewhere
<1>31. ASSUME NEW w \in Writers, ReadRegistry(w)
      PROVE  Marked'
  BY <1>31 DEF TypeOK, Marked, Applying, Undoing, RollingBack, Reverting,
     ReadRegistry, files, hashes, record, answers, op, Calm, Goto, Elsewhere
<1>32. ASSUME NEW w \in Writers, StoreBrain(w)
      PROVE  Marked'
  BY <1>32 DEF TypeOK, Marked, Applying, Undoing, RollingBack, Reverting,
     StoreBrain, files, hashes, record, answers, op, Calm, Goto, Elsewhere
<1>33. ASSUME NEW w \in Writers, StoreRegistry(w)
      PROVE  Marked'
  BY <1>33 DEF TypeOK, Marked, Applying, Undoing, RollingBack, Reverting,
     StoreRegistry, files, hashes, record, answers, op, Calm, Goto, Elsewhere
<1>34. CASE CreateBrain
  BY <1>34 DEF TypeOK, Marked, Applying, Undoing, RollingBack, Reverting,
     CreateBrain, files, hashes, record, answers, op, Calm, Goto, Elsewhere
<1>35. CASE DeleteBrain
  BY <1>35 DEF TypeOK, Marked, Applying, Undoing, RollingBack, Reverting,
     DeleteBrain, files, hashes, record, answers, op, Calm, Goto, Elsewhere
<1>36. CASE Remake
  BY <1>36 DEF TypeOK, Marked, Applying, Undoing, RollingBack, Reverting,
     Remake, files, hashes, record, answers, op, Calm, Goto, Elsewhere,
     Handler, Happens, Uses
<1>37. CASE Fault
  BY <1>37 DEF TypeOK, Marked, Applying, Undoing, RollingBack, Reverting,
     Fault, files, hashes, record, answers, op, Calm, Goto, Elsewhere, Handler,
     Happens, Uses
<1>38. CASE Crash
  BY <1>38 DEF TypeOK, Marked, Applying, Undoing, RollingBack, Reverting,
     Crash, files, hashes, record, answers, op, Calm, Goto, Elsewhere, Handler,
     Happens, Uses
<1>39. CASE UNCHANGED vars
  BY <1>39 DEF TypeOK, Marked, Applying, Undoing, RollingBack, Reverting, vars,
     files, hashes, record, answers, op
<1> QED
  BY <1>1, <1>2, <1>3, <1>4, <1>5, <1>6, <1>7, <1>8, <1>9, <1>10, <1>11, <1>12,
     <1>13, <1>14, <1>15, <1>16, <1>17, <1>18, <1>19, <1>20, <1>21, <1>22,
     <1>23, <1>24, <1>25, <1>26, <1>27, <1>28, <1>29, <1>30, <1>31, <1>32,
     <1>33, <1>34, <1>35, <1>36, <1>37, <1>38, <1>39 DEF Next, Apply,
     UndoApply, RollBack, RevertRollback

LEMMA UnfinishedNext ==
  ASSUME TypeOK, Marked, Unfinished, [Next]_vars
  PROVE  Unfinished'
<1>1. ASSUME NEW t \in Txs, Preflight(t)
      PROVE  Unfinished'
  BY <1>1 DEF TypeOK, Marked, Unfinished, Applying, Undoing, RollingBack,
     Reverting, Preflight, files, hashes, record, answers, op, Calm, Goto,
     Records
<1>2. ASSUME NEW t \in Txs, Request(t)
      PROVE  Unfinished'
  BY <1>2 DEF TypeOK, Marked, Unfinished, Applying, Undoing, RollingBack,
     Reverting, Request, files, hashes, record, answers, op, Calm, Goto,
     Records
<1>3. ASSUME NEW t \in Txs, Check(t)
      PROVE  Unfinished'
  BY <1>3 DEF TypeOK, Marked, Unfinished, Applying, Undoing, RollingBack,
     Reverting, Check, Begins, files, hashes, record, answers, op, Calm, Goto,
     Records
<1>4. ASSUME NEW t \in Txs, Move(t)
      PROVE  Unfinished'
  BY <1>4 DEF TypeOK, Marked, Unfinished, Applying, Undoing, RollingBack,
     Reverting, Move, files, hashes, record, answers, op, Calm, Goto, Records,
     Undo
<1>5. ASSUME NEW t \in Txs, RecordBackup(t)
      PROVE  Unfinished'
  BY <1>5 DEF TypeOK, Marked, Unfinished, Applying, Undoing, RollingBack,
     Reverting, RecordBackup, files, hashes, record, answers, op, Calm, Goto,
     Records
<1>6. ASSUME NEW t \in Txs, Install(t)
      PROVE  Unfinished'
  BY <1>6 DEF TypeOK, Marked, Unfinished, Applying, Undoing, RollingBack,
     Reverting, Install, files, hashes, record, answers, op, Calm, Goto,
     Records, Undo
<1>7. ASSUME NEW t \in Txs, RecordInstalled(t)
      PROVE  Unfinished'
  BY <1>7 DEF TypeOK, Marked, Unfinished, Applying, Undoing, RollingBack,
     Reverting, RecordInstalled, files, hashes, record, answers, op, Calm,
     Goto, Records
<1>8. ASSUME NEW t \in Txs, LoadRegistry(t)
      PROVE  Unfinished'
  BY <1>8 DEF TypeOK, Marked, Unfinished, Applying, Undoing, RollingBack,
     Reverting, LoadRegistry, files, hashes, record, answers, op, Calm, Goto,
     Records
<1>9. ASSUME NEW t \in Txs, UpdateRegistry(t)
      PROVE  Unfinished'
  BY <1>9 DEF TypeOK, Marked, Unfinished, Applying, Undoing, RollingBack,
     Reverting, UpdateRegistry, files, hashes, record, answers, op, Calm, Goto,
     Records
<1>10. ASSUME NEW t \in Txs, RecordRegistry(t)
      PROVE  Unfinished'
  BY <1>10 DEF TypeOK, Marked, Unfinished, Applying, Undoing, RollingBack,
     Reverting, RecordRegistry, files, hashes, record, answers, op, Calm, Goto,
     Records
<1>11. ASSUME NEW t \in Txs, WriteReceipt(t)
      PROVE  Unfinished'
  BY <1>11 DEF TypeOK, Marked, Unfinished, Applying, Undoing, RollingBack,
     Reverting, WriteReceipt, files, hashes, record, answers, op, Calm, Goto,
     Records
<1>12. ASSUME NEW t \in Txs, RecordApplied(t)
      PROVE  Unfinished'
  BY <1>12 DEF TypeOK, Marked, Unfinished, Applying, Undoing, RollingBack,
     Reverting, RecordApplied, files, hashes, record, answers, op, Calm, Goto,
     Records
<1>13. ASSUME NEW t \in Txs, UndoDest(t)
      PROVE  Unfinished'
  BY <1>13 DEF TypeOK, Marked, Unfinished, Applying, Undoing, RollingBack,
     Reverting, UndoDest, files, hashes, record, answers, op, Calm, Goto,
     Records
<1>14. ASSUME NEW t \in Txs, UndoMove(t)
      PROVE  Unfinished'
  BY <1>14 DEF TypeOK, Marked, Unfinished, Applying, Undoing, RollingBack,
     Reverting, UndoMove, files, hashes, record, answers, op, Calm, Goto,
     Records
<1>15. ASSUME NEW t \in Txs, UndoRegistry(t)
      PROVE  Unfinished'
  BY <1>15 DEF TypeOK, Marked, Unfinished, Applying, Undoing, RollingBack,
     Reverting, UndoRegistry, files, hashes, record, answers, op, Calm, Goto,
     Records
<1>16. ASSUME NEW t \in Txs, RecordUndone(t)
      PROVE  Unfinished'
  BY <1>16 DEF TypeOK, Marked, Unfinished, Applying, Undoing, RollingBack,
     Reverting, RecordUndone, files, hashes, record, answers, op, Calm, Goto,
     Records
<1>17. ASSUME NEW t \in Txs, Rollback(t)
      PROVE  Unfinished'
  BY <1>17 DEF TypeOK, Marked, Unfinished, Applying, Undoing, RollingBack,
     Reverting, Rollback, files, hashes, record, answers, op, Calm, Goto,
     Records
<1>18. ASSUME NEW t \in Txs, Retain(t)
      PROVE  Unfinished'
  BY <1>18 DEF TypeOK, Marked, Unfinished, Applying, Undoing, RollingBack,
     Reverting, Retain, files, hashes, record, answers, op, Calm, Goto, Records
<1>19. ASSUME NEW t \in Txs, InstallBackup(t)
      PROVE  Unfinished'
  BY <1>19 DEF TypeOK, Marked, Unfinished, Applying, Undoing, RollingBack,
     Reverting, InstallBackup, files, hashes, record, answers, op, Calm, Goto,
     Records
<1>20. ASSUME NEW t \in Txs, RestoreRegistry(t)
      PROVE  Unfinished'
  BY <1>20 DEF TypeOK, Marked, Unfinished, Applying, Undoing, RollingBack,
     Reverting, RestoreRegistry, files, hashes, record, answers, op, Calm,
     Goto, Records
<1>21. ASSUME NEW t \in Txs, RecordRolledBack(t)
      PROVE  Unfinished'
  BY <1>21 DEF TypeOK, Marked, Unfinished, Applying, Undoing, RollingBack,
     Reverting, RecordRolledBack, files, hashes, record, answers, op, Calm,
     Goto, Records
<1>22. ASSUME NEW t \in Txs, Cleanup(t)
      PROVE  Unfinished'
  BY <1>22 DEF TypeOK, Marked, Unfinished, Applying, Undoing, RollingBack,
     Reverting, Cleanup, files, hashes, record, answers, op, Calm, Goto,
     Records
<1>23. ASSUME NEW t \in Txs, Revert(t)
      PROVE  Unfinished'
  BY <1>23 DEF TypeOK, Marked, Unfinished, Applying, Undoing, RollingBack,
     Reverting, Revert, files, hashes, record, answers, op, Calm, Goto, Records
<1>24. ASSUME NEW t \in Txs, RevertMove(t)
      PROVE  Unfinished'
  BY <1>24 DEF TypeOK, Marked, Unfinished, Applying, Undoing, RollingBack,
     Reverting, RevertMove, files, hashes, record, answers, op, Calm, Goto,
     Records
<1>25. ASSUME NEW t \in Txs, RevertRegistry(t)
      PROVE  Unfinished'
  BY <1>25 DEF TypeOK, Marked, Unfinished, Applying, Undoing, RollingBack,
     Reverting, RevertRegistry, files, hashes, record, answers, op, Calm, Goto,
     Records
<1>26. ASSUME NEW t \in Txs, RecordReverted(t)
      PROVE  Unfinished'
  BY <1>26 DEF TypeOK, Marked, Unfinished, Applying, Undoing, RollingBack,
     Reverting, RecordReverted, files, hashes, record, answers, op, Calm, Goto,
     Records
<1>27. ASSUME NEW t \in Txs, RevertReceipt(t)
      PROVE  Unfinished'
  BY <1>27 DEF TypeOK, Marked, Unfinished, Applying, Undoing, RollingBack,
     Reverting, RevertReceipt, files, hashes, record, answers, op, Calm, Goto,
     Records
<1>28. ASSUME NEW t \in Txs, Recover(t)
      PROVE  Unfinished'
  BY <1>28 DEF TypeOK, Marked, Unfinished, Applying, Undoing, RollingBack,
     Reverting, Recover, files, hashes, record, answers, op, Calm, Goto,
     Records
<1>29. CASE EditBrain
  BY <1>29 DEF TypeOK, Marked, Unfinished, Applying, Undoing, RollingBack,
     Reverting, EditBrain, files, hashes, record, answers, op, Calm, Goto,
     Elsewhere
<1>30. ASSUME NEW w \in Writers, ReadBrain(w)
      PROVE  Unfinished'
  BY <1>30 DEF TypeOK, Marked, Unfinished, Applying, Undoing, RollingBack,
     Reverting, ReadBrain, files, hashes, record, answers, op, Calm, Goto,
     Elsewhere
<1>31. ASSUME NEW w \in Writers, ReadRegistry(w)
      PROVE  Unfinished'
  BY <1>31 DEF TypeOK, Marked, Unfinished, Applying, Undoing, RollingBack,
     Reverting, ReadRegistry, files, hashes, record, answers, op, Calm, Goto,
     Elsewhere
<1>32. ASSUME NEW w \in Writers, StoreBrain(w)
      PROVE  Unfinished'
  BY <1>32 DEF TypeOK, Marked, Unfinished, Applying, Undoing, RollingBack,
     Reverting, StoreBrain, files, hashes, record, answers, op, Calm, Goto,
     Elsewhere
<1>33. ASSUME NEW w \in Writers, StoreRegistry(w)
      PROVE  Unfinished'
  BY <1>33 DEF TypeOK, Marked, Unfinished, Applying, Undoing, RollingBack,
     Reverting, StoreRegistry, files, hashes, record, answers, op, Calm, Goto,
     Elsewhere
<1>34. CASE CreateBrain
  BY <1>34 DEF TypeOK, Marked, Unfinished, Applying, Undoing, RollingBack,
     Reverting, CreateBrain, files, hashes, record, answers, op, Calm, Goto,
     Elsewhere
<1>35. CASE DeleteBrain
  BY <1>35 DEF TypeOK, Marked, Unfinished, Applying, Undoing, RollingBack,
     Reverting, DeleteBrain, files, hashes, record, answers, op, Calm, Goto,
     Elsewhere
<1>36. CASE Remake
  BY <1>36 DEF TypeOK, Marked, Unfinished, Applying, Undoing, RollingBack,
     Reverting, Remake, files, hashes, record, answers, op, Calm, Goto,
     Elsewhere, Handler, Happens, Uses
<1>37. CASE Fault
  BY <1>37 DEF TypeOK, Marked, Unfinished, Applying, Undoing, RollingBack,
     Reverting, Fault, files, hashes, record, answers, op, Calm, Goto,
     Elsewhere, Handler, Happens, Uses
<1>38. CASE Crash
  BY <1>38 DEF TypeOK, Marked, Unfinished, Applying, Undoing, RollingBack,
     Reverting, Crash, files, hashes, record, answers, op, Calm, Goto,
     Elsewhere, Handler, Happens, Uses
<1>39. CASE UNCHANGED vars
  BY <1>39 DEF TypeOK, Marked, Unfinished, Applying, Undoing, RollingBack,
     Reverting, vars, files, hashes, record, answers, op
<1> QED
  BY <1>1, <1>2, <1>3, <1>4, <1>5, <1>6, <1>7, <1>8, <1>9, <1>10, <1>11, <1>12,
     <1>13, <1>14, <1>15, <1>16, <1>17, <1>18, <1>19, <1>20, <1>21, <1>22,
     <1>23, <1>24, <1>25, <1>26, <1>27, <1>28, <1>29, <1>30, <1>31, <1>32,
     <1>33, <1>34, <1>35, <1>36, <1>37, <1>38, <1>39 DEF Next, Apply,
     UndoApply, RollBack, RevertRollback

LEMMA SecuredNext ==
  ASSUME TypeOK, Secured, [Next]_vars
  PROVE  Secured'
<1>1. ASSUME NEW t \in Txs, Preflight(t)
      PROVE  Secured'
  BY <1>1 DEF TypeOK, Secured, BackedUp, Stands, Existed, Applying, Undoing,
     RollingBack, Reverting, Preflight, files, hashes, record, answers, op,
     Calm, Goto, Records
<1>2. ASSUME NEW t \in Txs, Request(t)
      PROVE  Secured'
  BY <1>2 DEF TypeOK, Secured, BackedUp, Stands, Existed, Applying, Undoing,
     RollingBack, Reverting, Request, files, hashes, record, answers, op, Calm,
     Goto, Records
<1>3. ASSUME NEW t \in Txs, Check(t)
      PROVE  Secured'
  BY <1>3 DEF TypeOK, Secured, BackedUp, Stands, Existed, Applying, Undoing,
     RollingBack, Reverting, Check, Begins, Found, files, hashes, record,
     answers, op, Calm, Goto, Records
<1>4. ASSUME NEW t \in Txs, Move(t)
      PROVE  Secured'
  BY <1>4 DEF TypeOK, Secured, BackedUp, Stands, Existed, Applying, Undoing,
     RollingBack, Reverting, Move, files, hashes, record, answers, op, Calm,
     Goto, Records, Undo
<1>5. ASSUME NEW t \in Txs, RecordBackup(t)
      PROVE  Secured'
  BY <1>5, SelfFollows DEF TypeOK, Secured, BackedUp, Stands, Existed, Applying,
     Undoing, RollingBack, Reverting, RecordBackup, files, hashes, record,
     answers, op, Calm, Goto, Records
<1>6. ASSUME NEW t \in Txs, Install(t)
      PROVE  Secured'
  BY <1>6 DEF TypeOK, Secured, BackedUp, Stands, Existed, Applying, Undoing,
     RollingBack, Reverting, Install, files, hashes, record, answers, op, Calm,
     Goto, Records, Undo
<1>7. ASSUME NEW t \in Txs, RecordInstalled(t)
      PROVE  Secured'
  BY <1>7 DEF TypeOK, Secured, BackedUp, Stands, Existed, Applying, Undoing,
     RollingBack, Reverting, RecordInstalled, files, hashes, record, answers,
     op, Calm, Goto, Records
<1>8. ASSUME NEW t \in Txs, LoadRegistry(t)
      PROVE  Secured'
  BY <1>8 DEF TypeOK, Secured, BackedUp, Stands, Existed, Applying, Undoing,
     RollingBack, Reverting, LoadRegistry, files, hashes, record, answers, op,
     Calm, Goto, Records
<1>9. ASSUME NEW t \in Txs, UpdateRegistry(t)
      PROVE  Secured'
  BY <1>9 DEF TypeOK, Secured, BackedUp, Stands, Existed, Applying, Undoing,
     RollingBack, Reverting, UpdateRegistry, files, hashes, record, answers,
     op, Calm, Goto, Records
<1>10. ASSUME NEW t \in Txs, RecordRegistry(t)
      PROVE  Secured'
  BY <1>10 DEF TypeOK, Secured, BackedUp, Stands, Existed, Applying, Undoing,
     RollingBack, Reverting, RecordRegistry, files, hashes, record, answers,
     op, Calm, Goto, Records
<1>11. ASSUME NEW t \in Txs, WriteReceipt(t)
      PROVE  Secured'
  BY <1>11 DEF TypeOK, Secured, BackedUp, Stands, Existed, Applying, Undoing,
     RollingBack, Reverting, WriteReceipt, files, hashes, record, answers, op,
     Calm, Goto, Records
<1>12. ASSUME NEW t \in Txs, RecordApplied(t)
      PROVE  Secured'
  BY <1>12 DEF TypeOK, Secured, BackedUp, Stands, Existed, Applying, Undoing,
     RollingBack, Reverting, RecordApplied, files, hashes, record, answers, op,
     Calm, Goto, Records
<1>13. ASSUME NEW t \in Txs, UndoDest(t)
      PROVE  Secured'
  BY <1>13 DEF TypeOK, Secured, BackedUp, Stands, Existed, Applying, Undoing,
     RollingBack, Reverting, UndoDest, files, hashes, record, answers, op,
     Calm, Goto, Records
<1>14. ASSUME NEW t \in Txs, UndoMove(t)
      PROVE  Secured'
  BY <1>14 DEF TypeOK, Secured, BackedUp, Stands, Existed, Applying, Undoing,
     RollingBack, Reverting, UndoMove, files, hashes, record, answers, op,
     Calm, Goto, Records
<1>15. ASSUME NEW t \in Txs, UndoRegistry(t)
      PROVE  Secured'
  BY <1>15 DEF TypeOK, Secured, BackedUp, Stands, Existed, Applying, Undoing,
     RollingBack, Reverting, UndoRegistry, files, hashes, record, answers, op,
     Calm, Goto, Records
<1>16. ASSUME NEW t \in Txs, RecordUndone(t)
      PROVE  Secured'
  BY <1>16 DEF TypeOK, Secured, BackedUp, Stands, Existed, Applying, Undoing,
     RollingBack, Reverting, RecordUndone, files, hashes, record, answers, op,
     Calm, Goto, Records
<1>17. ASSUME NEW t \in Txs, Rollback(t)
      PROVE  Secured'
  BY <1>17, SelfFollows DEF TypeOK, Secured, BackedUp, Stands, Existed, Applying,
     Undoing, RollingBack, Reverting, Rollback, CanRollBack, files, hashes,
     record, answers, op, Calm, Goto, Records
<1>18. ASSUME NEW t \in Txs, Retain(t)
      PROVE  Secured'
  BY <1>18 DEF TypeOK, Secured, BackedUp, Stands, Existed, Applying, Undoing,
     RollingBack, Reverting, Retain, files, hashes, record, answers, op, Calm,
     Goto, Records
<1>19. ASSUME NEW t \in Txs, InstallBackup(t)
      PROVE  Secured'
  BY <1>19 DEF TypeOK, Secured, BackedUp, Stands, Existed, Applying, Undoing,
     RollingBack, Reverting, InstallBackup, Follows, files, hashes, record,
     answers, op, Calm, Goto, Records
<1>20. ASSUME NEW t \in Txs, RestoreRegistry(t)
      PROVE  Secured'
  BY <1>20 DEF TypeOK, Secured, BackedUp, Stands, Existed, Applying, Undoing,
     RollingBack, Reverting, RestoreRegistry, files, hashes, record, answers,
     op, Calm, Goto, Records
<1>21. ASSUME NEW t \in Txs, RecordRolledBack(t)
      PROVE  Secured'
  BY <1>21 DEF TypeOK, Secured, BackedUp, Stands, Existed, Applying, Undoing,
     RollingBack, Reverting, RecordRolledBack, files, hashes, record, answers,
     op, Calm, Goto, Records
<1>22. ASSUME NEW t \in Txs, Cleanup(t)
      PROVE  Secured'
  BY <1>22 DEF TypeOK, Secured, BackedUp, Stands, Existed, Applying, Undoing,
     RollingBack, Reverting, Cleanup, files, hashes, record, answers, op, Calm,
     Goto, Records
<1>23. ASSUME NEW t \in Txs, Revert(t)
      PROVE  Secured'
  BY <1>23 DEF TypeOK, Secured, BackedUp, Stands, Existed, Applying, Undoing,
     RollingBack, Reverting, Revert, Collision, Follows, files, hashes, record,
     answers, op, Calm, Goto, Records
<1>24. ASSUME NEW t \in Txs, RevertMove(t)
      PROVE  Secured'
  BY <1>24 DEF TypeOK, Secured, BackedUp, Stands, Existed, Applying, Undoing,
     RollingBack, Reverting, RevertMove, files, hashes, record, answers, op,
     Calm, Goto, Records
<1>25. ASSUME NEW t \in Txs, RevertRegistry(t)
      PROVE  Secured'
  BY <1>25 DEF TypeOK, Secured, BackedUp, Stands, Existed, Applying, Undoing,
     RollingBack, Reverting, RevertRegistry, files, hashes, record, answers,
     op, Calm, Goto, Records
<1>26. ASSUME NEW t \in Txs, RecordReverted(t)
      PROVE  Secured'
  BY <1>26 DEF TypeOK, Secured, BackedUp, Stands, Existed, Applying, Undoing,
     RollingBack, Reverting, RecordReverted, files, hashes, record, answers,
     op, Calm, Goto, Records
<1>27. ASSUME NEW t \in Txs, RevertReceipt(t)
      PROVE  Secured'
  BY <1>27 DEF TypeOK, Secured, BackedUp, Stands, Existed, Applying, Undoing,
     RollingBack, Reverting, RevertReceipt, files, hashes, record, answers, op,
     Calm, Goto, Records
<1>28. ASSUME NEW t \in Txs, Recover(t)
      PROVE  Secured'
  BY <1>28 DEF TypeOK, Secured, BackedUp, Stands, Existed, Applying, Undoing,
     RollingBack, Reverting, Recover, files, hashes, record, answers, op, Calm,
     Goto, Records
<1>29. CASE EditBrain
  BY <1>29, EditFollows, EditStays DEF TypeOK, Secured, BackedUp, Stands, Existed,
     Applying, Undoing, RollingBack, Reverting, EditBrain, files, hashes,
     record, answers, op, Calm, Goto, Elsewhere
<1>30. ASSUME NEW w \in Writers, ReadBrain(w)
      PROVE  Secured'
  BY <1>30 DEF TypeOK, Secured, BackedUp, Stands, Existed, Applying, Undoing,
     RollingBack, Reverting, ReadBrain, files, hashes, record, answers, op,
     Calm, Goto, Elsewhere
<1>31. ASSUME NEW w \in Writers, ReadRegistry(w)
      PROVE  Secured'
  BY <1>31 DEF TypeOK, Secured, BackedUp, Stands, Existed, Applying, Undoing,
     RollingBack, Reverting, ReadRegistry, files, hashes, record, answers, op,
     Calm, Goto, Elsewhere
<1>32. ASSUME NEW w \in Writers, StoreBrain(w)
      PROVE  Secured'
  BY <1>32, StoreFollows, StoreStays DEF TypeOK, Secured, BackedUp, Stands,
     Existed, Applying, Undoing, RollingBack, Reverting, StoreBrain, hashes,
     record, answers, op, Elsewhere
<1>33. ASSUME NEW w \in Writers, StoreRegistry(w)
      PROVE  Secured'
  BY <1>33 DEF TypeOK, Secured, BackedUp, Stands, Existed, Applying, Undoing,
     RollingBack, Reverting, StoreRegistry, Crosses, files, hashes, record,
     answers, op, Calm, Goto, Elsewhere
<1>34. CASE CreateBrain
  BY <1>34 DEF TypeOK, Secured, BackedUp, Stands, Existed, Applying, Undoing,
     RollingBack, Reverting, CreateBrain, files, hashes, record, answers, op,
     Calm, Goto, Elsewhere
<1>35. CASE DeleteBrain
  BY <1>35 DEF TypeOK, Secured, BackedUp, Stands, Existed, Applying, Undoing,
     RollingBack, Reverting, DeleteBrain, files, hashes, record, answers, op,
     Calm, Goto, Elsewhere
<1>36. CASE Remake
  BY <1>36 DEF TypeOK, Secured, BackedUp, Stands, Existed, Applying, Undoing,
     RollingBack, Reverting, Remake, Follows, files, hashes, record, answers,
     op, Calm, Goto, Elsewhere, Handler, Happens, Uses
<1>37. CASE Fault
  BY <1>37 DEF TypeOK, Secured, BackedUp, Stands, Existed, Applying, Undoing,
     RollingBack, Reverting, Fault, files, hashes, record, answers, op, Calm,
     Goto, Elsewhere, Handler, Happens, Uses
<1>38. CASE Crash
  BY <1>38 DEF TypeOK, Secured, BackedUp, Stands, Existed, Applying, Undoing,
     RollingBack, Reverting, Crash, files, hashes, record, answers, op, Calm,
     Goto, Elsewhere, Handler, Happens, Uses
<1>39. CASE UNCHANGED vars
  BY <1>39 DEF TypeOK, Secured, BackedUp, Stands, Existed, Applying, Undoing,
     RollingBack, Reverting, vars, files, hashes, record, answers, op
<1> QED
  BY <1>1, <1>2, <1>3, <1>4, <1>5, <1>6, <1>7, <1>8, <1>9, <1>10, <1>11, <1>12,
     <1>13, <1>14, <1>15, <1>16, <1>17, <1>18, <1>19, <1>20, <1>21, <1>22,
     <1>23, <1>24, <1>25, <1>26, <1>27, <1>28, <1>29, <1>30, <1>31, <1>32,
     <1>33, <1>34, <1>35, <1>36, <1>37, <1>38, <1>39 DEF Next, Apply,
     UndoApply, RollBack, RevertRollback

LEMMA RetainedNext ==
  ASSUME TypeOK, Unfinished, Secured, BackupRetained, [Next]_vars
  PROVE  BackupRetained'
<1>1. ASSUME NEW t \in Txs, Preflight(t)
      PROVE  BackupRetained'
  BY <1>1 DEF TypeOK, Unfinished, Secured, BackupRetained, BackedUp, Stands, Existed,
     Applying, Undoing, RollingBack, Reverting, Preflight, files, hashes,
     record, answers, op, Calm, Goto, Records
<1>2. ASSUME NEW t \in Txs, Request(t)
      PROVE  BackupRetained'
  BY <1>2 DEF TypeOK, Unfinished, Secured, BackupRetained, BackedUp, Stands, Existed,
     Applying, Undoing, RollingBack, Reverting, Request, files, hashes, record,
     answers, op, Calm, Goto, Records
<1>3. ASSUME NEW t \in Txs, Check(t)
      PROVE  BackupRetained'
  BY <1>3 DEF TypeOK, Unfinished, Secured, BackupRetained, BackedUp, Stands, Existed,
     Applying, Undoing, RollingBack, Reverting, Check, Begins, Found, files,
     hashes, record, answers, op, Calm, Goto, Records
<1>4. ASSUME NEW t \in Txs, Move(t)
      PROVE  BackupRetained'
  BY <1>4 DEF TypeOK, Unfinished, Secured, BackupRetained, BackedUp, Stands, Existed,
     Applying, Undoing, RollingBack, Reverting, Move, files, hashes, record,
     answers, op, Calm, Goto, Records, Undo
<1>5. ASSUME NEW t \in Txs, RecordBackup(t)
      PROVE  BackupRetained'
  BY <1>5 DEF TypeOK, Unfinished, Secured, BackupRetained, BackedUp, Stands, Existed,
     Applying, Undoing, RollingBack, Reverting, RecordBackup, files, hashes,
     record, answers, op, Calm, Goto, Records
<1>6. ASSUME NEW t \in Txs, Install(t)
      PROVE  BackupRetained'
  BY <1>6 DEF TypeOK, Unfinished, Secured, BackupRetained, BackedUp, Stands, Existed,
     Applying, Undoing, RollingBack, Reverting, Install, files, hashes, record,
     answers, op, Calm, Goto, Records, Undo
<1>7. ASSUME NEW t \in Txs, RecordInstalled(t)
      PROVE  BackupRetained'
  BY <1>7 DEF TypeOK, Unfinished, Secured, BackupRetained, BackedUp, Stands, Existed,
     Applying, Undoing, RollingBack, Reverting, RecordInstalled, files, hashes,
     record, answers, op, Calm, Goto, Records
<1>8. ASSUME NEW t \in Txs, LoadRegistry(t)
      PROVE  BackupRetained'
  BY <1>8 DEF TypeOK, Unfinished, Secured, BackupRetained, BackedUp, Stands, Existed,
     Applying, Undoing, RollingBack, Reverting, LoadRegistry, files, hashes,
     record, answers, op, Calm, Goto, Records
<1>9. ASSUME NEW t \in Txs, UpdateRegistry(t)
      PROVE  BackupRetained'
  BY <1>9 DEF TypeOK, Unfinished, Secured, BackupRetained, BackedUp, Stands, Existed,
     Applying, Undoing, RollingBack, Reverting, UpdateRegistry, files, hashes,
     record, answers, op, Calm, Goto, Records
<1>10. ASSUME NEW t \in Txs, RecordRegistry(t)
      PROVE  BackupRetained'
  BY <1>10 DEF TypeOK, Unfinished, Secured, BackupRetained, BackedUp, Stands, Existed,
     Applying, Undoing, RollingBack, Reverting, RecordRegistry, files, hashes,
     record, answers, op, Calm, Goto, Records
<1>11. ASSUME NEW t \in Txs, WriteReceipt(t)
      PROVE  BackupRetained'
  BY <1>11 DEF TypeOK, Unfinished, Secured, BackupRetained, BackedUp, Stands, Existed,
     Applying, Undoing, RollingBack, Reverting, WriteReceipt, files, hashes,
     record, answers, op, Calm, Goto, Records
<1>12. ASSUME NEW t \in Txs, RecordApplied(t)
      PROVE  BackupRetained'
  BY <1>12 DEF TypeOK, Unfinished, Secured, BackupRetained, BackedUp, Stands, Existed,
     Applying, Undoing, RollingBack, Reverting, RecordApplied, files, hashes,
     record, answers, op, Calm, Goto, Records
<1>13. ASSUME NEW t \in Txs, UndoDest(t)
      PROVE  BackupRetained'
  BY <1>13 DEF TypeOK, Unfinished, Secured, BackupRetained, BackedUp, Stands, Existed,
     Applying, Undoing, RollingBack, Reverting, UndoDest, files, hashes,
     record, answers, op, Calm, Goto, Records
<1>14. ASSUME NEW t \in Txs, UndoMove(t)
      PROVE  BackupRetained'
  BY <1>14 DEF TypeOK, Unfinished, Secured, BackupRetained, BackedUp, Stands, Existed,
     Applying, Undoing, RollingBack, Reverting, UndoMove, files, hashes,
     record, answers, op, Calm, Goto, Records
<1>15. ASSUME NEW t \in Txs, UndoRegistry(t)
      PROVE  BackupRetained'
  BY <1>15 DEF TypeOK, Unfinished, Secured, BackupRetained, BackedUp, Stands, Existed,
     Applying, Undoing, RollingBack, Reverting, UndoRegistry, files, hashes,
     record, answers, op, Calm, Goto, Records
<1>16. ASSUME NEW t \in Txs, RecordUndone(t)
      PROVE  BackupRetained'
  BY <1>16 DEF TypeOK, Unfinished, Secured, BackupRetained, BackedUp, Stands, Existed,
     Applying, Undoing, RollingBack, Reverting, RecordUndone, files, hashes,
     record, answers, op, Calm, Goto, Records
<1>17. ASSUME NEW t \in Txs, Rollback(t)
      PROVE  BackupRetained'
  BY <1>17 DEF TypeOK, Unfinished, Secured, BackupRetained, BackedUp, Stands, Existed,
     Applying, Undoing, RollingBack, Reverting, Rollback, CanRollBack, files,
     hashes, record, answers, op, Calm, Goto, Records
<1>18. ASSUME NEW t \in Txs, Retain(t)
      PROVE  BackupRetained'
  BY <1>18 DEF TypeOK, Unfinished, Secured, BackupRetained, BackedUp, Stands, Existed,
     Applying, Undoing, RollingBack, Reverting, Retain, files, hashes, record,
     answers, op, Calm, Goto, Records
<1>19. ASSUME NEW t \in Txs, InstallBackup(t)
      PROVE  BackupRetained'
  BY <1>19 DEF TypeOK, Unfinished, Secured, BackupRetained, BackedUp, Stands, Existed,
     Applying, Undoing, RollingBack, Reverting, InstallBackup, files, hashes,
     record, answers, op, Calm, Goto, Records
<1>20. ASSUME NEW t \in Txs, RestoreRegistry(t)
      PROVE  BackupRetained'
  BY <1>20 DEF TypeOK, Unfinished, Secured, BackupRetained, BackedUp, Stands, Existed,
     Applying, Undoing, RollingBack, Reverting, RestoreRegistry, files, hashes,
     record, answers, op, Calm, Goto, Records
<1>21. ASSUME NEW t \in Txs, RecordRolledBack(t)
      PROVE  BackupRetained'
  BY <1>21 DEF TypeOK, Unfinished, Secured, BackupRetained, BackedUp, Stands, Existed,
     Applying, Undoing, RollingBack, Reverting, RecordRolledBack, files,
     hashes, record, answers, op, Calm, Goto, Records
<1>22. ASSUME NEW t \in Txs, Cleanup(t)
      PROVE  BackupRetained'
  BY <1>22 DEF TypeOK, Unfinished, Secured, BackupRetained, BackedUp, Stands, Existed,
     Applying, Undoing, RollingBack, Reverting, Cleanup, files, hashes, record,
     answers, op, Calm, Goto, Records
<1>23. ASSUME NEW t \in Txs, Revert(t)
      PROVE  BackupRetained'
  BY <1>23 DEF TypeOK, Unfinished, Secured, BackupRetained, BackedUp, Stands, Existed,
     Applying, Undoing, RollingBack, Reverting, Revert, files, hashes, record,
     answers, op, Calm, Goto, Records
<1>24. ASSUME NEW t \in Txs, RevertMove(t)
      PROVE  BackupRetained'
  BY <1>24 DEF TypeOK, Unfinished, Secured, BackupRetained, BackedUp, Stands, Existed,
     Applying, Undoing, RollingBack, Reverting, RevertMove, files, hashes,
     record, answers, op, Calm, Goto, Records
<1>25. ASSUME NEW t \in Txs, RevertRegistry(t)
      PROVE  BackupRetained'
  BY <1>25 DEF TypeOK, Unfinished, Secured, BackupRetained, BackedUp, Stands, Existed,
     Applying, Undoing, RollingBack, Reverting, RevertRegistry, files, hashes,
     record, answers, op, Calm, Goto, Records
<1>26. ASSUME NEW t \in Txs, RecordReverted(t)
      PROVE  BackupRetained'
  BY <1>26 DEF TypeOK, Unfinished, Secured, BackupRetained, BackedUp, Stands, Existed,
     Applying, Undoing, RollingBack, Reverting, RecordReverted, files, hashes,
     record, answers, op, Calm, Goto, Records
<1>27. ASSUME NEW t \in Txs, RevertReceipt(t)
      PROVE  BackupRetained'
  BY <1>27 DEF TypeOK, Unfinished, Secured, BackupRetained, BackedUp, Stands, Existed,
     Applying, Undoing, RollingBack, Reverting, RevertReceipt, files, hashes,
     record, answers, op, Calm, Goto, Records
<1>28. ASSUME NEW t \in Txs, Recover(t)
      PROVE  BackupRetained'
  BY <1>28 DEF TypeOK, Unfinished, Secured, BackupRetained, BackedUp, Stands, Existed,
     Applying, Undoing, RollingBack, Reverting, Recover, files, hashes, record,
     answers, op, Calm, Goto, Records
<1>29. CASE EditBrain
  BY <1>29 DEF TypeOK, Unfinished, Secured, BackupRetained, BackedUp, Stands, Existed,
     Applying, Undoing, RollingBack, Reverting, EditBrain, files, hashes,
     record, answers, op, Calm, Goto, Elsewhere
<1>30. ASSUME NEW w \in Writers, ReadBrain(w)
      PROVE  BackupRetained'
  BY <1>30 DEF TypeOK, Unfinished, Secured, BackupRetained, BackedUp, Stands, Existed,
     Applying, Undoing, RollingBack, Reverting, ReadBrain, files, hashes,
     record, answers, op, Calm, Goto, Elsewhere
<1>31. ASSUME NEW w \in Writers, ReadRegistry(w)
      PROVE  BackupRetained'
  BY <1>31 DEF TypeOK, Unfinished, Secured, BackupRetained, BackedUp, Stands, Existed,
     Applying, Undoing, RollingBack, Reverting, ReadRegistry, files, hashes,
     record, answers, op, Calm, Goto, Elsewhere
<1>32. ASSUME NEW w \in Writers, StoreBrain(w)
      PROVE  BackupRetained'
  BY <1>32 DEF TypeOK, Unfinished, Secured, BackupRetained, BackedUp, Stands, Existed,
     Applying, Undoing, RollingBack, Reverting, StoreBrain, Crosses, files,
     hashes, record, answers, op, Calm, Goto, Elsewhere
<1>33. ASSUME NEW w \in Writers, StoreRegistry(w)
      PROVE  BackupRetained'
  BY <1>33 DEF TypeOK, Unfinished, Secured, BackupRetained, BackedUp, Stands, Existed,
     Applying, Undoing, RollingBack, Reverting, StoreRegistry, Crosses, files,
     hashes, record, answers, op, Calm, Goto, Elsewhere
<1>34. CASE CreateBrain
  BY <1>34 DEF TypeOK, Unfinished, Secured, BackupRetained, BackedUp, Stands, Existed,
     Applying, Undoing, RollingBack, Reverting, CreateBrain, files, hashes,
     record, answers, op, Calm, Goto, Elsewhere
<1>35. CASE DeleteBrain
  BY <1>35 DEF TypeOK, Unfinished, Secured, BackupRetained, BackedUp, Stands, Existed,
     Applying, Undoing, RollingBack, Reverting, DeleteBrain, files, hashes,
     record, answers, op, Calm, Goto, Elsewhere
<1>36. CASE Remake
  BY <1>36 DEF TypeOK, Unfinished, Secured, BackupRetained, BackedUp, Stands, Existed,
     Applying, Undoing, RollingBack, Reverting, Remake, files, hashes, record,
     answers, op, Calm, Goto, Elsewhere, Handler, Happens, Uses
<1>37. CASE Fault
  BY <1>37 DEF TypeOK, Unfinished, Secured, BackupRetained, BackedUp, Stands, Existed,
     Applying, Undoing, RollingBack, Reverting, Fault, files, hashes, record,
     answers, op, Calm, Goto, Elsewhere, Handler, Happens, Uses
<1>38. CASE Crash
  BY <1>38 DEF TypeOK, Unfinished, Secured, BackupRetained, BackedUp, Stands, Existed,
     Applying, Undoing, RollingBack, Reverting, Crash, files, hashes, record,
     answers, op, Calm, Goto, Elsewhere, Handler, Happens, Uses
<1>39. CASE UNCHANGED vars
  BY <1>39 DEF TypeOK, Unfinished, Secured, BackupRetained, BackedUp, Stands, Existed,
     Applying, Undoing, RollingBack, Reverting, vars, files, hashes, record,
     answers, op
<1> QED
  BY <1>1, <1>2, <1>3, <1>4, <1>5, <1>6, <1>7, <1>8, <1>9, <1>10, <1>11, <1>12,
     <1>13, <1>14, <1>15, <1>16, <1>17, <1>18, <1>19, <1>20, <1>21, <1>22,
     <1>23, <1>24, <1>25, <1>26, <1>27, <1>28, <1>29, <1>30, <1>31, <1>32,
     <1>33, <1>34, <1>35, <1>36, <1>37, <1>38, <1>39 DEF Next, Apply,
     UndoApply, RollBack, RevertRollback

LEMMA RetainedInit == Init => Marked /\ Unfinished /\ Secured /\ BackupRetained
  BY DEF Init, Marked, Unfinished, Secured, BackupRetained, Applying, Undoing,
         RollingBack, Reverting

(* However many restores follow one another, fail, are retried, rolled     *)
(* back and reverted, with crashes between any two steps and edits at any  *)
(* moment: what an applied restore replaced is in its backup.              *)
THEOREM BackupsRetained == Spec => []BackupRetained
<1>1. Init => TypeOK /\ Marked /\ Unfinished /\ Secured /\ BackupRetained
  BY TypeInit, RetainedInit
<1>2. TypeOK /\ Marked /\ Unfinished /\ Secured /\ BackupRetained /\ [Next]_vars
        => (TypeOK /\ Marked /\ Unfinished /\ Secured /\ BackupRetained)'
  BY TypeNext, MarkedNext, UnfinishedNext, SecuredNext, RetainedNext
<1> QED
  BY <1>1, <1>2, PTL DEF Spec

-----------------------------------------------------------------------------
(* Mishaps are counted, and never forgotten.                               *)

LEMMA MishapsTyped ==
  ASSUME TypeOK
  PROVE  MishapsSoFar \in Nat
  BY DEF TypeOK, MishapsSoFar, Mishaps

LEMMA MishapCounts ==
  ASSUME TypeOK, NEW m \in Mishaps, Happens(m)
  PROVE  MishapsSoFar' = MishapsSoFar + 1
  BY DEF TypeOK, Happens, Uses, MishapsSoFar, Mishaps

LEMMA StoreCounts ==
  ASSUME TypeOK, NEW w \in Writers, StoreBrain(w)
  PROVE  /\ dest # NoDir => MishapsSoFar' = MishapsSoFar
         /\ dest = NoDir => MishapsSoFar' = MishapsSoFar + 1
  BY DEF TypeOK, StoreBrain, Uses, MishapsSoFar, Mishaps

LEMMA MishapsStay ==
  ASSUME UNCHANGED used
  PROVE  MishapsSoFar' = MishapsSoFar
  BY DEF MishapsSoFar

(* A replayed apply. ReceiptsApplied looks at idle moments only: between   *)
(* them, a receipt is on disk before its restore is recorded as applied,   *)
(* and an undo with a receipt comes from a failure of that very write.     *)
Receipted ==
  /\ \A t \in Txs : idem[t] =>
       \/ status[t] \in {"applied", "rolled_back"} \cup Unrolled
       \/ /\ status[t] \in {"registry_committed", "apply_rolled_back"}
          /\ MishapsSoFar > 0 \/ (pc = "recordApplied" /\ cur = t)
  /\ pc \in Applying \ {"recordApplied"} => ~idem[cur]
  /\ pc \in Undoing /\ idem[cur] => ~retry /\ MishapsSoFar > 0
  /\ pc \in {"writeReceipt", "recordApplied"} => status[cur] = "registry_committed"

LEMMA ReceiptedNext ==
  ASSUME TypeOK, Marked, Unfinished, Receipted, [Next]_vars
  PROVE  Receipted'
<1> USE DEF files, hashes, record, answers, op, Calm, Goto, Records, Elsewhere,
           Applying, Undoing, RollingBack, Reverting
<1>1. ASSUME NEW t \in Txs, Preflight(t)
      PROVE  Receipted'
  BY <1>1, MishapsStay DEF Preflight, TypeOK, Marked, Unfinished, Receipted,
     Unrolled
<1>2. ASSUME NEW t \in Txs, Request(t)
      PROVE  Receipted'
  BY <1>2, MishapsStay DEF Request, TypeOK, Marked, Unfinished, Receipted,
     Unrolled
<1>3. ASSUME NEW t \in Txs, Check(t)
      PROVE  Receipted'
  BY <1>3, MishapsStay DEF Check, Begins, Found, TypeOK, Marked, Unfinished,
     Receipted, Unrolled
<1>4. ASSUME NEW t \in Txs, Move(t)
      PROVE  Receipted'
  BY <1>4, MishapsStay DEF Move, Undo, TypeOK, Marked, Unfinished, Receipted,
     Unrolled
<1>5. ASSUME NEW t \in Txs, RecordBackup(t)
      PROVE  Receipted'
  BY <1>5, MishapsStay DEF RecordBackup, TypeOK, Marked, Unfinished, Receipted,
     Unrolled
<1>6. ASSUME NEW t \in Txs, Install(t)
      PROVE  Receipted'
  BY <1>6, MishapsStay DEF Install, Undo, TypeOK, Marked, Unfinished,
     Receipted, Unrolled
<1>7. ASSUME NEW t \in Txs, RecordInstalled(t)
      PROVE  Receipted'
  BY <1>7, MishapsStay DEF RecordInstalled, TypeOK, Marked, Unfinished,
     Receipted, Unrolled
<1>8. ASSUME NEW t \in Txs, LoadRegistry(t)
      PROVE  Receipted'
  BY <1>8, MishapsStay DEF LoadRegistry, TypeOK, Marked, Unfinished, Receipted,
     Unrolled
<1>9. ASSUME NEW t \in Txs, UpdateRegistry(t)
      PROVE  Receipted'
  BY <1>9, MishapsStay DEF UpdateRegistry, TypeOK, Marked, Unfinished,
     Receipted, Unrolled
<1>10. ASSUME NEW t \in Txs, RecordRegistry(t)
      PROVE  Receipted'
  BY <1>10, MishapsStay DEF RecordRegistry, TypeOK, Marked, Unfinished,
     Receipted, Unrolled
<1>11. ASSUME NEW t \in Txs, WriteReceipt(t)
      PROVE  Receipted'
  BY <1>11, MishapsStay DEF WriteReceipt, TypeOK, Marked, Unfinished,
     Receipted, Unrolled
<1>12. ASSUME NEW t \in Txs, RecordApplied(t)
      PROVE  Receipted'
  BY <1>12, MishapsStay DEF RecordApplied, TypeOK, Marked, Unfinished,
     Receipted, Unrolled
<1>13. ASSUME NEW t \in Txs, UndoDest(t)
      PROVE  Receipted'
  BY <1>13, MishapsStay DEF UndoDest, TypeOK, Marked, Unfinished, Receipted,
     Unrolled
<1>14. ASSUME NEW t \in Txs, UndoMove(t)
      PROVE  Receipted'
  BY <1>14, MishapsStay DEF UndoMove, TypeOK, Marked, Unfinished, Receipted,
     Unrolled
<1>15. ASSUME NEW t \in Txs, UndoRegistry(t)
      PROVE  Receipted'
  BY <1>15, MishapsStay DEF UndoRegistry, TypeOK, Marked, Unfinished,
     Receipted, Unrolled
<1>16. ASSUME NEW t \in Txs, RecordUndone(t)
      PROVE  Receipted'
  BY <1>16, MishapsStay DEF RecordUndone, TypeOK, Marked, Unfinished,
     Receipted, Unrolled
<1>17. ASSUME NEW t \in Txs, Rollback(t)
      PROVE  Receipted'
  BY <1>17, MishapsStay DEF Rollback, TypeOK, Marked, Unfinished, Receipted,
     Unrolled
<1>18. ASSUME NEW t \in Txs, Retain(t)
      PROVE  Receipted'
  BY <1>18, MishapsStay DEF Retain, TypeOK, Marked, Unfinished, Receipted,
     Unrolled
<1>19. ASSUME NEW t \in Txs, InstallBackup(t)
      PROVE  Receipted'
  BY <1>19, MishapsStay DEF InstallBackup, TypeOK, Marked, Unfinished,
     Receipted, Unrolled
<1>20. ASSUME NEW t \in Txs, RestoreRegistry(t)
      PROVE  Receipted'
  BY <1>20, MishapsStay DEF RestoreRegistry, TypeOK, Marked, Unfinished,
     Receipted, Unrolled
<1>21. ASSUME NEW t \in Txs, RecordRolledBack(t)
      PROVE  Receipted'
  BY <1>21, MishapsStay DEF RecordRolledBack, TypeOK, Marked, Unfinished,
     Receipted, Unrolled
<1>22. ASSUME NEW t \in Txs, Cleanup(t)
      PROVE  Receipted'
  BY <1>22, MishapsStay DEF Cleanup, TypeOK, Marked, Unfinished, Receipted,
     Unrolled
<1>23. ASSUME NEW t \in Txs, Revert(t)
      PROVE  Receipted'
  BY <1>23, MishapsStay DEF Revert, TypeOK, Marked, Unfinished, Receipted,
     Unrolled
<1>24. ASSUME NEW t \in Txs, RevertMove(t)
      PROVE  Receipted'
  BY <1>24, MishapsStay DEF RevertMove, TypeOK, Marked, Unfinished, Receipted,
     Unrolled
<1>25. ASSUME NEW t \in Txs, RevertRegistry(t)
      PROVE  Receipted'
  BY <1>25, MishapsStay DEF RevertRegistry, TypeOK, Marked, Unfinished,
     Receipted, Unrolled
<1>26. ASSUME NEW t \in Txs, RecordReverted(t)
      PROVE  Receipted'
  BY <1>26, MishapsStay DEF RecordReverted, TypeOK, Marked, Unfinished,
     Receipted, Unrolled
<1>27. ASSUME NEW t \in Txs, RevertReceipt(t)
      PROVE  Receipted'
  BY <1>27, MishapsStay DEF RevertReceipt, TypeOK, Marked, Unfinished,
     Receipted, Unrolled
<1>28. ASSUME NEW t \in Txs, Recover(t)
      PROVE  Receipted'
  BY <1>28, MishapsStay DEF Recover, TypeOK, Marked, Unfinished, Receipted,
     Unrolled
<1>29. CASE EditBrain
  BY <1>29, MishapsStay DEF EditBrain, Edited, TypeOK, Marked, Unfinished,
     Receipted, Unrolled
<1>30. ASSUME NEW w \in Writers, ReadBrain(w)
      PROVE  Receipted'
  BY <1>30, MishapsStay DEF ReadBrain, Edited, TypeOK, Marked, Unfinished,
     Receipted, Unrolled
<1>31. ASSUME NEW w \in Writers, ReadRegistry(w)
      PROVE  Receipted'
  BY <1>31, MishapsStay DEF ReadRegistry, Edited, TypeOK, Marked, Unfinished,
     Receipted, Unrolled
<1>32. ASSUME NEW w \in Writers, StoreBrain(w)
      PROVE  Receipted'
  <2>1. MishapsSoFar > 0 => MishapsSoFar' > 0
    BY <1>32, StoreCounts, MishapsTyped
  <2>2. UNCHANGED <<status, idem, pc, cur, retry>>
    BY <1>32 DEF StoreBrain
  <2> QED
    BY <2>1, <2>2 DEF Receipted
<1>33. ASSUME NEW w \in Writers, StoreRegistry(w)
      PROVE  Receipted'
  BY <1>33, MishapsStay DEF StoreRegistry, Dated, Stores, Crosses, Uses, TypeOK,
     Marked, Unfinished, Receipted, Unrolled
<1>34. CASE CreateBrain
  BY <1>34, MishapsStay DEF CreateBrain, Edited, TypeOK, Marked, Unfinished,
     Receipted, Unrolled
<1>35. CASE DeleteBrain
  BY <1>35, MishapsStay DEF DeleteBrain, TypeOK, Marked, Unfinished, Receipted,
     Unrolled
<1>36. CASE Remake
  BY <1>36, MishapCounts, MishapsTyped DEF Remake, Happens, Uses, Mishaps,
     TypeOK, Marked, Unfinished, Receipted, Unrolled
<1>37. CASE Fault
  <2>1. MishapsSoFar' = MishapsSoFar + 1 /\ MishapsSoFar \in Nat
    BY <1>37, MishapCounts, MishapsTyped DEF Fault, Mishaps
  <2>2. pc' = Handler(pc) /\ (pc' = "undo" => ~retry') /\ UNCHANGED <<cur, status, idem>>
    BY <1>37 DEF Fault
  <2> QED
    BY <2>1, <2>2 DEF Handler, TypeOK, Unfinished, Receipted
<1>38. CASE Crash
  BY <1>38, MishapCounts, MishapsTyped DEF Crash, Happens, Uses, Mishaps,
     TypeOK, Marked, Unfinished, Receipted, Unrolled
<1>39. CASE UNCHANGED vars
  BY <1>39, MishapsStay DEF vars, vars, TypeOK, Marked, Unfinished, Receipted,
     Unrolled
<1> QED
  BY <1>1, <1>2, <1>3, <1>4, <1>5, <1>6, <1>7, <1>8, <1>9, <1>10, <1>11, <1>12,
     <1>13, <1>14, <1>15, <1>16, <1>17, <1>18, <1>19, <1>20, <1>21, <1>22,
     <1>23, <1>24, <1>25, <1>26, <1>27, <1>28, <1>29, <1>30, <1>31, <1>32,
     <1>33, <1>34, <1>35, <1>36, <1>37, <1>38, <1>39 DEF Next, Apply,
     UndoApply, RollBack, RevertRollback


LEMMA ReceiptedInit == Init => Receipted
  BY DEF Init, Receipted, Applying, Undoing

(* A replay of an apply answers a receipt only of a restore that is        *)
(* applied, unless a step failed or the process crashed, and then the      *)
(* restore stands at its last step or is undone.                           *)
THEOREM ReceiptsAlwaysApplied == Spec => []ReceiptsApplied
<1>1. Init => TypeOK /\ Marked /\ Unfinished /\ Receipted
  BY TypeInit, RetainedInit, ReceiptedInit
<1>2. TypeOK /\ Marked /\ Unfinished /\ Receipted /\ [Next]_vars
        => (TypeOK /\ Marked /\ Unfinished /\ Receipted)'
  BY TypeNext, MarkedNext, UnfinishedNext, ReceiptedNext
<1>3. Receipted => ReceiptsApplied
  BY DEF Receipted, ReceiptsApplied, Answers
<1> QED
  BY <1>1, <1>2, <1>3, PTL DEF Spec

-----------------------------------------------------------------------------
(* A way on for a failed apply. One mishap can leave a transaction that is *)
(* not undone yet; its backup is missing only after a second one, or while *)
(* the undo that took it back is on its way to record that.                *)
Recoverable ==
  /\ \A t \in Txs : BackupMissing(t) =>
       \/ MishapsSoFar > 1
       \/ MishapsSoFar > 0 /\ cur = t /\ pc \in {"undoRegistry", "recordUndone"}
  /\ \A t \in Txs : status[t] \in Moved =>
       MishapsSoFar > 0 \/ (cur = t /\ pc \in Applying)
  /\ pc = "check" => status[cur] \in {"none", "apply_rolled_back"}
  /\ pc = "move" => status[cur] = "staged"
  /\ pc \in {"move", "recordBackup"} => Existed(cur)
  /\ pc \in {"recordBackup", "install"} /\ Existed(cur) /\ dest # NoDir
       => MishapsSoFar > 0
  /\ pc = "install" /\ ~Existed(cur) => status[cur] = "staged"
  /\ pc = "undoMove" => backup[cur] # NoDir
  /\ pc \in RollingBack => status[cur] = "rollback_pending"

LEMMA RecoverableNext ==
  ASSUME TypeOK, Secured, Recoverable, [Next]_vars
  PROVE  Recoverable'
<1> USE DEF files, hashes, record, answers, op, Calm, Goto, Records, Elsewhere,
           Applying, Undoing, RollingBack, Reverting
<1>1. ASSUME NEW t \in Txs, Preflight(t)
      PROVE  Recoverable'
  BY <1>1, MishapsStay, MishapsTyped DEF Preflight, TypeOK, Secured,
     Recoverable, BackupMissing, Existed, BackedUp, Stands, Follows, Moved, Unrolled
<1>2. ASSUME NEW t \in Txs, Request(t)
      PROVE  Recoverable'
  BY <1>2, MishapsStay, MishapsTyped DEF Request, TypeOK, Secured, Recoverable,
     BackupMissing, Existed, BackedUp, Stands, Follows, Moved, Unrolled
<1>3. ASSUME NEW t \in Txs, Check(t)
      PROVE  Recoverable'
  BY <1>3, MishapsStay, MishapsTyped DEF Check, Begins, Found, Acceptable,
     TypeOK, Secured, Recoverable, BackupMissing, Existed, BackedUp, Stands, Follows,
     Moved, Unrolled
<1>4. ASSUME NEW t \in Txs, Move(t)
      PROVE  Recoverable'
  BY <1>4, MishapsStay, MishapsTyped DEF Move, Undo, TypeOK, Secured,
     Recoverable, BackupMissing, Existed, BackedUp, Stands, Follows, Moved, Unrolled
<1>5. ASSUME NEW t \in Txs, RecordBackup(t)
      PROVE  Recoverable'
  BY <1>5, MishapsStay, MishapsTyped DEF RecordBackup, TypeOK, Secured,
     Recoverable, BackupMissing, Existed, BackedUp, Stands, Follows, Moved, Unrolled
<1>6. ASSUME NEW t \in Txs, Install(t)
      PROVE  Recoverable'
  BY <1>6, MishapsStay, MishapsTyped DEF Install, Undo, TypeOK, Secured,
     Recoverable, BackupMissing, Existed, BackedUp, Stands, Follows, Moved, Unrolled
<1>7. ASSUME NEW t \in Txs, RecordInstalled(t)
      PROVE  Recoverable'
  BY <1>7, MishapsStay, MishapsTyped DEF RecordInstalled, TypeOK, Secured,
     Recoverable, BackupMissing, Existed, BackedUp, Stands, Follows, Moved, Unrolled
<1>8. ASSUME NEW t \in Txs, LoadRegistry(t)
      PROVE  Recoverable'
  BY <1>8, MishapsStay, MishapsTyped DEF LoadRegistry, TypeOK, Secured,
     Recoverable, BackupMissing, Existed, BackedUp, Stands, Follows, Moved, Unrolled
<1>9. ASSUME NEW t \in Txs, UpdateRegistry(t)
      PROVE  Recoverable'
  BY <1>9, MishapsStay, MishapsTyped DEF UpdateRegistry, TypeOK, Secured,
     Recoverable, BackupMissing, Existed, BackedUp, Stands, Follows, Moved, Unrolled
<1>10. ASSUME NEW t \in Txs, RecordRegistry(t)
      PROVE  Recoverable'
  BY <1>10, MishapsStay, MishapsTyped DEF RecordRegistry, TypeOK, Secured,
     Recoverable, BackupMissing, Existed, BackedUp, Stands, Follows, Moved, Unrolled
<1>11. ASSUME NEW t \in Txs, WriteReceipt(t)
      PROVE  Recoverable'
  BY <1>11, MishapsStay, MishapsTyped DEF WriteReceipt, TypeOK, Secured,
     Recoverable, BackupMissing, Existed, BackedUp, Stands, Follows, Moved, Unrolled
<1>12. ASSUME NEW t \in Txs, RecordApplied(t)
      PROVE  Recoverable'
  BY <1>12, MishapsStay, MishapsTyped DEF RecordApplied, TypeOK, Secured,
     Recoverable, BackupMissing, Existed, BackedUp, Stands, Follows, Moved, Unrolled
<1>13. ASSUME NEW t \in Txs, UndoDest(t)
      PROVE  Recoverable'
  BY <1>13, MishapsStay, MishapsTyped DEF UndoDest, Removes, TypeOK, Secured,
     Recoverable, BackupMissing, Existed, BackedUp, Stands, Follows, Moved, Unrolled
<1>14. ASSUME NEW t \in Txs, UndoMove(t)
      PROVE  Recoverable'
  BY <1>14, MishapsStay, MishapsTyped DEF UndoMove, TypeOK, Secured,
     Recoverable, BackupMissing, Existed, BackedUp, Stands, Follows, Moved, Unrolled
<1>15. ASSUME NEW t \in Txs, UndoRegistry(t)
      PROVE  Recoverable'
  BY <1>15, MishapsStay, MishapsTyped DEF UndoRegistry, TypeOK, Secured,
     Recoverable, BackupMissing, Existed, BackedUp, Stands, Follows, Moved, Unrolled
<1>16. ASSUME NEW t \in Txs, RecordUndone(t)
      PROVE  Recoverable'
  BY <1>16, MishapsStay, MishapsTyped DEF RecordUndone, TypeOK, Secured,
     Recoverable, BackupMissing, Existed, BackedUp, Stands, Follows, Moved, Unrolled
<1>17. ASSUME NEW t \in Txs, Rollback(t)
      PROVE  Recoverable'
  BY <1>17, MishapsStay, MishapsTyped DEF Rollback, CanRollBack, TypeOK,
     Secured, Recoverable, BackupMissing, Existed, BackedUp, Stands, Follows, Moved,
     Unrolled
<1>18. ASSUME NEW t \in Txs, Retain(t)
      PROVE  Recoverable'
  BY <1>18, MishapsStay, MishapsTyped DEF Retain, TypeOK, Secured, Recoverable,
     BackupMissing, Existed, BackedUp, Stands, Follows, Moved, Unrolled
<1>19. ASSUME NEW t \in Txs, InstallBackup(t)
      PROVE  Recoverable'
  BY <1>19, MishapsStay, MishapsTyped DEF InstallBackup, TypeOK, Secured,
     Recoverable, BackupMissing, Existed, BackedUp, Stands, Follows, Moved, Unrolled
<1>20. ASSUME NEW t \in Txs, RestoreRegistry(t)
      PROVE  Recoverable'
  BY <1>20, MishapsStay, MishapsTyped DEF RestoreRegistry, TypeOK, Secured,
     Recoverable, BackupMissing, Existed, BackedUp, Stands, Follows, Moved, Unrolled
<1>21. ASSUME NEW t \in Txs, RecordRolledBack(t)
      PROVE  Recoverable'
  BY <1>21, MishapsStay, MishapsTyped DEF RecordRolledBack, TypeOK, Secured,
     Recoverable, BackupMissing, Existed, BackedUp, Stands, Follows, Moved, Unrolled
<1>22. ASSUME NEW t \in Txs, Cleanup(t)
      PROVE  Recoverable'
  BY <1>22, MishapsStay, MishapsTyped DEF Cleanup, TypeOK, Secured,
     Recoverable, BackupMissing, Existed, BackedUp, Stands, Follows, Moved, Unrolled
<1>23. ASSUME NEW t \in Txs, Revert(t)
      PROVE  Recoverable'
  BY <1>23, MishapsStay, MishapsTyped DEF Revert, TypeOK, Secured, Recoverable,
     BackupMissing, Existed, BackedUp, Stands, Follows, Moved, Unrolled
<1>24. ASSUME NEW t \in Txs, RevertMove(t)
      PROVE  Recoverable'
  BY <1>24, MishapsStay, MishapsTyped DEF RevertMove, TypeOK, Secured,
     Recoverable, BackupMissing, Existed, BackedUp, Stands, Follows, Moved, Unrolled
<1>25. ASSUME NEW t \in Txs, RevertRegistry(t)
      PROVE  Recoverable'
  BY <1>25, MishapsStay, MishapsTyped DEF RevertRegistry, TypeOK, Secured,
     Recoverable, BackupMissing, Existed, BackedUp, Stands, Follows, Moved, Unrolled
<1>26. ASSUME NEW t \in Txs, RecordReverted(t)
      PROVE  Recoverable'
  BY <1>26, MishapsStay, MishapsTyped DEF RecordReverted, TypeOK, Secured,
     Recoverable, BackupMissing, Existed, BackedUp, Stands, Follows, Moved, Unrolled
<1>27. ASSUME NEW t \in Txs, RevertReceipt(t)
      PROVE  Recoverable'
  BY <1>27, MishapsStay, MishapsTyped DEF RevertReceipt, TypeOK, Secured,
     Recoverable, BackupMissing, Existed, BackedUp, Stands, Follows, Moved, Unrolled
<1>28. ASSUME NEW t \in Txs, Recover(t)
      PROVE  Recoverable'
  BY <1>28, MishapsStay, MishapsTyped DEF Recover, TypeOK, Secured,
     Recoverable, BackupMissing, Existed, BackedUp, Stands, Follows, Moved, Unrolled
<1>29. CASE EditBrain
  BY <1>29, MishapsStay, MishapsTyped DEF EditBrain, Edited, TypeOK, Secured,
     Recoverable, BackupMissing, Existed, BackedUp, Stands, Follows, Moved, Unrolled
<1>30. ASSUME NEW w \in Writers, ReadBrain(w)
      PROVE  Recoverable'
  BY <1>30, MishapsStay, MishapsTyped DEF ReadBrain, Edited, TypeOK, Secured,
     Recoverable, BackupMissing, Existed, BackedUp, Stands, Follows, Moved, Unrolled
<1>31. ASSUME NEW w \in Writers, ReadRegistry(w)
      PROVE  Recoverable'
  BY <1>31, MishapsStay, MishapsTyped DEF ReadRegistry, Edited, TypeOK, Secured,
     Recoverable, BackupMissing, Existed, BackedUp, Stands, Follows, Moved, Unrolled
<1>32. ASSUME NEW w \in Writers, StoreBrain(w)
      PROVE  Recoverable'
  <2>1. MishapsSoFar \in Nat /\ MishapsSoFar' \in Nat
    BY <1>32, StoreCounts, MishapsTyped
  <2>2. MishapsSoFar' >= MishapsSoFar /\ (dest = NoDir => MishapsSoFar' > 0)
    BY <1>32, <2>1, StoreCounts
  <2>3. UNCHANGED <<status, orig, backup, pc, cur>>
    BY <1>32 DEF StoreBrain
  <2> QED
    BY <2>1, <2>2, <2>3 DEF Recoverable, BackupMissing, Existed
<1>33. ASSUME NEW w \in Writers, StoreRegistry(w)
      PROVE  Recoverable'
  BY <1>33, MishapsStay, MishapsTyped DEF StoreRegistry, Dated, Stores, Crosses,
     Uses, TypeOK, Secured, Recoverable, BackupMissing, Existed, BackedUp, Stands,
     Follows, Moved, Unrolled
<1>34. CASE CreateBrain
  BY <1>34, MishapsStay, MishapsTyped DEF CreateBrain, Edited, TypeOK, Secured,
     Recoverable, BackupMissing, Existed, BackedUp, Stands, Follows, Moved, Unrolled
<1>35. CASE DeleteBrain
  BY <1>35, MishapsStay, MishapsTyped DEF DeleteBrain, TypeOK, Secured,
     Recoverable, BackupMissing, Existed, BackedUp, Stands, Follows, Moved, Unrolled
<1>36. CASE Remake
  BY <1>36, MishapCounts, MishapsTyped, MishapsTyped DEF Remake, Happens, Uses,
     Mishaps, TypeOK, Secured, Recoverable, BackupMissing, Existed, BackedUp, Stands,
     Follows, Moved, Unrolled
<1>37. CASE Fault
  BY <1>37, MishapCounts, MishapsTyped, MishapsTyped DEF Fault, Handler,
     Happens, Uses, Mishaps, TypeOK, Secured, Recoverable, BackupMissing,
     Existed, BackedUp, Stands, Follows, Moved, Unrolled
<1>38. CASE Crash
  BY <1>38, MishapCounts, MishapsTyped, MishapsTyped DEF Crash, Happens, Uses,
     Mishaps, TypeOK, Secured, Recoverable, BackupMissing, Existed, BackedUp, Stands,
     Follows, Moved, Unrolled
<1>39. CASE UNCHANGED vars
  BY <1>39, MishapsStay, MishapsTyped DEF vars, TypeOK, Secured, Recoverable,
     BackupMissing, Existed, BackedUp, Stands, Follows, Moved, Unrolled
<1> QED
  BY <1>1, <1>2, <1>3, <1>4, <1>5, <1>6, <1>7, <1>8, <1>9, <1>10, <1>11, <1>12,
     <1>13, <1>14, <1>15, <1>16, <1>17, <1>18, <1>19, <1>20, <1>21, <1>22,
     <1>23, <1>24, <1>25, <1>26, <1>27, <1>28, <1>29, <1>30, <1>31, <1>32,
     <1>33, <1>34, <1>35, <1>36, <1>37, <1>38, <1>39 DEF Next, Apply,
     UndoApply, RollBack, RevertRollback


LEMMA RecoverableInit == Init => Recoverable
  BY DEF Init, Recoverable, BackupMissing, Moved, RollingBack

(* One failed step, or one crash, never leaves a restore that no retry can *)
(* undo: _rollback_restore_transaction refuses a transaction whose backup  *)
(* is missing, and it takes two of them to get there.                      *)
THEOREM AppliesRecover == Spec => []ApplyRecovers
<1>1. Init => TypeOK /\ Secured /\ Recoverable
  BY TypeInit, RetainedInit, RecoverableInit
<1>2. TypeOK /\ Secured /\ Recoverable /\ [Next]_vars
        => (TypeOK /\ Secured /\ Recoverable)'
  BY TypeNext, SecuredNext, RecoverableNext
<1>3. TypeOK /\ Recoverable => ApplyRecovers
  BY MishapsTyped DEF Recoverable, ApplyRecovers
<1> QED
  BY <1>1, <1>2, <1>3, PTL DEF Spec

-----------------------------------------------------------------------------
(* A failed rollback is reverted. As long as nobody edits the brain under  *)
(* an operation, one failed step is all that went wrong.                   *)

QuietPast == quiet \subseteq 0 .. clock

Undisturbed ==
  /\ quiet = 0 .. clock
  /\ used["crashes"] + used["remakes"] = 0 /\ used["faults"] < 2

Reversible ==
  Undisturbed =>
    /\ \A t \in Txs : status[t] \in Unrolled =>
         cur = t /\ pc \in RollingBack \cup (Reverting \ {"revertReceipt"})
    /\ pc \in Reverting => used["faults"] > 0
    /\ pc # "recover"
    /\ pc \in {"installBackup", "revertMove"} => dest = NoDir
    /\ pc = "retain" => kept[cur] = NoDir
    /\ pc \in {"retain", "installBackup"} => backup[cur] = base[cur]
    /\ pc = "restoreRegistry" => dest = base[cur]
    /\ pc = "revert" => kept[cur] = NoDir \/ dest = NoDir \/ backup[cur] = NoDir
    /\ pc \in {"restoreRegistry", "recordRolledBack"} => backup[cur] = NoDir

LEMMA UsedTyped ==
  ASSUME TypeOK
  PROVE  used["faults"] \in Nat /\ used["crashes"] \in Nat /\ used["remakes"] \in Nat
  BY DEF TypeOK, Mishaps

LEMMA UsesMore ==
  ASSUME TypeOK, Uses("remakes")
  PROVE  used'["remakes"] = used["remakes"] + 1 /\ UNCHANGED <<used["faults"], used["crashes"]>>
  BY DEF TypeOK, Uses, Mishaps

LEMMA QuietPastInit == Init => QuietPast
  BY DEF Init, QuietPast

LEMMA EditedQuiet ==
  ASSUME TypeOK, QuietPast, Edited
  PROVE  /\ QuietPast'
         /\ quiet' = 0 .. clock' => pc = "idle" /\ quiet = 0 .. clock
<1>1. clock \in Nat /\ clock' = clock + 1
  BY RestoreAssumption DEF TypeOK, Edits, Edited, Dated
<1>2. clock' \in 0 .. clock' /\ clock' \notin quiet
  BY <1>1 DEF QuietPast
<1>3. QuietPast'
  BY <1>1 DEF QuietPast, Edited
<1>4. ASSUME quiet' = 0 .. clock'
      PROVE  pc = "idle" /\ quiet = 0 .. clock
  <2>1. pc = "idle" /\ quiet' = quiet \cup {clock'}
    BY <1>2, <1>4 DEF Edited
  <2>2. \A e \in 0 .. clock : e \in quiet' /\ e # clock'
    BY <1>1, <1>4
  <2> QED
    BY <2>1, <2>2 DEF QuietPast
<1> QED
  BY <1>3, <1>4

LEMMA StoredQuiet ==
  ASSUME TypeOK, QuietPast, Dated, NEW old, NEW new, Stores(old, new)
  PROVE  /\ QuietPast'
         /\ quiet' = 0 .. clock' => pc = "idle" /\ quiet = 0 .. clock
<1>1. clock \in Nat /\ clock' = clock + 1
  BY RestoreAssumption DEF TypeOK, Edits, Dated
<1>2. clock' \in 0 .. clock' /\ clock' \notin quiet
  BY <1>1 DEF QuietPast
<1>3. quiet' \subseteq quiet \cup {clock'} /\ (pc # "idle" => clock' \notin quiet')
  BY <1>2 DEF Stores
<1>4. QuietPast'
  BY <1>1, <1>3 DEF QuietPast
<1>5. ASSUME quiet' = 0 .. clock'
      PROVE  pc = "idle" /\ quiet = 0 .. clock
  <2>1. \A e \in 0 .. clock : e \in quiet' /\ e # clock'
    BY <1>1, <1>5
  <2> QED
    BY <1>2, <1>3, <1>5, <2>1 DEF QuietPast
<1> QED
  BY <1>4, <1>5

LEMMA QuietPastNext ==
  ASSUME TypeOK, QuietPast, [Next]_vars
  PROVE  QuietPast'
<1>1. CASE UNCHANGED <<clock, quiet>>
  BY <1>1 DEF QuietPast
<1>2. CASE Edited
  BY <1>2, EditedQuiet
<1>3. ASSUME NEW w \in Writers, StoreBrain(w) \/ StoreRegistry(w)
      PROVE  QuietPast'
  BY <1>3, StoredQuiet DEF StoreBrain, StoreRegistry
<1>4. \/ UNCHANGED <<clock, quiet>> \/ Edited
      \/ \E w \in Writers : StoreBrain(w) \/ StoreRegistry(w)
  BY DEF Next, Apply, UndoApply, RollBack, RevertRollback, Calm, Begins,
     Happens, vars, Preflight, Request, Check, Move, RecordBackup, Install,
     RecordInstalled, LoadRegistry, UpdateRegistry, RecordRegistry,
     WriteReceipt, RecordApplied, UndoDest, UndoMove, UndoRegistry,
     RecordUndone, Rollback, Retain, InstallBackup, RestoreRegistry,
     RecordRolledBack, Cleanup, Revert, RevertMove, RevertRegistry,
     RecordReverted, RevertReceipt, Recover, EditBrain, ReadBrain,
     ReadRegistry, CreateBrain, DeleteBrain, Remake, Fault, Crash
<1> QED
  BY <1>1, <1>2, <1>3, <1>4

LEMMA ReversibleNext ==
  ASSUME TypeOK, QuietPast, Reversible, [Next]_vars
  PROVE  Reversible'
<1> USE DEF files, hashes, record, answers, op, Calm, Goto, Records, Elsewhere,
           Applying, Undoing, RollingBack, Reverting
<1>1. ASSUME NEW t \in Txs, Preflight(t)
      PROVE  Reversible'
  BY <1>1, UsedTyped DEF Preflight, TypeOK, Reversible, Undisturbed, Unrolled,
     Moved
<1>2. ASSUME NEW t \in Txs, Request(t)
      PROVE  Reversible'
  BY <1>2, UsedTyped DEF Request, TypeOK, Reversible, Undisturbed, Unrolled,
     Moved
<1>3. ASSUME NEW t \in Txs, Check(t)
      PROVE  Reversible'
  BY <1>3, UsedTyped DEF Check, Begins, Found, Acceptable, TypeOK, Reversible,
     Undisturbed, Unrolled, Moved
<1>4. ASSUME NEW t \in Txs, Move(t)
      PROVE  Reversible'
  BY <1>4, UsedTyped DEF Move, Undo, TypeOK, Reversible, Undisturbed, Unrolled,
     Moved
<1>5. ASSUME NEW t \in Txs, RecordBackup(t)
      PROVE  Reversible'
  BY <1>5, UsedTyped DEF RecordBackup, TypeOK, Reversible, Undisturbed,
     Unrolled, Moved
<1>6. ASSUME NEW t \in Txs, Install(t)
      PROVE  Reversible'
  BY <1>6, UsedTyped DEF Install, Undo, TypeOK, Reversible, Undisturbed,
     Unrolled, Moved
<1>7. ASSUME NEW t \in Txs, RecordInstalled(t)
      PROVE  Reversible'
  BY <1>7, UsedTyped DEF RecordInstalled, TypeOK, Reversible, Undisturbed,
     Unrolled, Moved
<1>8. ASSUME NEW t \in Txs, LoadRegistry(t)
      PROVE  Reversible'
  BY <1>8, UsedTyped DEF LoadRegistry, TypeOK, Reversible, Undisturbed,
     Unrolled, Moved
<1>9. ASSUME NEW t \in Txs, UpdateRegistry(t)
      PROVE  Reversible'
  BY <1>9, UsedTyped DEF UpdateRegistry, TypeOK, Reversible, Undisturbed,
     Unrolled, Moved
<1>10. ASSUME NEW t \in Txs, RecordRegistry(t)
      PROVE  Reversible'
  BY <1>10, UsedTyped DEF RecordRegistry, TypeOK, Reversible, Undisturbed,
     Unrolled, Moved
<1>11. ASSUME NEW t \in Txs, WriteReceipt(t)
      PROVE  Reversible'
  BY <1>11, UsedTyped DEF WriteReceipt, TypeOK, Reversible, Undisturbed,
     Unrolled, Moved
<1>12. ASSUME NEW t \in Txs, RecordApplied(t)
      PROVE  Reversible'
  BY <1>12, UsedTyped DEF RecordApplied, TypeOK, Reversible, Undisturbed,
     Unrolled, Moved
<1>13. ASSUME NEW t \in Txs, UndoDest(t)
      PROVE  Reversible'
  BY <1>13, UsedTyped DEF UndoDest, Removes, TypeOK, Reversible, Undisturbed,
     Unrolled, Moved
<1>14. ASSUME NEW t \in Txs, UndoMove(t)
      PROVE  Reversible'
  BY <1>14, UsedTyped DEF UndoMove, TypeOK, Reversible, Undisturbed, Unrolled,
     Moved
<1>15. ASSUME NEW t \in Txs, UndoRegistry(t)
      PROVE  Reversible'
  BY <1>15, UsedTyped DEF UndoRegistry, TypeOK, Reversible, Undisturbed,
     Unrolled, Moved
<1>16. ASSUME NEW t \in Txs, RecordUndone(t)
      PROVE  Reversible'
  BY <1>16, UsedTyped DEF RecordUndone, TypeOK, Reversible, Undisturbed,
     Unrolled, Moved
<1>17. ASSUME NEW t \in Txs, Rollback(t)
      PROVE  Reversible'
  BY <1>17, UsedTyped DEF Rollback, CanRollBack, TypeOK, Reversible,
     Undisturbed, Unrolled, Moved
<1>18. ASSUME NEW t \in Txs, Retain(t)
      PROVE  Reversible'
  BY <1>18, UsedTyped DEF Retain, TypeOK, Reversible, Undisturbed, Unrolled,
     Moved
<1>19. ASSUME NEW t \in Txs, InstallBackup(t)
      PROVE  Reversible'
  BY <1>19, UsedTyped DEF InstallBackup, TypeOK, Reversible, Undisturbed,
     Unrolled, Moved
<1>20. ASSUME NEW t \in Txs, RestoreRegistry(t)
      PROVE  Reversible'
  BY <1>20, UsedTyped DEF RestoreRegistry, TypeOK, Reversible, Undisturbed,
     Unrolled, Moved
<1>21. ASSUME NEW t \in Txs, RecordRolledBack(t)
      PROVE  Reversible'
  BY <1>21, UsedTyped DEF RecordRolledBack, TypeOK, Reversible, Undisturbed,
     Unrolled, Moved
<1>22. ASSUME NEW t \in Txs, Cleanup(t)
      PROVE  Reversible'
  BY <1>22, UsedTyped DEF Cleanup, TypeOK, Reversible, Undisturbed, Unrolled,
     Moved
<1>23. ASSUME NEW t \in Txs, Revert(t)
      PROVE  Reversible'
  BY <1>23, UsedTyped DEF Revert, Collision, TypeOK, Reversible, Undisturbed,
     Unrolled, Moved
<1>24. ASSUME NEW t \in Txs, RevertMove(t)
      PROVE  Reversible'
  BY <1>24, UsedTyped DEF RevertMove, TypeOK, Reversible, Undisturbed,
     Unrolled, Moved
<1>25. ASSUME NEW t \in Txs, RevertRegistry(t)
      PROVE  Reversible'
  BY <1>25, UsedTyped DEF RevertRegistry, TypeOK, Reversible, Undisturbed,
     Unrolled, Moved
<1>26. ASSUME NEW t \in Txs, RecordReverted(t)
      PROVE  Reversible'
  BY <1>26, UsedTyped DEF RecordReverted, TypeOK, Reversible, Undisturbed,
     Unrolled, Moved
<1>27. ASSUME NEW t \in Txs, RevertReceipt(t)
      PROVE  Reversible'
  BY <1>27, UsedTyped DEF RevertReceipt, TypeOK, Reversible, Undisturbed,
     Unrolled, Moved
<1>28. ASSUME NEW t \in Txs, Recover(t)
      PROVE  Reversible'
  BY <1>28, UsedTyped DEF Recover, TypeOK, Reversible, Undisturbed, Unrolled,
     Moved
<1>29. CASE EditBrain
  BY <1>29, EditedQuiet, UsedTyped DEF EditBrain, TypeOK, Reversible,
     Undisturbed, Unrolled, Moved
<1>30. ASSUME NEW w \in Writers, ReadBrain(w)
      PROVE  Reversible'
  BY <1>30, EditedQuiet, UsedTyped DEF ReadBrain, TypeOK, Reversible,
     Undisturbed, Unrolled, Moved
<1>31. ASSUME NEW w \in Writers, ReadRegistry(w)
      PROVE  Reversible'
  BY <1>31, EditedQuiet, UsedTyped DEF ReadRegistry, TypeOK, Reversible,
     Undisturbed, Unrolled, Moved
<1>32. ASSUME NEW w \in Writers, StoreBrain(w)
      PROVE  Reversible'
  BY <1>32, StoredQuiet, UsedTyped, UsesMore DEF StoreBrain, TypeOK, Reversible,
     Undisturbed, Unrolled, Moved
<1>33. ASSUME NEW w \in Writers, StoreRegistry(w)
      PROVE  Reversible'
  BY <1>33, StoredQuiet, UsedTyped DEF StoreRegistry, TypeOK, Reversible, Undisturbed,
     Unrolled, Moved
<1>34. CASE CreateBrain
  BY <1>34, EditedQuiet, UsedTyped DEF CreateBrain, TypeOK, Reversible,
     Undisturbed, Unrolled, Moved
<1>35. CASE DeleteBrain
  BY <1>35, UsedTyped DEF DeleteBrain, TypeOK, Reversible, Undisturbed,
     Unrolled, Moved
<1>36. CASE Remake
  BY <1>36, UsedTyped DEF Remake, Happens, Uses, Mishaps, TypeOK, Reversible,
     Undisturbed, Unrolled, Moved
<1>37. CASE Fault
  BY <1>37, UsedTyped DEF Fault, Handler, Happens, Uses, Mishaps, TypeOK,
     Reversible, Undisturbed, Unrolled, Moved
<1>38. CASE Crash
  BY <1>38, UsedTyped DEF Crash, Happens, Uses, Mishaps, TypeOK, Reversible,
     Undisturbed, Unrolled, Moved
<1>39. CASE UNCHANGED vars
  BY <1>39, UsedTyped DEF vars, TypeOK, Reversible, Undisturbed, Unrolled,
     Moved
<1> QED
  BY <1>1, <1>2, <1>3, <1>4, <1>5, <1>6, <1>7, <1>8, <1>9, <1>10, <1>11, <1>12,
     <1>13, <1>14, <1>15, <1>16, <1>17, <1>18, <1>19, <1>20, <1>21, <1>22,
     <1>23, <1>24, <1>25, <1>26, <1>27, <1>28, <1>29, <1>30, <1>31, <1>32,
     <1>33, <1>34, <1>35, <1>36, <1>37, <1>38, <1>39 DEF Next, Apply,
     UndoApply, RollBack, RevertRollback

LEMMA ReversibleInit == Init => Reversible
  BY DEF Init, Reversible, Unrolled, Reverting, RollingBack

(* A rollback in which one step fails, and which nobody edits the brain    *)
(* under, ends as rolled back or as applied: its reversal always goes      *)
(* through (_revert_public_rollback).                                      *)
THEOREM RollbacksRevert == Spec => []RollbackReverts
<1>1. Init => TypeOK /\ QuietPast /\ Reversible
  BY TypeInit, QuietPastInit, ReversibleInit
<1>2. TypeOK /\ QuietPast /\ Reversible /\ [Next]_vars
        => (TypeOK /\ QuietPast /\ Reversible)'
  BY TypeNext, QuietPastNext, ReversibleNext
<1>3. Reversible => RollbackReverts
  BY DEF Reversible, RollbackReverts, Undisturbed, RollingBack, Reverting
<1> QED
  BY <1>1, <1>2, <1>3, PTL DEF Spec

-----------------------------------------------------------------------------
(* What a settled restore leaves is what it found.                         *)

(* d can stand for the directory that the apply of t found.                *)
Faithful(t, d) ==
  IF orig[t].dest = NoDir THEN d = NoDir \/ d.root = Own
  ELSE Follows(d, orig[t].dest)

Reset(t) ==
  /\ registry.record = orig[t].registry.record
  /\ orig[t].registry.edits \subseteq registry.edits

(* The transactions whose last apply has recorded its backup, or had none. *)
Based == {"applied", "rolled_back"} \cup Moved \cup Unrolled

(* The recorded backup, and the backup, stand for what was found.          *)
BackupsFaithful ==
  \A t \in Txs : Existed(t) /\ t \notin crossed =>
    /\ status[t] \in Based => base[t] # NoDir /\ Faithful(t, base[t])
    /\ status[t] # "none" /\ backup[t] # NoDir => Faithful(t, backup[t])

Settling ==
  /\ pc \notin {"idle", "check"} => status[cur] # "none"
  /\ pc = "move" => Existed(cur) /\ backup[cur] = NoDir
  /\ pc = "move" /\ cur \notin crossed => Faithful(cur, dest)
  /\ pc = "recordBackup" => Existed(cur)
  /\ pc \in {"recordInstalled", "loadRegistry", "updateRegistry", "recordRegistry",
            "writeReceipt", "recordApplied", "install"} /\ Existed(cur)
       => status[cur] \in Based
  /\ pc \in Applying \ {"check"} /\ ~Existed(cur)
       => orig[cur].dest = NoDir /\ backup[cur] = NoDir
  /\ pc \in RollingBack \cup Reverting \cup {"recover"}
       => status[cur] \in Based /\ Existed(cur)
  /\ pc = "undo" /\ ~retry =>
       IF Existed(cur)
       THEN backup[cur] # NoDir \/ cur \in crossed \/ Faithful(cur, dest)
       ELSE orig[cur].dest = NoDir /\ backup[cur] = NoDir
  /\ pc = "undoMove" => Existed(cur) /\ backup[cur] # NoDir
  /\ pc \in {"undoRegistry", "recordUndone"} /\ ~retry /\ cur \notin crossed
       => Faithful(cur, dest)
  /\ pc \in {"recordUndone", "recordRolledBack"} /\ cur \notin crossed => Reset(cur)

LEMMA FaithfulFollows ==
  ASSUME NEW t \in Txs, NEW w, w # NoDir, Faithful(t, w), NEW d, Follows(d, w)
  PROVE  Faithful(t, d)
  BY DEF Faithful, Follows

LEMMA EditFaithful ==
  ASSUME TypeOK, EditBrain, NEW t \in Txs, Faithful(t, dest)
  PROVE  Faithful(t, dest')
<1>1. dest # NoDir
  BY DEF EditBrain
<1>2. Follows(dest', dest)
  BY <1>1, EditFollows, SelfFollows
<1> QED
  BY <1>1, <1>2, FaithfulFollows

LEMMA StoreFaithful ==
  ASSUME TypeOK, NEW w \in Writers, StoreBrain(w), NEW t \in Txs, t \notin crossed',
         Faithful(t, dest)
  PROVE  Faithful(t, dest')
<1>1. dest # NoDir /\ Follows(dest', dest)
  BY StoreFollows, SelfFollows
<1> QED
  BY <1>1, FaithfulFollows

LEMMA RemakeFaithful ==
  ASSUME TypeOK, Remake, NEW t \in Txs, Faithful(t, dest)
  PROVE  Faithful(t, dest')
  BY DEF Remake, Faithful, Follows, Blank, Content

LEMMA BackupsFaithfulNext ==
  ASSUME TypeOK, Secured, Settling, BackupsFaithful, [Next]_vars
  PROVE  BackupsFaithful'
<1> USE DEF files, hashes, record, answers, op, Calm, Goto, Records, Elsewhere,
           Applying, Undoing, RollingBack, Reverting
<1>1. ASSUME NEW t \in Txs, Preflight(t)
      PROVE  BackupsFaithful'
  BY <1>1 DEF Preflight, TypeOK, Settling, BackupsFaithful, Secured, BackedUp, Stands,
     Existed, Faithful, Follows, Based, Moved, Unrolled
<1>2. ASSUME NEW t \in Txs, Request(t)
      PROVE  BackupsFaithful'
  BY <1>2 DEF Request, TypeOK, Settling, BackupsFaithful, Secured, BackedUp, Stands,
     Existed, Faithful, Follows, Based, Moved, Unrolled
<1>3. ASSUME NEW t \in Txs, Check(t)
      PROVE  BackupsFaithful'
  BY <1>3 DEF Check, Begins, Found, Acceptable, TypeOK, Settling,
     BackupsFaithful, Secured, BackedUp, Stands, Existed, Faithful, Follows, Based,
     Moved, Unrolled
<1>4. ASSUME NEW t \in Txs, Move(t)
      PROVE  BackupsFaithful'
  BY <1>4 DEF Move, Undo, TypeOK, Settling, BackupsFaithful, Secured, BackedUp, Stands,
     Existed, Faithful, Follows, Based, Moved, Unrolled
<1>5. ASSUME NEW t \in Txs, RecordBackup(t)
      PROVE  BackupsFaithful'
  BY <1>5 DEF RecordBackup, TypeOK, Settling, BackupsFaithful, Secured,
     BackedUp, Stands, Existed, Faithful, Follows, Based, Moved, Unrolled
<1>6. ASSUME NEW t \in Txs, Install(t)
      PROVE  BackupsFaithful'
  BY <1>6 DEF Install, Undo, TypeOK, Settling, BackupsFaithful, Secured,
     BackedUp, Stands, Existed, Faithful, Follows, Based, Moved, Unrolled
<1>7. ASSUME NEW t \in Txs, RecordInstalled(t)
      PROVE  BackupsFaithful'
  BY <1>7 DEF RecordInstalled, TypeOK, Settling, BackupsFaithful, Secured,
     BackedUp, Stands, Existed, Faithful, Follows, Based, Moved, Unrolled
<1>8. ASSUME NEW t \in Txs, LoadRegistry(t)
      PROVE  BackupsFaithful'
  BY <1>8 DEF LoadRegistry, TypeOK, Settling, BackupsFaithful, Secured,
     BackedUp, Stands, Existed, Faithful, Follows, Based, Moved, Unrolled
<1>9. ASSUME NEW t \in Txs, UpdateRegistry(t)
      PROVE  BackupsFaithful'
  BY <1>9 DEF UpdateRegistry, TypeOK, Settling, BackupsFaithful, Secured,
     BackedUp, Stands, Existed, Faithful, Follows, Based, Moved, Unrolled
<1>10. ASSUME NEW t \in Txs, RecordRegistry(t)
      PROVE  BackupsFaithful'
  BY <1>10 DEF RecordRegistry, TypeOK, Settling, BackupsFaithful, Secured,
     BackedUp, Stands, Existed, Faithful, Follows, Based, Moved, Unrolled
<1>11. ASSUME NEW t \in Txs, WriteReceipt(t)
      PROVE  BackupsFaithful'
  BY <1>11 DEF WriteReceipt, TypeOK, Settling, BackupsFaithful, Secured,
     BackedUp, Stands, Existed, Faithful, Follows, Based, Moved, Unrolled
<1>12. ASSUME NEW t \in Txs, RecordApplied(t)
      PROVE  BackupsFaithful'
  BY <1>12 DEF RecordApplied, TypeOK, Settling, BackupsFaithful, Secured,
     BackedUp, Stands, Existed, Faithful, Follows, Based, Moved, Unrolled
<1>13. ASSUME NEW t \in Txs, UndoDest(t)
      PROVE  BackupsFaithful'
  BY <1>13 DEF UndoDest, Removes, TypeOK, Settling, BackupsFaithful, Secured,
     BackedUp, Stands, Existed, Faithful, Follows, Based, Moved, Unrolled
<1>14. ASSUME NEW t \in Txs, UndoMove(t)
      PROVE  BackupsFaithful'
  BY <1>14 DEF UndoMove, TypeOK, Settling, BackupsFaithful, Secured, BackedUp, Stands,
     Existed, Faithful, Follows, Based, Moved, Unrolled
<1>15. ASSUME NEW t \in Txs, UndoRegistry(t)
      PROVE  BackupsFaithful'
  BY <1>15 DEF UndoRegistry, TypeOK, Settling, BackupsFaithful, Secured,
     BackedUp, Stands, Existed, Faithful, Follows, Based, Moved, Unrolled
<1>16. ASSUME NEW t \in Txs, RecordUndone(t)
      PROVE  BackupsFaithful'
  BY <1>16 DEF RecordUndone, TypeOK, Settling, BackupsFaithful, Secured,
     BackedUp, Stands, Existed, Faithful, Follows, Based, Moved, Unrolled
<1>17. ASSUME NEW t \in Txs, Rollback(t)
      PROVE  BackupsFaithful'
  BY <1>17 DEF Rollback, CanRollBack, TypeOK, Settling, BackupsFaithful,
     Secured, BackedUp, Stands, Existed, Faithful, Follows, Based, Moved, Unrolled
<1>18. ASSUME NEW t \in Txs, Retain(t)
      PROVE  BackupsFaithful'
  BY <1>18 DEF Retain, TypeOK, Settling, BackupsFaithful, Secured, BackedUp, Stands,
     Existed, Faithful, Follows, Based, Moved, Unrolled
<1>19. ASSUME NEW t \in Txs, InstallBackup(t)
      PROVE  BackupsFaithful'
  BY <1>19 DEF InstallBackup, TypeOK, Settling, BackupsFaithful, Secured,
     BackedUp, Stands, Existed, Faithful, Follows, Based, Moved, Unrolled
<1>20. ASSUME NEW t \in Txs, RestoreRegistry(t)
      PROVE  BackupsFaithful'
  BY <1>20 DEF RestoreRegistry, TypeOK, Settling, BackupsFaithful, Secured,
     BackedUp, Stands, Existed, Faithful, Follows, Based, Moved, Unrolled
<1>21. ASSUME NEW t \in Txs, RecordRolledBack(t)
      PROVE  BackupsFaithful'
  BY <1>21 DEF RecordRolledBack, TypeOK, Settling, BackupsFaithful, Secured,
     BackedUp, Stands, Existed, Faithful, Follows, Based, Moved, Unrolled
<1>22. ASSUME NEW t \in Txs, Cleanup(t)
      PROVE  BackupsFaithful'
  BY <1>22 DEF Cleanup, TypeOK, Settling, BackupsFaithful, Secured, BackedUp, Stands,
     Existed, Faithful, Follows, Based, Moved, Unrolled
<1>23. ASSUME NEW t \in Txs, Revert(t)
      PROVE  BackupsFaithful'
  BY <1>23 DEF Revert, Collision, TypeOK, Settling, BackupsFaithful, Secured,
     BackedUp, Stands, Existed, Faithful, Follows, Based, Moved, Unrolled
<1>24. ASSUME NEW t \in Txs, RevertMove(t)
      PROVE  BackupsFaithful'
  BY <1>24 DEF RevertMove, TypeOK, Settling, BackupsFaithful, Secured,
     BackedUp, Stands, Existed, Faithful, Follows, Based, Moved, Unrolled
<1>25. ASSUME NEW t \in Txs, RevertRegistry(t)
      PROVE  BackupsFaithful'
  BY <1>25 DEF RevertRegistry, TypeOK, Settling, BackupsFaithful, Secured,
     BackedUp, Stands, Existed, Faithful, Follows, Based, Moved, Unrolled
<1>26. ASSUME NEW t \in Txs, RecordReverted(t)
      PROVE  BackupsFaithful'
  BY <1>26 DEF RecordReverted, TypeOK, Settling, BackupsFaithful, Secured,
     BackedUp, Stands, Existed, Faithful, Follows, Based, Moved, Unrolled
<1>27. ASSUME NEW t \in Txs, RevertReceipt(t)
      PROVE  BackupsFaithful'
  BY <1>27 DEF RevertReceipt, TypeOK, Settling, BackupsFaithful, Secured,
     BackedUp, Stands, Existed, Faithful, Follows, Based, Moved, Unrolled
<1>28. ASSUME NEW t \in Txs, Recover(t)
      PROVE  BackupsFaithful'
  BY <1>28 DEF Recover, TypeOK, Settling, BackupsFaithful, Secured, BackedUp, Stands,
     Existed, Faithful, Follows, Based, Moved, Unrolled
<1>29. CASE EditBrain
  BY <1>29 DEF EditBrain, TypeOK, Settling, BackupsFaithful, Secured, BackedUp, Stands,
     Existed, Faithful, Follows, Based, Moved, Unrolled
<1>30. ASSUME NEW w \in Writers, ReadBrain(w)
      PROVE  BackupsFaithful'
  BY <1>30 DEF ReadBrain, Reg, TypeOK, Settling, BackupsFaithful, Secured,
     BackedUp, Stands, Existed, Faithful, Follows, Based, Moved, Unrolled
<1>31. ASSUME NEW w \in Writers, ReadRegistry(w)
      PROVE  BackupsFaithful'
  BY <1>31 DEF ReadRegistry, Reg, TypeOK, Settling, BackupsFaithful, Secured,
     BackedUp, Stands, Existed, Faithful, Follows, Based, Moved, Unrolled
<1>32. ASSUME NEW w \in Writers, StoreBrain(w)
      PROVE  BackupsFaithful'
  BY <1>32 DEF StoreBrain, Crosses, Reg, TypeOK, Settling, BackupsFaithful,
     Secured, BackedUp, Stands, Existed, Faithful, Follows, Based, Moved, Unrolled
<1>33. ASSUME NEW w \in Writers, StoreRegistry(w)
      PROVE  BackupsFaithful'
  BY <1>33 DEF StoreRegistry, Crosses, Reg, TypeOK, Settling, BackupsFaithful,
     Secured, BackedUp, Stands, Existed, Faithful, Follows, Based, Moved, Unrolled
<1>34. CASE CreateBrain
  BY <1>34 DEF CreateBrain, TypeOK, Settling, BackupsFaithful, Secured,
     BackedUp, Stands, Existed, Faithful, Follows, Based, Moved, Unrolled
<1>35. CASE DeleteBrain
  BY <1>35 DEF DeleteBrain, TypeOK, Settling, BackupsFaithful, Secured,
     BackedUp, Stands, Existed, Faithful, Follows, Based, Moved, Unrolled
<1>36. CASE Remake
  BY <1>36 DEF Remake, Happens, Uses, TypeOK, Settling, BackupsFaithful,
     Secured, BackedUp, Stands, Existed, Faithful, Follows, Based, Moved, Unrolled
<1>37. CASE Fault
  BY <1>37 DEF Fault, Handler, Happens, Uses, TypeOK, Settling,
     BackupsFaithful, Secured, BackedUp, Stands, Existed, Faithful, Follows, Based,
     Moved, Unrolled
<1>38. CASE Crash
  BY <1>38 DEF Crash, Happens, Uses, TypeOK, Settling, BackupsFaithful,
     Secured, BackedUp, Stands, Existed, Faithful, Follows, Based, Moved, Unrolled
<1>39. CASE UNCHANGED vars
  BY <1>39 DEF vars, TypeOK, Settling, BackupsFaithful, Secured, BackedUp, Stands,
     Existed, Faithful, Follows, Based, Moved, Unrolled
<1> QED
  BY <1>1, <1>2, <1>3, <1>4, <1>5, <1>6, <1>7, <1>8, <1>9, <1>10, <1>11, <1>12,
     <1>13, <1>14, <1>15, <1>16, <1>17, <1>18, <1>19, <1>20, <1>21, <1>22,
     <1>23, <1>24, <1>25, <1>26, <1>27, <1>28, <1>29, <1>30, <1>31, <1>32,
     <1>33, <1>34, <1>35, <1>36, <1>37, <1>38, <1>39 DEF Next, Apply,
     UndoApply, RollBack, RevertRollback

LEMMA SettlingNext ==
  ASSUME TypeOK, Secured, Settling, BackupsFaithful, [Next]_vars
  PROVE  Settling'
<1> USE DEF files, hashes, record, answers, op, Calm, Goto, Records, Elsewhere,
           Applying, Undoing, RollingBack, Reverting
<1>1. ASSUME NEW t \in Txs, Preflight(t)
      PROVE  Settling'
  BY <1>1 DEF Preflight, TypeOK, Settling, BackupsFaithful, Secured, BackedUp, Stands,
     Existed, Faithful, Follows, Reset, Based, Moved, Unrolled
<1>2. ASSUME NEW t \in Txs, Request(t)
      PROVE  Settling'
  BY <1>2 DEF Request, TypeOK, Settling, BackupsFaithful, Secured, BackedUp, Stands,
     Existed, Faithful, Follows, Reset, Based, Moved, Unrolled
<1>3. ASSUME NEW t \in Txs, Check(t)
      PROVE  Settling'
  BY <1>3 DEF Check, Begins, Found, Acceptable, TypeOK, Settling,
     BackupsFaithful, Secured, BackedUp, Stands, Existed, Faithful, Follows, Reset,
     Based, Moved, Unrolled
<1>4. ASSUME NEW t \in Txs, Move(t)
      PROVE  Settling'
  BY <1>4 DEF Move, Undo, TypeOK, Settling, BackupsFaithful, Secured, BackedUp, Stands,
     Existed, Faithful, Follows, Reset, Based, Moved, Unrolled
<1>5. ASSUME NEW t \in Txs, RecordBackup(t)
      PROVE  Settling'
  BY <1>5 DEF RecordBackup, TypeOK, Settling, BackupsFaithful, Secured,
     BackedUp, Stands, Existed, Faithful, Follows, Reset, Based, Moved, Unrolled
<1>6. ASSUME NEW t \in Txs, Install(t)
      PROVE  Settling'
  BY <1>6 DEF Install, Undo, TypeOK, Settling, BackupsFaithful, Secured,
     BackedUp, Stands, Existed, Faithful, Follows, Reset, Based, Moved, Unrolled
<1>7. ASSUME NEW t \in Txs, RecordInstalled(t)
      PROVE  Settling'
  BY <1>7 DEF RecordInstalled, TypeOK, Settling, BackupsFaithful, Secured,
     BackedUp, Stands, Existed, Faithful, Follows, Reset, Based, Moved, Unrolled
<1>8. ASSUME NEW t \in Txs, LoadRegistry(t)
      PROVE  Settling'
  BY <1>8 DEF LoadRegistry, TypeOK, Settling, BackupsFaithful, Secured,
     BackedUp, Stands, Existed, Faithful, Follows, Reset, Based, Moved, Unrolled
<1>9. ASSUME NEW t \in Txs, UpdateRegistry(t)
      PROVE  Settling'
  BY <1>9 DEF UpdateRegistry, TypeOK, Settling, BackupsFaithful, Secured,
     BackedUp, Stands, Existed, Faithful, Follows, Reset, Based, Moved, Unrolled
<1>10. ASSUME NEW t \in Txs, RecordRegistry(t)
      PROVE  Settling'
  BY <1>10 DEF RecordRegistry, TypeOK, Settling, BackupsFaithful, Secured,
     BackedUp, Stands, Existed, Faithful, Follows, Reset, Based, Moved, Unrolled
<1>11. ASSUME NEW t \in Txs, WriteReceipt(t)
      PROVE  Settling'
  BY <1>11 DEF WriteReceipt, TypeOK, Settling, BackupsFaithful, Secured,
     BackedUp, Stands, Existed, Faithful, Follows, Reset, Based, Moved, Unrolled
<1>12. ASSUME NEW t \in Txs, RecordApplied(t)
      PROVE  Settling'
  BY <1>12 DEF RecordApplied, TypeOK, Settling, BackupsFaithful, Secured,
     BackedUp, Stands, Existed, Faithful, Follows, Reset, Based, Moved, Unrolled
<1>13. ASSUME NEW t \in Txs, UndoDest(t)
      PROVE  Settling'
  BY <1>13 DEF UndoDest, Removes, TypeOK, Settling, BackupsFaithful, Secured,
     BackedUp, Stands, Existed, Faithful, Follows, Reset, Based, Moved, Unrolled
<1>14. ASSUME NEW t \in Txs, UndoMove(t)
      PROVE  Settling'
  BY <1>14 DEF UndoMove, TypeOK, Settling, BackupsFaithful, Secured, BackedUp, Stands,
     Existed, Faithful, Follows, Reset, Based, Moved, Unrolled
<1>15. ASSUME NEW t \in Txs, UndoRegistry(t)
      PROVE  Settling'
  BY <1>15 DEF UndoRegistry, TypeOK, Settling, BackupsFaithful, Secured,
     BackedUp, Stands, Existed, Faithful, Follows, Reset, Based, Moved, Unrolled
<1>16. ASSUME NEW t \in Txs, RecordUndone(t)
      PROVE  Settling'
  BY <1>16 DEF RecordUndone, TypeOK, Settling, BackupsFaithful, Secured,
     BackedUp, Stands, Existed, Faithful, Follows, Reset, Based, Moved, Unrolled
<1>17. ASSUME NEW t \in Txs, Rollback(t)
      PROVE  Settling'
  BY <1>17 DEF Rollback, CanRollBack, TypeOK, Settling, BackupsFaithful,
     Secured, BackedUp, Stands, Existed, Faithful, Follows, Reset, Based, Moved,
     Unrolled
<1>18. ASSUME NEW t \in Txs, Retain(t)
      PROVE  Settling'
  BY <1>18 DEF Retain, TypeOK, Settling, BackupsFaithful, Secured, BackedUp, Stands,
     Existed, Faithful, Follows, Reset, Based, Moved, Unrolled
<1>19. ASSUME NEW t \in Txs, InstallBackup(t)
      PROVE  Settling'
  BY <1>19 DEF InstallBackup, TypeOK, Settling, BackupsFaithful, Secured,
     BackedUp, Stands, Existed, Faithful, Follows, Reset, Based, Moved, Unrolled
<1>20. ASSUME NEW t \in Txs, RestoreRegistry(t)
      PROVE  Settling'
  BY <1>20 DEF RestoreRegistry, TypeOK, Settling, BackupsFaithful, Secured,
     BackedUp, Stands, Existed, Faithful, Follows, Reset, Based, Moved, Unrolled
<1>21. ASSUME NEW t \in Txs, RecordRolledBack(t)
      PROVE  Settling'
  BY <1>21 DEF RecordRolledBack, TypeOK, Settling, BackupsFaithful, Secured,
     BackedUp, Stands, Existed, Faithful, Follows, Reset, Based, Moved, Unrolled
<1>22. ASSUME NEW t \in Txs, Cleanup(t)
      PROVE  Settling'
  BY <1>22 DEF Cleanup, TypeOK, Settling, BackupsFaithful, Secured, BackedUp, Stands,
     Existed, Faithful, Follows, Reset, Based, Moved, Unrolled
<1>23. ASSUME NEW t \in Txs, Revert(t)
      PROVE  Settling'
  BY <1>23 DEF Revert, Collision, TypeOK, Settling, BackupsFaithful, Secured,
     BackedUp, Stands, Existed, Faithful, Follows, Reset, Based, Moved, Unrolled
<1>24. ASSUME NEW t \in Txs, RevertMove(t)
      PROVE  Settling'
  BY <1>24 DEF RevertMove, TypeOK, Settling, BackupsFaithful, Secured,
     BackedUp, Stands, Existed, Faithful, Follows, Reset, Based, Moved, Unrolled
<1>25. ASSUME NEW t \in Txs, RevertRegistry(t)
      PROVE  Settling'
  BY <1>25 DEF RevertRegistry, TypeOK, Settling, BackupsFaithful, Secured,
     BackedUp, Stands, Existed, Faithful, Follows, Reset, Based, Moved, Unrolled
<1>26. ASSUME NEW t \in Txs, RecordReverted(t)
      PROVE  Settling'
  BY <1>26 DEF RecordReverted, TypeOK, Settling, BackupsFaithful, Secured,
     BackedUp, Stands, Existed, Faithful, Follows, Reset, Based, Moved, Unrolled
<1>27. ASSUME NEW t \in Txs, RevertReceipt(t)
      PROVE  Settling'
  BY <1>27 DEF RevertReceipt, TypeOK, Settling, BackupsFaithful, Secured,
     BackedUp, Stands, Existed, Faithful, Follows, Reset, Based, Moved, Unrolled
<1>28. ASSUME NEW t \in Txs, Recover(t)
      PROVE  Settling'
  BY <1>28 DEF Recover, TypeOK, Settling, BackupsFaithful, Secured, BackedUp, Stands,
     Existed, Faithful, Follows, Reset, Based, Moved, Unrolled
<1>29. CASE EditBrain
  BY <1>29, EditFaithful DEF EditBrain, TypeOK, Settling, BackupsFaithful,
     Secured, BackedUp, Stands, Existed, Faithful, Follows, Reset, Based, Moved,
     Unrolled
<1>30. ASSUME NEW w \in Writers, ReadBrain(w)
      PROVE  Settling'
  BY <1>30 DEF ReadBrain, Reg, TypeOK, Settling, BackupsFaithful, Secured,
     BackedUp, Stands, Existed, Faithful, Follows, Reset, Based, Moved, Unrolled
<1>31. ASSUME NEW w \in Writers, ReadRegistry(w)
      PROVE  Settling'
  BY <1>31 DEF ReadRegistry, Reg, TypeOK, Settling, BackupsFaithful, Secured,
     BackedUp, Stands, Existed, Faithful, Follows, Reset, Based, Moved, Unrolled
<1>32. ASSUME NEW w \in Writers, StoreBrain(w)
      PROVE  Settling'
  <2>1. cur \in Txs /\ UNCHANGED <<registry, status, orig, backup, pc, cur, retry>>
    BY <1>32 DEF StoreBrain, TypeOK
  <2>2. crossed \subseteq crossed'
    BY <1>32 DEF StoreBrain, Crosses, TypeOK
  <2>3. cur \notin crossed' /\ Faithful(cur, dest) => Faithful(cur, dest)'
    BY <1>32, <2>1, StoreFaithful DEF Faithful
  <2> HIDE DEF Applying, Undoing, RollingBack, Reverting
  <2> QED
    BY <2>1, <2>2, <2>3 DEF Settling, Existed, Reset
<1>33. ASSUME NEW w \in Writers, StoreRegistry(w)
      PROVE  Settling'
  BY <1>33 DEF StoreRegistry, Crosses, Reg, TypeOK, Settling, BackupsFaithful,
     Secured, BackedUp, Stands, Existed, Faithful, Follows, Reset, Based, Moved,
     Unrolled
<1>34. CASE CreateBrain
  BY <1>34 DEF CreateBrain, TypeOK, Settling, BackupsFaithful, Secured,
     BackedUp, Stands, Existed, Faithful, Follows, Reset, Based, Moved, Unrolled
<1>35. CASE DeleteBrain
  BY <1>35 DEF DeleteBrain, TypeOK, Settling, BackupsFaithful, Secured,
     BackedUp, Stands, Existed, Faithful, Follows, Reset, Based, Moved, Unrolled
<1>36. CASE Remake
  BY <1>36, RemakeFaithful DEF Remake, Happens, Uses, TypeOK, Settling,
     BackupsFaithful, Secured, BackedUp, Stands, Existed, Faithful, Follows, Reset,
     Based, Moved, Unrolled
<1>37. CASE Fault
  BY <1>37 DEF Fault, Handler, Happens, Uses, TypeOK, Settling,
     BackupsFaithful, Secured, BackedUp, Stands, Existed, Faithful, Follows, Reset,
     Based, Moved, Unrolled
<1>38. CASE Crash
  BY <1>38 DEF Crash, Happens, Uses, TypeOK, Settling, BackupsFaithful,
     Secured, BackedUp, Stands, Existed, Faithful, Follows, Reset, Based, Moved,
     Unrolled
<1>39. CASE UNCHANGED vars
  BY <1>39 DEF vars, TypeOK, Settling, BackupsFaithful, Secured, BackedUp, Stands,
     Existed, Faithful, Follows, Reset, Based, Moved, Unrolled
<1> QED
  BY <1>1, <1>2, <1>3, <1>4, <1>5, <1>6, <1>7, <1>8, <1>9, <1>10, <1>11, <1>12,
     <1>13, <1>14, <1>15, <1>16, <1>17, <1>18, <1>19, <1>20, <1>21, <1>22,
     <1>23, <1>24, <1>25, <1>26, <1>27, <1>28, <1>29, <1>30, <1>31, <1>32,
     <1>33, <1>34, <1>35, <1>36, <1>37, <1>38, <1>39 DEF Next, Apply,
     UndoApply, RollBack, RevertRollback

LEMMA SettlingInit == Init => BackupsFaithful /\ Settling
  BY DEF Init, BackupsFaithful, Settling, Based, Moved, Unrolled, Applying,
         RollingBack, Reverting

LEMMA FaithfulInductive ==
  /\ Init => TypeOK /\ Secured /\ Settling /\ BackupsFaithful
  /\ TypeOK /\ Secured /\ Settling /\ BackupsFaithful /\ [Next]_vars
       => (TypeOK /\ Secured /\ Settling /\ BackupsFaithful)'
  BY TypeInit, RetainedInit, SettlingInit, TypeNext, SecuredNext, SettlingNext,
     BackupsFaithfulNext

(* The only two steps that settle a restore as undone or as rolled back.   *)
LEMMA SettlesBy ==
  ASSUME [Next]_vars, TypeOK, NEW t \in Txs, status'[t] # status[t],
         status'[t] \in {"apply_rolled_back", "rolled_back"}
  PROVE  pc \in {"recordUndone", "recordRolledBack"} /\ cur = t
<1> USE DEF TypeOK, record, Records, Calm, Elsewhere
<1>1. \E u \in Txs : RecordUndone(u) \/ RecordRolledBack(u)
  BY DEF Next, Apply, UndoApply, RollBack, RevertRollback, vars,
     Preflight, Request, Check, Move, RecordBackup, Install, RecordInstalled,
     LoadRegistry, UpdateRegistry, RecordRegistry, WriteReceipt, RecordApplied,
     UndoDest, UndoMove, UndoRegistry, Rollback, Retain, InstallBackup,
     RestoreRegistry, Cleanup, Revert, RevertMove,
     RevertRegistry, RecordReverted, RevertReceipt, Recover, EditBrain,
     ReadBrain, ReadRegistry, StoreBrain, StoreRegistry, CreateBrain,
     DeleteBrain, Remake, Fault, Crash
<1> QED
  BY <1>1 DEF RecordUndone, RecordRolledBack

(* A failed apply that says it is undone, and a rollback that says it is   *)
(* done, leave the brain that the apply found and its registry record, or  *)
(* edited successors of them; unless a copy of the brain or of the         *)
(* registry, read before something changed it, was stored since the apply  *)
(* began (_finalize_registry and replace_runtime_graph compare nothing).   *)
THEOREM SettledAlwaysBefore == Spec => SettledIsBefore
<1> DEFINE Left(t) ==
      /\ status'[t] # status[t]
      /\ status'[t] \in {"apply_rolled_back", "rolled_back"}
      /\ ~retry /\ t \notin crossed
      => /\ IF orig[t].dest = NoDir THEN dest = NoDir \/ dest.root = Own
            ELSE Follows(dest, orig[t].dest)
         /\ registry.record = orig[t].registry.record
         /\ orig[t].registry.edits \subseteq registry.edits
<1>1. ASSUME TypeOK, Secured, Settling, BackupsFaithful, [Next]_vars,
             NEW t \in Txs
      PROVE  Left(t)
  <2> SUFFICES ASSUME status'[t] # status[t], ~retry, t \notin crossed,
                      status'[t] \in {"apply_rolled_back", "rolled_back"}
               PROVE  Faithful(t, dest) /\ Reset(t)
    BY DEF Faithful, Reset
  <2>1. pc \in {"recordUndone", "recordRolledBack"} /\ cur = t
    BY <1>1, SettlesBy
  <2>2. Reset(t)
    BY <1>1, <2>1 DEF Settling
  <2>3. CASE pc = "recordUndone"
    BY <1>1, <2>1, <2>2, <2>3 DEF Settling
  <2>4. CASE pc = "recordRolledBack"
    <3>1. Follows(dest, base[t]) /\ Existed(t) /\ status[t] \in Based
      BY <1>1, <2>1, <2>4 DEF Secured, Stands, Settling, RollingBack
    <3>2. base[t] # NoDir /\ Faithful(t, base[t])
      BY <1>1, <3>1 DEF BackupsFaithful
    <3> QED
      BY <2>2, <3>1, <3>2, FaithfulFollows
  <2> QED
    BY <2>1, <2>3, <2>4
<1>2. TypeOK /\ Secured /\ Settling /\ BackupsFaithful /\ [Next]_vars
        => \A t \in Txs : Left(t)
  BY <1>1
<1> QED
  BY <1>2, FaithfulInductive, PTL DEF Spec, SettledIsBefore
=============================================================================
