-------------------------- MODULE BrainWritersProofs --------------------------
(***************************************************************************)
(* Proofs about Grow, Maintain and the writers of the whole graph in one   *)
(* brain, for any number of each, any facts and any reviews.               *)
(***************************************************************************)
EXTENDS BrainWriters, GrowStoreProofs

-----------------------------------------------------------------------------
(* The kinds of steps. All but Grow's own leave its table alone.           *)

GrowStep == Serve \/ Tick \/ (\E i \in Ids : Rollback(i)) \/ Crash

LEMMA GrowSteps == GrowStep => Next
  BY DEF GrowStep, Next

(* A step of a maintenance handler that leaves the brain alone.            *)
Drafts(k) ==
  \/ BeginMaintenance(k) \/ MaintenanceFails(k)
  \/ \E v \in Reviews, after \in Candidates(keeper[k].read), passed \in BOOLEAN :
       StoreMaintenance(k, v, after, passed)
  \/ \E s \in DOMAIN previews : ApplyConflicts(k, s) \/ ApplyAnswersAgain(k, s)
  \/ ReadReceipt(k) \/ WriteReceipt(k)

(* A request that reads the brain and makes its own copy of it.            *)
Copies(w, g) ==
  /\ Read(w, g)
  /\ \/ \E f \in Facts : g = graph \cup {<<f, Foreign>>}
     \/ \E f \in Facts : g = {p \in graph : p[1] # f}
     \/ \E S \in SUBSET Facts : g = graph \cup Contribution(Foreign, S)

LEMMA StepCases ==
  ASSUME BNext
  PROVE  \/ (Serve \/ Tick \/ \E i \in Ids : Rollback(i)) /\ UNCHANGED <<mvars, writer, stale>>
         \/ \E k \in Keepers : Drafts(k) /\ UNCHANGED <<writer, stale>>
         \/ \E k \in Keepers, s \in DOMAIN previews :
              ApplyMaintenance(k, s) /\ UNCHANGED <<writer, stale>>
         \/ \E s \in DOMAIN previews : RollbackMaintenance(s) /\ UNCHANGED <<writer, stale>>
         \/ \E w \in Writers : \E g : Copies(w, g)
         \/ \E w \in Writers : Store(w)
         \/ BCrash
<1>1. ASSUME NEW k \in Keepers, Maintain(k)
      PROVE  Drafts(k) \/ \E s \in DOMAIN previews : ApplyMaintenance(k, s)
  BY <1>1, Zenon DEF Maintain, Drafts
<1>2. ASSUME NEW w \in Writers, NEW f \in Facts, ChangeNode(w, f) \/ DeleteNode(w, f)
      PROVE  \E g : Copies(w, g)
  BY <1>2, Zenon DEF ChangeNode, DeleteNode, Copies
<1>3. ASSUME NEW w \in Writers, NEW S \in Offers, BootstrapApply(w, S)
      PROVE  \E g : Copies(w, g)
  BY <1>3 DEF BootstrapApply, Copies, Offers
<1> QED
  BY <1>1, <1>2, <1>3, Zenon DEF BNext, MaintenanceNext

-----------------------------------------------------------------------------
(* Type correctness.                                                       *)

BTypeOK == TypeOK /\ PreviewsTypeOK /\ writer \in [Writers -> Writer]

LEMMA AwayTyped == Away \in Keeper /\ NoWriter \in Writer
  BY DEF Away, Keeper, KeeperPc, Graphs, NoWriter, Writer

LEMMA KeepsTyped ==
  ASSUME keeper \in [Keepers -> Keeper], NEW k \in Keepers, NEW pc \in KeeperPc,
         NEW read \in Graphs, NEW sig \in Signature \cup {None}, Keeps(k, pc, read, sig)
  PROVE  keeper' \in [Keepers -> Keeper]
<1>1. [pc |-> pc, read |-> read, sig |-> sig] \in Keeper
  BY DEF Keeper
<1> QED
  BY <1>1 DEF Keeps

LEMMA GoesTyped ==
  ASSUME keeper \in [Keepers -> Keeper], NEW k \in Keepers,
         keeper' = [keeper EXCEPT ![k] = Away]
  PROVE  keeper' \in [Keepers -> Keeper]
  BY AwayTyped

LEMMA SettlesTyped ==
  ASSUME previews \in [DOMAIN previews -> PreviewRow],
         NEW s \in DOMAIN previews, NEW st \in PreviewState, Settles(s, st)
  PROVE  /\ DOMAIN previews' = DOMAIN previews
         /\ previews' \in [DOMAIN previews -> PreviewRow]
         /\ previews'[s].st = st /\ previews'[s].passed = previews[s].passed
         /\ previews'[s].booked = previews[s].booked
         /\ \A t \in DOMAIN previews : t # s => previews'[t] = previews[t]
<1>1. previews[s] \in PreviewRow
  OBVIOUS
<1>2. previews' = [previews EXCEPT ![s] = [previews[s] EXCEPT !.st = st]]
  BY DEF Settles
<1>3. /\ [previews[s] EXCEPT !.st = st] \in PreviewRow
      /\ [previews[s] EXCEPT !.st = st].st = st
      /\ [previews[s] EXCEPT !.st = st].passed = previews[s].passed
      /\ [previews[s] EXCEPT !.st = st].booked = previews[s].booked
  BY <1>1 DEF PreviewRow
<1> HIDE DEF Settles
<1> QED
  BY <1>2, <1>3

-----------------------------------------------------------------------------
(* The ledger of previews: what its steps do to the rows.                  *)

(* A step leaves every row, and a settled one as it is but for its own     *)
(* rollback.                                                               *)
RowLasts(s) ==
  /\ s \in DOMAIN previews'
  /\ previews[s].st # "active" =>
       /\ previews'[s].passed = previews[s].passed
       /\ \/ previews'[s].st = previews[s].st
          \/ previews[s].st = "applied" /\ previews'[s].st = "rolled_back"
  /\ previews'[s].booked # previews[s].booked =>
       previews[s].st = "applied" /\ previews'[s].st = "applied"

ActiveUnbooked == \A s \in DOMAIN previews : previews[s].st = "active" => previews[s].booked = FALSE

(* All but the store of a preview change rows that are there already.      *)
Revises ==
  /\ DOMAIN previews' = DOMAIN previews
  /\ previews' \in [DOMAIN previews -> PreviewRow]
  /\ keeper' \in [Keepers -> Keeper]
  /\ \A s \in DOMAIN previews :
       RowLasts(s) /\ (previews'[s].st = "active" => previews'[s].booked = FALSE)

(* Which row a store writes, and which cycle it gets.                      *)
Files(sig) ==
  /\ sig \in DOMAIN previews => previews[sig].st = "active"
  /\ DOMAIN previews' = DOMAIN previews \cup {sig}
  /\ previews'[sig].st = "active" /\ previews'[sig].booked = FALSE
  /\ \A s \in DOMAIN previews : s # sig => previews'[s] = previews[s]

HasLatest ==
  \A v \in Reviews, before \in Graphs, after \in Graphs :
    SameReview(v, before, after) # {} =>
      \E s \in SameReview(v, before, after) : Latest(s, SameReview(v, before, after))

Succeeds(sig) ==
  LET S == SameReview(sig.of, sig.before, sig.after) IN
  \/ S = {} /\ sig.cycle = 1
  \/ \E s \in S : /\ Latest(s, S)
                /\ sig.cycle = IF previews[s].st = "active" THEN s.cycle ELSE s.cycle + 1

LEMMA CycleForSucceeds ==
  ASSUME BTypeOK, HasLatest, NEW v \in Reviews, NEW before \in Graphs, NEW after \in Graphs
  PROVE  LET sig == [of |-> v, before |-> before, after |-> after,
                     cycle |-> CycleFor(SameReview(v, before, after))] IN
         sig \in Signature /\ Succeeds(sig)
<1> DEFINE S == SameReview(v, before, after)
           sig == [of |-> v, before |-> before, after |-> after, cycle |-> CycleFor(S)]
<1>1. CASE S = {}
  <2>1. CycleFor(S) = 1
    BY <1>1 DEF CycleFor
  <2> QED
    BY <1>1, <2>1 DEF Succeeds, Signature
<1>2. CASE S # {}
  <2> DEFINE s == CHOOSE s \in S : Latest(s, S)
  <2>1. \E t \in S : Latest(t, S)
    BY <1>2 DEF HasLatest
  <2> HIDE DEF S
  <2>2. s \in S /\ Latest(s, S)
    BY <2>1
  <2>3. CycleFor(S) = IF previews[s].st = "active" THEN s.cycle ELSE s.cycle + 1
    BY <1>2 DEF CycleFor
  <2> HIDE DEF s
  <2>4. s \in Signature
    BY <2>2 DEF S, SameReview, BTypeOK, PreviewsTypeOK
  <2>5. CycleFor(S) \in Nat \ {0}
    BY <2>3, <2>4 DEF Signature
  <2>6. sig \in Signature
    BY <2>5 DEF Signature
  <2>7. Succeeds(sig)
    BY <2>2, <2>3 DEF Succeeds, S
  <2> QED
    BY <2>6, <2>7 DEF S
<1> QED
  BY <1>1, <1>2

LEMMA StoreFiles ==
  ASSUME BTypeOK, HasLatest, NEW k \in Keepers, NEW v \in Reviews,
         NEW after \in Candidates(keeper[k].read), NEW passed \in BOOLEAN,
         StoreMaintenance(k, v, after, passed)
  PROVE  /\ keeper' = [keeper EXCEPT ![k] = Away]
         /\ keeper' \in [Keepers -> Keeper]
         /\ \/ UNCHANGED previews
            \/ \E sig \in Signature :
                 /\ Files(sig) /\ Succeeds(sig)
                 /\ sig.before = keeper[k].read /\ sig.after = after
                 /\ PreviewsTypeOK'
<1> DEFINE before == keeper[k].read
           sig == [of |-> v, before |-> before, after |-> after,
                   cycle |-> CycleFor(SameReview(v, before, after))]
<1>1. before \in Graphs /\ after \in Graphs
  BY DEF BTypeOK, PreviewsTypeOK, Keeper, Candidates
<1>2. sig \in Signature /\ Succeeds(sig)
  BY <1>1, CycleForSucceeds
<1>3. keeper' = [keeper EXCEPT ![k] = Away] /\ keeper' \in [Keepers -> Keeper]
  BY GoesTyped DEF StoreMaintenance, BTypeOK, PreviewsTypeOK
<1>4. ASSUME ~UNCHANGED previews
      PROVE  Files(sig) /\ PreviewsTypeOK'
  <2>1. /\ sig \in DOMAIN previews => previews[sig].st = "active"
        /\ previews' = [s \in DOMAIN previews \cup {sig} |->
                          IF s = sig THEN NewPreview(passed) ELSE previews[s]]
    BY <1>4 DEF StoreMaintenance
  <2> HIDE DEF sig
  <2>2. /\ NewPreview(passed) \in PreviewRow /\ NewPreview(passed).st = "active"
        /\ NewPreview(passed).booked = FALSE
    BY DEF NewPreview, PreviewRow, PreviewState
  <2>3. Files(sig)
    BY <2>1, <2>2 DEF Files
  <2>4. \A s \in DOMAIN previews \cup {sig} : previews'[s] \in PreviewRow
    BY <2>1, <2>2 DEF BTypeOK, PreviewsTypeOK
  <2>5. previews' \in [DOMAIN previews' -> PreviewRow] /\ DOMAIN previews' \subseteq Signature
    BY <1>2, <2>1, <2>4 DEF BTypeOK, PreviewsTypeOK
  <2> QED
    BY <1>3, <2>3, <2>5 DEF PreviewsTypeOK
<1> QED
  BY <1>2, <1>3, <1>4

Ledger == BTypeOK /\ HasLatest /\ TombstonesHold /\ ActiveUnbooked

LEMMA SettlesRevises ==
  ASSUME BTypeOK, ActiveUnbooked, NEW s \in DOMAIN previews, Settles(s, "invalidated"),
         previews[s].st = "active", UNCHANGED keeper
  PROVE  Revises
<1>1. "invalidated" \in PreviewState
  BY DEF PreviewState
<1>2. previews \in [DOMAIN previews -> PreviewRow] /\ keeper \in [Keepers -> Keeper]
  BY DEF BTypeOK, PreviewsTypeOK
<1>3. /\ DOMAIN previews' = DOMAIN previews
      /\ previews' \in [DOMAIN previews -> PreviewRow]
      /\ previews'[s].st = "invalidated"
      /\ previews'[s].booked = previews[s].booked
      /\ \A t \in DOMAIN previews : t # s => previews'[t] = previews[t]
  BY <1>1, <1>2, SettlesTyped
<1> QED
  BY <1>2, <1>3 DEF Revises, RowLasts, ActiveUnbooked

LEMMA SameRevises ==
  ASSUME BTypeOK, ActiveUnbooked, UNCHANGED previews, keeper' \in [Keepers -> Keeper]
  PROVE  Revises
  BY DEF BTypeOK, PreviewsTypeOK, ActiveUnbooked, Revises, RowLasts

LEMMA BookRevises ==
  ASSUME BTypeOK, ActiveUnbooked, NEW k \in Keepers, WriteReceipt(k)
  PROVE  Revises
<1> DEFINE s == keeper[k].sig
<1>1. previews \in [DOMAIN previews -> PreviewRow] /\ keeper' \in [Keepers -> Keeper]
  BY GoesTyped DEF WriteReceipt, BTypeOK, PreviewsTypeOK
<1>2. CASE s \in DOMAIN previews /\ previews[s].st = "applied"
  <2>1. previews' = [previews EXCEPT ![s] = [previews[s] EXCEPT !.booked = TRUE]]
    BY <1>2 DEF WriteReceipt, Book
  <2>2. /\ [previews[s] EXCEPT !.booked = TRUE] \in PreviewRow
        /\ [previews[s] EXCEPT !.booked = TRUE].st = "applied"
        /\ [previews[s] EXCEPT !.booked = TRUE].passed = previews[s].passed
    BY <1>1, <1>2 DEF PreviewRow
  <2>3. /\ DOMAIN previews' = DOMAIN previews
        /\ previews' \in [DOMAIN previews -> PreviewRow]
        /\ previews'[s].st = "applied" /\ previews'[s].passed = previews[s].passed
        /\ \A t \in DOMAIN previews : t # s => previews'[t] = previews[t]
    BY <1>1, <1>2, <2>1, <2>2
  <2> QED
    BY <1>1, <1>2, <2>3 DEF Revises, RowLasts, ActiveUnbooked
<1>3. CASE ~(s \in DOMAIN previews /\ previews[s].st = "applied")
  <2>1. previews' = previews
    BY <1>1, <1>3 DEF WriteReceipt, Book
  <2> QED
    BY <1>1, <2>1, SameRevises
<1> QED
  BY <1>2, <1>3

LEMMA DraftRevises ==
  ASSUME BTypeOK, ActiveUnbooked, NEW k \in Keepers, Drafts(k),
         ~\E v \in Reviews, after \in Candidates(keeper[k].read), passed \in BOOLEAN :
            StoreMaintenance(k, v, after, passed)
  PROVE  Revises
<1>1. /\ keeper \in [Keepers -> Keeper] /\ graph \in Graphs /\ {} \in Graphs
      /\ DOMAIN previews \subseteq Signature
  BY DEF BTypeOK, TypeOK, PreviewsTypeOK, Graphs
<1>2. CASE BeginMaintenance(k)
  BY <1>1, <1>2, KeepsTyped, SameRevises DEF BeginMaintenance, KeeperPc
<1>3. CASE MaintenanceFails(k)
  BY <1>1, <1>3, GoesTyped, SameRevises DEF MaintenanceFails
<1>4. ASSUME NEW s \in DOMAIN previews, ApplyConflicts(k, s)
      PROVE  Revises
  BY <1>4, SettlesRevises DEF ApplyConflicts
<1>5. ASSUME NEW s \in DOMAIN previews, ApplyAnswersAgain(k, s)
      PROVE  Revises
  BY <1>1, <1>5, KeepsTyped, SameRevises DEF ApplyAnswersAgain, KeeperPc
<1>6. CASE ReadReceipt(k)
  <2>1. keeper[k].sig \in Signature \cup {None}
    BY <1>1 DEF Keeper
  <2> QED
    BY <1>1, <1>6, <2>1, KeepsTyped, GoesTyped, SameRevises DEF ReadReceipt, KeeperPc
<1> QED
  BY <1>2, <1>3, <1>4, <1>5, <1>6, BookRevises DEF Drafts

LEMMA ApplyRevises ==
  ASSUME BTypeOK, ActiveUnbooked, NEW k \in Keepers, NEW s \in DOMAIN previews,
         ApplyMaintenance(k, s)
  PROVE  /\ Revises
         /\ previews[s].st = "active" /\ previews'[s].st = "applied"
         /\ \A t \in DOMAIN previews : t # s =>
              (previews'[t].st = "applied" <=> previews[t].st = "applied")
<1>1. /\ keeper \in [Keepers -> Keeper] /\ {} \in Graphs
      /\ DOMAIN previews \subseteq Signature
      /\ previews \in [DOMAIN previews -> PreviewRow]
  BY DEF BTypeOK, PreviewsTypeOK, Graphs
<1>2. keeper' \in [Keepers -> Keeper]
  BY <1>1, KeepsTyped DEF ApplyMaintenance, KeeperPc
<1>3. ASSUME NEW t \in DOMAIN previews, NEW st \in {"applied", "invalidated"}
      PROVE  /\ [previews[t] EXCEPT !.st = st] \in PreviewRow
             /\ [previews[t] EXCEPT !.st = st].st = st
             /\ [previews[t] EXCEPT !.st = st].booked = previews[t].booked
  BY <1>1 DEF PreviewRow, PreviewState
<1>4. /\ DOMAIN previews' = DOMAIN previews
      /\ \A t \in DOMAIN previews :
           previews'[t] = IF t = s THEN [previews[t] EXCEPT !.st = "applied"]
                          ELSE IF previews[t].st = "active"
                               THEN [previews[t] EXCEPT !.st = "invalidated"]
                               ELSE previews[t]
      /\ previews' = [t \in DOMAIN previews |-> previews'[t]]
  BY DEF ApplyMaintenance
<1>5. previews' \in [DOMAIN previews -> PreviewRow]
  BY <1>1, <1>3, <1>4
<1>6. previews[s].st = "active"
  BY DEF ApplyMaintenance
<1>7. /\ previews'[s].st = "applied" /\ previews'[s].booked = previews[s].booked
      /\ \A t \in DOMAIN previews : t # s =>
           \/ previews[t].st # "active" /\ previews'[t] = previews[t]
           \/ /\ previews[t].st = "active" /\ previews'[t].st = "invalidated"
              /\ previews'[t].booked = previews[t].booked
  BY <1>3, <1>4
<1> QED
  BY <1>2, <1>4, <1>5, <1>6, <1>7 DEF Revises, RowLasts, ActiveUnbooked

LEMMA RollbackRevises ==
  ASSUME BTypeOK, ActiveUnbooked, NEW s \in DOMAIN previews, RollbackMaintenance(s)
  PROVE  /\ Revises
         /\ previews[s].st = "applied" /\ previews'[s].st = "rolled_back"
         /\ \A t \in DOMAIN previews : t # s => previews'[t] = previews[t]
<1>1. "rolled_back" \in PreviewState
  BY DEF PreviewState
<1>2. previews \in [DOMAIN previews -> PreviewRow] /\ keeper \in [Keepers -> Keeper]
  BY DEF BTypeOK, PreviewsTypeOK
<1>3. Settles(s, "rolled_back") /\ previews[s].st = "applied" /\ UNCHANGED keeper
  BY DEF RollbackMaintenance
<1>4. /\ DOMAIN previews' = DOMAIN previews
      /\ previews' \in [DOMAIN previews -> PreviewRow]
      /\ previews'[s].st = "rolled_back" /\ previews'[s].passed = previews[s].passed
      /\ previews'[s].booked = previews[s].booked
      /\ \A t \in DOMAIN previews : t # s => previews'[t] = previews[t]
  BY <1>1, <1>2, <1>3, SettlesTyped
<1> QED
  BY <1>2, <1>3, <1>4 DEF Revises, RowLasts, ActiveUnbooked

(* Cycles stay linked: what a step leaves in place keeps its place, and the*)
(* row a store adds comes after the latest one, which is settled.          *)
LedgerKept == HasLatest' /\ TombstonesHold' /\ ActiveUnbooked'

LEMMA RevisesLedger ==
  ASSUME Ledger, Revises
  PROVE  LedgerKept
<1>1. HasLatest'
  BY DEF Ledger, Revises, HasLatest, SameReview, Latest
<1>2. TombstonesHold'
  BY DEF Ledger, Revises, RowLasts, TombstonesHold
<1>3. ActiveUnbooked'
  BY DEF Revises, ActiveUnbooked
<1> QED
  BY <1>1, <1>2, <1>3 DEF LedgerKept

LEMMA FilesLatest ==
  ASSUME Ledger, NEW sig \in Signature, Files(sig), Succeeds(sig)
  PROVE  HasLatest'
<1> SUFFICES ASSUME NEW v \in Reviews, NEW before \in Graphs, NEW after \in Graphs,
                    SameReview(v, before, after)' # {}
             PROVE  \E s \in SameReview(v, before, after)' :
                      Latest(s, SameReview(v, before, after)')
  BY DEF HasLatest, Latest
<1> DEFINE S == SameReview(v, before, after)
           mine == sig.of = v /\ sig.before = before /\ sig.after = after
<1>0. \A s \in S : s \in Signature
  BY DEF SameReview, Ledger, BTypeOK, PreviewsTypeOK
<1>1. CASE ~mine
  <2>1. S' = S
    BY <1>1 DEF Files, SameReview
  <2>2. \E s \in S : Latest(s, S)
    BY <2>1 DEF Ledger, HasLatest
  <2> QED
    BY <2>1, <2>2
<1>2. CASE mine
  <2>1. S' = S \cup {sig}
    BY <1>2 DEF Files, SameReview
  <2>2. CASE S = {}
    <3>1. Latest(sig, {sig})
      BY DEF Latest, Signature
    <3> QED
      BY <2>1, <2>2, <3>1
  <2>3. CASE S # {}
    <3>1. PICK s \in S : /\ Latest(s, S)
                         /\ sig.cycle = IF previews[s].st = "active"
                                        THEN s.cycle ELSE s.cycle + 1
      BY <1>2, <2>3 DEF Succeeds
    <3>2. sig.cycle \in Nat /\ s.cycle \in Nat /\ s.cycle <= sig.cycle
      BY <1>0, <3>1 DEF Signature
    <3>3. \A t \in S : t.cycle \in Nat /\ t.cycle <= s.cycle
      BY <1>0, <3>1 DEF Latest, Signature
    <3> HIDE DEF S
    <3>4. \A t \in S \cup {sig} : t.cycle <= sig.cycle
      BY <3>2, <3>3
    <3>5. Latest(sig, S \cup {sig})
      BY <3>4 DEF Latest
    <3> QED
      BY <2>1, <3>5 DEF S
  <2> QED
    BY <2>2, <2>3
<1> QED
  BY <1>1, <1>2

(* The row of a review in another cycle.                                   *)
LEMMA OtherCycle ==
  ASSUME NEW s \in Signature, NEW n \in Nat \ {0}
  PROVE  LET t == [s EXCEPT !.cycle = n] IN
         /\ t \in Signature
         /\ t.of = s.of /\ t.before = s.before /\ t.after = s.after /\ t.cycle = n
         /\ \A r \in Signature :
              r.of = s.of /\ r.before = s.before /\ r.after = s.after /\ r.cycle = n
                => r = t
  BY DEF Signature

LEMMA FilesTombstones ==
  ASSUME Ledger, NEW sig \in Signature, Files(sig), Succeeds(sig)
  PROVE  TombstonesHold'
<1> SUFFICES ASSUME NEW s \in DOMAIN previews', NEW n \in 1..(s.cycle - 1)
             PROVE  LET t == [s EXCEPT !.cycle = n] IN
                    t \in DOMAIN previews' /\ previews'[t].st # "active"
  BY DEF TombstonesHold
<1> DEFINE t == [s EXCEPT !.cycle = n]
<1>0. DOMAIN previews \subseteq Signature
  BY DEF Ledger, BTypeOK, PreviewsTypeOK
<1>1. s \in Signature /\ n \in Nat \ {0} /\ n < s.cycle
  BY <1>0 DEF Files, Signature
<1>2. /\ t \in Signature /\ t.cycle = n
      /\ t.of = s.of /\ t.before = s.before /\ t.after = s.after
  BY <1>1, OtherCycle
<1>3. \A r \in Signature :
        r.of = s.of /\ r.before = s.before /\ r.after = s.after /\ r.cycle = n => r = t
  BY <1>1, OtherCycle
<1>4. SUFFICES t \in DOMAIN previews /\ previews[t].st # "active"
  BY DEF Files
<1>5. CASE s \in DOMAIN previews
  BY <1>5 DEF Ledger, TombstonesHold
<1>6. CASE s = sig
  <2> DEFINE S == SameReview(sig.of, sig.before, sig.after)
  <2>1. S # {}
    BY <1>1, <1>6 DEF Succeeds
  <2>2. PICK r \in S : sig.cycle = IF previews[r].st = "active"
                                   THEN r.cycle ELSE r.cycle + 1
    BY <2>1 DEF Succeeds
  <2>3. /\ r \in DOMAIN previews /\ r \in Signature
        /\ r.of = s.of /\ r.before = s.before /\ r.after = s.after
    BY <1>0, <1>6 DEF SameReview
  <2>4. CASE n = r.cycle
    <3>1. t = r
      BY <1>3, <2>3, <2>4
    <3>2. previews[r].st # "active"
      BY <1>1, <1>6, <2>2, <2>4
    <3> QED
      BY <2>3, <3>1, <3>2
  <2>5. CASE n # r.cycle
    <3>1. r.cycle \in Nat /\ n \in 1..(r.cycle - 1)
      BY <1>1, <1>6, <2>2, <2>3, <2>5 DEF Signature
    <3>2. LET q == [r EXCEPT !.cycle = n] IN
          q \in DOMAIN previews /\ previews[q].st # "active"
      BY <2>3, <3>1 DEF Ledger, TombstonesHold
    <3>3. [r EXCEPT !.cycle = n] = t
      <4> DEFINE q == [r EXCEPT !.cycle = n]
      <4>1. /\ q \in Signature /\ q.cycle = n
            /\ q.of = r.of /\ q.before = r.before /\ q.after = r.after
        BY <1>1, <2>3, OtherCycle
      <4> QED
        BY <1>3, <2>3, <4>1
    <3> QED
      BY <3>2, <3>3
  <2> QED
    BY <2>4, <2>5
<1> QED
  BY <1>5, <1>6 DEF Files

LEMMA FilesLedger ==
  ASSUME Ledger, NEW sig \in Signature, Files(sig), Succeeds(sig)
  PROVE  LedgerKept /\ \A s \in DOMAIN previews : RowLasts(s)
<1>1. ActiveUnbooked'
  BY DEF Ledger, ActiveUnbooked, Files
<1>2. \A s \in DOMAIN previews : RowLasts(s)
  BY DEF Files, RowLasts, Ledger, ActiveUnbooked
<1> QED
  BY <1>1, <1>2, FilesLatest, FilesTombstones DEF LedgerKept

-----------------------------------------------------------------------------
(* What any step does to the ledger, and which graphs it takes up: a       *)
(* handler reads the brain, a new row comes from what its handler read, and*)
(* a writer's copy comes from the brain.                                   *)

Smaller(h, g) == \A f \in Facts, i \in Ids : <<f, i>> \in h => <<f, i>> \in g

Moves ==
  /\ \A s \in DOMAIN previews' :
       \/ s \in DOMAIN previews
       \/ Smaller(s.after, s.before) /\ \E k \in Keepers : s.before = keeper[k].read
  /\ \A k \in Keepers : keeper'[k].read \in {keeper[k].read, graph, {}}
  /\ \A w \in Writers :
       \/ writer'[w] \in {writer[w], NoWriter}
       \/ writer'[w].read = graph /\ Smaller(writer'[w].write, graph)

LedgerStep == Moves /\ LedgerKept /\ PreviewsTypeOK' /\ \A s \in DOMAIN previews : RowLasts(s)

LEMMA RevisesStep ==
  ASSUME Ledger, Revises,
         \A k \in Keepers : keeper'[k].read \in {keeper[k].read, graph, {}},
         \A w \in Writers :
           \/ writer'[w] \in {writer[w], NoWriter}
           \/ writer'[w].read = graph /\ Smaller(writer'[w].write, graph)
  PROVE  LedgerStep
<1>1. PreviewsTypeOK' /\ Moves
  BY DEF Ledger, BTypeOK, PreviewsTypeOK, Revises, Moves
<1> QED
  BY <1>1, RevisesLedger DEF LedgerStep, Revises

LEMMA SameLedger ==
  ASSUME Ledger, UNCHANGED previews,
         UNCHANGED keeper \/ keeper' = [k \in Keepers |-> Away],
         \A w \in Writers :
           \/ writer'[w] \in {writer[w], NoWriter}
           \/ writer'[w].read = graph /\ Smaller(writer'[w].write, graph)
  PROVE  LedgerStep
<1>1. keeper' \in [Keepers -> Keeper]
  BY AwayTyped DEF Ledger, BTypeOK, PreviewsTypeOK
<1>2. \A k \in Keepers : keeper'[k].read \in {keeper[k].read, graph, {}}
  BY DEF Away
<1> QED
  BY <1>1, <1>2, SameRevises, RevisesStep DEF Ledger

LEMMA ReadsKept ==
  ASSUME Ledger, NEW k \in Keepers, NEW h, h.read \in {keeper[k].read, graph, {}},
         keeper' = [keeper EXCEPT ![k] = h]
  PROVE  \A j \in Keepers : keeper'[j].read \in {keeper[j].read, graph, {}}
  BY DEF Ledger, BTypeOK, PreviewsTypeOK

LEMMA KeeperReads ==
  ASSUME Ledger, NEW k \in Keepers,
         Drafts(k) \/ \E s \in DOMAIN previews : ApplyMaintenance(k, s)
  PROVE  \A j \in Keepers : keeper'[j].read \in {keeper[j].read, graph, {}}
<1>1. ASSUME NEW pc, NEW read \in {graph, {}}, NEW sig, Keeps(k, pc, read, sig)
      PROVE  \A j \in Keepers : keeper'[j].read \in {keeper[j].read, graph, {}}
  BY <1>1, ReadsKept DEF Keeps
<1>2. ASSUME keeper' = [keeper EXCEPT ![k] = Away]
      PROVE  \A j \in Keepers : keeper'[j].read \in {keeper[j].read, graph, {}}
  BY <1>2, ReadsKept DEF Away
<1>3. ASSUME UNCHANGED keeper
      PROVE  \A j \in Keepers : keeper'[j].read \in {keeper[j].read, graph, {}}
  BY <1>3
<1> QED
  BY <1>1, <1>2, <1>3
     DEF Drafts, BeginMaintenance, MaintenanceFails, StoreMaintenance, ApplyConflicts,
         ApplyAnswersAgain, ReadReceipt, WriteReceipt, ApplyMaintenance

LEMMA DraftStep ==
  ASSUME Ledger, NEW k \in Keepers, Drafts(k), UNCHANGED writer
  PROVE  LedgerStep
<1>1. ASSUME NEW v \in Reviews, NEW after \in Candidates(keeper[k].read),
             NEW passed \in BOOLEAN, StoreMaintenance(k, v, after, passed)
      PROVE  LedgerStep
  <2>1. CASE UNCHANGED previews
    <3>1. keeper' \in [Keepers -> Keeper]
      BY <1>1, StoreFiles DEF Ledger
    <3> QED
      BY <2>1, <3>1, KeeperReads, SameRevises, RevisesStep DEF Ledger
  <2>2. CASE ~UNCHANGED previews
    <3>1. PICK sig \in Signature :
            /\ Files(sig) /\ Succeeds(sig)
            /\ sig.before = keeper[k].read /\ sig.after = after
            /\ PreviewsTypeOK'
      BY <1>1, <2>2, StoreFiles DEF Ledger
    <3>2. Smaller(after, keeper[k].read)
      BY ConstantsAssumption DEF Candidates, Smaller, Contribution
    <3>3. Moves
      BY <3>1, <3>2, KeeperReads DEF Moves, Files
    <3> QED
      BY <3>1, <3>3, FilesLedger DEF LedgerStep
  <2> QED
    BY <2>1, <2>2
<1> QED
  BY <1>1, DraftRevises, KeeperReads, RevisesStep DEF Ledger

LEMMA CopySmaller ==
  ASSUME NEW w \in Writers, NEW g, Copies(w, g)
  PROVE  Smaller(g, graph)
  BY ConstantsAssumption DEF Copies, Smaller, Contribution

LEMMA WriterStep ==
  ASSUME Ledger, NEW w \in Writers,
         Store(w) \/ \E g : Copies(w, g)
  PROVE  LedgerStep
<1>1. ASSUME Store(w)
      PROVE  LedgerStep
  <2>1. \A v \in Writers : writer'[v] \in {writer[v], NoWriter}
    BY <1>1 DEF Store, Ledger, BTypeOK
  <2> QED
    BY <1>1, <2>1, SameLedger DEF Store, mvars
<1>2. ASSUME NEW g, Copies(w, g)
      PROVE  LedgerStep
  <2>1. \A v \in Writers :
          \/ writer'[v] = writer[v]
          \/ writer'[v].read = graph /\ writer'[v].write = g
    BY <1>2 DEF Copies, Read, Ledger, BTypeOK
  <2> QED
    BY <1>2, <2>1, CopySmaller, SameLedger DEF Copies, Read, mvars
<1> QED
  BY <1>1, <1>2

LEMMA NextLedger ==
  ASSUME Ledger, BNext
  PROVE  LedgerStep
<1>1. CASE UNCHANGED <<mvars, writer>>
  BY <1>1, SameLedger DEF mvars
<1>2. CASE BCrash
  BY <1>2, SameLedger DEF BCrash, MCrash
<1>3. ASSUME NEW k \in Keepers, NEW s \in DOMAIN previews,
             ApplyMaintenance(k, s), UNCHANGED writer
      PROVE  LedgerStep
  BY <1>3, ApplyRevises, KeeperReads, RevisesStep DEF Ledger
<1>4. ASSUME NEW s \in DOMAIN previews, RollbackMaintenance(s), UNCHANGED writer
      PROVE  LedgerStep
  BY <1>4, RollbackRevises, RevisesStep DEF Ledger, RollbackMaintenance
<1> QED
  BY <1>1, <1>2, <1>3, <1>4, DraftStep, WriterStep, StepCases

(* A step that is not Grow's leaves Grow's table, and the brain it leaves  *)
(* is the old one, a preview's or a writer's copy.                         *)
Replaces ==
  /\ UNCHANGED <<rows, handler, now, acked>>
  /\ edits' \in {edits, edits + 1}
  /\ \/ graph' = graph
     \/ \E s \in DOMAIN previews : graph' \in {s.before, s.after}
     \/ \E w \in Writers : graph' = writer[w].write

LEMMA DraftReplaces ==
  ASSUME NEW k \in Keepers, Drafts(k)
  PROVE  Replaces /\ graph' = graph
  BY DEF Drafts, BeginMaintenance, MaintenanceFails, StoreMaintenance, ApplyConflicts,
         ApplyAnswersAgain, ReadReceipt, WriteReceipt, Replaces, vars

LEMMA NextReplaces ==
  ASSUME BNext
  PROVE  (GrowStep /\ UNCHANGED previews) \/ Replaces
<1>1. ASSUME NEW k \in Keepers, NEW s \in DOMAIN previews, ApplyMaintenance(k, s)
      PROVE  Replaces
  BY <1>1 DEF ApplyMaintenance, Replaces
<1>2. ASSUME NEW s \in DOMAIN previews, RollbackMaintenance(s)
      PROVE  Replaces
  BY <1>2 DEF RollbackMaintenance, Replaces
<1>3. ASSUME NEW w \in Writers, Store(w) \/ \E g : Copies(w, g)
      PROVE  Replaces
  BY <1>3 DEF Store, Copies, Read, Replaces
<1>4. CASE BCrash
  BY <1>4 DEF BCrash, MCrash, GrowStep
<1> QED
  BY <1>1, <1>2, <1>3, <1>4, DraftReplaces, StepCases DEF GrowStep, mvars

LEMMA WriterTyped ==
  ASSUME BTypeOK, BNext
  PROVE  writer' \in [Writers -> Writer]
<1>1. ASSUME NEW w \in Writers, NEW g, Copies(w, g)
      PROVE  writer' \in [Writers -> Writer]
  <2>1. graph \in Graphs
    BY DEF BTypeOK, TypeOK
  <2>2. g \in Graphs
    BY <1>1, <2>1 DEF Copies, Graphs, Contribution
  <2>3. [busy |-> TRUE, read |-> graph, write |-> g] \in Writer
    BY <2>1, <2>2 DEF Writer
  <2> QED
    BY <1>1, <2>3 DEF Copies, Read, BTypeOK
<1>2. ASSUME NEW w \in Writers, Store(w)
      PROVE  writer' \in [Writers -> Writer]
  BY <1>2, AwayTyped DEF Store, BTypeOK
<1>3. CASE BCrash
  BY <1>3, AwayTyped DEF BCrash
<1>4. CASE UNCHANGED writer
  BY <1>4 DEF BTypeOK
<1> QED
  BY <1>1, <1>2, <1>3, <1>4, StepCases

LEMMA NextBTyped ==
  ASSUME Ledger, BNext
  PROVE  BTypeOK'
<1>1. TypeOK /\ PreviewsTypeOK /\ writer \in [Writers -> Writer]
  BY DEF Ledger, BTypeOK
<1>2. CASE GrowStep
  BY <1>1, <1>2, GrowSteps, NextTyped, NextLedger, WriterTyped DEF Ledger, LedgerStep, BTypeOK
<1>3. CASE Replaces
  <2>1. \A s \in DOMAIN previews : s.before \in Graphs /\ s.after \in Graphs
    BY <1>1 DEF PreviewsTypeOK, Signature
  <2>2. \A w \in Writers : writer[w].write \in Graphs
    BY <1>1 DEF Writer
  <2>3. graph' \in Graphs /\ edits' \in Nat
    BY <1>1, <1>3, <2>1, <2>2 DEF Replaces, TypeOK
  <2>4. TypeOK'
    BY <1>1, <1>3, <2>3 DEF Replaces, TypeOK
  <2> QED
    BY <2>4, NextLedger, WriterTyped DEF Ledger, LedgerStep, BTypeOK
<1> QED
  BY <1>2, <1>3, NextReplaces

LEMMA InitLedger == BInit => Ledger
<1> SUFFICES ASSUME BInit
             PROVE  Ledger
  OBVIOUS
<1>1. TypeOK /\ writer \in [Writers -> Writer] /\ keeper \in [Keepers -> Keeper]
  BY InitTyped, AwayTyped DEF BInit, MInit
<1>2. DOMAIN previews = {} /\ previews \in [DOMAIN previews -> PreviewRow]
  BY DEF BInit, MInit
<1> QED
  BY <1>1, <1>2 DEF Ledger, BTypeOK, PreviewsTypeOK, HasLatest, SameReview, TombstonesHold,
                    ActiveUnbooked

LEMMA StutterLedger == Ledger /\ UNCHANGED bvars => Ledger'
  BY DEF Ledger, BTypeOK, TypeOK, PreviewsTypeOK, HasLatest, SameReview, TombstonesHold,
         ActiveUnbooked, bvars, vars, mvars, Latest

LEMMA LedgerAlways == BSpec => []Ledger
<1>1. Ledger /\ [BNext]_bvars => Ledger'
  BY NextLedger, NextBTyped, StutterLedger DEF LedgerStep, LedgerKept, Ledger
<1> QED
  BY <1>1, InitLedger, PTL DEF BSpec

(* Rows and handlers of Maintain keep their shape.                         *)
THEOREM PreviewsTyped == BSpec => []PreviewsTypeOK
<1>1. Ledger => PreviewsTypeOK
  BY DEF Ledger, BTypeOK
<1> QED
  BY <1>1, LedgerAlways, PTL

(* A settled review is never applicable again, however often it is repeated*)
THEOREM TombstonesAlwaysHold == BSpec => []TombstonesHold
<1>1. Ledger => TombstonesHold
  BY DEF Ledger
<1> QED
  BY <1>1, LedgerAlways, PTL

(* No row of the ledger is lost, revived or rewritten, and no bookkeeping  *)
(* reaches a row that was rolled back in the meantime.                     *)
THEOREM PreviewsStay == BSpec => PreviewsPermanent
<1>1. Ledger /\ [BNext]_bvars => [\A s \in DOMAIN previews : RowLasts(s)]_<<previews, keeper>>
  BY NextLedger DEF LedgerStep, bvars, mvars
<1>2. BSpec => [][\A s \in DOMAIN previews : RowLasts(s)]_<<previews, keeper>>
  BY <1>1, LedgerAlways, PTL DEF BSpec
<1> QED
  BY <1>2 DEF PreviewsPermanent, RowLasts

-----------------------------------------------------------------------------
(* Whatever graph is in the brain, in a snapshot, in a preview or in a     *)
(* request's hands, what it holds in Grow's name has a receipt. FromAnApply*)
(* says so of the brain alone, and any of the others may become the brain. *)

Receipted(r, g) ==
  \A f \in Facts, i \in Ids :
    <<f, i>> \in g => r[i].st \in Applied /\ <<f, i>> \in r[i].after

KnownBrain ==
  /\ Receipted(rows, graph)
  /\ \A i \in Ids : rows[i].st \in Applied => Receipted(rows, rows[i].before)

KnownCopies ==
  /\ \A s \in DOMAIN previews : Receipted(rows, s.before) /\ Smaller(s.after, s.before)
  /\ \A k \in Keepers : Receipted(rows, keeper[k].read)
  /\ \A w \in Writers : /\ Receipted(rows, writer[w].read)
                        /\ Smaller(writer[w].write, writer[w].read)

(* The snapshots are exact only together with the acknowledgements.        *)
Receipts == SnapshotsExact /\ AckedMatchesReceipt

BInv == Ledger /\ KnownBrain /\ KnownCopies /\ Receipts

(* A receipt lasts.                                                        *)
ReceiptsLast ==
  \A i \in Ids : rows[i].st \in Applied =>
    /\ rows'[i].st \in Applied
    /\ rows'[i].before = rows[i].before /\ rows'[i].after = rows[i].after

LEMMA NextLast ==
  ASSUME TypeOK, Next
  PROVE  ReceiptsLast
<1> SUFFICES ASSUME NEW i \in Ids, rows[i].st \in Applied
             PROVE  /\ rows'[i].st \in Applied
                    /\ rows'[i].before = rows[i].before /\ rows'[i].after = rows[i].after
  BY DEF ReceiptsLast
<1>1. rows[i] \in Row
  BY DEF TypeOK
<1>2. /\ rows'[i] = [rows[i] EXCEPT !.st = rows'[i].st]
      /\ rows'[i].st # rows[i].st => rows'[i].st = "rolled_back"
  BY NextStays DEF SettledStays, Settled, Applied
<1> QED
  BY <1>1, <1>2 DEF Row, Applied

LEMMA ReceiptedLasts ==
  ASSUME ReceiptsLast, NEW g, Receipted(rows, g)
  PROVE  Receipted(rows', g)
  BY DEF ReceiptsLast, Receipted

LEMMA SmallerReceipted ==
  ASSUME NEW r, NEW g, NEW h, Receipted(r, g), Smaller(h, g)
  PROVE  Receipted(r, h)
  BY DEF Receipted, Smaller

LEMMA CopiesKept ==
  ASSUME KnownBrain, KnownCopies, ReceiptsLast, Moves
  PROVE  KnownCopies'
<1>1. Receipted(rows', {}) /\ Smaller({}, {})
  BY DEF Receipted, Smaller
<1>2. Receipted(rows', graph)
  BY ReceiptedLasts DEF KnownBrain
<1>3. \A k \in Keepers : Receipted(rows', keeper[k].read)
  BY ReceiptedLasts DEF KnownCopies
<1>4. ASSUME NEW s \in DOMAIN previews'
      PROVE  Receipted(rows', s.before) /\ Smaller(s.after, s.before)
  <2>1. CASE s \in DOMAIN previews
    BY <2>1, ReceiptedLasts DEF KnownCopies
  <2>2. CASE s \notin DOMAIN previews
    BY <1>3, <2>2 DEF Moves
  <2> QED
    BY <2>1, <2>2
<1>5. ASSUME NEW k \in Keepers
      PROVE  Receipted(rows', keeper'[k].read)
  BY <1>1, <1>2, <1>3 DEF Moves
<1>6. ASSUME NEW w \in Writers
      PROVE  /\ Receipted(rows', writer'[w].read)
             /\ Smaller(writer'[w].write, writer'[w].read)
  <2>1. CASE writer'[w] = writer[w]
    BY <2>1, ReceiptedLasts DEF KnownCopies
  <2>2. CASE writer'[w] = NoWriter
    BY <1>1, <2>2 DEF NoWriter
  <2>3. CASE writer'[w].read = graph /\ Smaller(writer'[w].write, graph)
    BY <1>2, <2>3
  <2> QED
    BY <2>1, <2>2, <2>3 DEF Moves
<1> QED
  BY <1>4, <1>5, <1>6 DEF KnownCopies, Receipted, Smaller

(* Grow's own steps: one puts its contribution next to what was there and  *)
(* names the result in its receipt, one puts a snapshot back, the others   *)
(* add nothing.                                                            *)
LEMMA GrowKnown ==
  ASSUME TypeOK, KnownBrain, Next
  PROVE  KnownBrain'
<1>1. ReceiptsLast
  BY NextLast
<1>2. ASSUME NEW c \in Clients, NEW P \in Offers, ApplyCommits(c, P)
      PROVE  KnownBrain'
  <2> DEFINE i == handler[c].id
  <2>1. /\ i \in Ids
        /\ graph' = graph \cup Contribution(i, P)
        /\ rows'[i].st = "consumed"
        /\ rows'[i].before = graph /\ rows'[i].after = graph'
        /\ \A j \in Ids : j # i => rows'[j] = Superseded(rows[j])
    BY <1>2, CommitWrites
  <2>2. Receipted(rows', graph)
    BY <1>1, ReceiptedLasts DEF KnownBrain
  <2>3. Receipted(rows', graph')
    BY <2>1, <2>2 DEF Receipted, Contribution, Applied
  <2>4. ASSUME NEW j \in Ids, rows'[j].st \in Applied
        PROVE  Receipted(rows', rows'[j].before)
    <3>1. CASE j = i
      BY <2>1, <2>2, <3>1
    <3>2. CASE j # i
      <4>1. rows'[j] = rows[j]
        BY <2>1, <2>4, <3>2, SupersededKeeps
      <4> QED
        BY <1>1, <2>4, <4>1, ReceiptedLasts DEF KnownBrain
    <3> QED
      BY <3>1, <3>2
  <2> QED
    BY <2>3, <2>4 DEF KnownBrain, Receipted
<1>3. ASSUME NEW i \in Ids, Rollback(i)
      PROVE  KnownBrain'
  <2>1. /\ rows[i].st = "consumed" /\ graph' = rows[i].before
        /\ rows'[i].before = rows[i].before
        /\ \A j \in Ids : j # i => rows'[j] = rows[j]
    BY <1>3, RollbackWrites
  <2>2. \A j \in Ids : rows'[j].st \in Applied => rows[j].st \in Applied
    BY <2>1 DEF Applied
  <2>3. \A j \in Ids : rows'[j].before = rows[j].before
    BY <2>1
  <2>4. \A j \in Ids : rows[j].st \in Applied => Receipted(rows', rows[j].before)
    BY <1>1, ReceiptedLasts DEF KnownBrain
  <2> QED
    BY <2>1, <2>2, <2>3, <2>4 DEF KnownBrain, Receipted, Applied
<1>4. ASSUME \A c \in Clients, P \in Offers : ~ApplyCommits(c, P),
             \A i \in Ids : ~Rollback(i)
      PROVE  KnownBrain'
  <2>1. KeepsSettled
    BY <1>4, OthersKeep
  <2>2. Smaller(graph', graph)
    <3>1. CASE \A c \in Clients : ~ApplyReplays(c)
      BY <1>4, <3>1, OthersQuiet DEF Smaller
    <3>2. ASSUME NEW c \in Clients, ApplyReplays(c)
          PROVE  Smaller(graph', graph)
      BY <3>2 DEF ApplyReplays, Smaller
    <3> QED
      BY <3>1, <3>2
  <2>3. Receipted(rows', graph')
    BY <1>1, <2>2, ReceiptedLasts, SmallerReceipted DEF KnownBrain
  <2>4. \A j \in Ids : rows'[j].st \in Applied => Receipted(rows', rows'[j].before)
    BY <1>1, <2>1, ReceiptedLasts DEF KnownBrain, KeepsSettled
  <2> QED
    BY <2>3, <2>4 DEF KnownBrain, Receipted
<1> QED
  BY <1>2, <1>3, <1>4

LEMMA ReplacesKnown ==
  ASSUME KnownBrain, KnownCopies, Replaces
  PROVE  KnownBrain'
<1>1. Receipted(rows, graph')
  BY SmallerReceipted DEF Replaces, KnownBrain, KnownCopies
<1> QED
  BY <1>1 DEF KnownBrain, Replaces, Receipted

LEMMA NextReceipted ==
  ASSUME BInv, BNext
  PROVE  KnownBrain' /\ KnownCopies' /\ Receipts' /\ ReceiptsLast
<1> USE DEF BInv
<1>1. TypeOK /\ Moves
  BY NextLedger DEF Ledger, BTypeOK, LedgerStep
<1>2. CASE GrowStep
  <2>1. Next /\ ReceiptsLast
    BY <1>1, <1>2, GrowSteps, NextLast
  <2>2. \A i \in Ids : rows[i].st = "active" => graph \cap Contribution(i, Facts) = {}
    BY DEF KnownBrain, Receipted, Contribution, Applied
  <2>3. Receipts'
    BY <1>1, <2>1, <2>2, NextReceipts DEF Receipts
  <2> QED
    BY <1>1, <2>1, <2>3, GrowKnown, CopiesKept
<1>3. CASE Replaces
  <2>1. ReceiptsLast
    BY <1>3 DEF Replaces, ReceiptsLast
  <2>2. Receipts'
    BY <1>3 DEF Replaces, Receipts, SnapshotsExact, AckedMatchesReceipt, Contribution
  <2> QED
    BY <1>1, <1>3, <2>1, <2>2, ReplacesKnown, CopiesKept
<1> QED
  BY <1>2, <1>3, NextReplaces

LEMMA InitKnown == BInit => KnownBrain /\ KnownCopies /\ Receipts
<1> SUFFICES ASSUME BInit
             PROVE  KnownBrain /\ KnownCopies /\ Receipts
  OBVIOUS
<1>1. \A i \in Ids : rows[i].st = "none"
  BY DEF BInit, Init, NoRow
<1>2. \A f \in Facts, i \in Ids : <<f, i>> \notin graph
  BY ConstantsAssumption DEF BInit, Init
<1>3. KnownBrain /\ Receipts
  BY <1>1, <1>2 DEF KnownBrain, Receipted, Receipts, SnapshotsExact, AckedMatchesReceipt,
                    Applied, BInit, Init
<1>4. KnownCopies
  BY DEF BInit, MInit, KnownCopies, Receipted, Smaller, Away, NoWriter
<1> QED
  BY <1>3, <1>4

LEMMA BInvAlways == BSpec => []BInv
<1>1. BInit => BInv
  BY InitLedger, InitKnown DEF BInv
<1>2. BInv /\ [BNext]_bvars => BInv'
  <2>1. CASE BNext
    BY <2>1, NextReceipted, NextLedger, NextBTyped DEF BInv, Ledger, LedgerStep, LedgerKept
  <2>2. CASE UNCHANGED bvars
    BY <2>2, StutterLedger
       DEF BInv, KnownBrain, KnownCopies, Receipts, Receipted, Smaller, SnapshotsExact,
           AckedMatchesReceipt, Contribution, bvars, vars, mvars
  <2> QED
    BY <2>1, <2>2
<1> QED
  BY <1>1, <1>2, PTL DEF BSpec

(* What a receipt names as the brain it left holds of the investigation    *)
(* only what was selected.                                                 *)
LEMMA AfterSelected ==
  ASSUME SnapshotsExact, NEW f \in Facts, NEW i \in Ids,
         rows[i].st \in Applied, <<f, i>> \in rows[i].after
  PROVE  f \in rows[i].sel
  BY DEF SnapshotsExact, Contribution

(* A node in Grow's name comes from an apply that was committed, whatever  *)
(* Maintain and the writers that review nothing have done to the brain.    *)
THEOREM NodesFromApplies == BSpec => []FromAnApply
<1>1. BInv => FromAnApply
  BY AfterSelected DEF BInv, KnownBrain, Receipted, Receipts, FromAnApply
<1> QED
  BY <1>1, BInvAlways, PTL

(* The snapshots of Grow's receipts stay exact next to the other writers.  *)
THEOREM SnapshotsExactForAll == BSpec => []SnapshotsExact
<1>1. BInv => SnapshotsExact
  BY DEF BInv, Receipts
<1> QED
  BY <1>1, BInvAlways, PTL

-----------------------------------------------------------------------------
(* Attributable says that what the brain holds in Grow's name was not      *)
(* rolled back. A maintenance rollback brings nodes back, so it has to be  *)
(* known of those that an applied preview took out: they are not in the    *)
(* brain, nobody else took them out, and their receipt is still applied,   *)
(* for Grow rolls back only with all it contributed in place.              *)

Removes(s, f, i) ==
  previews[s].st = "applied" /\ <<f, i>> \in s.before /\ <<f, i>> \notin s.after

TracedBrain ==
  /\ Attributable
  /\ \A s \in DOMAIN previews, f \in Facts, i \in Ids : Removes(s, f, i) =>
       /\ <<f, i>> \notin graph
       /\ rows[i].st = "consumed"
       /\ \A t \in DOMAIN previews : Removes(t, f, i) => t = s

Traced == ~stale => TracedBrain

(* No preview becomes an applied one.                                      *)
NoneApplied ==
  \A s \in DOMAIN previews' :
    previews'[s].st = "applied" => s \in DOMAIN previews /\ previews[s].st = "applied"

LEMMA ShrinksTraced ==
  ASSUME TracedBrain, UNCHANGED rows, NoneApplied, Smaller(graph', graph)
  PROVE  TracedBrain'
<1>1. Attributable'
  BY DEF TracedBrain, Attributable, Smaller
<1>2. \A s \in DOMAIN previews', f \in Facts, i \in Ids :
        Removes(s, f, i)' => s \in DOMAIN previews /\ Removes(s, f, i)
  BY DEF Removes, NoneApplied
<1> QED
  BY <1>1, <1>2 DEF TracedBrain, Smaller

LEMMA GrowTraced ==
  ASSUME BInv, TracedBrain, GrowStep, UNCHANGED previews
  PROVE  TracedBrain'
<1>1. TypeOK /\ Next /\ IInv
  BY GrowSteps DEF BInv, Ledger, BTypeOK, TracedBrain, IInv, Receipts
<1>2. Attributable'
  BY <1>1, NextSafe DEF Safe
<1>3. \A s \in DOMAIN previews, f \in Facts, i \in Ids : Removes(s, f, i)' <=> Removes(s, f, i)
  BY DEF Removes
<1>4. SUFFICES ASSUME NEW s \in DOMAIN previews, NEW f \in Facts, NEW i \in Ids,
                      Removes(s, f, i)
               PROVE  <<f, i>> \notin graph' /\ rows'[i].st = "consumed"
  BY <1>2, <1>3 DEF TracedBrain
<1>5. <<f, i>> \notin graph /\ rows[i].st = "consumed"
  BY <1>4 DEF TracedBrain
<1>6. ASSUME NEW c \in Clients, NEW P \in Offers, ApplyCommits(c, P)
      PROVE  <<f, i>> \notin graph' /\ rows'[i].st = "consumed"
  <2>1. /\ rows[handler[c].id].st = "active"
        /\ graph' = graph \cup Contribution(handler[c].id, P)
        /\ \A j \in Ids : j # handler[c].id => rows'[j] = Superseded(rows[j])
    BY <1>1, <1>6, CommitWrites
  <2>2. i # handler[c].id
    BY <1>5, <2>1
  <2>3. rows'[i] = rows[i]
    BY <1>1, <1>5, <2>1, <2>2, SupersededKeeps DEF Settled
  <2> QED
    BY <1>5, <2>1, <2>2, <2>3 DEF Contribution
<1>7. ASSUME NEW j \in Ids, Rollback(j)
      PROVE  <<f, i>> \notin graph' /\ rows'[i].st = "consumed"
  <2>1. /\ rows[j].st = "consumed" /\ graph = rows[j].after /\ graph' = rows[j].before
        /\ \A k \in Ids : k # j => rows'[k] = rows[k]
    BY <1>1, <1>7, RollbackWrites
  <2>2. <<f, i>> \in rows[i].after
    BY <1>4 DEF Removes, BInv, KnownCopies, Receipted
  <2>3. i # j
    BY <1>5, <2>1, <2>2
  <2>4. rows[j].before \subseteq rows[j].after
    BY <2>1 DEF BInv, Receipts, SnapshotsExact, Applied
  <2> QED
    BY <1>5, <2>1, <2>3, <2>4
<1>8. ASSUME \A c \in Clients, P \in Offers : ~ApplyCommits(c, P),
             \A j \in Ids : ~Rollback(j)
      PROVE  <<f, i>> \notin graph' /\ rows'[i].st = "consumed"
  <2>1. rows'[i] = rows[i]
    BY <1>1, <1>5, <1>8, OthersKeep DEF KeepsSettled, Settled
  <2>2. CASE \A c \in Clients : ~ApplyReplays(c)
    BY <1>1, <1>5, <1>8, <2>1, <2>2, OthersQuiet
  <2>3. ASSUME NEW c \in Clients, ApplyReplays(c)
        PROVE  <<f, i>> \notin graph' /\ rows'[i].st = "consumed"
    BY <1>5, <2>1, <2>3 DEF ApplyReplays
  <2> QED
    BY <2>2, <2>3
<1> QED
  BY <1>6, <1>7, <1>8

LEMMA ApplyTraced ==
  ASSUME BInv, TracedBrain, NEW k \in Keepers, NEW s \in DOMAIN previews,
         ApplyMaintenance(k, s)
  PROVE  TracedBrain'
<1>1. /\ graph = s.before /\ graph' = s.after /\ UNCHANGED rows
      /\ Smaller(s.after, s.before)
  BY DEF ApplyMaintenance, BInv, KnownCopies
<1>2. /\ DOMAIN previews' = DOMAIN previews
      /\ previews[s].st = "active" /\ previews'[s].st = "applied"
      /\ \A t \in DOMAIN previews : t # s =>
           (previews'[t].st = "applied" <=> previews[t].st = "applied")
  BY ApplyRevises DEF BInv, Ledger, Revises
<1>3. Attributable'
  BY <1>1 DEF TracedBrain, Attributable, Smaller
<1>4. \A t \in DOMAIN previews, f \in Facts, i \in Ids :
        t # s => (Removes(t, f, i)' <=> Removes(t, f, i))
  BY <1>2 DEF Removes
<1>5. \A f \in Facts, i \in Ids : Removes(s, f, i)' =>
        <<f, i>> \in graph /\ <<f, i>> \notin graph' /\ rows[i].st = "consumed"
  BY <1>1 DEF Removes, TracedBrain, Attributable
<1>6. \A t \in DOMAIN previews, f \in Facts, i \in Ids : t # s /\ Removes(t, f, i)' =>
        <<f, i>> \notin graph /\ <<f, i>> \notin graph' /\ rows[i].st = "consumed"
  BY <1>1, <1>4 DEF TracedBrain, Smaller
<1>7. ASSUME NEW r \in DOMAIN previews, NEW t \in DOMAIN previews,
             NEW f \in Facts, NEW i \in Ids, Removes(r, f, i)', Removes(t, f, i)'
      PROVE  t = r
  <2>1. CASE r # s /\ t # s
    BY <1>4, <1>7, <2>1 DEF TracedBrain
  <2>2. CASE r = s \/ t = s
    BY <1>5, <1>6, <1>7, <2>2
  <2> QED
    BY <2>1, <2>2
<1>8. \A t \in DOMAIN previews, f \in Facts, i \in Ids : Removes(t, f, i)' =>
        <<f, i>> \notin graph' /\ rows'[i].st = "consumed"
  BY <1>1, <1>5, <1>6
<1> QED
  BY <1>2, <1>3, <1>7, <1>8 DEF TracedBrain

LEMMA RollbackTraced ==
  ASSUME BInv, TracedBrain, NEW s \in DOMAIN previews, RollbackMaintenance(s)
  PROVE  TracedBrain'
<1>1. /\ graph = s.after /\ graph' = s.before /\ UNCHANGED rows
      /\ Receipted(rows, s.before)
  BY DEF RollbackMaintenance, BInv, KnownCopies
<1>2. /\ DOMAIN previews' = DOMAIN previews
      /\ previews[s].st = "applied" /\ previews'[s].st = "rolled_back"
      /\ \A t \in DOMAIN previews : t # s => previews'[t] = previews[t]
  BY RollbackRevises DEF BInv, Ledger, Revises
<1>3. Attributable'
  <2> SUFFICES ASSUME NEW f \in Facts, NEW i \in Ids, <<f, i>> \in graph'
               PROVE  rows[i].st = "consumed" /\ f \in rows[i].sel
    BY <1>1 DEF Attributable
  <2>1. CASE <<f, i>> \in graph
    BY <2>1 DEF TracedBrain, Attributable
  <2>2. CASE <<f, i>> \notin graph
    <3>1. Removes(s, f, i)
      BY <1>1, <1>2, <2>2 DEF Removes
    <3>2. rows[i].st = "consumed"
      BY <3>1 DEF TracedBrain
    <3>3. rows[i].st \in Applied /\ <<f, i>> \in rows[i].after
      BY <1>1 DEF Receipted
    <3> QED
      BY <3>2, <3>3, AfterSelected DEF BInv, Receipts
  <2> QED
    BY <2>1, <2>2
<1>4. \A t \in DOMAIN previews, f \in Facts, i \in Ids :
        Removes(t, f, i)' => t # s /\ Removes(t, f, i)
  BY <1>2 DEF Removes
<1>5. ASSUME NEW t \in DOMAIN previews, NEW f \in Facts, NEW i \in Ids, Removes(t, f, i)'
      PROVE  <<f, i>> \notin graph'
  <2>1. t # s /\ Removes(t, f, i) /\ <<f, i>> \notin graph
    BY <1>4, <1>5 DEF TracedBrain
  <2>2. ~Removes(s, f, i)
    BY <2>1 DEF TracedBrain
  <2> QED
    BY <1>1, <1>2, <2>1, <2>2 DEF Removes
<1> QED
  BY <1>1, <1>2, <1>3, <1>4, <1>5 DEF TracedBrain

LEMMA DraftsApplyNone ==
  ASSUME BInv, NEW k \in Keepers, Drafts(k)
  PROVE  NoneApplied
<1>0. BTypeOK /\ previews \in [DOMAIN previews -> PreviewRow]
  BY DEF BInv, Ledger, BTypeOK, PreviewsTypeOK
<1>1. ASSUME NEW v \in Reviews, NEW after \in Candidates(keeper[k].read),
             NEW passed \in BOOLEAN, StoreMaintenance(k, v, after, passed)
      PROVE  NoneApplied
  <2>1. CASE UNCHANGED previews
    BY <2>1 DEF NoneApplied
  <2>2. ASSUME NEW sig \in Signature, Files(sig)
        PROVE  NoneApplied
    BY <2>2 DEF Files, NoneApplied
  <2> QED
    BY <1>0, <1>1, <2>1, <2>2, StoreFiles DEF BInv, Ledger
<1>2. ASSUME NEW s \in DOMAIN previews, ApplyConflicts(k, s)
      PROVE  NoneApplied
  <2>1. "invalidated" \in PreviewState /\ Settles(s, "invalidated")
    BY <1>2 DEF PreviewState, ApplyConflicts
  <2> QED
    BY <1>0, <2>1, SettlesTyped DEF NoneApplied
<1>3. CASE WriteReceipt(k)
  <2> DEFINE r == keeper[k].sig
  <2>1. \/ previews' = previews
        \/ previews[r].st = "applied" /\ previews' = [previews EXCEPT ![r].booked = TRUE]
    BY <1>3 DEF WriteReceipt, Book
  <2> QED
    BY <1>0, <2>1 DEF NoneApplied, PreviewRow
<1>4. CASE UNCHANGED previews
  BY <1>4 DEF NoneApplied
<1> QED
  BY <1>1, <1>2, <1>3, <1>4
     DEF Drafts, BeginMaintenance, MaintenanceFails, ApplyAnswersAgain, ReadReceipt

LEMMA NextTraced ==
  ASSUME BInv, Traced, BNext
  PROVE  Traced'
<1> SUFFICES ASSUME ~stale'
             PROVE  TracedBrain'
  BY DEF Traced
<1>0. NoneApplied \/ ~UNCHANGED previews
  BY DEF NoneApplied
<1>1. Smaller(graph, graph)
  BY DEF Smaller
<1>2. CASE (Serve \/ Tick \/ \E i \in Ids : Rollback(i)) /\ UNCHANGED <<mvars, writer, stale>>
  BY <1>2, GrowTraced DEF Traced, GrowStep, mvars
<1>3. ASSUME NEW k \in Keepers, Drafts(k) /\ UNCHANGED <<writer, stale>>
      PROVE  TracedBrain'
  BY <1>1, <1>3, DraftsApplyNone, DraftReplaces, ShrinksTraced DEF Traced, Replaces
<1>4. ASSUME NEW k \in Keepers, NEW s \in DOMAIN previews,
             ApplyMaintenance(k, s) /\ UNCHANGED <<writer, stale>>
      PROVE  TracedBrain'
  BY <1>4, ApplyTraced DEF Traced
<1>5. ASSUME NEW s \in DOMAIN previews, RollbackMaintenance(s) /\ UNCHANGED <<writer, stale>>
      PROVE  TracedBrain'
  BY <1>5, RollbackTraced DEF Traced
<1>6. ASSUME NEW w \in Writers, NEW g, Copies(w, g)
      PROVE  TracedBrain'
  BY <1>0, <1>1, <1>6, ShrinksTraced DEF Copies, Read, mvars, Traced
<1>7. ASSUME NEW w \in Writers, Store(w)
      PROVE  TracedBrain'
  <2>1. ~stale /\ graph = writer[w].read /\ graph' = writer[w].write /\ UNCHANGED <<rows, previews>>
    BY <1>7 DEF Store, mvars
  <2>2. Smaller(graph', graph)
    BY <2>1 DEF BInv, KnownCopies
  <2> QED
    BY <1>0, <2>1, <2>2, ShrinksTraced DEF Traced
<1>8. CASE BCrash
  BY <1>8, GrowTraced DEF Traced, GrowStep, BCrash, MCrash
<1> QED
  BY <1>2, <1>3, <1>4, <1>5, <1>6, <1>7, <1>8, StepCases

LEMMA TracedAlways == BSpec => []Traced
<1>1. BInit => Traced
  <2> SUFFICES ASSUME BInit
               PROVE  TracedBrain
    BY DEF Traced
  <2>1. \A f \in Facts, i \in Ids : <<f, i>> \notin graph
    BY ConstantsAssumption DEF BInit, Init
  <2>2. DOMAIN previews = {}
    BY DEF BInit, MInit
  <2> QED
    BY <2>1, <2>2 DEF TracedBrain, Attributable
<1>2. BInv /\ Traced /\ [BNext]_bvars => Traced'
  <2>1. CASE UNCHANGED bvars
    BY <2>1 DEF Traced, TracedBrain, Attributable, Removes, bvars, vars, mvars
  <2> QED
    BY <2>1, NextTraced
<1> QED
  BY <1>1, <1>2, BInvAlways, PTL DEF BSpec

(* Grow and Maintain together keep what Grow keeps alone, unless a writer  *)
(* that compares no revisions stored its copy late.                        *)
THEOREM AttributableWithMaintenance == BSpec => []AttributableUnlessStale
<1>1. Traced => AttributableUnlessStale
  BY DEF Traced, TracedBrain, AttributableUnlessStale
<1> QED
  BY <1>1, TracedAlways, PTL

-----------------------------------------------------------------------------
(* Who may take a Grow contribution out of the brain.                      *)

Excused(i, p) ==
  \/ rows[i].st = "consumed" /\ rows'[i].st = "rolled_back"
  \/ \E s \in DOMAIN previews :
       /\ previews[s].st = "active" /\ previews'[s].st = "applied"
       /\ p \in s.before
  \/ \E w \in Writers : writer[w].busy /\ ~writer'[w].busy

LossesExcused ==
  \A i \in Ids : \A p \in Contribution(i, Facts) : p \in graph \ graph' => Excused(i, p)

LEMMA GrowTakesNothing ==
  ASSUME TypeOK, GrowStep, \A i \in Ids : ~Rollback(i)
  PROVE  graph \subseteq graph'
<1>1. CASE Serve
  <2>1. PICK c \in Clients : Preview(c) \/ Resuming(c) \/ Engine(c) \/ Applying(c)
    BY <1>1 DEF Serve
  <2>2. CASE Applying(c)
    BY <2>2, ApplyingCases, CommitWrites DEF ApplyReplays, ApplyInvalidates
  <2> QED
    BY <2>1, <2>2, PreparingQuiet
<1>2. CASE Tick \/ Crash
  BY <1>2 DEF Tick, Crash
<1> QED
  BY <1>1, <1>2 DEF GrowStep

LEMMA RollbackExcused ==
  ASSUME BInv, NEW j \in Ids, Rollback(j)
  PROVE  LossesExcused
<1>1. /\ rows[j].st = "consumed" /\ graph = rows[j].after /\ graph' = rows[j].before
      /\ rows'[j].st = "rolled_back"
  BY RollbackWrites DEF BInv, Ledger, BTypeOK
<1>2. \E P \in SUBSET rows[j].sel : graph = graph' \cup Contribution(j, P)
  BY <1>1 DEF BInv, Receipts, SnapshotsExact, Applied
<1> QED
  BY <1>1, <1>2 DEF LossesExcused, Excused, Contribution

LEMMA NextExcused ==
  ASSUME BInv, BNext
  PROVE  LossesExcused
<1>1. CASE GrowStep
  <2>1. TypeOK
    BY DEF BInv, Ledger, BTypeOK
  <2> QED
    BY <1>1, <2>1, GrowTakesNothing, RollbackExcused DEF LossesExcused
<1>2. ASSUME NEW k \in Keepers, Drafts(k)
      PROVE  LossesExcused
  BY <1>2, DraftReplaces DEF LossesExcused
<1>3. ASSUME NEW k \in Keepers, NEW s \in DOMAIN previews, ApplyMaintenance(k, s)
      PROVE  LossesExcused
  <2>1. graph = s.before /\ previews[s].st = "active" /\ previews'[s].st = "applied"
    BY <1>3, ApplyRevises DEF ApplyMaintenance, BInv, Ledger
  <2> QED
    BY <2>1 DEF LossesExcused, Excused
<1>4. ASSUME NEW s \in DOMAIN previews, RollbackMaintenance(s)
      PROVE  LossesExcused
  BY <1>4 DEF RollbackMaintenance, BInv, KnownCopies, Smaller, LossesExcused, Contribution
<1>5. ASSUME NEW w \in Writers, NEW g, Copies(w, g)
      PROVE  LossesExcused
  BY <1>5 DEF Copies, Read, LossesExcused
<1>6. ASSUME NEW w \in Writers, Store(w)
      PROVE  LossesExcused
  <2>1. writer[w].busy /\ ~writer'[w].busy
    BY <1>6 DEF Store, NoWriter, BInv, Ledger, BTypeOK
  <2> QED
    BY <2>1 DEF LossesExcused, Excused
<1> QED
  BY <1>1, <1>2, <1>3, <1>4, <1>5, <1>6, StepCases DEF GrowStep, BCrash, MCrash

(* No maintenance rollback, replay or crash takes a Grow contribution away.*)
THEOREM LossesReviewed == BSpec => LostOnlyReviewed
<1>1. BInv /\ [BNext]_bvars => [LossesExcused]_bvars
  BY NextExcused
<1>2. BSpec => [][LossesExcused]_bvars
  BY <1>1, BInvAlways, PTL DEF BSpec
<1> QED
  BY <1>2 DEF LostOnlyReviewed, LossesExcused, Excused
===============================================================================
