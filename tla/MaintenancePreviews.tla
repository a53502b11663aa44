------------------------- MODULE MaintenancePreviews -------------------------
(***************************************************************************)
(* The reviewed previews of Maintain (sleep, evolve): the table            *)
(* maintenance_previews of sqlite_store.py, next to Grow in the same brain. *)
(* The handlers of core_mcp_ops_router.py call a MaintenanceMutationRuntime,*)
(* which reads the graph, proposes a candidate graph, and drives the four   *)
(* store operations below. The runtime this repository installs hands all   *)
(* three calls to the cloud and changes nothing.                            *)
(*                                                                         *)
(* store, apply and rollback are BEGIN IMMEDIATE transactions, one action   *)
(* each; finalize SELECTs and then UPDATEs with no transaction around the   *)
(* two. A refused request changes nothing and has no action.               *)
(***************************************************************************)
EXTENDS GrowStore

CONSTANTS
  Reviews,  \* a mode with a list of proposals (mode, proposal_hash)
  Keepers   \* request handlers that run maintenance

VARIABLES
  previews,    \* maintenance_previews, by preview_signature
  keeper       \* what each maintenance handler holds between its steps

mvars == <<previews, keeper>>

-----------------------------------------------------------------------------
(* A signature: the digest of what was reviewed, and the authority cycle   *)
(* that tells a repeated review from the settled one before it.            *)
Signature == [of : Reviews, before : Graphs, after : Graphs, cycle : Nat \ {0}]

PreviewState == {"active", "applied", "rolled_back", "invalidated"}

\* passed: the report's safety guard; booked: bookkeeping_complete.
PreviewRow == [st : PreviewState, passed : BOOLEAN, booked : BOOLEAN]

NewPreview(passed) == [st |-> "active", passed |-> passed, booked |-> FALSE]

KeeperPc == {"idle", "preview", "applied", "report"}

Keeper == [pc : KeeperPc, read : Graphs, sig : Signature \cup {None}]

Away == [pc |-> "idle", read |-> {}, sig |-> None]

MInit == previews = [s \in {} |-> NewPreview(TRUE)] /\ keeper = [k \in Keepers |-> Away]

Keeps(k, pc, read, sig) ==
  keeper' = [keeper EXCEPT ![k] = [pc |-> pc, read |-> read, sig |-> sig]]

Settles(s, st) == previews' = [previews EXCEPT ![s].st = st]

-----------------------------------------------------------------------------
(* _maintenance_preview fetches the graph and hands it to the runtime. It  *)
(* counts as an edit, so MaxEdits bounds the rows of the table too.        *)
BeginMaintenance(k) ==
  /\ keeper[k].pc = "idle"
  /\ edits < MaxEdits
  /\ edits' = edits + 1
  /\ Keeps(k, "preview", graph, None)
  /\ UNCHANGED <<graph, rows, handler, now, acked, previews>>

(* What a runtime may propose for graph g: it merges, changes and deletes  *)
(* nodes, and what it writes is not Grow's.                                *)
Candidates(g) == {h \in Graphs : h \ g \subseteq Contribution(Foreign, Facts)}

(* The rows of the same review of the same graphs, whatever their cycle.   *)
SameReview(v, before, after) ==
  {s \in DOMAIN previews : s.of = v /\ s.before = before /\ s.after = after}

Latest(s, S) == s \in S /\ \A t \in S : t.cycle <= s.cycle

(* Flaw: every stored preview is a cycle of its own.                       *)
CycleFor_Always(S) ==
  IF S = {} THEN 1 ELSE LET s == CHOOSE s \in S : Latest(s, S) IN s.cycle + 1

(* Flaw: the first cycle gets number zero.                                 *)
CycleFor_FromZero(S) ==
  IF S = {} THEN 0
  ELSE LET s == CHOOSE s \in S : Latest(s, S) IN
       IF previews[s].st = "active" THEN s.cycle ELSE s.cycle + 1

(* _resolve_maintenance_preview_authority_conn: an active latest row keeps *)
(* its authority, a settled one gets a successor.                          *)
CycleFor(S) ==
  IF S = {} THEN 1
  ELSE LET s == CHOOSE s \in S : Latest(s, S) IN
       IF previews[s].st = "active" THEN s.cycle ELSE s.cycle + 1

(* store_maintenance_preview: only over the graph that was read. A row that*)
(* is there already gets the new report, and its guard, if it is active.   *)
StoreMaintenance(k, v, after, passed) ==
  LET before == keeper[k].read
      cycle == CycleFor(SameReview(v, before, after))
      sig == [of |-> v, before |-> before, after |-> after, cycle |-> cycle] IN
  /\ keeper[k].pc = "preview"
  /\ IF graph = before /\ (sig \in DOMAIN previews => previews[sig].st = "active")
     THEN previews' = [s \in DOMAIN previews \cup {sig} |->
                         IF s = sig THEN NewPreview(passed) ELSE previews[s]]
     ELSE UNCHANGED previews
  /\ keeper' = [keeper EXCEPT ![k] = Away]
  /\ UNCHANGED vars

-----------------------------------------------------------------------------
(* Flaw: the candidate is written over any graph.                          *)
ApplyMaintenance_AnyGraph(k, s) ==
  /\ keeper[k].pc = "idle" /\ previews[s].passed /\ previews[s].st = "active"
  /\ graph' = s.after
  /\ previews' = [t \in DOMAIN previews |->
       IF t = s THEN [previews[t] EXCEPT !.st = "applied"]
       ELSE IF previews[t].st = "active"
            THEN [previews[t] EXCEPT !.st = "invalidated"] ELSE previews[t]]
  /\ Keeps(k, "applied", {}, s)
  /\ UNCHANGED <<rows, handler, now, edits, acked>>

(* apply_maintenance_preview of an active preview whose graph is in place: *)
(* the candidate becomes the graph and every other active preview of the   *)
(* brain is invalidated.                                                   *)
ApplyMaintenance(k, s) ==
  /\ keeper[k].pc = "idle" /\ previews[s].passed /\ previews[s].st = "active"
  /\ graph = s.before
  /\ graph' = s.after
  /\ previews' = [t \in DOMAIN previews |->
       IF t = s THEN [previews[t] EXCEPT !.st = "applied"]
       ELSE IF previews[t].st = "active"
            THEN [previews[t] EXCEPT !.st = "invalidated"] ELSE previews[t]]
  /\ Keeps(k, "applied", {}, s)
  /\ UNCHANGED <<rows, handler, now, edits, acked>>

(* Of one whose graph has moved on: invalidated for good.                  *)
ApplyConflicts(k, s) ==
  /\ keeper[k].pc = "idle" /\ previews[s].passed /\ previews[s].st = "active"
  /\ graph # s.before
  /\ Settles(s, "invalidated")
  /\ UNCHANGED <<vars, keeper>>

(* Of one that is applied and whose candidate is in place: its receipt.    *)
ApplyAnswersAgain(k, s) ==
  /\ keeper[k].pc = "idle" /\ previews[s].passed /\ previews[s].st = "applied"
  /\ graph = s.after
  /\ Keeps(k, "applied", {}, s)
  /\ UNCHANGED <<vars, previews>>

(* finalize_maintenance_preview_apply: the SELECT, refused unless applied. *)
ReadReceipt(k) ==
  /\ keeper[k].pc = "applied"
  /\ IF previews[keeper[k].sig].st = "applied"
     THEN Keeps(k, "report", {}, keeper[k].sig)
     ELSE keeper' = [keeper EXCEPT ![k] = Away]
  /\ UNCHANGED <<vars, previews>>

(* Flaw: the UPDATE relies on what the SELECT saw.                         *)
Book_Unchecked(s) == [previews EXCEPT ![s].booked = TRUE]

(* The UPDATE, which compares the state again.                             *)
Book(s) ==
  IF previews[s].st = "applied" THEN [previews EXCEPT ![s].booked = TRUE]
  ELSE previews

WriteReceipt(k) ==
  /\ keeper[k].pc = "report"
  /\ previews' = Book(keeper[k].sig)
  /\ keeper' = [keeper EXCEPT ![k] = Away]
  /\ UNCHANGED vars

(* Flaw: a rollback that does not compare the graph with its candidate.    *)
RollbackMaintenance_AnyGraph(s) ==
  /\ previews[s].st = "applied"
  /\ graph' = s.before
  /\ Settles(s, "rolled_back")
  /\ UNCHANGED <<rows, handler, now, edits, acked, keeper>>

(* rollback_maintenance_preview: only over the candidate, only once.       *)
RollbackMaintenance(s) ==
  /\ previews[s].st = "applied"
  /\ graph = s.after
  /\ graph' = s.before
  /\ Settles(s, "rolled_back")
  /\ UNCHANGED <<rows, handler, now, edits, acked, keeper>>

(* The runtime raises or is interrupted; what it committed stays.          *)
MaintenanceFails(k) ==
  /\ keeper[k].pc # "idle"
  /\ keeper' = [keeper EXCEPT ![k] = Away]
  /\ UNCHANGED <<vars, previews>>

-----------------------------------------------------------------------------
Maintain(k) ==
  \/ BeginMaintenance(k) \/ MaintenanceFails(k)
  \/ \E v \in Reviews, after \in Candidates(keeper[k].read), passed \in BOOLEAN :
       StoreMaintenance(k, v, after, passed)
  \/ \E s \in DOMAIN previews :
       ApplyMaintenance(k, s) \/ ApplyConflicts(k, s) \/ ApplyAnswersAgain(k, s)
  \/ ReadReceipt(k) \/ WriteReceipt(k)

MaintenanceNext ==
  (\E k \in Keepers : Maintain(k)) \/ \E s \in DOMAIN previews : RollbackMaintenance(s)

MCrash == Crash /\ keeper' = [k \in Keepers |-> Away] /\ UNCHANGED previews

-----------------------------------------------------------------------------
(* Properties.                                                             *)

PreviewsTypeOK ==
  /\ DOMAIN previews \subseteq Signature
  /\ previews \in [DOMAIN previews -> PreviewRow]
  /\ keeper \in [Keepers -> Keeper]

(* A review that was settled is not applicable again: only its latest      *)
(* cycle can be active, and no cycle is skipped.                           *)
TombstonesHold ==
  \A s \in DOMAIN previews : \A n \in 1..(s.cycle - 1) :
    LET t == [s EXCEPT !.cycle = n] IN
    t \in DOMAIN previews /\ previews[t].st # "active"

(* What is settled stays settled: a preview leaves applied only by its     *)
(* rollback and the two dead states never, and a bookkeeping that comes    *)
(* after the rollback does not touch the receipt.                          *)
PreviewsPermanent ==
  [][\A s \in DOMAIN previews :
       /\ s \in DOMAIN previews'
       /\ previews[s].st # "active" =>
            /\ previews'[s].passed = previews[s].passed
            /\ \/ previews'[s].st = previews[s].st
               \/ previews[s].st = "applied" /\ previews'[s].st = "rolled_back"
       /\ previews'[s].booked # previews[s].booked =>
            previews[s].st = "applied" /\ previews'[s].st = "applied"]_<<previews, keeper>>
==============================================================================
