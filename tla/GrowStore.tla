------------------------------ MODULE GrowStore ------------------------------
(***************************************************************************)
(* Grow's server-side authority: the table grow_preview_bindings of        *)
(* sqlite_store.py, the brain graph it guards, and the request handlers of *)
(* core_mcp_ops_router.py that drive it.                                   *)
(*                                                                         *)
(* Every store operation is one BEGIN IMMEDIATE transaction, so it is one  *)
(* action. A handler reads the graph, then reserves or resumes, then runs  *)
(* the AI engine, then writes: those are separate actions, and any number  *)
(* of other handlers' transactions may come between them.                  *)
(*                                                                         *)
(* A brain revision is a digest of the content of the graph                *)
(* (maintenance_graph_revision), so the graph itself stands for it: two    *)
(* graphs with the same content have the same revision, and a revision can *)
(* come back. A graph is a set of contributions <<fact, writer>>.          *)
(***************************************************************************)
EXTENDS Naturals, FiniteSets

CONSTANTS
  Ids,         \* investigation ids (the primary key token_id)
  Clients,     \* request handlers of the server's thread pool
  Facts,       \* memory nodes, named by the preview ids
  Answers,     \* values a clarification answer may take
  None,        \* no answer, no investigation
  Foreign,     \* a writer that is not Grow
  MaxVersion,  \* bound on investigation versions
  MaxTime,     \* bound on the clock
  Ttl,         \* lifetime of a reservation (ttl_seconds)
  MinTtl,      \* lifetime that finalizing a preview guarantees (60 seconds)
  MaxEdits     \* bound on edits by other writers

ASSUME ConstantsAssumption ==
  /\ None \notin Ids /\ None \notin Answers
  /\ Foreign \notin Ids
  /\ MaxVersion \in Nat /\ MaxTime \in Nat /\ MaxEdits \in Nat
  /\ Ttl \in Nat \ {0} /\ MinTtl \in Nat \ {0}

VARIABLES
  graph,       \* the brain: nodes and edges of the SQLite store
  rows,        \* grow_preview_bindings, by token_id
  handler,     \* what each request handler holds between its steps
  now,         \* the server's clock
  edits,       \* edits by other writers so far (bound only)
  acked        \* history: <<id, selection>> of every successful apply reply

vars == <<graph, rows, handler, now, edits, acked>>

-----------------------------------------------------------------------------
(* State of the table and of the handlers.                                 *)

RowState == {"none", "investigating", "awaiting_clarification",
             "maintenance_deferred", "active", "consumed", "invalidated",
             "rolled_back"}

Graphs == SUBSET (Facts \X (Ids \cup {Foreign}))

AnswerOrNone == Answers \cup {None}

(* A row. ver = 0 is a preview stored without an investigation (Grow V2);  *)
(* derived: its resume token is computed from the source, not random;      *)
(* seen: the answer the preview was compiled from.                         *)
Row == [st : RowState, ver : Nat, rev : Graphs, derived : BOOLEAN,
        asked : BOOLEAN, answer : AnswerOrNone, seen : AnswerOrNone,
        offer : SUBSET Facts, exp : Nat,
        sel : SUBSET Facts, before : Graphs, after : Graphs]

NoRow == [st |-> "none", ver |-> 0, rev |-> {}, derived |-> FALSE,
          asked |-> FALSE, answer |-> None, seen |-> None, offer |-> {},
          exp |-> 0, sel |-> {}, before |-> {}, after |-> {}]

HandlerPc == {"idle", "reserving", "intake", "asking", "resuming", "engine",
              "recovering", "applying"}

Handler == [pc : HandlerPc, id : Ids \cup {None}, ver : Nat, rev : Graphs,
            answer : AnswerOrNone, fresh : BOOLEAN,
            sel : SUBSET Facts, offer : SUBSET Facts]

Idle == [pc |-> "idle", id |-> None, ver |-> 0, rev |-> {}, answer |-> None,
         fresh |-> FALSE, sel |-> {}, offer |-> {}]

Contribution(i, S) == S \X {i}

Later(a, b) == IF a > b THEN a ELSE b

Init ==
  /\ graph \in {{}, Facts \X {Foreign}}
  /\ rows = [i \in Ids |-> NoRow]
  /\ handler = [c \in Clients |-> Idle]
  /\ now = 0
  /\ edits = 0
  /\ acked = {}

(* The handler returns: whatever it held is gone.                          *)
Return(c) == handler' = [handler EXCEPT ![c] = Idle]

(* The handler moves on to its next step, holding h.                       *)
Hold(c, h) == handler' = [handler EXCEPT ![c] = h]

Put(i, row) == rows' = [rows EXCEPT ![i] = row]

-----------------------------------------------------------------------------
(* Opening an investigation.                                               *)

(* A preview request reads the graph and its revision before it reserves.  *)
BeginPreview(c, i, pc) ==
  /\ handler[c].pc = "idle"
  /\ Hold(c, [Idle EXCEPT !.pc = pc, !.id = i, !.rev = graph, !.fresh = TRUE])
  /\ UNCHANGED <<graph, rows, now, edits, acked>>

NewInvestigation(c, derived) ==
  [NoRow EXCEPT !.st = "investigating", !.ver = 1, !.rev = handler[c].rev,
                !.derived = derived, !.asked = derived, !.exp = now + Ttl]

(* reserve_grow_investigation without a caller's token: an id that exists  *)
(* already is a conflict.                                                  *)
Reserve(c) ==
  LET i == handler[c].id IN
  /\ handler[c].pc = "reserving"
  /\ IF graph = handler[c].rev /\ rows[i].st = "none"
     THEN /\ Put(i, NewInvestigation(c, FALSE))
          /\ Hold(c, [handler[c] EXCEPT !.pc = "engine", !.ver = 1])
     ELSE Return(c) /\ UNCHANGED rows
  /\ UNCHANGED <<graph, now, edits, acked>>

(* reserve_grow_investigation with the token derived from the source: a    *)
(* row of the same source and revision is replayed in whatever state it is.*)
IntakeReserve(c) ==
  LET i == handler[c].id IN
  /\ handler[c].pc = "intake"
  /\ \/ /\ graph = handler[c].rev
        /\ rows[i].st = "none"
        /\ Put(i, NewInvestigation(c, TRUE))
        /\ Hold(c, [handler[c] EXCEPT !.pc = "asking", !.ver = 1])
     \/ /\ graph = handler[c].rev
        /\ rows[i].derived /\ rows[i].rev = handler[c].rev
        /\ Hold(c, [handler[c] EXCEPT !.pc = "asking", !.ver = rows[i].ver])
        /\ UNCHANGED rows
     \/ /\ \/ graph # handler[c].rev
           \/ rows[i].st # "none" /\ (~rows[i].derived \/ rows[i].rev # handler[c].rev)
        /\ Return(c) /\ UNCHANGED rows
  /\ UNCHANGED <<graph, now, edits, acked>>

(* The compare-and-swap of update_grow_investigation (a version at the     *)
(* bound is refused).                                                      *)
Updatable(i, v, st) ==
  /\ \/ rows[i].st = "investigating"
     \/ rows[i].st = "awaiting_clarification" /\ st = "awaiting_clarification"
  /\ rows[i].ver = v /\ v < MaxVersion
  /\ now < rows[i].exp
  /\ graph = rows[i].rev

(* The stored investigation is replaced whole by the one the caller holds. *)
Update(c, st, asked, answer) ==
  LET i == handler[c].id IN
  /\ IF Updatable(i, handler[c].ver, st)
     THEN Put(i, [rows[i] EXCEPT !.st = st, !.ver = @ + 1,
                                 !.asked = asked, !.answer = answer])
     ELSE UNCHANGED rows
  /\ Return(c)
  /\ UNCHANGED <<graph, now, edits, acked>>

(* Intake writes its initial investigation, which holds no answers.        *)
IntakeAsk(c) ==
  /\ handler[c].pc = "asking"
  /\ Update(c, "awaiting_clarification", TRUE, None)

-----------------------------------------------------------------------------
(* Resuming an investigation with clarification answers.                   *)

(* The random resume token reaches a client only with the first response   *)
(* that follows a successful update; the derived one is computed.          *)
TokenIssued(i) == rows[i].derived \/ rows[i].ver > 1

(* A resume request: v is the version it names (0: none), a its answers.   *)
(* An id without a row takes the stateless path to a recovery preview.     *)
BeginResume(c, i, v, a) ==
  /\ handler[c].pc = "idle"
  /\ \/ /\ rows[i].st = "none" /\ v = 0
        /\ Hold(c, [Idle EXCEPT !.pc = "recovering", !.id = i, !.rev = graph])
     \/ /\ rows[i].ver > 0 /\ TokenIssued(i) /\ v \in {0, rows[i].ver}
        /\ Hold(c, [Idle EXCEPT !.pc = "resuming", !.id = i, !.ver = v,
                                !.rev = graph, !.answer = a])
  /\ UNCHANGED <<graph, rows, now, edits, acked>>

(* What resume_grow_investigation checks before it looks at the state.     *)
Resumable(c) ==
  LET h == handler[c]  row == rows[h.id] IN
  /\ row.ver > 0 /\ row.ver < MaxVersion
  /\ h.ver \in {0, row.ver}
  /\ h.rev = row.rev /\ graph = row.rev
  /\ now < row.exp
  /\ h.answer # None => row.asked

Merge(old, new) == IF new = None THEN old ELSE new

(* The compare-and-swap merge of answers, or the idempotent replay of a    *)
(* resume whose answers the running investigation already holds.           *)
Resume(c) ==
  LET h == handler[c]  i == h.id  row == rows[i]
      merged == Merge(row.answer, h.answer) IN
  /\ h.pc = "resuming"
  /\ \/ /\ Resumable(c) /\ row.st = "awaiting_clarification"
        /\ Put(i, [row EXCEPT !.st = "investigating", !.ver = @ + 1,
                              !.answer = merged])
        /\ Hold(c, [h EXCEPT !.pc = "engine", !.ver = row.ver + 1,
                             !.answer = merged])
     \/ /\ Resumable(c) /\ row.st = "investigating" /\ merged = row.answer
        /\ Hold(c, [h EXCEPT !.pc = "engine", !.ver = row.ver,
                             !.answer = row.answer])
        /\ UNCHANGED rows
     \/ /\ \/ ~Resumable(c)
           \/ row.st = "investigating" /\ merged # row.answer
           \/ row.st \notin {"investigating", "awaiting_clarification"}
        /\ Return(c) /\ UNCHANGED rows
  /\ UNCHANGED <<graph, now, edits, acked>>

-----------------------------------------------------------------------------
(* The outcomes of the AI engine, which ran outside any transaction.       *)

(* The engine, or the source package, asks further questions.              *)
EngineAsks(c) ==
  /\ handler[c].pc = "engine"
  /\ Update(c, "awaiting_clarification", TRUE, handler[c].answer)

(* The hard timeout replaces the engine's result by an envelope without    *)
(* answers, and the source package still has open questions.               *)
TimeoutAsks(c) ==
  /\ handler[c].pc = "engine"
  /\ Update(c, "awaiting_clarification", TRUE, None)

(* The engine ends without questions and without a complete preview.       *)
EngineIncomplete(c) ==
  /\ handler[c].pc = "engine"
  /\ Update(c, "investigating", rows[handler[c].id].asked, handler[c].answer)

(* Flaw: any engine run that ends may finalize.                            *)
Finalizable_NoVersion(c) ==
  LET h == handler[c]  row == rows[h.id] IN
  /\ row.st = "investigating"
  /\ row.ver < MaxVersion
  /\ graph = h.rev
  /\ row.asked => h.answer # None

(* Flaw: the brain may have moved on while the engine ran.                 *)
Finalizable_NoRevision(c) ==
  LET h == handler[c]  row == rows[h.id] IN
  /\ row.st = "investigating"
  /\ row.ver = h.ver /\ h.ver < MaxVersion
  /\ row.asked => h.answer # None

(* The compare-and-swap of finalize_grow_preview and of                    *)
(* finalize_grow_maintenance_feedback. Neither looks at the expiry.        *)
Finalizable(c) ==
  LET h == handler[c]  row == rows[h.id] IN
  /\ row.st = "investigating"
  /\ row.ver = h.ver /\ h.ver < MaxVersion
  /\ row.rev = h.rev
  /\ graph = h.rev
  /\ row.asked => h.answer # None

Finalize(c, st, S) ==
  LET h == handler[c]  i == h.id IN
  /\ h.pc = "engine"
  /\ IF Finalizable(c)
     THEN Put(i, [rows[i] EXCEPT !.st = st, !.ver = @ + 1, !.offer = S,
                    !.seen = h.answer, !.exp = Later(now + MinTtl, @)])
     ELSE UNCHANGED rows
  /\ Return(c)
  /\ UNCHANGED <<graph, now, edits, acked>>

(* The engine compiled a preview: the row becomes apply authority for the  *)
(* offered nodes S.                                                        *)
EngineOffers(c, S) == Finalize(c, "active", S)

(* The engine found structural work only: reviewable, never applicable.    *)
EngineDefers(c) == Finalize(c, "maintenance_deferred", {})

(* After a failure a request falls back on a source-bound recovery preview *)
(* or is answered as blocked.                                              *)
Recover(c) ==
  \/ Hold(c, [handler[c] EXCEPT !.pc = "recovering"])
  \/ Return(c)

(* discard_grow_investigation_reservation.                                 *)
Pristine(i) ==
  rows[i].st = "investigating" /\ rows[i].ver = 1 /\ ~rows[i].asked

(* The engine raises: a first call takes its pristine reservation away and *)
(* may recover, a resumed one is blocked.                                  *)
EngineRaises(c) ==
  LET h == handler[c] IN
  /\ h.pc = "engine"
  /\ IF h.fresh
     THEN /\ IF Pristine(h.id) THEN Put(h.id, NoRow) ELSE UNCHANGED rows
          /\ Recover(c)
     ELSE Return(c) /\ UNCHANGED rows
  /\ UNCHANGED <<graph, now, edits, acked>>

(* The engine returns a provider failure or its hard timeout, or the       *)
(* source has no evidence, or the provider is known to be down: the row is *)
(* left as it is.                                                          *)
EngineFails(c) ==
  /\ handler[c].pc = "engine"
  /\ Recover(c)
  /\ UNCHANGED <<graph, rows, now, edits, acked>>

(* A recovery preview is stored under a fresh id, without an investigation.*)
StoreRecovery(c, j, S) ==
  /\ handler[c].pc = "recovering"
  /\ rows[j].st = "none" /\ \A d \in Clients : handler[d].id # j
  /\ IF graph = handler[c].rev
     THEN Put(j, [NoRow EXCEPT !.st = "active", !.rev = graph, !.offer = S,
                               !.exp = now + Ttl])
     ELSE UNCHANGED rows
  /\ Return(c)
  /\ UNCHANGED <<graph, now, edits, acked>>

(* It cannot be stored (the database fails, or no id is left here).        *)
RecoveryFails(c) ==
  /\ handler[c].pc = "recovering"
  /\ Return(c)
  /\ UNCHANGED <<graph, rows, now, edits, acked>>

-----------------------------------------------------------------------------
(* Applying and rolling back.                                              *)

Finished == {"active", "consumed", "invalidated", "rolled_back"}

(* An apply request reads the stored preview, under the process-wide apply *)
(* lock that it keeps until it returns, and names a selection of its offer.*)
BeginApply(c, i, S) ==
  /\ handler[c].pc = "idle"
  /\ \A d \in Clients : handler[d].pc # "applying"
  /\ rows[i].st \in Finished
  /\ S # {} /\ S \subseteq rows[i].offer
  /\ Hold(c, [Idle EXCEPT !.pc = "applying", !.id = i, !.ver = rows[i].ver,
                          !.sel = S, !.offer = rows[i].offer])
  /\ UNCHANGED <<graph, rows, now, edits, acked>>

(* What the caller holds is still what is stored.                          *)
SamePreview(c) ==
  LET h == handler[c]  row == rows[h.id] IN
  /\ row.st \in Finished
  /\ row.ver = h.ver
  /\ row.offer = h.offer

Ack(c) == acked' = acked \cup {<<handler[c].id, handler[c].sel>>}

(* Flaw: a consumed preview acknowledges any selection.                    *)
ApplyReplays_AnySelection(c) ==
  LET h == handler[c] IN
  /\ h.pc = "applying" /\ SamePreview(c)
  /\ rows[h.id].st = "consumed"
  /\ Ack(c)
  /\ Return(c)
  /\ UNCHANGED <<graph, rows, now, edits>>

(* A consumed preview answers the same selection again from its receipt.   *)
ApplyReplays(c) ==
  LET h == handler[c] IN
  /\ h.pc = "applying" /\ SamePreview(c)
  /\ rows[h.id].st = "consumed" /\ rows[h.id].sel = h.sel
  /\ Ack(c)
  /\ Return(c)
  /\ UNCHANGED <<graph, rows, now, edits>>

(* Flaw: only the clock makes a preview lapse.                             *)
Lapsed_ClockOnly(i) == now >= rows[i].exp

(* An active preview that expired, or whose brain has moved on, is         *)
(* invalidated for good.                                                   *)
Lapsed(i) == now >= rows[i].exp \/ graph # rows[i].rev

ApplyInvalidates(c) ==
  LET i == handler[c].id IN
  /\ handler[c].pc = "applying" /\ SamePreview(c)
  /\ rows[i].st = "active" /\ Lapsed(i)
  /\ Put(i, [rows[i] EXCEPT !.st = "invalidated"])
  /\ Return(c)
  /\ UNCHANGED <<graph, now, edits, acked>>

(* The brain after P is persisted. Every node that was there stays.        *)
Persisted(i, P) == graph \cup Contribution(i, P)

(* Flaw: the snapshot for the rollback is taken after the mutation.        *)
Consumed_LateSnapshot(c, P) ==
  [rows[handler[c].id] EXCEPT !.st = "consumed", !.sel = handler[c].sel,
     !.before = Persisted(handler[c].id, P),
     !.after = Persisted(handler[c].id, P)]

Consumed(c, P) ==
  [rows[handler[c].id] EXCEPT !.st = "consumed", !.sel = handler[c].sel,
     !.before = graph, !.after = Persisted(handler[c].id, P)]

(* Flaw: the superseded previews get a state no reader knows.              *)
Superseded_Unknown(row) ==
  IF row.st = "active" THEN [row EXCEPT !.st = "superseded"] ELSE row

(* Flaw: the update of the other rows forgets its state = 'active'.        *)
Superseded_Everything(row) ==
  IF row.st \in Finished THEN [row EXCEPT !.st = "invalidated"] ELSE row

Superseded(row) ==
  IF row.st = "active" THEN [row EXCEPT !.st = "invalidated"] ELSE row

(* The mutation, the receipt, the snapshot for the rollback and the        *)
(* invalidation of every other active preview are one transaction. P is    *)
(* what the write of the selection persisted.                              *)
ApplyCommits(c, P) ==
  LET h == handler[c]  i == h.id IN
  /\ h.pc = "applying" /\ SamePreview(c)
  /\ rows[i].st = "active" /\ ~Lapsed(i)
  /\ P # {} /\ P \subseteq h.sel
  /\ graph' = Persisted(i, P)
  /\ rows' = [j \in Ids |-> IF j = i THEN Consumed(c, P) ELSE Superseded(rows[j])]
  /\ Ack(c)
  /\ Return(c)
  /\ UNCHANGED <<now, edits>>

(* Every other end: a mismatch with the receipt, a settled preview, nothing*)
(* persisted, a proof that fails, a database that stays busy. Nothing      *)
(* changes.                                                                *)
ApplyAborts(c) ==
  /\ handler[c].pc = "applying"
  /\ Return(c)
  /\ UNCHANGED <<graph, rows, now, edits, acked>>

(* Flaw: a rollback offers the preview again.                              *)
Rollback_Reactivates(i) ==
  /\ rows[i].st = "consumed"
  /\ graph = rows[i].after
  /\ graph' = rows[i].before
  /\ Put(i, [rows[i] EXCEPT !.st = "active"])
  /\ UNCHANGED <<handler, now, edits, acked>>

(* Flaw: a rollback that does not compare the brain with the receipt.      *)
Rollback_AnyGraph(i) ==
  /\ rows[i].st = "consumed"
  /\ graph' = rows[i].before
  /\ Put(i, [rows[i] EXCEPT !.st = "rolled_back"])
  /\ UNCHANGED <<handler, now, edits, acked>>

(* The exact graph of before the apply comes back, once, and only on top of*)
(* the exact graph the apply left. It is one transaction without a lock.   *)
Rollback(i) ==
  /\ rows[i].st = "consumed"
  /\ graph = rows[i].after
  /\ graph' = rows[i].before
  /\ Put(i, [rows[i] EXCEPT !.st = "rolled_back"])
  /\ UNCHANGED <<handler, now, edits, acked>>

-----------------------------------------------------------------------------
(* The environment.                                                        *)

(* A writer whose read and write of the graph are one transaction, such as *)
(* the apply of a maintenance preview: it changes or deletes one node.     *)
ForeignEdit(f) ==
  /\ edits < MaxEdits
  /\ edits' = edits + 1
  /\ graph' \in {graph \cup {<<f, Foreign>>}, {p \in graph : p[1] # f}} \ {graph}
  /\ UNCHANGED <<rows, handler, now, acked>>

Tick ==
  /\ now < MaxTime
  /\ now' = now + 1
  /\ UNCHANGED <<graph, rows, handler, edits, acked>>

(* The server stops: its handlers are gone, its database stays.            *)
Crash ==
  /\ handler' = [c \in Clients |-> Idle]
  /\ UNCHANGED <<graph, rows, now, edits, acked>>

-----------------------------------------------------------------------------
Preview(c) ==
  \/ \E i \in Ids : BeginPreview(c, i, "reserving") \/ BeginPreview(c, i, "intake")
  \/ Reserve(c) \/ IntakeReserve(c) \/ IntakeAsk(c)

Resuming(c) ==
  \/ \E i \in Ids, a \in AnswerOrNone :
       \E v \in {0, rows[i].ver} : BeginResume(c, i, v, a)
  \/ Resume(c)

Offers == (SUBSET Facts) \ {{}}

Engine(c) ==
  \/ EngineAsks(c) \/ TimeoutAsks(c) \/ EngineIncomplete(c) \/ EngineDefers(c)
  \/ EngineRaises(c) \/ EngineFails(c) \/ RecoveryFails(c)
  \/ \E S \in Offers : EngineOffers(c, S) \/ \E j \in Ids : StoreRecovery(c, j, S)

Applying(c) ==
  \/ \E i \in Ids, S \in Offers : BeginApply(c, i, S)
  \/ \E P \in Offers : ApplyCommits(c, P)
  \/ ApplyReplays(c) \/ ApplyInvalidates(c) \/ ApplyAborts(c)

Serve == \E c \in Clients : Preview(c) \/ Resuming(c) \/ Engine(c) \/ Applying(c)

Next ==
  \/ Serve
  \/ \E i \in Ids : Rollback(i)
  \/ \E f \in Facts : ForeignEdit(f)
  \/ Tick
  \/ Crash

Spec == Init /\ [][Next]_vars

-----------------------------------------------------------------------------
(* Properties.                                                             *)

(* Every variable keeps the shape the code gives it: a state the readers   *)
(* of the table know, versions that count, graphs over the known writers.  *)
TypeOK ==
  /\ graph \in Graphs
  /\ rows \in [Ids -> Row]
  /\ handler \in [Clients -> Handler]
  /\ \A c \in Clients : handler[c].pc # "idle" => handler[c].id \in Ids
  /\ now \in Nat
  /\ edits \in Nat
  /\ acked \subseteq Ids \X SUBSET Facts

(* Nothing is in the brain on Grow's account without a receipt for it: what*)
(* investigation i put there belongs to the selection of an apply that was *)
(* committed and not rolled back (apply_local_grow_v2_preview_transaction  *)
(* and rollback_local_grow_v2_preview_transaction, in every interleaving). *)
Attributable ==
  \A f \in Facts, i \in Ids :
    <<f, i>> \in graph => rows[i].st = "consumed" /\ f \in rows[i].sel

(* The snapshot kept for a rollback is the brain without the contribution  *)
(* of the apply, and with it it is the brain the receipt names: putting it *)
(* back takes away that contribution and nothing else.                     *)
Applied == {"consumed", "rolled_back"}

SnapshotsExact ==
  \A i \in Ids :
    rows[i].st \in Applied =>
      /\ rows[i].before \cap Contribution(i, Facts) = {}
      /\ \E P \in SUBSET rows[i].sel :
           rows[i].after = rows[i].before \cup Contribution(i, P)

(* A caller who was told that a selection is applied can rely on it: the   *)
(* receipt says the same, so at most one selection of a preview is ever    *)
(* acknowledged, whatever is retried, replayed, crashed or rolled back.    *)
AckedMatchesReceipt ==
  \A a \in acked :
    rows[a[1]].st \in Applied /\ rows[a[1]].sel = a[2]

(* A preview was compiled from exactly the answers its investigation holds:*)
(* an engine run that another resume overtook never becomes apply authority*)
(* (the version compare-and-swap of finalize_grow_preview).                *)
PreviewSeesAnswers ==
  \A i \in Ids :
    rows[i].ver > 0 /\ rows[i].st \in Finished \cup {"maintenance_deferred"}
      => rows[i].seen = rows[i].answer

(* What is settled stays settled: a receipt and the snapshot its rollback  *)
(* needs are never rewritten, and neither an invalidated nor a rolled back *)
(* preview becomes applicable again.                                       *)
Settled == {"consumed", "invalidated", "rolled_back"}

ReceiptsPermanent ==
  [][\A i \in Ids :
       rows[i].st \in Settled =>
         /\ rows'[i] = [rows[i] EXCEPT !.st = rows'[i].st]
         /\ rows'[i].st # rows[i].st =>
              rows[i].st = "consumed" /\ rows'[i].st = "rolled_back"]_vars

(* Grow keeps the promise of ReviewedApply.                                *)
Proposal(row) ==
  LET status == CASE row.st = "active" -> "open"
                  [] row.st = "consumed" -> "applied"
                  [] row.st = "rolled_back" -> "undone"
                  [] row.st = "invalidated" -> "closed"
                  [] OTHER -> "none" IN
  IF status = "none" THEN [st |-> "none", basis |-> {}, offer |-> {}]
  ELSE [st |-> status, basis |-> row.rev, offer |-> row.offer]

Reviewed == INSTANCE ReviewedApply
              WITH memory <- graph, proposal <- [i \in Ids |-> Proposal(rows[i])]

(* Every step of the store and its handlers is a step the owner of the     *)
(* brain was promised, or leaves memory and proposals alone: no apply of a *)
(* preview built on another brain, no second apply, no rollback that takes *)
(* away more or less than its own contribution.                            *)
ReviewedApplySpec == Reviewed!ASpec
==============================================================================
