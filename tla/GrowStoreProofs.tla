--------------------------- MODULE GrowStoreProofs ---------------------------
(***************************************************************************)
(* Proofs about GrowStore, for any number of investigations, handlers,     *)
(* facts and answers.                                                      *)
(***************************************************************************)
EXTENDS GrowStore, TLAPS

-----------------------------------------------------------------------------
(* Type correctness.                                                       *)

HandlerTyped ==
  /\ handler \in [Clients -> Handler]
  /\ \A c \in Clients : handler[c].pc # "idle" => handler[c].id \in Ids

LEMMA BlankTyped == Idle \in Handler /\ NoRow \in Row /\ Idle.pc = "idle"
  BY DEF Idle, Handler, HandlerPc, Graphs, NoRow, Row, RowState, AnswerOrNone

(* Where a step puts a row or a handler's record, both tables keep their   *)
(* type.                                                                   *)
LEMMA PutTyped ==
  ASSUME TypeOK, NEW i \in Ids, NEW row \in Row, Put(i, row)
  PROVE  rows' \in [Ids -> Row]
  BY DEF TypeOK, Put

LEMMA HoldTyped ==
  ASSUME TypeOK, NEW c \in Clients, NEW h \in Handler, h.id \in Ids, Hold(c, h)
  PROVE  HandlerTyped'
  BY DEF TypeOK, Hold, HandlerTyped

LEMMA ReturnTyped ==
  ASSUME TypeOK, NEW c \in Clients, Return(c)
  PROVE  HandlerTyped'
  BY BlankTyped DEF TypeOK, Return, HandlerTyped

LEMMA PersistedTyped ==
  ASSUME TypeOK, NEW i \in Ids, NEW P \in SUBSET Facts
  PROVE  Persisted(i, P) \in Graphs
  BY DEF TypeOK, Persisted, Contribution, Graphs

(* A busy handler's record and the row it works on are well-typed.         *)
LEMMA BusyTyped ==
  ASSUME TypeOK, NEW c \in Clients, handler[c].pc # "idle"
  PROVE  /\ handler[c] \in Handler
         /\ handler[c].id \in Ids
         /\ rows[handler[c].id] \in Row
  BY DEF TypeOK

(* Nothing changes but the handlers and the table of rows.                 *)
LEMMA TablesTyped ==
  ASSUME TypeOK, HandlerTyped', rows' \in [Ids -> Row],
         UNCHANGED <<graph, now, edits, acked>>
  PROVE  TypeOK'
  BY DEF TypeOK, HandlerTyped

LEMMA NewTyped ==
  ASSUME TypeOK, NEW c \in Clients, handler[c].pc # "idle", NEW derived \in BOOLEAN
  PROVE  NewInvestigation(c, derived) \in Row
<1>1. handler[c].rev \in Graphs
  BY BusyTyped DEF Handler
<1>2. now + Ttl \in Nat
  BY ConstantsAssumption DEF TypeOK, ConstantsAssumption
<1> QED
  BY <1>1, <1>2, BlankTyped DEF NewInvestigation, Row, RowState

LEMMA BeginPreviewTyped ==
  ASSUME TypeOK, NEW c \in Clients, NEW i \in Ids,
         NEW pc \in {"reserving", "intake"}, BeginPreview(c, i, pc)
  PROVE  TypeOK'
<1> DEFINE h == [Idle EXCEPT !.pc = pc, !.id = i, !.rev = graph, !.fresh = TRUE]
<1>1. h \in Handler /\ h.id \in Ids
  BY BlankTyped DEF TypeOK, Handler, HandlerPc
<1>2. HandlerTyped'
  BY <1>1, HoldTyped DEF BeginPreview
<1> QED
  BY <1>2, TablesTyped DEF BeginPreview, TypeOK

LEMMA ReserveTyped ==
  ASSUME TypeOK, NEW c \in Clients, Reserve(c)
  PROVE  TypeOK'
<1> DEFINE i == handler[c].id
           h == [handler[c] EXCEPT !.pc = "engine", !.ver = 1]
<1>1. handler[c] \in Handler /\ i \in Ids
  BY BusyTyped DEF Reserve
<1>2. CASE Put(i, NewInvestigation(c, FALSE)) /\ Hold(c, h)
  <2>1. h \in Handler /\ h.id \in Ids
    BY <1>1 DEF Handler, HandlerPc
  <2>2. HandlerTyped'
    BY <2>1, <1>2, HoldTyped
  <2>3. rows' \in [Ids -> Row]
    BY <1>1, <1>2, NewTyped, PutTyped DEF Reserve
  <2> QED
    BY <2>2, <2>3, TablesTyped DEF Reserve
<1>3. CASE Return(c) /\ UNCHANGED rows
  BY <1>3, ReturnTyped, TablesTyped DEF Reserve, TypeOK
<1> QED
  BY <1>2, <1>3 DEF Reserve

LEMMA IntakeReserveTyped ==
  ASSUME TypeOK, NEW c \in Clients, IntakeReserve(c)
  PROVE  TypeOK'
<1> DEFINE i == handler[c].id
           h(v) == [handler[c] EXCEPT !.pc = "asking", !.ver = v]
<1>1. handler[c] \in Handler /\ i \in Ids /\ rows[i] \in Row
  BY BusyTyped DEF IntakeReserve
<1>2. \A v \in Nat : h(v) \in Handler /\ h(v).id \in Ids
  BY <1>1 DEF Handler, HandlerPc
<1>3. CASE Put(i, NewInvestigation(c, TRUE)) /\ Hold(c, h(1))
  <2>1. HandlerTyped'
    BY <1>2, <1>3, HoldTyped
  <2>2. rows' \in [Ids -> Row]
    BY <1>1, <1>3, NewTyped, PutTyped DEF IntakeReserve
  <2> QED
    BY <2>1, <2>2, TablesTyped DEF IntakeReserve
<1>4. CASE Hold(c, h(rows[i].ver)) /\ UNCHANGED rows
  <2>1. rows[i].ver \in Nat
    BY <1>1 DEF Row
  <2>2. HandlerTyped'
    BY <1>2, <1>4, <2>1, HoldTyped
  <2> QED
    BY <1>4, <2>2, TablesTyped DEF IntakeReserve, TypeOK
<1>5. CASE Return(c) /\ UNCHANGED rows
  BY <1>5, ReturnTyped, TablesTyped DEF IntakeReserve, TypeOK
<1> QED
  BY <1>3, <1>4, <1>5 DEF IntakeReserve

(* A step that changes the row it works on and ends the request.           *)
LEMMA SettleTyped ==
  ASSUME TypeOK, NEW c \in Clients, NEW i \in Ids, NEW row \in Row,
         Put(i, row) \/ UNCHANGED rows, Return(c),
         UNCHANGED <<graph, now, edits, acked>>
  PROVE  TypeOK'
  BY PutTyped, ReturnTyped, TablesTyped DEF TypeOK

LEMMA UpdateTyped ==
  ASSUME TypeOK, NEW c \in Clients, handler[c].pc # "idle",
         NEW st \in {"investigating", "awaiting_clarification"},
         NEW asked \in BOOLEAN, NEW answer \in AnswerOrNone,
         Update(c, st, asked, answer)
  PROVE  TypeOK'
<1> DEFINE i == handler[c].id
           row == [rows[i] EXCEPT !.st = st, !.ver = @ + 1,
                                  !.asked = asked, !.answer = answer]
<1>1. i \in Ids /\ rows[i] \in Row
  BY BusyTyped
<1>2. st \in RowState /\ rows[i].ver + 1 \in Nat
  BY <1>1 DEF Row, RowState
<1>3. row \in Row
  BY <1>1, <1>2 DEF Row
<1> QED
  BY <1>1, <1>3, SettleTyped DEF Update

LEMMA PreviewTyped ==
  ASSUME TypeOK, NEW c \in Clients, Preview(c)
  PROVE  TypeOK'
<1>1. ASSUME NEW i \in Ids,
             BeginPreview(c, i, "reserving") \/ BeginPreview(c, i, "intake")
      PROVE  TypeOK'
  BY <1>1, BeginPreviewTyped
<1>2. ASSUME IntakeAsk(c)
      PROVE  TypeOK'
  BY <1>2, UpdateTyped DEF IntakeAsk, AnswerOrNone
<1> QED
  BY <1>1, <1>2, ReserveTyped, IntakeReserveTyped DEF Preview

LEMMA BeginResumeTyped ==
  ASSUME TypeOK, NEW c \in Clients, NEW i \in Ids, NEW a \in AnswerOrNone,
         NEW v \in {0, rows[i].ver}, BeginResume(c, i, v, a)
  PROVE  TypeOK'
<1> DEFINE r == [Idle EXCEPT !.pc = "recovering", !.id = i, !.rev = graph]
           h == [Idle EXCEPT !.pc = "resuming", !.id = i, !.ver = v,
                             !.rev = graph, !.answer = a]
<1>1. v \in Nat /\ graph \in Graphs
  BY DEF TypeOK, Row
<1>2. r \in Handler /\ r.id \in Ids
  BY <1>1, BlankTyped DEF Handler, HandlerPc
<1>3. h \in Handler /\ h.id \in Ids
  BY <1>1, BlankTyped DEF Handler, HandlerPc
<1>4. HandlerTyped'
  BY <1>2, <1>3, HoldTyped DEF BeginResume
<1> QED
  BY <1>4, TablesTyped DEF BeginResume, TypeOK

LEMMA ResumeTyped ==
  ASSUME TypeOK, NEW c \in Clients, Resume(c)
  PROVE  TypeOK'
<1> DEFINE i == handler[c].id
           merged == Merge(rows[i].answer, handler[c].answer)
           row == [rows[i] EXCEPT !.st = "investigating", !.ver = @ + 1,
                                  !.answer = merged]
           h(v, a) == [handler[c] EXCEPT !.pc = "engine", !.ver = v, !.answer = a]
<1>1. handler[c] \in Handler /\ i \in Ids /\ rows[i] \in Row
  BY BusyTyped DEF Resume
<1>2. /\ rows[i].ver \in Nat
      /\ rows[i].answer \in AnswerOrNone
      /\ handler[c].answer \in AnswerOrNone
  BY <1>1 DEF Row, Handler
<1>3. merged \in AnswerOrNone
  BY <1>2 DEF Merge
<1>4. \A v \in Nat, a \in AnswerOrNone : h(v, a) \in Handler /\ h(v, a).id \in Ids
  BY <1>1 DEF Handler, HandlerPc
<1>5. CASE Put(i, row) /\ Hold(c, h(rows[i].ver + 1, merged))
  <2>1. rows[i].ver + 1 \in Nat
    BY <1>2
  <2>2. HandlerTyped'
    BY <1>3, <1>4, <1>5, <2>1, HoldTyped
  <2>3. row \in Row
    BY <1>1, <1>3, <2>1 DEF Row, RowState
  <2>4. rows' \in [Ids -> Row]
    BY <1>1, <1>5, <2>3, PutTyped
  <2> QED
    BY <2>2, <2>4, TablesTyped DEF Resume
<1>6. CASE Hold(c, h(rows[i].ver, rows[i].answer)) /\ UNCHANGED rows
  <2>1. HandlerTyped'
    BY <1>2, <1>4, <1>6, HoldTyped
  <2> QED
    BY <1>6, <2>1, TablesTyped DEF Resume, TypeOK
<1>7. CASE Return(c) /\ UNCHANGED rows
  BY <1>7, ReturnTyped, TablesTyped DEF Resume, TypeOK
<1> QED
  BY <1>5, <1>6, <1>7 DEF Resume

LEMMA FinalizeTyped ==
  ASSUME TypeOK, NEW c \in Clients, NEW st \in {"active", "maintenance_deferred"},
         NEW S \in SUBSET Facts, Finalize(c, st, S)
  PROVE  TypeOK'
<1> DEFINE i == handler[c].id
           row == [rows[i] EXCEPT !.st = st, !.ver = @ + 1, !.offer = S,
                     !.seen = handler[c].answer, !.exp = Later(now + MinTtl, @)]
<1>1. handler[c] \in Handler /\ i \in Ids /\ rows[i] \in Row
  BY BusyTyped DEF Finalize
<1>2. rows[i].ver + 1 \in Nat /\ handler[c].answer \in AnswerOrNone /\ st \in RowState
  BY <1>1 DEF Row, Handler, RowState
<1>3. Later(now + MinTtl, rows[i].exp) \in Nat
  BY <1>1, ConstantsAssumption DEF Row, TypeOK, Later, ConstantsAssumption
<1>4. row \in Row
  BY <1>1, <1>2, <1>3 DEF Row
<1> QED
  BY <1>1, <1>4, SettleTyped DEF Finalize

LEMMA RecoverTyped ==
  ASSUME TypeOK, NEW c \in Clients, handler[c].pc # "idle", Recover(c)
  PROVE  HandlerTyped'
<1> DEFINE h == [handler[c] EXCEPT !.pc = "recovering"]
<1>1. h \in Handler /\ h.id \in Ids
  BY BusyTyped DEF Handler, HandlerPc
<1> QED
  BY <1>1, HoldTyped, ReturnTyped DEF Recover

LEMMA EngineTyped ==
  ASSUME TypeOK, NEW c \in Clients, Engine(c)
  PROVE  TypeOK'
<1>1. CASE EngineAsks(c)
  <2>1. handler[c].answer \in AnswerOrNone
    BY <1>1, BusyTyped DEF EngineAsks, Handler
  <2> QED
    BY <1>1, <2>1, UpdateTyped DEF EngineAsks
<1>2. CASE EngineIncomplete(c)
  <2>1. handler[c].answer \in AnswerOrNone /\ rows[handler[c].id].asked \in BOOLEAN
    BY <1>2, BusyTyped DEF EngineIncomplete, Handler, Row
  <2> QED
    BY <1>2, <2>1, UpdateTyped DEF EngineIncomplete
<1>3. CASE EngineDefers(c)
  BY <1>3, FinalizeTyped DEF EngineDefers
<1>4. CASE EngineRaises(c)
  <2>1. handler[c].id \in Ids /\ handler[c].pc # "idle"
    BY <1>4, BusyTyped DEF EngineRaises
  <2>2. HandlerTyped'
    BY <1>4, <2>1, RecoverTyped, ReturnTyped DEF EngineRaises
  <2>3. rows' \in [Ids -> Row]
    BY <1>4, <2>1, BlankTyped, PutTyped DEF EngineRaises, TypeOK
  <2> QED
    BY <1>4, <2>2, <2>3, TablesTyped DEF EngineRaises
<1>5. CASE EngineFails(c)
  <2>1. HandlerTyped'
    BY <1>5, RecoverTyped DEF EngineFails
  <2> QED
    BY <1>5, <2>1, TablesTyped DEF EngineFails, TypeOK
<1>6. CASE RecoveryFails(c)
  BY <1>6, ReturnTyped, TablesTyped DEF RecoveryFails, TypeOK
<1>7. ASSUME NEW S \in Offers, EngineOffers(c, S)
      PROVE  TypeOK'
  BY <1>7, FinalizeTyped DEF EngineOffers, Offers
<1>8. ASSUME NEW S \in Offers, NEW j \in Ids, StoreRecovery(c, j, S)
      PROVE  TypeOK'
  <2> DEFINE row == [NoRow EXCEPT !.st = "active", !.rev = graph, !.offer = S,
                                  !.exp = now + Ttl]
  <2>1. now + Ttl \in Nat /\ graph \in Graphs
    BY ConstantsAssumption DEF TypeOK, ConstantsAssumption
  <2>2. row \in Row
    BY <2>1, BlankTyped DEF Row, RowState, Offers
  <2> QED
    BY <1>8, <2>2, SettleTyped DEF StoreRecovery
<1>9. CASE TimeoutAsks(c)
  BY <1>9, UpdateTyped DEF TimeoutAsks, AnswerOrNone
<1> QED
  BY <1>1, <1>2, <1>3, <1>4, <1>5, <1>6, <1>7, <1>8, <1>9 DEF Engine

LEMMA ApplyingTyped ==
  ASSUME TypeOK, NEW c \in Clients, Applying(c)
  PROVE  TypeOK'
<1>1. ASSUME NEW i \in Ids, NEW S \in Offers, BeginApply(c, i, S)
      PROVE  TypeOK'
  <2> DEFINE h == [Idle EXCEPT !.pc = "applying", !.id = i, !.ver = rows[i].ver,
                               !.sel = S, !.offer = rows[i].offer]
  <2>1. rows[i].ver \in Nat /\ rows[i].offer \in SUBSET Facts
    BY DEF TypeOK, Row
  <2>2. h \in Handler /\ h.id \in Ids
    BY <2>1, BlankTyped DEF Handler, HandlerPc, Offers
  <2>3. HandlerTyped'
    BY <1>1, <2>2, HoldTyped DEF BeginApply
  <2> QED
    BY <1>1, <2>3, TablesTyped DEF BeginApply, TypeOK
<1>2. ASSUME NEW P \in Offers, ApplyCommits(c, P)
      PROVE  TypeOK'
  <2> DEFINE i == handler[c].id
  <2>1. handler[c] \in Handler /\ i \in Ids /\ rows[i] \in Row
    BY <1>2, BusyTyped DEF ApplyCommits
  <2>2. Persisted(i, P) \in Graphs /\ graph \in Graphs /\ handler[c].sel \in SUBSET Facts
    BY <2>1, PersistedTyped DEF TypeOK, Offers, Handler
  <2>3. Consumed(c, P) \in Row
    BY <2>1, <2>2 DEF Consumed, Row, RowState
  <2>4. \A j \in Ids : Superseded(rows[j]) \in Row
    BY DEF TypeOK, Superseded, Row, RowState
  <2>5. rows' \in [Ids -> Row]
    BY <1>2, <2>3, <2>4 DEF ApplyCommits
  <2>6. acked' \subseteq Ids \X SUBSET Facts
    BY <1>2, <2>1, <2>2 DEF ApplyCommits, Ack, TypeOK
  <2>7. HandlerTyped' /\ graph' \in Graphs
    BY <1>2, <2>2, ReturnTyped DEF ApplyCommits
  <2> QED
    BY <1>2, <2>5, <2>6, <2>7 DEF ApplyCommits, TypeOK, HandlerTyped
<1>3. CASE ApplyReplays(c)
  <2>1. handler[c].id \in Ids /\ handler[c].sel \in SUBSET Facts
    BY <1>3, BusyTyped DEF ApplyReplays, Handler
  <2>2. acked' \subseteq Ids \X SUBSET Facts
    BY <1>3, <2>1 DEF ApplyReplays, Ack, TypeOK
  <2>3. HandlerTyped'
    BY <1>3, ReturnTyped DEF ApplyReplays
  <2> QED
    BY <1>3, <2>2, <2>3 DEF ApplyReplays, TypeOK, HandlerTyped
<1>4. CASE ApplyInvalidates(c)
  <2> DEFINE i == handler[c].id
  <2>1. i \in Ids /\ rows[i] \in Row
    BY <1>4, BusyTyped DEF ApplyInvalidates
  <2>2. [rows[i] EXCEPT !.st = "invalidated"] \in Row
    BY <2>1 DEF Row, RowState
  <2> QED
    BY <1>4, <2>1, <2>2, SettleTyped DEF ApplyInvalidates
<1>5. CASE ApplyAborts(c)
  BY <1>5, ReturnTyped, TablesTyped DEF ApplyAborts, TypeOK
<1> QED
  BY <1>1, <1>2, <1>3, <1>4, <1>5 DEF Applying

LEMMA EnvironmentTyped ==
  ASSUME TypeOK,
         \/ \E i \in Ids : Rollback(i)
         \/ \E f \in Facts : ForeignEdit(f)
         \/ Tick
         \/ Crash
  PROVE  TypeOK'
<1>1. ASSUME NEW i \in Ids, Rollback(i)
      PROVE  TypeOK'
  <2>1. rows[i] \in Row
    BY DEF TypeOK
  <2>2. [rows[i] EXCEPT !.st = "rolled_back"] \in Row /\ rows[i].before \in Graphs
    BY <2>1 DEF Row, RowState
  <2>3. rows' \in [Ids -> Row] /\ graph' \in Graphs
    BY <1>1, <2>2, PutTyped DEF Rollback
  <2> QED
    BY <1>1, <2>3 DEF Rollback, TypeOK
<1>2. ASSUME NEW f \in Facts, ForeignEdit(f)
      PROVE  TypeOK'
  <2>1. graph' \in Graphs
    BY <1>2 DEF ForeignEdit, TypeOK, Graphs
  <2>2. edits' \in Nat
    BY <1>2 DEF ForeignEdit, TypeOK
  <2> QED
    BY <1>2, <2>1, <2>2 DEF ForeignEdit, TypeOK
<1>3. CASE Tick
  BY <1>3 DEF Tick, TypeOK
<1>4. CASE Crash
  BY <1>4, BlankTyped DEF Crash, TypeOK
<1> QED
  BY <1>1, <1>2, <1>3, <1>4

LEMMA NextTyped ==
  ASSUME TypeOK, Next
  PROVE  TypeOK'
<1>1. ASSUME NEW c \in Clients, Resuming(c)
      PROVE  TypeOK'
  BY <1>1, BeginResumeTyped, ResumeTyped DEF Resuming
<1> QED
  BY <1>1, PreviewTyped, EngineTyped, ApplyingTyped, EnvironmentTyped
     DEF Next, Serve

LEMMA InitTyped == Init => TypeOK
  BY BlankTyped DEF Init, TypeOK, Graphs

(* Every variable keeps its shape.                                         *)
THEOREM TypeCorrect == Spec => []TypeOK
<1>1. TypeOK /\ UNCHANGED vars => TypeOK'
  BY DEF TypeOK, vars
<1> QED
  BY <1>1, InitTyped, NextTyped, PTL DEF Spec

-----------------------------------------------------------------------------
(* Preparing a preview. Until it applies, a handler rewrites at most one   *)
(* row, one that no preview was stored in, and makes a preview of it only  *)
(* for the brain as it is.                                                 *)

Rewrites(i) ==
  /\ rows[i].st \notin Finished
  /\ \A j \in Ids : j # i => rows'[j] = rows[j]
  /\ \/ rows'[i].st \notin Finished
     \/ /\ rows'[i].st = "active"
        /\ rows'[i].rev = graph
        /\ rows'[i].offer \in Offers

Prepares == UNCHANGED rows \/ \E i \in Ids : Rewrites(i)

LEMMA UpdatePrepares ==
  ASSUME TypeOK, NEW c \in Clients, handler[c].pc # "idle",
         NEW st \in {"investigating", "awaiting_clarification"},
         NEW asked, NEW answer, Update(c, st, asked, answer)
  PROVE  Prepares
<1> DEFINE i == handler[c].id
<1>1. CASE Updatable(i, handler[c].ver, st)
  <2>1. i \in Ids /\ rows[i] \in Row
    BY BusyTyped
  <2>2. rows[i].st \notin Finished
    BY <1>1 DEF Updatable, Finished
  <2>3. \A j \in Ids : j # i => rows'[j] = rows[j]
    BY <1>1 DEF Update, Put, TypeOK
  <2>4. rows'[i].st = st
    BY <1>1, <2>1 DEF Update, Put, TypeOK, Row
  <2> QED
    BY <2>1, <2>2, <2>3, <2>4 DEF Prepares, Rewrites, Finished
<1> QED
  BY <1>1 DEF Update, Prepares

LEMMA PreviewPrepares ==
  ASSUME TypeOK, NEW c \in Clients, Preview(c)
  PROVE  Prepares
<1> DEFINE i == handler[c].id
<1>1. ASSUME NEW k \in Ids, NEW pc, BeginPreview(c, k, pc)
      PROVE  Prepares
  BY <1>1 DEF BeginPreview, Prepares
<1>2. ASSUME handler[c].pc # "idle", NEW derived \in BOOLEAN,
             rows[i].st = "none", Put(i, NewInvestigation(c, derived))
      PROVE  Prepares
  <2>1. NewInvestigation(c, derived).st = "investigating"
    BY DEF NewInvestigation, NoRow
  <2>2. i \in Ids
    BY <1>2, BusyTyped
  <2>3. rows'[i].st = "investigating" /\ \A j \in Ids : j # i => rows'[j] = rows[j]
    BY <1>2, <2>1, <2>2 DEF Put, TypeOK
  <2> QED
    BY <1>2, <2>2, <2>3 DEF Prepares, Rewrites, Finished
<1>3. CASE Reserve(c)
  BY <1>2, <1>3 DEF Reserve, Prepares
<1>4. CASE IntakeReserve(c)
  <2>1. \/ UNCHANGED rows
        \/ rows[i].st = "none" /\ Put(i, NewInvestigation(c, TRUE))
    BY <1>4 DEF IntakeReserve
  <2> QED
    BY <1>2, <1>4, <2>1 DEF IntakeReserve, Prepares
<1>5. CASE IntakeAsk(c)
  BY <1>5, UpdatePrepares DEF IntakeAsk
<1> QED
  BY <1>1, <1>3, <1>4, <1>5 DEF Preview

LEMMA ResumingPrepares ==
  ASSUME TypeOK, NEW c \in Clients, Resuming(c)
  PROVE  Prepares
<1>1. CASE Resume(c)
  <2> DEFINE i == handler[c].id
  <2>1. i \in Ids /\ rows[i] \in Row
    BY <1>1, BusyTyped DEF Resume
  <2>2. \/ UNCHANGED rows
        \/ /\ rows[i].st = "awaiting_clarification"
           /\ \A j \in Ids : j # i => rows'[j] = rows[j]
           /\ rows'[i].st = "investigating"
    BY <1>1, <2>1 DEF Resume, Put, TypeOK, Row
  <2> QED
    BY <2>1, <2>2 DEF Prepares, Rewrites, Finished
<1>2. ASSUME NEW i \in Ids, NEW v, NEW a, BeginResume(c, i, v, a)
      PROVE  Prepares
  BY <1>2 DEF BeginResume, Prepares
<1> QED
  BY <1>1, <1>2 DEF Resuming

LEMMA FinalizePrepares ==
  ASSUME TypeOK, NEW c \in Clients, NEW st, NEW S, Finalize(c, st, S),
         st = "maintenance_deferred" \/ (st = "active" /\ S \in Offers)
  PROVE  Prepares
<1> DEFINE i == handler[c].id
           row == [rows[i] EXCEPT !.st = st, !.ver = @ + 1, !.offer = S,
                     !.seen = handler[c].answer,
                     !.exp = Later(now + MinTtl, @)]
<1>1. i \in Ids /\ rows[i] \in Row
  BY BusyTyped DEF Finalize
<1>2. CASE Finalizable(c)
  <2>1. /\ rows[i].st = "investigating"
        /\ rows[i].rev = graph
    BY <1>2 DEF Finalizable
  <2>2. row.st = st /\ row.rev = rows[i].rev /\ row.offer = S
    BY <1>1 DEF Row
  <2>3. Put(i, row)
    BY <1>2 DEF Finalize
  <2>4. rows'[i] = row /\ \A j \in Ids : j # i => rows'[j] = rows[j]
    BY <1>1, <2>3 DEF Put, TypeOK
  <2> HIDE DEF row
  <2> QED
    BY <1>1, <2>1, <2>2, <2>4 DEF Prepares, Rewrites, Finished
<1> QED
  BY <1>2 DEF Finalize, Prepares

LEMMA EnginePrepares ==
  ASSUME TypeOK, NEW c \in Clients, Engine(c)
  PROVE  Prepares
<1> DEFINE i == handler[c].id
<1>1. CASE EngineAsks(c) \/ TimeoutAsks(c) \/ EngineIncomplete(c)
  BY <1>1, UpdatePrepares DEF EngineAsks, TimeoutAsks, EngineIncomplete
<1>2. CASE EngineDefers(c)
  <2>1. Finalize(c, "maintenance_deferred", {})
    BY <1>2 DEF EngineDefers
  <2> QED
    BY <2>1, FinalizePrepares
<1>3. ASSUME NEW S \in Offers, EngineOffers(c, S)
      PROVE  Prepares
  BY <1>3, FinalizePrepares DEF EngineOffers
<1>4. CASE EngineRaises(c)
  <2>1. i \in Ids
    BY <1>4, BusyTyped DEF EngineRaises
  <2>2. \/ UNCHANGED rows
        \/ /\ rows[i].st = "investigating"
           /\ \A j \in Ids : j # i => rows'[j] = rows[j]
           /\ rows'[i].st = "none"
    BY <1>4, <2>1 DEF EngineRaises, Pristine, Put, TypeOK, NoRow
  <2> QED
    BY <2>1, <2>2 DEF Prepares, Rewrites, Finished
<1>5. ASSUME NEW S \in Offers, NEW j \in Ids, StoreRecovery(c, j, S)
      PROVE  Prepares
  <2> DEFINE row == [NoRow EXCEPT !.st = "active", !.rev = graph, !.offer = S,
                       !.exp = now + Ttl]
  <2>a. row.st = "active" /\ row.rev = graph /\ row.offer = S
    BY DEF NoRow
  <2>b. UNCHANGED rows \/ Put(j, row)
    BY <1>5 DEF StoreRecovery
  <2>1. \/ UNCHANGED rows
        \/ /\ \A k \in Ids : k # j => rows'[k] = rows[k]
           /\ rows'[j].st = "active"
           /\ rows'[j].rev = graph /\ rows'[j].offer = S
    BY <2>a, <2>b DEF Put, TypeOK
  <2>2. rows[j].st = "none"
    BY <1>5 DEF StoreRecovery
  <2> QED
    BY <2>1, <2>2 DEF Prepares, Rewrites, Finished
<1>6. CASE EngineFails(c) \/ RecoveryFails(c)
  BY <1>6 DEF EngineFails, RecoveryFails, Prepares
<1> QED
  BY <1>1, <1>2, <1>3, <1>4, <1>5, <1>6 DEF Engine

(* Every step but a committed apply and a rollback leaves the rows that    *)
(* are settled, and makes no receipt.                                      *)

KeepsSettled ==
  \A j \in Ids :
    rows[j].st \in Settled \/ rows'[j].st \in Applied => rows'[j] = rows[j]

LEMMA PreparesKeeps == Prepares => KeepsSettled
  BY DEF Prepares, Rewrites, KeepsSettled, Finished, Settled, Applied

LEMMA ApplyInvalidatesKeeps ==
  ASSUME TypeOK, NEW c \in Clients, ApplyInvalidates(c)
  PROVE  KeepsSettled
<1> DEFINE i == handler[c].id
<1>1. i \in Ids /\ rows[i] \in Row
  BY BusyTyped DEF ApplyInvalidates
<1>2. /\ rows[i].st = "active"
      /\ \A j \in Ids : j # i => rows'[j] = rows[j]
      /\ rows'[i].st = "invalidated"
  BY <1>1 DEF ApplyInvalidates, Put, TypeOK, Row
<1> QED
  BY <1>2 DEF KeepsSettled, Settled, Applied

-----------------------------------------------------------------------------
(* Safety. Attributable is not inductive alone: a rollback puts a snapshot *)
(* back, so the snapshot has to be attributable too, and is, because it is *)
(* part of the brain it replaces and holds nothing of the investigation    *)
(* that is rolled back.                                                    *)

IInv == TypeOK /\ Attributable /\ SnapshotsExact /\ AckedMatchesReceipt

Safe == Attributable /\ SnapshotsExact /\ AckedMatchesReceipt

(* A step that keeps the settled rows and the acknowledgements keeps what  *)
(* is said of the receipts.                                                *)
LEMMA KeepsReceipts ==
  ASSUME TypeOK, SnapshotsExact, AckedMatchesReceipt, KeepsSettled, acked' = acked
  PROVE  SnapshotsExact' /\ AckedMatchesReceipt'
<1>1. SnapshotsExact'
  <2> SUFFICES ASSUME NEW i \in Ids, rows'[i].st \in Applied
               PROVE  /\ rows'[i].before \cap Contribution(i, Facts) = {}
                      /\ \E P \in SUBSET rows'[i].sel :
                           rows'[i].after = rows'[i].before \cup Contribution(i, P)
    BY DEF SnapshotsExact, Contribution
  <2>1. rows'[i] = rows[i]
    BY DEF KeepsSettled
  <2> QED
    BY <2>1 DEF SnapshotsExact
<1>2. AckedMatchesReceipt'
  <2> SUFFICES ASSUME NEW a \in acked
               PROVE  rows'[a[1]].st \in Applied /\ rows'[a[1]].sel = a[2]
    BY DEF AckedMatchesReceipt
  <2>1. a[1] \in Ids
    BY DEF TypeOK
  <2>2. rows[a[1]].st \in Applied /\ rows[a[1]].sel = a[2]
    BY DEF AckedMatchesReceipt
  <2>3. rows'[a[1]] = rows[a[1]]
    BY <2>1, <2>2 DEF KeepsSettled, Settled, Applied
  <2> QED
    BY <2>2, <2>3
<1> QED
  BY <1>1, <1>2

(* One that also keeps the brain, or only takes from what Grow put there.  *)
LEMMA KeepsSafe ==
  ASSUME IInv, KeepsSettled, acked' = acked,
         \A f \in Facts, i \in Ids : <<f, i>> \in graph' => <<f, i>> \in graph
  PROVE  Safe'
<1>1. Attributable'
  BY DEF IInv, Attributable, KeepsSettled, Settled
<1> QED
  BY <1>1, KeepsReceipts DEF IInv, Safe

(* What a committed apply writes.                                          *)
LEMMA CommitWrites ==
  ASSUME TypeOK, NEW c \in Clients, NEW P \in Offers, ApplyCommits(c, P)
  PROVE  LET i == handler[c].id IN
         /\ i \in Ids
         /\ P \subseteq handler[c].sel /\ P \subseteq Facts
         /\ rows[i].st = "active"
         /\ graph' = graph \cup Contribution(i, P)
         /\ rows'[i].st = "consumed"
         /\ rows'[i].rev = rows[i].rev /\ rows'[i].offer = rows[i].offer
         /\ rows'[i].sel = handler[c].sel
         /\ rows'[i].before = graph
         /\ rows'[i].after = graph'
         /\ \A j \in Ids : j # i => rows'[j] = Superseded(rows[j])
         /\ acked' = acked \cup {<<i, handler[c].sel>>}
<1> DEFINE i == handler[c].id
<1>1. i \in Ids /\ rows[i] \in Row
  BY BusyTyped DEF ApplyCommits
<1>2. rows'[i] = Consumed(c, P) /\ \A j \in Ids : j # i => rows'[j] = Superseded(rows[j])
  BY <1>1 DEF ApplyCommits
<1>3. graph' = graph \cup Contribution(i, P)
  BY DEF ApplyCommits, Persisted
<1>4. rows'[i] = [rows[i] EXCEPT !.st = "consumed", !.sel = handler[c].sel,
                    !.before = graph, !.after = graph']
  BY <1>2, <1>3 DEF Consumed, Persisted
<1>5. /\ rows'[i].st = "consumed" /\ rows'[i].sel = handler[c].sel
      /\ rows'[i].rev = rows[i].rev /\ rows'[i].offer = rows[i].offer
      /\ rows'[i].before = graph /\ rows'[i].after = graph'
  BY <1>1, <1>4 DEF Row
<1> QED
  BY <1>1, <1>2, <1>3, <1>4, <1>5 DEF ApplyCommits, Ack, Offers

(* The rows a commit supersedes are neither settled nor receipts.          *)
LEMMA SupersededKeeps ==
  ASSUME TypeOK, NEW j \in Ids
  PROVE  /\ rows[j].st \in Settled => Superseded(rows[j]) = rows[j]
         /\ Superseded(rows[j]).st \in Applied => Superseded(rows[j]) = rows[j]
<1>1. rows[j] \in Row
  BY DEF TypeOK
<1>2. CASE rows[j].st = "active"
  <2>1. Superseded(rows[j]).st = "invalidated"
    BY <1>1, <1>2 DEF Superseded, Row
  <2> QED
    BY <1>2, <2>1 DEF Settled, Applied
<1>3. CASE rows[j].st # "active"
  BY <1>3 DEF Superseded
<1> QED
  BY <1>2, <1>3

LEMMA CommitReceipts ==
  ASSUME TypeOK, SnapshotsExact, AckedMatchesReceipt,
         NEW c \in Clients, NEW P \in Offers, ApplyCommits(c, P),
         graph \cap Contribution(handler[c].id, Facts) = {}
  PROVE  SnapshotsExact' /\ AckedMatchesReceipt'
<1> DEFINE i == handler[c].id
<1>1. /\ i \in Ids
      /\ P \subseteq handler[c].sel
      /\ rows[i].st = "active"
      /\ graph' = graph \cup Contribution(i, P)
      /\ rows'[i].st = "consumed"
      /\ rows'[i].sel = handler[c].sel
      /\ rows'[i].before = graph
      /\ rows'[i].after = graph'
      /\ \A j \in Ids : j # i => rows'[j] = Superseded(rows[j])
      /\ acked' = acked \cup {<<i, handler[c].sel>>}
  BY CommitWrites
<1>2. \A j \in Ids : j # i /\ rows[j].st \in Settled => rows'[j] = rows[j]
  BY <1>1, SupersededKeeps
<1>3. \A j \in Ids : j # i /\ rows'[j].st \in Applied => rows'[j] = rows[j]
  BY <1>1, SupersededKeeps
<1>4. SnapshotsExact'
  <2> SUFFICES ASSUME NEW j \in Ids, rows'[j].st \in Applied
               PROVE  /\ rows'[j].before \cap Contribution(j, Facts) = {}
                      /\ \E Q \in SUBSET rows'[j].sel :
                           rows'[j].after = rows'[j].before \cup Contribution(j, Q)
    BY DEF SnapshotsExact, Contribution
  <2>1. CASE j = i
    <3>1. P \in SUBSET rows'[i].sel /\ rows'[i].after = rows'[i].before \cup Contribution(i, P)
      BY <1>1
    <3> QED
      BY <1>1, <2>1, <3>1
  <2>2. CASE j # i
    BY <1>3, <2>2 DEF SnapshotsExact
  <2> QED
    BY <2>1, <2>2
<1>5. AckedMatchesReceipt'
  <2> SUFFICES ASSUME NEW a \in acked'
               PROVE  rows'[a[1]].st \in Applied /\ rows'[a[1]].sel = a[2]
    BY DEF AckedMatchesReceipt
  <2>1. CASE a = <<i, handler[c].sel>>
    BY <1>1, <2>1 DEF Applied
  <2>2. CASE a \in acked
    <3>1. a[1] \in Ids
      BY <2>2 DEF TypeOK
    <3>2. rows[a[1]].st \in Applied /\ rows[a[1]].sel = a[2]
      BY <2>2 DEF AckedMatchesReceipt
    <3>3. a[1] # i
      BY <1>1, <3>2 DEF Applied
    <3> QED
      BY <1>2, <3>1, <3>2, <3>3 DEF Applied, Settled
  <2> QED
    BY <1>1, <2>1, <2>2
<1> QED
  BY <1>4, <1>5

LEMMA CommitSafe ==
  ASSUME IInv, NEW c \in Clients, NEW P \in Offers, ApplyCommits(c, P)
  PROVE  Safe'
<1> DEFINE i == handler[c].id
<1> USE DEF IInv
<1>1. /\ i \in Ids
      /\ P \subseteq handler[c].sel
      /\ rows[i].st = "active"
      /\ graph' = graph \cup Contribution(i, P)
      /\ rows'[i].st = "consumed"
      /\ rows'[i].sel = handler[c].sel
      /\ \A j \in Ids : j # i => rows'[j] = Superseded(rows[j])
  BY CommitWrites
<1>2. \A j \in Ids : j # i /\ rows[j].st \in Settled => rows'[j] = rows[j]
  BY <1>1, SupersededKeeps
<1>3. graph \cap Contribution(i, Facts) = {}
  BY <1>1 DEF Attributable, Contribution
<1>4. Attributable'
  <2> SUFFICES ASSUME NEW f \in Facts, NEW j \in Ids, <<f, j>> \in graph'
               PROVE  rows'[j].st = "consumed" /\ f \in rows'[j].sel
    BY DEF Attributable
  <2>1. CASE j = i
    <3>1. <<f, i>> \notin graph
      BY <1>1 DEF Attributable
    <3>2. f \in P
      BY <1>1, <2>1, <3>1 DEF Contribution
    <3> QED
      BY <1>1, <2>1, <3>2
  <2>2. CASE j # i
    <3>1. <<f, j>> \in graph
      BY <1>1, <2>2 DEF Contribution
    <3>2. rows[j].st = "consumed" /\ f \in rows[j].sel
      BY <3>1 DEF Attributable
    <3> QED
      BY <1>2, <2>2, <3>2 DEF Settled
  <2> QED
    BY <2>1, <2>2
<1> QED
  BY <1>3, <1>4, CommitReceipts DEF Safe

(* What a rollback writes.                                                 *)
LEMMA RollbackWrites ==
  ASSUME TypeOK, NEW i \in Ids, Rollback(i)
  PROVE  /\ rows[i].st = "consumed" /\ graph = rows[i].after /\ graph' = rows[i].before
         /\ rows'[i].st = "rolled_back" /\ rows'[i].sel = rows[i].sel
         /\ rows'[i].before = rows[i].before /\ rows'[i].after = rows[i].after
         /\ \A j \in Ids : j # i => rows'[j] = rows[j]
         /\ acked' = acked
<1>1. rows[i] \in Row
  BY DEF TypeOK
<1>2. /\ rows'[i] = [rows[i] EXCEPT !.st = "rolled_back"]
      /\ \A j \in Ids : j # i => rows'[j] = rows[j]
  BY DEF Rollback, Put, TypeOK
<1>3. /\ rows'[i].st = "rolled_back" /\ rows'[i].sel = rows[i].sel
      /\ rows'[i].before = rows[i].before /\ rows'[i].after = rows[i].after
  BY <1>1, <1>2 DEF Row
<1> QED
  BY <1>2, <1>3 DEF Rollback

LEMMA RollbackReceipts ==
  ASSUME TypeOK, SnapshotsExact, AckedMatchesReceipt, NEW i \in Ids, Rollback(i)
  PROVE  SnapshotsExact' /\ AckedMatchesReceipt'
<1>1. SnapshotsExact'
  <2> SUFFICES ASSUME NEW j \in Ids, rows'[j].st \in Applied
               PROVE  /\ rows'[j].before \cap Contribution(j, Facts) = {}
                      /\ \E Q \in SUBSET rows'[j].sel :
                           rows'[j].after = rows'[j].before \cup Contribution(j, Q)
    BY DEF SnapshotsExact, Contribution
  <2>1. rows[j].st \in Applied
    BY RollbackWrites DEF Applied
  <2>2. /\ rows'[j].sel = rows[j].sel
        /\ rows'[j].before = rows[j].before /\ rows'[j].after = rows[j].after
    BY RollbackWrites
  <2> QED
    BY <2>1, <2>2 DEF SnapshotsExact
<1>2. AckedMatchesReceipt'
  <2> SUFFICES ASSUME NEW a \in acked
               PROVE  rows'[a[1]].st \in Applied /\ rows'[a[1]].sel = a[2]
    BY RollbackWrites DEF AckedMatchesReceipt
  <2>1. a[1] \in Ids /\ rows[a[1]].st \in Applied /\ rows[a[1]].sel = a[2]
    BY DEF TypeOK, AckedMatchesReceipt
  <2> QED
    BY <2>1, RollbackWrites DEF Applied
<1> QED
  BY <1>1, <1>2

LEMMA RollbackSafe ==
  ASSUME IInv, NEW i \in Ids, Rollback(i)
  PROVE  Safe'
<1> USE DEF IInv
<1>1. PICK P \in SUBSET rows[i].sel :
        graph = graph' \cup Contribution(i, P)
  BY RollbackWrites DEF SnapshotsExact, Applied
<1>2. graph' \cap Contribution(i, Facts) = {}
  BY RollbackWrites DEF SnapshotsExact, Applied
<1>3. Attributable'
  <2> SUFFICES ASSUME NEW f \in Facts, NEW j \in Ids, <<f, j>> \in graph'
               PROVE  rows'[j].st = "consumed" /\ f \in rows'[j].sel
    BY DEF Attributable
  <2>1. j # i
    BY <1>2 DEF Contribution
  <2>2. <<f, j>> \in graph
    BY <1>1
  <2> QED
    BY <2>1, <2>2, RollbackWrites DEF Attributable
<1> QED
  BY <1>3, RollbackReceipts DEF Safe

LEMMA ReplayReceipts ==
  ASSUME SnapshotsExact, AckedMatchesReceipt, NEW c \in Clients, ApplyReplays(c)
  PROVE  SnapshotsExact' /\ AckedMatchesReceipt'
<1>1. SnapshotsExact'
  BY DEF SnapshotsExact, ApplyReplays, Contribution
<1>2. AckedMatchesReceipt'
  <2> SUFFICES ASSUME NEW a \in acked'
               PROVE  rows[a[1]].st \in Applied /\ rows[a[1]].sel = a[2]
    BY DEF AckedMatchesReceipt, ApplyReplays
  <2>1. CASE a \in acked
    BY <2>1 DEF AckedMatchesReceipt
  <2>2. CASE a = <<handler[c].id, handler[c].sel>>
    BY <2>2 DEF ApplyReplays, Applied
  <2> QED
    BY <2>1, <2>2 DEF ApplyReplays, Ack
<1> QED
  BY <1>1, <1>2

LEMMA ReplaySafe ==
  ASSUME IInv, NEW c \in Clients, ApplyReplays(c)
  PROVE  Safe'
<1>1. Attributable'
  BY DEF IInv, Attributable, ApplyReplays
<1> QED
  BY <1>1, ReplayReceipts DEF IInv, Safe

(* Everything a handler does before it applies leaves brain and replies.   *)
LEMMA PreparingQuiet ==
  ASSUME NEW c \in Clients, Preview(c) \/ Resuming(c) \/ Engine(c)
  PROVE  UNCHANGED <<graph, acked>>
<1>1. CASE Preview(c)
  BY <1>1 DEF Preview, BeginPreview, Reserve, IntakeReserve, IntakeAsk, Update
<1>2. CASE Resuming(c)
  BY <1>2 DEF Resuming, BeginResume, Resume
<1>3. CASE Engine(c)
  BY <1>3 DEF Engine, EngineAsks, TimeoutAsks, EngineIncomplete, EngineDefers, EngineRaises,
              EngineFails, RecoveryFails, EngineOffers, Finalize, StoreRecovery,
              Update
<1> QED
  BY <1>1, <1>2, <1>3

(* An apply that begins or aborts changes nothing but its handler.         *)
LEMMA ApplyingCases ==
  ASSUME NEW c \in Clients, Applying(c)
  PROVE  \/ \E P \in Offers : ApplyCommits(c, P)
         \/ ApplyReplays(c)
         \/ ApplyInvalidates(c)
         \/ UNCHANGED <<graph, rows, acked>>
<1>1. ASSUME NEW i \in Ids, NEW S \in Offers, BeginApply(c, i, S)
      PROVE  UNCHANGED <<graph, rows, acked>>
  BY <1>1 DEF BeginApply
<1>2. ASSUME ApplyAborts(c)
      PROVE  UNCHANGED <<graph, rows, acked>>
  BY <1>2 DEF ApplyAborts
<1> QED
  BY <1>1, <1>2, Zenon DEF Applying

(* The steps that leave the settled rows alone: all but the commit of an   *)
(* apply and a rollback.                                                   *)
LEMMA OthersKeep ==
  ASSUME TypeOK, Next,
         \A c \in Clients, P \in Offers : ~ApplyCommits(c, P),
         \A i \in Ids : ~Rollback(i)
  PROVE  KeepsSettled
<1>1. CASE UNCHANGED rows
  BY <1>1 DEF KeepsSettled
<1>2. ASSUME NEW c \in Clients, Applying(c)
      PROVE  KeepsSettled
  <2>1. CASE ApplyInvalidates(c)
    BY <2>1, ApplyInvalidatesKeeps
  <2>2. CASE ApplyReplays(c)
    BY <1>1, <2>2 DEF ApplyReplays
  <2> QED
    BY <1>1, <1>2, <2>1, <2>2, ApplyingCases
<1> QED
  BY <1>1, <1>2, PreviewPrepares, ResumingPrepares, EnginePrepares, PreparesKeeps
     DEF Next, Serve, ForeignEdit, Tick, Crash

(* Such a step adds nothing of Grow's to the brain, and unless it answers  *)
(* from a receipt it acknowledges nothing.                                 *)
LEMMA OthersQuiet ==
  ASSUME Next,
         \A c \in Clients, P \in Offers : ~ApplyCommits(c, P),
         \A i \in Ids : ~Rollback(i),
         \A c \in Clients : ~ApplyReplays(c)
  PROVE  /\ acked' = acked
         /\ \A f \in Facts, i \in Ids : <<f, i>> \in graph' => <<f, i>> \in graph
<1>1. CASE Serve
  <2>1. PICK c \in Clients : Preview(c) \/ Resuming(c) \/ Engine(c) \/ Applying(c)
    BY <1>1 DEF Serve
  <2>2. CASE Applying(c)
    <3>1. ApplyInvalidates(c) \/ UNCHANGED <<graph, rows, acked>>
      BY <2>2, ApplyingCases
    <3> QED
      BY <3>1 DEF ApplyInvalidates
  <2> QED
    BY <2>1, <2>2, PreparingQuiet
<1>2. ASSUME NEW g \in Facts, ForeignEdit(g)
      PROVE  /\ acked' = acked
             /\ \A f \in Facts, i \in Ids : <<f, i>> \in graph' => <<f, i>> \in graph
  <2>1. \A i \in Ids : i # Foreign
    BY ConstantsAssumption
  <2> QED
    BY <1>2, <2>1 DEF ForeignEdit
<1> QED
  BY <1>1, <1>2 DEF Next, Tick, Crash

LEMMA NextSafe ==
  ASSUME IInv, Next
  PROVE  Safe'
<1>1. ASSUME \A c \in Clients, P \in Offers : ~ApplyCommits(c, P),
             \A i \in Ids : ~Rollback(i),
             \A c \in Clients : ~ApplyReplays(c)
      PROVE  Safe'
  BY <1>1, OthersKeep, OthersQuiet, KeepsSafe DEF IInv
<1> QED
  BY <1>1, CommitSafe, RollbackSafe, ReplaySafe

(* What is said of the receipts needs of the brain only that it holds      *)
(* nothing of a preview that is still to be applied.                       *)
LEMMA NextReceipts ==
  ASSUME TypeOK, SnapshotsExact, AckedMatchesReceipt, Next,
         \A i \in Ids : rows[i].st = "active" => graph \cap Contribution(i, Facts) = {}
  PROVE  SnapshotsExact' /\ AckedMatchesReceipt'
<1>1. ASSUME NEW c \in Clients, NEW P \in Offers, ApplyCommits(c, P)
      PROVE  SnapshotsExact' /\ AckedMatchesReceipt'
  <2>1. handler[c].id \in Ids /\ rows[handler[c].id].st = "active"
    BY <1>1, CommitWrites
  <2> QED
    BY <1>1, <2>1, CommitReceipts
<1>2. ASSUME \A c \in Clients, P \in Offers : ~ApplyCommits(c, P),
             \A i \in Ids : ~Rollback(i),
             \A c \in Clients : ~ApplyReplays(c)
      PROVE  SnapshotsExact' /\ AckedMatchesReceipt'
  BY <1>2, OthersKeep, OthersQuiet, KeepsReceipts
<1> QED
  BY <1>1, <1>2, RollbackReceipts, ReplayReceipts

LEMMA Inductive == Spec => []IInv
<1>1. Init => IInv
  <2> SUFFICES ASSUME Init
               PROVE  IInv
    OBVIOUS
  <2>1. \A i \in Ids : rows[i].st = "none"
    BY DEF Init, NoRow
  <2>2. \A f \in Facts, i \in Ids : <<f, i>> \notin graph
    BY ConstantsAssumption DEF Init
  <2> QED
    BY <2>1, <2>2, InitTyped
       DEF IInv, Attributable, SnapshotsExact, AckedMatchesReceipt, Applied, Init
<1>2. IInv /\ [Next]_vars => IInv'
  <2>1. CASE Next
    BY <2>1, NextTyped, NextSafe DEF IInv, Safe
  <2>2. CASE UNCHANGED vars
    BY <2>2 DEF IInv, TypeOK, Attributable, SnapshotsExact, AckedMatchesReceipt,
                Contribution, vars
  <2> QED
    BY <2>1, <2>2
<1> QED
  BY <1>1, <1>2, PTL DEF Spec

(* Nothing is in the brain on Grow's account without a receipt for it.     *)
THEOREM BrainAttributable == Spec => []Attributable
<1>1. IInv => Attributable
  BY DEF IInv
<1> QED
  BY <1>1, Inductive, PTL

(* The snapshot a rollback puts back is the brain without exactly what the *)
(* apply had contributed.                                                  *)
THEOREM SnapshotsAlwaysExact == Spec => []SnapshotsExact
<1>1. IInv => SnapshotsExact
  BY DEF IInv
<1> QED
  BY <1>1, Inductive, PTL

(* At most one selection of a preview is ever acknowledged as applied.     *)
THEOREM AcksHold == Spec => []AckedMatchesReceipt
<1>1. IInv => AckedMatchesReceipt
  BY DEF IInv
<1> QED
  BY <1>1, Inductive, PTL

-----------------------------------------------------------------------------
(* What a step may never do to a settled row.                              *)

SettledStays(i) ==
  rows[i].st \in Settled =>
    /\ rows'[i] = [rows[i] EXCEPT !.st = rows'[i].st]
    /\ rows'[i].st # rows[i].st =>
         rows[i].st = "consumed" /\ rows'[i].st = "rolled_back"

LEMMA SameStays ==
  ASSUME TypeOK, NEW i \in Ids, rows'[i] = rows[i]
  PROVE  SettledStays(i)
<1>1. rows[i] \in Row
  BY DEF TypeOK
<1>2. rows[i] = [rows[i] EXCEPT !.st = rows[i].st]
  BY <1>1 DEF Row
<1> QED
  BY <1>2 DEF SettledStays

LEMMA NextStays ==
  ASSUME TypeOK, Next, NEW i \in Ids
  PROVE  SettledStays(i)
<1>1. ASSUME NEW c \in Clients, NEW P \in Offers, ApplyCommits(c, P)
      PROVE  SettledStays(i)
  <2> DEFINE k == handler[c].id
  <2>0. /\ rows[k].st = "active"
        /\ \A j \in Ids : j # k => rows'[j] = Superseded(rows[j])
    BY <1>1, CommitWrites
  <2>1. CASE i = k
    BY <2>0, <2>1 DEF SettledStays, Settled
  <2>2. CASE i # k /\ rows[i].st \in Settled
    <3>1. rows'[i] = rows[i]
      BY <2>0, <2>2, SupersededKeeps
    <3> QED
      BY <3>1, SameStays
  <2> QED
    BY <2>1, <2>2 DEF SettledStays
<1>2. ASSUME NEW j \in Ids, Rollback(j)
      PROVE  SettledStays(i)
  <2>1. CASE i = j
    <3>1. rows[i] \in Row
      BY DEF TypeOK
    <3>2. rows'[i] = [rows[i] EXCEPT !.st = "rolled_back"]
      BY <1>2, <2>1 DEF Rollback, Put, TypeOK
    <3>3. rows'[i].st = "rolled_back"
      BY <3>1, <3>2 DEF Row
    <3> QED
      BY <1>2, <2>1, <3>2, <3>3 DEF SettledStays, Rollback
  <2>2. CASE i # j
    <3>1. rows'[i] = rows[i]
      BY <1>2, <2>2 DEF Rollback, Put, TypeOK
    <3> QED
      BY <3>1, SameStays
  <2> QED
    BY <2>1, <2>2
<1>3. ASSUME KeepsSettled
      PROVE  SettledStays(i)
  BY <1>3, SameStays DEF KeepsSettled, SettledStays
<1> QED
  BY <1>1, <1>2, <1>3, OthersKeep

(* A receipt and its snapshot are never rewritten, and no settled preview  *)
(* becomes applicable again.                                               *)
THEOREM ReceiptsStay == Spec => ReceiptsPermanent
<1>1. TypeOK /\ [Next]_vars => [\A i \in Ids : SettledStays(i)]_vars
  BY NextStays
<1>2. Spec => [][\A i \in Ids : SettledStays(i)]_vars
  BY <1>1, TypeCorrect, PTL DEF Spec
<1> QED
  BY <1>2 DEF ReceiptsPermanent, SettledStays
-----------------------------------------------------------------------------
(* The answers behind a preview. A version names one state of the answers: *)
(* it counts up while the row is there, and the only row that goes away is *)
(* one whose first version has no answers. So an engine run that finds its *)
(* version unchanged ran on the answers of the row.                        *)

Opened == {"investigating", "awaiting_clarification"}

RowAnswers(row) ==
  /\ row.st \in Opened => row.ver > 0
  /\ row.st = "none" => row.ver = 0
  /\ row.ver = 1 => row.answer = None
  /\ row.ver > 0 /\ row.st \in Finished \cup {"maintenance_deferred"}
       => row.seen = row.answer

EngineAnswers(c) ==
  LET h == handler[c]  row == rows[h.id] IN
  /\ h.pc = "reserving" => h.answer = None
  /\ h.pc = "engine" =>
       /\ h.ver > 0
       /\ h.ver = 1 => h.answer = None
       /\ h.ver > 1 => h.ver <= row.ver
       /\ row.st = "investigating" /\ row.ver = h.ver => h.answer = row.answer

AnswersInv ==
  TypeOK /\ (\A i \in Ids : RowAnswers(rows[i])) /\ \A c \in Clients : EngineAnswers(c)

(* How the version of a row moves.                                         *)
Counts(old, new) ==
  \/ new = old
  \/ old.ver > 0 /\ new.ver = old.ver + 1
  \/ old.ver = 0 /\ new.ver = 1 /\ new.answer = None
  \/ old.ver <= 1 /\ new.st # "investigating"
  \/ new.ver = old.ver /\ new.st # "investigating"

Advances(old, new) == Counts(old, new) /\ RowAnswers(new)

Answered == \A i \in Ids : Advances(rows[i], rows'[i])

LEMMA SameAnswered ==
  ASSUME AnswersInv, UNCHANGED rows
  PROVE  Answered
  BY DEF AnswersInv, Answered, Advances, Counts, RowAnswers

(* A row that is put in place is the only one that moves.                  *)
LEMMA PutAnswered ==
  ASSUME AnswersInv, NEW i \in Ids, NEW row, Put(i, row),
         Advances(rows[i], row)
  PROVE  Answered
<1>1. rows'[i] = row /\ \A j \in Ids : j # i => rows'[j] = rows[j]
  BY DEF Put, AnswersInv, TypeOK
<1> QED
  BY <1>1 DEF AnswersInv, Answered, Advances, Counts, RowAnswers

LEMMA UpdateAnswered ==
  ASSUME AnswersInv, NEW c \in Clients, handler[c].pc # "idle",
         NEW st \in Opened, NEW asked, NEW answer, Update(c, st, asked, answer)
  PROVE  Answered
<1> DEFINE i == handler[c].id
           row == [rows[i] EXCEPT !.st = st, !.ver = @ + 1,
                                  !.asked = asked, !.answer = answer]
<1>1. i \in Ids /\ rows[i] \in Row /\ rows[i].ver \in Nat
  BY BusyTyped DEF AnswersInv, Row
<1>2. CASE Updatable(i, handler[c].ver, st)
  <2>1. rows[i].ver > 0
    BY <1>1, <1>2 DEF Updatable, AnswersInv, RowAnswers, Opened
  <2>2. row.st = st /\ row.ver = rows[i].ver + 1
    BY <1>1 DEF Row
  <2>3. Put(i, row)
    BY <1>2 DEF Update
  <2> HIDE DEF row
  <2>4. Advances(rows[i], row)
    BY <1>1, <2>1, <2>2 DEF Advances, Counts, RowAnswers, Opened, Finished
  <2> QED
    BY <1>1, <2>3, <2>4, PutAnswered
<1>3. CASE ~Updatable(i, handler[c].ver, st)
  BY <1>3, SameAnswered DEF Update
<1> QED
  BY <1>2, <1>3

LEMMA NewAnswered ==
  ASSUME AnswersInv, NEW c \in Clients, NEW i \in Ids, NEW derived,
         rows[i].st = "none", Put(i, NewInvestigation(c, derived))
  PROVE  Answered
<1> DEFINE row == NewInvestigation(c, derived)
<1>1. row.st = "investigating" /\ row.ver = 1 /\ row.answer = None
  BY DEF NewInvestigation, NoRow
<1>2. rows[i].ver = 0
  BY DEF AnswersInv, RowAnswers
<1>3. Advances(rows[i], row)
  BY <1>1, <1>2 DEF Advances, Counts, RowAnswers, Opened, Finished
<1> QED
  BY <1>3, PutAnswered

LEMMA PreviewAnswered ==
  ASSUME AnswersInv, NEW c \in Clients, Preview(c)
  PROVE  Answered
<1>1. ASSUME NEW k \in Ids, NEW pc, BeginPreview(c, k, pc)
      PROVE  Answered
  BY <1>1, SameAnswered DEF BeginPreview
<1>2. CASE Reserve(c)
  <2>1. handler[c].id \in Ids
    BY <1>2, BusyTyped DEF Reserve, AnswersInv
  <2> QED
    BY <1>2, <2>1, NewAnswered, SameAnswered DEF Reserve
<1>3. CASE IntakeReserve(c)
  <2>1. handler[c].id \in Ids
    BY <1>3, BusyTyped DEF IntakeReserve, AnswersInv
  <2>2. \/ UNCHANGED rows
        \/ rows[handler[c].id].st = "none" /\ Put(handler[c].id, NewInvestigation(c, TRUE))
    BY <1>3 DEF IntakeReserve
  <2> QED
    BY <2>1, <2>2, NewAnswered, SameAnswered
<1>4. CASE IntakeAsk(c)
  BY <1>4, UpdateAnswered DEF IntakeAsk, Opened
<1> QED
  BY <1>1, <1>2, <1>3, <1>4 DEF Preview

LEMMA ResumingAnswered ==
  ASSUME AnswersInv, NEW c \in Clients, Resuming(c)
  PROVE  Answered
<1>1. CASE Resume(c)
  <2> DEFINE i == handler[c].id
             merged == Merge(rows[i].answer, handler[c].answer)
             row == [rows[i] EXCEPT !.st = "investigating", !.ver = @ + 1,
                                    !.answer = merged]
  <2>1. i \in Ids /\ rows[i] \in Row /\ rows[i].ver \in Nat
    BY <1>1, BusyTyped DEF Resume, AnswersInv, Row
  <2>2. \/ UNCHANGED rows
        \/ rows[i].st = "awaiting_clarification" /\ Put(i, row)
    BY <1>1 DEF Resume
  <2>3. row.st = "investigating" /\ row.ver = rows[i].ver + 1
    BY <2>1 DEF Row
  <2> HIDE DEF row
  <2>4. ASSUME rows[i].st = "awaiting_clarification"
        PROVE  Advances(rows[i], row)
    <3>1. rows[i].ver > 0
      BY <2>1, <2>4 DEF AnswersInv, RowAnswers, Opened
    <3> QED
      BY <2>1, <2>3, <2>4, <3>1 DEF Advances, Counts, RowAnswers, Opened, Finished
  <2> QED
    BY <2>1, <2>2, <2>4, PutAnswered, SameAnswered
<1>2. ASSUME NEW i \in Ids, NEW v, NEW a, BeginResume(c, i, v, a)
      PROVE  Answered
  BY <1>2, SameAnswered DEF BeginResume
<1> QED
  BY <1>1, <1>2 DEF Resuming

LEMMA FinalizeAnswered ==
  ASSUME AnswersInv, NEW c \in Clients, NEW st \in {"active", "maintenance_deferred"},
         NEW S, Finalize(c, st, S)
  PROVE  Answered
<1> DEFINE i == handler[c].id
           row == [rows[i] EXCEPT !.st = st, !.ver = @ + 1, !.offer = S,
                     !.seen = handler[c].answer, !.exp = Later(now + MinTtl, @)]
<1>1. i \in Ids /\ rows[i] \in Row /\ rows[i].ver \in Nat
  BY BusyTyped DEF Finalize, AnswersInv, Row
<1>2. CASE Finalizable(c)
  <2>1. handler[c].answer = rows[i].answer /\ rows[i].ver > 0
    BY <1>1, <1>2 DEF Finalize, Finalizable, AnswersInv, EngineAnswers, RowAnswers, Opened
  <2>2. /\ row.st = st /\ row.ver = rows[i].ver + 1
        /\ row.seen = handler[c].answer /\ row.answer = rows[i].answer
    BY <1>1 DEF Row
  <2>3. Put(i, row)
    BY <1>2 DEF Finalize
  <2> HIDE DEF row
  <2>4. Advances(rows[i], row)
    BY <1>1, <2>1, <2>2 DEF Advances, Counts, RowAnswers, Opened, Finished
  <2> QED
    BY <1>1, <2>3, <2>4, PutAnswered
<1>3. CASE ~Finalizable(c)
  BY <1>3, SameAnswered DEF Finalize
<1> QED
  BY <1>2, <1>3

LEMMA EngineAnswered ==
  ASSUME AnswersInv, NEW c \in Clients, Engine(c)
  PROVE  Answered
<1>1. CASE EngineAsks(c) \/ TimeoutAsks(c) \/ EngineIncomplete(c)
  BY <1>1, UpdateAnswered DEF EngineAsks, TimeoutAsks, EngineIncomplete, Opened
<1>2. ASSUME EngineDefers(c) \/ \E S \in Offers : EngineOffers(c, S)
      PROVE  Answered
  BY <1>2, FinalizeAnswered DEF EngineDefers, EngineOffers
<1>3. CASE EngineRaises(c)
  <2> DEFINE i == handler[c].id
  <2>1. i \in Ids /\ NoRow.st = "none" /\ NoRow.ver = 0
    BY <1>3, BusyTyped DEF EngineRaises, AnswersInv, NoRow
  <2>2. UNCHANGED rows \/ (rows[i].ver = 1 /\ Put(i, NoRow))
    BY <1>3 DEF EngineRaises, Pristine
  <2>3. rows[i].ver = 1 => Advances(rows[i], NoRow)
    BY <2>1 DEF Advances, Counts, RowAnswers, Opened
  <2> QED
    BY <2>1, <2>2, <2>3, PutAnswered, SameAnswered
<1>4. ASSUME NEW S \in Offers, NEW j \in Ids, StoreRecovery(c, j, S)
      PROVE  Answered
  <2> DEFINE row == [NoRow EXCEPT !.st = "active", !.rev = graph, !.offer = S,
                                  !.exp = now + Ttl]
  <2>1. row.st = "active" /\ row.ver = 0
    BY DEF NoRow
  <2>2. rows[j].ver = 0
    BY <1>4 DEF StoreRecovery, AnswersInv, RowAnswers
  <2>3. UNCHANGED rows \/ Put(j, row)
    BY <1>4 DEF StoreRecovery
  <2> HIDE DEF row
  <2>4. Advances(rows[j], row)
    BY <2>1, <2>2 DEF Advances, Counts, RowAnswers, Opened
  <2> QED
    BY <2>3, <2>4, PutAnswered, SameAnswered
<1>5. CASE EngineFails(c) \/ RecoveryFails(c)
  BY <1>5, SameAnswered DEF EngineFails, RecoveryFails
<1> QED
  BY <1>1, <1>2, <1>3, <1>4, <1>5 DEF Engine

(* Applying and rolling back move a row among the finished states only.    *)
Finishes(i) ==
  /\ rows[i].st \in Finished /\ rows'[i].st \in Finished
  /\ rows'[i].ver = rows[i].ver
  /\ rows'[i].answer = rows[i].answer /\ rows'[i].seen = rows[i].seen

LEMMA FinishesAnswered ==
  ASSUME AnswersInv, \A i \in Ids : rows'[i] = rows[i] \/ Finishes(i)
  PROVE  Answered
  BY DEF AnswersInv, Answered, Advances, Counts, RowAnswers, Opened, Finished, Finishes

LEMMA PutFinishes ==
  ASSUME TypeOK, NEW i \in Ids, NEW st \in Finished, rows[i].st \in Finished,
         Put(i, [rows[i] EXCEPT !.st = st])
  PROVE  \A j \in Ids : rows'[j] = rows[j] \/ Finishes(j)
<1>1. rows[i] \in Row
  BY DEF TypeOK
<1>2. rows'[i] = [rows[i] EXCEPT !.st = st] /\ \A j \in Ids : j # i => rows'[j] = rows[j]
  BY DEF Put, TypeOK
<1>3. Finishes(i)
  BY <1>1, <1>2 DEF Finishes, Row
<1> QED
  BY <1>2, <1>3

LEMMA ApplyingAnswered ==
  ASSUME AnswersInv, NEW c \in Clients, Applying(c)
  PROVE  Answered
<1>0. TypeOK
  BY DEF AnswersInv
<1>1. ASSUME NEW P \in Offers, ApplyCommits(c, P)
      PROVE  Answered
  <2> DEFINE i == handler[c].id
  <2>1. i \in Ids /\ rows[i] \in Row /\ \A j \in Ids : rows[j] \in Row
    BY <1>0, <1>1, BusyTyped DEF ApplyCommits, TypeOK
  <2>2. /\ Consumed(c, P).st = "consumed" /\ Consumed(c, P).ver = rows[i].ver
        /\ Consumed(c, P).answer = rows[i].answer /\ Consumed(c, P).seen = rows[i].seen
    BY <2>1 DEF Consumed, Row
  <2>3. rows'[i] = Consumed(c, P) /\ \A j \in Ids : j # i => rows'[j] = Superseded(rows[j])
    BY <1>1, <2>1 DEF ApplyCommits
  <2>4. Finishes(i)
    BY <1>1, <2>2, <2>3 DEF ApplyCommits, Finishes, Finished
  <2>5. ASSUME NEW j \in Ids, j # i
        PROVE  rows'[j] = rows[j] \/ Finishes(j)
    <3>1. CASE rows[j].st = "active"
      <4>1. rows'[j] = [rows[j] EXCEPT !.st = "invalidated"]
        BY <2>3, <2>5, <3>1 DEF Superseded
      <4> QED
        BY <2>1, <3>1, <4>1 DEF Finishes, Finished, Row
    <3>2. CASE rows[j].st # "active"
      BY <2>3, <2>5, <3>2 DEF Superseded
    <3> QED
      BY <3>1, <3>2
  <2> QED
    BY <2>4, <2>5, FinishesAnswered
<1>2. CASE ApplyInvalidates(c)
  <2>1. handler[c].id \in Ids
    BY <1>0, <1>2, BusyTyped DEF ApplyInvalidates
  <2>2. "invalidated" \in Finished /\ rows[handler[c].id].st \in Finished
    BY <1>2 DEF ApplyInvalidates, Finished
  <2> QED
    BY <1>0, <1>2, <2>1, <2>2, PutFinishes, FinishesAnswered DEF ApplyInvalidates
<1>3. CASE ApplyReplays(c) \/ ApplyAborts(c)
  BY <1>3, SameAnswered DEF ApplyReplays, ApplyAborts
<1>4. ASSUME NEW i \in Ids, NEW S \in Offers, BeginApply(c, i, S)
      PROVE  Answered
  BY <1>4, SameAnswered DEF BeginApply
<1> QED
  BY <1>1, <1>2, <1>3, <1>4 DEF Applying

LEMMA NextAnswered ==
  ASSUME AnswersInv, Next
  PROVE  Answered
<1>1. ASSUME NEW i \in Ids, Rollback(i)
      PROVE  Answered
  <2>1. TypeOK /\ rows[i].st \in Finished /\ "rolled_back" \in Finished
    BY <1>1 DEF AnswersInv, Rollback, Finished
  <2> QED
    BY <1>1, <2>1, PutFinishes, FinishesAnswered DEF Rollback
<1>2. ASSUME (\E f \in Facts : ForeignEdit(f)) \/ Tick \/ Crash
      PROVE  Answered
  BY <1>2, SameAnswered DEF ForeignEdit, Tick, Crash
<1> QED
  BY <1>1, <1>2, PreviewAnswered, ResumingAnswered, EngineAnswered, ApplyingAnswered
     DEF Next, Serve

(* An engine run that goes on keeps its answers; whoever starts one has    *)
(* the answers that the row got with its version.                          *)
Runs(c) == handler'[c] = handler[c] \/ EngineAnswers(c)'

LEMMA HoldRuns ==
  ASSUME TypeOK, NEW c \in Clients, NEW h, Hold(c, h), h.pc # "engine",
         h.pc = "reserving" => h.answer = None
  PROVE  \A d \in Clients : Runs(d)
  BY DEF Hold, Runs, EngineAnswers, TypeOK

LEMMA ReturnRuns ==
  ASSUME TypeOK, NEW c \in Clients, Return(c)
  PROVE  \A d \in Clients : Runs(d)
  BY DEF Return, Runs, EngineAnswers, TypeOK, Idle

(* A handler enters the engine with version v and answer a.                *)
LEMMA EntersRuns ==
  ASSUME TypeOK, NEW c \in Clients, NEW v \in Nat \ {0}, NEW a, handler[c].pc # "idle",
         Hold(c, [handler[c] EXCEPT !.pc = "engine", !.ver = v, !.answer = a]),
         v = 1 => a = None,
         rows'[handler[c].id].ver = v, rows'[handler[c].id].answer = a
  PROVE  \A d \in Clients : Runs(d)
<1> DEFINE h == [handler[c] EXCEPT !.pc = "engine", !.ver = v, !.answer = a]
<1>1. h.pc = "engine" /\ h.ver = v /\ h.answer = a /\ h.id = handler[c].id
  BY BusyTyped DEF Handler
<1>2. handler'[c] = h /\ \A d \in Clients : d # c => handler'[d] = handler[d]
  BY DEF Hold, TypeOK
<1> HIDE DEF h
<1>3. EngineAnswers(c)'
  BY <1>1, <1>2 DEF EngineAnswers
<1> QED
  BY <1>2, <1>3 DEF Runs

LEMMA ReserveRuns ==
  ASSUME AnswersInv, NEW c \in Clients, Reserve(c)
  PROVE  \A d \in Clients : Runs(d)
<1> DEFINE i == handler[c].id
<1>1. handler[c] \in Handler /\ i \in Ids /\ TypeOK /\ handler[c].pc # "idle"
  BY BusyTyped DEF Reserve, AnswersInv
<1>2. CASE Put(i, NewInvestigation(c, FALSE))
           /\ Hold(c, [handler[c] EXCEPT !.pc = "engine", !.ver = 1])
  <2>1. rows'[i].ver = 1 /\ rows'[i].answer = None
    BY <1>1, <1>2 DEF Put, NewInvestigation, NoRow, TypeOK
  <2>2. handler[c].answer = None
    BY DEF Reserve, AnswersInv, EngineAnswers
  <2>3. [handler[c] EXCEPT !.pc = "engine", !.ver = 1]
          = [handler[c] EXCEPT !.pc = "engine", !.ver = 1, !.answer = None]
    BY <1>1, <2>2 DEF Handler
  <2>4. Hold(c, [handler[c] EXCEPT !.pc = "engine", !.ver = 1, !.answer = None])
    BY <1>2, <2>3
  <2>5. 1 \in Nat \ {0}
    OBVIOUS
  <2> HIDE DEF i
  <2> QED
    BY <1>1, <2>1, <2>4, <2>5, EntersRuns DEF i
<1>3. CASE Return(c)
  BY <1>1, <1>3, ReturnRuns
<1> QED
  BY <1>2, <1>3 DEF Reserve

LEMMA ResumeRuns ==
  ASSUME AnswersInv, NEW c \in Clients, Resume(c)
  PROVE  \A d \in Clients : Runs(d)
<1> DEFINE i == handler[c].id
           merged == Merge(rows[i].answer, handler[c].answer)
<1>1. /\ handler[c] \in Handler /\ i \in Ids /\ TypeOK /\ handler[c].pc # "idle"
      /\ rows[i] \in Row /\ rows[i].ver \in Nat
  BY BusyTyped DEF Resume, AnswersInv, Row
<1>2. CASE /\ Resumable(c)
           /\ Put(i, [rows[i] EXCEPT !.st = "investigating", !.ver = @ + 1,
                                     !.answer = merged])
           /\ Hold(c, [handler[c] EXCEPT !.pc = "engine", !.ver = rows[i].ver + 1,
                                         !.answer = merged])
  <2>1. rows'[i].ver = rows[i].ver + 1 /\ rows'[i].answer = merged
    BY <1>1, <1>2 DEF Put, Row, TypeOK
  <2>2. rows[i].ver > 0
    BY <1>2 DEF Resumable
  <2>3. rows[i].ver + 1 \in Nat \ {0} /\ rows[i].ver + 1 # 1
    BY <1>1, <2>2
  <2> QED
    BY <1>1, <1>2, <2>1, <2>3, EntersRuns
<1>3. CASE /\ Resumable(c) /\ UNCHANGED rows
           /\ Hold(c, [handler[c] EXCEPT !.pc = "engine", !.ver = rows[i].ver,
                                         !.answer = rows[i].answer])
  <2>1. rows[i].ver \in Nat \ {0} /\ (rows[i].ver = 1 => rows[i].answer = None)
    BY <1>1, <1>3 DEF Resumable, AnswersInv, RowAnswers
  <2> QED
    BY <1>1, <1>3, <2>1, EntersRuns
<1>4. CASE Return(c)
  BY <1>1, <1>4, ReturnRuns
<1> QED
  BY <1>2, <1>3, <1>4 DEF Resume

LEMMA NextRuns ==
  ASSUME AnswersInv, Next
  PROVE  \A d \in Clients : Runs(d)
<1>0. TypeOK
  BY DEF AnswersInv
<1>1. ASSUME NEW c \in Clients, NEW i \in Ids, NEW pc \in {"reserving", "intake"},
             BeginPreview(c, i, pc)
      PROVE  \A d \in Clients : Runs(d)
  <2> DEFINE h == [Idle EXCEPT !.pc = pc, !.id = i, !.rev = graph, !.fresh = TRUE]
  <2>1. h.pc = pc /\ h.answer = None /\ Hold(c, h)
    BY <1>1 DEF Idle, BeginPreview
  <2> HIDE DEF h
  <2> QED
    BY <1>0, <2>1, HoldRuns
<1>2. ASSUME NEW c \in Clients, IntakeReserve(c)
      PROVE  \A d \in Clients : Runs(d)
  <2> DEFINE h(v) == [handler[c] EXCEPT !.pc = "asking", !.ver = v]
  <2>1. \A v : h(v).pc = "asking"
    BY <1>0, <1>2, BusyTyped DEF IntakeReserve, Handler
  <2>2. Return(c) \/ \E v : Hold(c, h(v))
    BY <1>2 DEF IntakeReserve
  <2> HIDE DEF h
  <2> QED
    BY <1>0, <2>1, <2>2, HoldRuns, ReturnRuns
<1>3. ASSUME NEW c \in Clients, NEW i \in Ids, NEW v, NEW a, BeginResume(c, i, v, a)
      PROVE  \A d \in Clients : Runs(d)
  <2> DEFINE r == [Idle EXCEPT !.pc = "recovering", !.id = i, !.rev = graph]
             h == [Idle EXCEPT !.pc = "resuming", !.id = i, !.ver = v,
                               !.rev = graph, !.answer = a]
  <2>1. r.pc = "recovering" /\ h.pc = "resuming"
    BY DEF Idle
  <2>2. Hold(c, r) \/ Hold(c, h)
    BY <1>3 DEF BeginResume
  <2> HIDE DEF r, h
  <2> QED
    BY <1>0, <2>1, <2>2, HoldRuns
<1>4. ASSUME NEW c \in Clients, Return(c) \/ Recover(c), handler[c].pc # "idle"
      PROVE  \A d \in Clients : Runs(d)
  <2> DEFINE h == [handler[c] EXCEPT !.pc = "recovering"]
  <2>1. h.pc = "recovering"
    BY <1>0, <1>4, BusyTyped DEF Handler
  <2>2. Return(c) \/ Hold(c, h)
    BY <1>4 DEF Recover
  <2> HIDE DEF h
  <2> QED
    BY <1>0, <2>1, <2>2, HoldRuns, ReturnRuns
<1>5. ASSUME NEW c \in Clients, Engine(c)
      PROVE  \A d \in Clients : Runs(d)
  BY <1>4, <1>5 DEF Engine, EngineAsks, TimeoutAsks, EngineIncomplete, EngineDefers,
     EngineRaises, EngineFails, RecoveryFails, EngineOffers, StoreRecovery, Update, Finalize
<1>6. ASSUME NEW c \in Clients, NEW i \in Ids, NEW S \in Offers, BeginApply(c, i, S)
      PROVE  \A d \in Clients : Runs(d)
  <2> DEFINE h == [Idle EXCEPT !.pc = "applying", !.id = i, !.ver = rows[i].ver,
                               !.sel = S, !.offer = rows[i].offer]
  <2>1. h.pc = "applying" /\ Hold(c, h)
    BY <1>6 DEF Idle, BeginApply
  <2> HIDE DEF h
  <2> QED
    BY <1>0, <2>1, HoldRuns
<1>7. ASSUME NEW c \in Clients,
             \/ \E P \in Offers : ApplyCommits(c, P)
             \/ ApplyReplays(c) \/ ApplyInvalidates(c) \/ ApplyAborts(c)
      PROVE  \A d \in Clients : Runs(d)
  BY <1>0, <1>7, ReturnRuns DEF ApplyCommits, ApplyReplays, ApplyInvalidates, ApplyAborts
<1>8. CASE Crash
  BY <1>8 DEF Crash, Runs, EngineAnswers, Idle
<1>9. ASSUME UNCHANGED handler
      PROVE  \A d \in Clients : Runs(d)
  BY <1>9 DEF Runs
<1>10. ASSUME NEW c \in Clients, IntakeAsk(c)
       PROVE  \A d \in Clients : Runs(d)
  BY <1>4, <1>10 DEF IntakeAsk, Update
<1> QED
  BY <1>1, <1>2, <1>3, <1>5, <1>6, <1>7, <1>8, <1>9, <1>10, ReserveRuns, ResumeRuns
     DEF Next, Serve, Preview, Resuming, Applying, Rollback, ForeignEdit, Tick

LEMMA RunsAnswers ==
  ASSUME AnswersInv, Answered, NEW c \in Clients, Runs(c)
  PROVE  EngineAnswers(c)'
<1>1. CASE handler'[c] = handler[c] /\ handler[c].pc = "engine"
  <2>1. /\ handler[c].id \in Ids /\ handler[c].ver \in Nat
        /\ rows[handler[c].id].ver \in Nat
    BY <1>1, BusyTyped DEF AnswersInv, Handler, Row
  <2>2. /\ EngineAnswers(c)
        /\ Counts(rows[handler[c].id], rows'[handler[c].id])
    BY <2>1 DEF AnswersInv, Answered, Advances
  <2> QED
    BY <1>1, <2>1, <2>2 DEF EngineAnswers, Counts
<1>2. CASE handler'[c] = handler[c] /\ handler[c].pc # "engine"
  BY <1>2 DEF AnswersInv, EngineAnswers
<1> QED
  BY <1>1, <1>2 DEF Runs

(* No engine run that another one overtook ever becomes a preview.         *)
THEOREM PreviewsSeeAnswers == Spec => []PreviewSeesAnswers
<1>1. Init => AnswersInv
  <2> SUFFICES ASSUME Init
               PROVE  AnswersInv
    OBVIOUS
  <2>1. \A i \in Ids : RowAnswers(rows[i])
    BY DEF Init, RowAnswers, NoRow, Opened, Finished
  <2>2. \A c \in Clients : EngineAnswers(c)
    BY DEF Init, EngineAnswers, Idle
  <2> QED
    BY <2>1, <2>2, InitTyped DEF AnswersInv
<1>2. AnswersInv /\ [Next]_vars => AnswersInv'
  <2>1. ASSUME AnswersInv, Next
        PROVE  AnswersInv'
    <3>1. Answered /\ \A c \in Clients : EngineAnswers(c)'
      BY <2>1, NextAnswered, NextRuns, RunsAnswers
    <3>2. TypeOK'
      BY <2>1, NextTyped DEF AnswersInv
    <3> QED
      BY <3>1, <3>2 DEF AnswersInv, Answered, Advances
  <2>2. ASSUME AnswersInv, UNCHANGED vars
        PROVE  AnswersInv'
    BY <2>2 DEF AnswersInv, TypeOK, RowAnswers, EngineAnswers, vars
  <2> QED
    BY <2>1, <2>2
<1>3. AnswersInv => PreviewSeesAnswers
  BY DEF AnswersInv, RowAnswers, PreviewSeesAnswers
<1> QED
  BY <1>1, <1>2, <1>3, PTL DEF Spec
==============================================================================
