--------------------------- MODULE GrowStoreRefines ---------------------------
(***************************************************************************)
(* The proof that GrowStore implements ReviewedApply: the graph is the     *)
(* memory, the rows that hold a preview are the proposals, and every step  *)
(* of the store, its handlers and its environment is a step of the         *)
(* abstract specification or leaves memory and proposals alone.            *)
(***************************************************************************)
EXTENDS GrowStoreProofs

(* A handler that applies was given a selection of what it was shown.      *)
SelectionsOffered ==
  \A c \in Clients : handler[c].pc = "applying" => handler[c].sel \subseteq handler[c].offer

Blank == [st |-> "none", basis |-> {}, offer |-> {}]

(* What a row stands for.                                                  *)
LEMMA ProposalOf ==
  ASSUME NEW row
  PROVE  /\ row.st \notin Finished => Proposal(row) = Blank
         /\ row.st = "active" =>
              Proposal(row) = [st |-> "open", basis |-> row.rev, offer |-> row.offer]
         /\ row.st = "consumed" =>
              Proposal(row) = [st |-> "applied", basis |-> row.rev, offer |-> row.offer]
         /\ row.st = "rolled_back" =>
              Proposal(row) = [st |-> "undone", basis |-> row.rev, offer |-> row.offer]
         /\ row.st = "invalidated" =>
              Proposal(row) = [st |-> "closed", basis |-> row.rev, offer |-> row.offer]
<1>1. CASE row.st \notin Finished
  BY <1>1 DEF Proposal, Finished, Blank
<1>2. CASE row.st = "active"
  BY <1>2 DEF Proposal, Finished
<1>3. CASE row.st = "consumed"
  BY <1>3 DEF Proposal, Finished
<1>4. CASE row.st = "rolled_back"
  BY <1>4 DEF Proposal, Finished
<1>5. CASE row.st = "invalidated"
  BY <1>5 DEF Proposal, Finished
<1> QED
  BY <1>1, <1>2, <1>3, <1>4, <1>5 DEF Finished

LEMMA Stutters ==
  ASSUME graph' = graph, \A j \in Ids : Proposal(rows'[j]) = Proposal(rows[j])
  PROVE  UNCHANGED Reviewed!avars
  BY DEF Reviewed!avars

LEMMA Becomes ==
  ASSUME NEW i \in Ids, NEW p, Proposal(rows'[i]) = p,
         \A j \in Ids : j # i => Proposal(rows'[j]) = Proposal(rows[j])
  PROVE  [j \in Ids |-> Proposal(rows[j])]' =
           [[j \in Ids |-> Proposal(rows[j])] EXCEPT ![i] = p]
  OBVIOUS

(* A step that prepares proposes, or leaves the proposals.                 *)
LEMMA PreparesRefines ==
  ASSUME Prepares, graph' = graph
  PROVE  [Reviewed!ANext]_(Reviewed!avars)
<1>1. CASE UNCHANGED rows
  BY <1>1, Stutters
<1>2. ASSUME NEW i \in Ids, Rewrites(i)
      PROVE  [Reviewed!ANext]_(Reviewed!avars)
  <2>1. Proposal(rows[i]) = Blank
    BY <1>2, ProposalOf DEF Rewrites
  <2>2. \A j \in Ids : j # i => Proposal(rows'[j]) = Proposal(rows[j])
    BY <1>2 DEF Rewrites
  <2>3. CASE rows'[i].st \notin Finished
    <3>1. Proposal(rows'[i]) = Blank
      BY <2>3, ProposalOf
    <3> QED
      BY <2>1, <2>2, <3>1, Stutters
  <2>4. CASE /\ rows'[i].st = "active"
             /\ rows'[i].rev = graph
             /\ rows'[i].offer \in Offers
    <3>1. Proposal(rows'[i]) = [st |-> "open", basis |-> graph, offer |-> rows'[i].offer]
      BY <2>4, ProposalOf
    <3>2. Reviewed!Propose(i)
      <4> DEFINE p == [st |-> "open", basis |-> graph, offer |-> rows'[i].offer]
      <4>1. [j \in Ids |-> Proposal(rows[j])]' =
              [[j \in Ids |-> Proposal(rows[j])] EXCEPT ![i] = p]
        BY <2>2, <3>1, Becomes
      <4>2. rows'[i].offer \in (SUBSET Facts) \ {{}}
        BY <2>4 DEF Offers
      <4>3. [j \in Ids |-> Proposal(rows[j])][i].st = "none"
        BY <2>1 DEF Blank
      <4> QED
        BY <4>1, <4>2, <4>3 DEF Reviewed!Propose
    <3> QED
      BY <3>2 DEF Reviewed!ANext
  <2> QED
    BY <1>2, <2>3, <2>4 DEF Rewrites
<1> QED
  BY <1>1, <1>2 DEF Prepares

(* A preview that lapses is closed.                                        *)
LEMMA InvalidateRefines ==
  ASSUME TypeOK, NEW c \in Clients, ApplyInvalidates(c)
  PROVE  Reviewed!ANext
<1> DEFINE i == handler[c].id
<1>1. i \in Ids /\ rows[i] \in Row
  BY BusyTyped DEF ApplyInvalidates
<1>2. /\ rows[i].st = "active"
      /\ graph' = graph
      /\ rows'[i] = [rows[i] EXCEPT !.st = "invalidated"]
      /\ \A j \in Ids : j # i => rows'[j] = rows[j]
  BY <1>1 DEF ApplyInvalidates, Put, TypeOK
<1>3. /\ rows'[i].st = "invalidated"
      /\ rows'[i].rev = rows[i].rev /\ rows'[i].offer = rows[i].offer
  BY <1>1, <1>2 DEF Row
<1>4. /\ Proposal(rows[i]) = [st |-> "open", basis |-> rows[i].rev, offer |-> rows[i].offer]
      /\ Proposal(rows'[i]) = [st |-> "closed", basis |-> rows[i].rev, offer |-> rows[i].offer]
  BY <1>2, <1>3, ProposalOf
<1>5. \A j \in Ids : j # i => Proposal(rows'[j]) = Proposal(rows[j])
  BY <1>2
<1>6. Reviewed!Close(i)
  BY <1>1, <1>2, <1>4, <1>5 DEF Reviewed!Close
<1> QED
  BY <1>1, <1>6 DEF Reviewed!ANext

(* A committed apply is an apply of what the reviewer saw.                 *)
LEMMA CommitRefines ==
  ASSUME TypeOK, SelectionsOffered, NEW c \in Clients, NEW P \in Offers,
         ApplyCommits(c, P)
  PROVE  Reviewed!ANext
<1> DEFINE i == handler[c].id
<1>1. /\ i \in Ids
      /\ P \subseteq handler[c].sel
      /\ rows[i].st = "active"
      /\ graph' = graph \cup Contribution(i, P)
      /\ rows'[i].st = "consumed"
      /\ rows'[i].rev = rows[i].rev /\ rows'[i].offer = rows[i].offer
      /\ \A j \in Ids : j # i => rows'[j] = Superseded(rows[j])
  BY CommitWrites
<1>2. rows[i].rev = graph /\ P # {} /\ rows[i].offer = handler[c].offer
      /\ handler[c].pc = "applying"
  <2>1. handler[c].pc = "applying" /\ SamePreview(c) /\ ~Lapsed(i) /\ P # {}
    BY DEF ApplyCommits
  <2> QED
    BY <2>1 DEF Lapsed, SamePreview
<1>3. P \in (SUBSET rows[i].offer) \ {{}}
  BY <1>1, <1>2 DEF SelectionsOffered
<1>4. /\ Proposal(rows[i]) = [st |-> "open", basis |-> graph, offer |-> rows[i].offer]
      /\ Proposal(rows'[i]) = [st |-> "applied", basis |-> graph, offer |-> rows[i].offer]
  BY <1>1, <1>2, ProposalOf
<1>5. ASSUME NEW j \in Ids, j # i
      PROVE  Proposal(rows'[j]) =
               IF Proposal(rows[j]).st = "open"
               THEN [Proposal(rows[j]) EXCEPT !.st = "closed"]
               ELSE Proposal(rows[j])
  <2>1. rows[j] \in Row /\ rows'[j] = Superseded(rows[j])
    BY <1>1, <1>5 DEF TypeOK
  <2>2. CASE rows[j].st = "active"
    <3>1. /\ rows'[j].st = "invalidated"
          /\ rows'[j].rev = rows[j].rev /\ rows'[j].offer = rows[j].offer
      BY <2>1, <2>2 DEF Superseded, Row
    <3>2. /\ Proposal(rows[j]) = [st |-> "open", basis |-> rows[j].rev, offer |-> rows[j].offer]
          /\ Proposal(rows'[j]) = [st |-> "closed", basis |-> rows[j].rev, offer |-> rows[j].offer]
      BY <2>2, <3>1, ProposalOf
    <3> QED
      BY <3>2
  <2>3. CASE rows[j].st # "active"
    <3>1. Proposal(rows[j]).st # "open"
      BY <2>3, ProposalOf DEF Blank, Finished
    <3> QED
      BY <2>1, <2>3, <3>1 DEF Superseded
  <2> QED
    BY <2>2, <2>3
<1>6. Reviewed!Apply(i)
  <2>1. graph' = graph \cup Reviewed!Contribution(i, P)
    BY <1>1 DEF Contribution, Reviewed!Contribution
  <2>2. [j \in Ids |-> Proposal(rows[j])]' = [j \in Ids |->
           IF j = i THEN [Proposal(rows[j]) EXCEPT !.st = "applied"]
           ELSE IF Proposal(rows[j]).st = "open"
           THEN [Proposal(rows[j]) EXCEPT !.st = "closed"]
           ELSE Proposal(rows[j])]
    BY <1>4, <1>5
  <2> QED
    BY <1>1, <1>3, <1>4, <2>1, <2>2 DEF Reviewed!Apply
<1> QED
  BY <1>1, <1>6 DEF Reviewed!ANext

(* A rollback takes away exactly the contribution of its investigation.    *)
LEMMA RollbackRefines ==
  ASSUME TypeOK, SnapshotsExact, NEW i \in Ids, Rollback(i)
  PROVE  Reviewed!ANext
<1>1. rows[i] \in Row /\ rows[i].st = "consumed"
  BY DEF Rollback, TypeOK
<1>2. PICK P \in SUBSET rows[i].sel : graph = graph' \cup Contribution(i, P)
  BY <1>1 DEF Rollback, SnapshotsExact, Applied
<1>3. graph' \cap Contribution(i, Facts) = {}
  BY <1>1 DEF Rollback, SnapshotsExact, Applied
<1>4. graph' = graph \ Reviewed!Contribution(i, Facts)
  <2>1. rows[i].sel \subseteq Facts
    BY <1>1 DEF Row
  <2> QED
    BY <1>2, <1>3, <2>1 DEF Contribution, Reviewed!Contribution
<1>5. /\ rows'[i] = [rows[i] EXCEPT !.st = "rolled_back"]
      /\ \A j \in Ids : j # i => rows'[j] = rows[j]
  BY DEF Rollback, Put, TypeOK
<1>6. /\ rows'[i].st = "rolled_back"
      /\ rows'[i].rev = rows[i].rev /\ rows'[i].offer = rows[i].offer
  BY <1>1, <1>5 DEF Row
<1>7. /\ Proposal(rows[i]) = [st |-> "applied", basis |-> rows[i].rev, offer |-> rows[i].offer]
      /\ Proposal(rows'[i]) = [st |-> "undone", basis |-> rows[i].rev, offer |-> rows[i].offer]
  BY <1>1, <1>6, ProposalOf
<1>8. \A j \in Ids : j # i => Proposal(rows'[j]) = Proposal(rows[j])
  BY <1>5
<1>9. Reviewed!Undo(i)
  <2> DEFINE abst == [j \in Ids |-> Proposal(rows[j])]
             p == [st |-> "undone", basis |-> rows[i].rev, offer |-> rows[i].offer]
  <2>1. [j \in Ids |-> Proposal(rows[j])]' =
          [[j \in Ids |-> Proposal(rows[j])] EXCEPT ![i] = p]
    BY <1>7, <1>8, Becomes
  <2>2. abst[i].st = "applied" /\ [abst[i] EXCEPT !.st = "undone"] = p
    BY <1>7
  <2> QED
    BY <1>4, <2>1, <2>2 DEF Reviewed!Undo
<1> QED
  BY <1>9 DEF Reviewed!ANext

LEMMA EditRefines ==
  ASSUME NEW f \in Facts, ForeignEdit(f)
  PROVE  Reviewed!ANext
<1>1. graph' \subseteq graph \cup (Facts \X {Foreign})
  BY DEF ForeignEdit
<1>2. UNCHANGED rows
  BY DEF ForeignEdit
<1>3. Reviewed!Edit
  BY <1>1, <1>2 DEF Reviewed!Edit
<1> QED
  BY <1>3 DEF Reviewed!ANext

LEMMA StepRefines ==
  ASSUME IInv, SelectionsOffered, [Next]_vars
  PROVE  [Reviewed!ANext]_(Reviewed!avars)
<1> USE DEF IInv
<1>1. CASE UNCHANGED <<graph, rows>>
  BY <1>1, Stutters
<1>2. ASSUME NEW c \in Clients, Preview(c) \/ Resuming(c) \/ Engine(c)
      PROVE  [Reviewed!ANext]_(Reviewed!avars)
  BY <1>2, PreviewPrepares, ResumingPrepares, EnginePrepares, PreparingQuiet,
     PreparesRefines
<1>3. ASSUME NEW c \in Clients, Applying(c)
      PROVE  [Reviewed!ANext]_(Reviewed!avars)
  <2>1. CASE ApplyReplays(c)
    BY <1>1, <2>1 DEF ApplyReplays
  <2> QED
    BY <1>1, <1>3, <2>1, ApplyingCases, CommitRefines, InvalidateRefines
<1>4. CASE Next
  BY <1>1, <1>2, <1>3, <1>4, RollbackRefines, EditRefines
     DEF Next, Serve, Tick, Crash
<1> QED
  BY <1>1, <1>4 DEF vars

(* Only the start of an apply makes a handler an applying one.             *)

Moves(c) ==
  /\ \A d \in Clients : d # c => handler'[d] = handler[d]
  /\ handler'[c].pc # "applying"

LEMMA ReturnMoves ==
  ASSUME TypeOK, NEW c \in Clients, Return(c)
  PROVE  Moves(c)
  BY DEF TypeOK, Return, Moves, Idle

LEMMA HoldMoves ==
  ASSUME TypeOK, NEW c \in Clients, NEW h, h.pc # "applying", Hold(c, h)
  PROVE  Moves(c)
  BY DEF TypeOK, Hold, Moves

LEMMA PreviewMoves ==
  ASSUME TypeOK, NEW c \in Clients, Preview(c)
  PROVE  Moves(c)
<1>1. ASSUME NEW i \in Ids, NEW pc \in {"reserving", "intake"}, BeginPreview(c, i, pc)
      PROVE  Moves(c)
  <2> DEFINE h == [Idle EXCEPT !.pc = pc, !.id = i, !.rev = graph, !.fresh = TRUE]
  <2>1. h.pc = pc
    BY DEF Idle
  <2>2. Hold(c, h)
    BY <1>1 DEF BeginPreview
  <2> HIDE DEF h
  <2> QED
    BY <2>1, <2>2, HoldMoves
<1>2. ASSUME NEW pc \in {"engine", "asking"}, NEW v, handler[c].pc # "idle",
             Hold(c, [handler[c] EXCEPT !.pc = pc, !.ver = v])
      PROVE  Moves(c)
  <2> DEFINE h == [handler[c] EXCEPT !.pc = pc, !.ver = v]
  <2>1. h.pc = pc
    BY <1>2, BusyTyped DEF Handler
  <2>2. Hold(c, h)
    BY <1>2
  <2> HIDE DEF h
  <2> QED
    BY <2>1, <2>2, HoldMoves
<1>3. CASE Reserve(c)
  BY <1>2, <1>3, ReturnMoves, Zenon DEF Reserve
<1>4. CASE IntakeReserve(c)
  BY <1>2, <1>4, ReturnMoves, Zenon DEF IntakeReserve
<1>5. CASE IntakeAsk(c)
  BY <1>5, ReturnMoves DEF IntakeAsk, Update
<1> QED
  BY <1>1, <1>3, <1>4, <1>5 DEF Preview

LEMMA ResumingMoves ==
  ASSUME TypeOK, NEW c \in Clients, Resuming(c)
  PROVE  Moves(c)
<1>1. ASSUME NEW i \in Ids, NEW v, NEW a, BeginResume(c, i, v, a)
      PROVE  Moves(c)
  <2> DEFINE h == [Idle EXCEPT !.pc = "recovering", !.id = i, !.rev = graph]
             g == [Idle EXCEPT !.pc = "resuming", !.id = i, !.ver = v,
                               !.rev = graph, !.answer = a]
  <2>1. h.pc # "applying" /\ g.pc # "applying"
    BY DEF Idle
  <2>2. Hold(c, h) \/ Hold(c, g)
    BY <1>1 DEF BeginResume
  <2> HIDE DEF h, g
  <2> QED
    BY <2>1, <2>2, HoldMoves
<1>2. CASE Resume(c)
  <2>1. ASSUME NEW v, NEW a, Hold(c, [handler[c] EXCEPT !.pc = "engine", !.ver = v,
                                                        !.answer = a])
        PROVE  Moves(c)
    <3> DEFINE h == [handler[c] EXCEPT !.pc = "engine", !.ver = v, !.answer = a]
    <3>1. handler[c] \in Handler
      BY <1>2, BusyTyped DEF Resume
    <3>2. h.pc = "engine"
      BY <3>1 DEF Handler
    <3>3. Hold(c, h)
      BY <2>1
    <3> HIDE DEF h
    <3> QED
      BY <3>2, <3>3, HoldMoves
  <2> QED
    <3>1. Return(c) \/ \E v, a : Hold(c, [handler[c] EXCEPT !.pc = "engine",
                                                  !.ver = v, !.answer = a])
      BY <1>2, Zenon DEF Resume
    <3> QED
      BY <2>1, <3>1, ReturnMoves, Zenon
<1> QED
  BY <1>1, <1>2 DEF Resuming

LEMMA EngineMoves ==
  ASSUME TypeOK, NEW c \in Clients, Engine(c)
  PROVE  Moves(c)
<1>1. ASSUME handler[c].pc # "idle", Recover(c)
      PROVE  Moves(c)
  <2> DEFINE h == [handler[c] EXCEPT !.pc = "recovering"]
  <2>1. h.pc = "recovering"
    BY <1>1, BusyTyped DEF Handler
  <2>2. Hold(c, h) \/ Return(c)
    BY <1>1 DEF Recover
  <2> HIDE DEF h
  <2> QED
    BY <2>1, <2>2, HoldMoves, ReturnMoves
<1>2. CASE EngineRaises(c)
  <2>1. handler[c].pc # "idle" /\ (Recover(c) \/ Return(c))
    BY <1>2 DEF EngineRaises
  <2> QED
    BY <1>1, <2>1, ReturnMoves
<1>3. CASE EngineFails(c)
  <2>1. handler[c].pc # "idle" /\ Recover(c)
    BY <1>3 DEF EngineFails
  <2> QED
    BY <1>1, <2>1
<1>4. CASE Return(c)
  BY <1>4, ReturnMoves
<1>5. ASSUME NEW S, EngineOffers(c, S)
      PROVE  Return(c)
  BY <1>5 DEF EngineOffers, Finalize
<1>6. ASSUME NEW S, NEW j, StoreRecovery(c, j, S)
      PROVE  Return(c)
  BY <1>6 DEF StoreRecovery
<1>7. ASSUME EngineAsks(c) \/ TimeoutAsks(c) \/ EngineIncomplete(c) \/ EngineDefers(c) \/ RecoveryFails(c)
      PROVE  Return(c)
  BY <1>7 DEF EngineAsks, TimeoutAsks, EngineIncomplete, EngineDefers, RecoveryFails, Update, Finalize
<1> QED
  BY <1>2, <1>3, <1>4, <1>5, <1>6, <1>7 DEF Engine

LEMMA OffersKept ==
  ASSUME TypeOK, SelectionsOffered, Next
  PROVE  SelectionsOffered'
<1>1. ASSUME NEW c \in Clients, Moves(c)
      PROVE  SelectionsOffered'
  BY <1>1 DEF Moves, SelectionsOffered
<1>2. ASSUME NEW c \in Clients, NEW i \in Ids, NEW S \in Offers, BeginApply(c, i, S)
      PROVE  SelectionsOffered'
  <2> DEFINE h == [Idle EXCEPT !.pc = "applying", !.id = i, !.ver = rows[i].ver,
                               !.sel = S, !.offer = rows[i].offer]
  <2>1. h.sel = S /\ h.offer = rows[i].offer
    BY DEF Idle
  <2>2. Hold(c, h) /\ S \subseteq rows[i].offer
    BY <1>2 DEF BeginApply
  <2> HIDE DEF h
  <2> QED
    BY <2>1, <2>2 DEF SelectionsOffered, Hold, TypeOK
<1>3. ASSUME NEW c \in Clients, Applying(c)
      PROVE  SelectionsOffered'
  <2>1. ASSUME NEW P \in Offers, ApplyCommits(c, P)
        PROVE  Return(c)
    BY <2>1 DEF ApplyCommits
  <2>2. ASSUME ApplyReplays(c) \/ ApplyInvalidates(c) \/ ApplyAborts(c)
        PROVE  Return(c)
    BY <2>2 DEF ApplyReplays, ApplyInvalidates, ApplyAborts
  <2> QED
    BY <1>1, <1>2, <1>3, <2>1, <2>2, ReturnMoves DEF Applying
<1>4. CASE Serve
  BY <1>1, <1>3, <1>4, PreviewMoves, ResumingMoves, EngineMoves DEF Serve
<1>5. CASE Crash
  BY <1>5 DEF Crash, SelectionsOffered, Idle
<1>6. CASE UNCHANGED handler
  BY <1>6 DEF SelectionsOffered
<1> QED
  BY <1>4, <1>5, <1>6 DEF Next, Rollback, ForeignEdit, Tick

(* Grow keeps the promise of ReviewedApply: a preview enters the brain at  *)
(* most once, only as reviewed and only on the brain it was compiled for,  *)
(* and its rollback takes away exactly what it had put there.              *)
THEOREM GrowImplementsReviewedApply == Spec => ReviewedApplySpec
<1>1. Init => Reviewed!AInit /\ SelectionsOffered
  <2> SUFFICES ASSUME Init
               PROVE  Reviewed!AInit /\ SelectionsOffered
    OBVIOUS
  <2>1. \A i \in Ids : Proposal(rows[i]) = Blank
    BY ProposalOf DEF Init, NoRow, Finished
  <2>2. Reviewed!AInit
    BY <2>1 DEF Init, Reviewed!AInit, Reviewed!Unproposed, Blank
  <2>3. SelectionsOffered
    BY DEF Init, SelectionsOffered, Idle
  <2> QED
    BY <2>2, <2>3
<1>2. SelectionsOffered /\ TypeOK /\ [Next]_vars => SelectionsOffered'
  <2>1. SelectionsOffered /\ UNCHANGED vars => SelectionsOffered'
    BY DEF SelectionsOffered, vars
  <2> QED
    BY <2>1, OffersKept
<1>3. IInv /\ SelectionsOffered /\ [Next]_vars => [Reviewed!ANext]_(Reviewed!avars)
  BY StepRefines
<1>4. IInv => TypeOK
  BY DEF IInv
<1> QED
  BY <1>1, <1>2, <1>3, <1>4, Inductive, PTL DEF Spec, ReviewedApplySpec, Reviewed!ASpec
==============================================================================
