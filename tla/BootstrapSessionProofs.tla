----------------------- MODULE BootstrapSessionProofs -----------------------
(***************************************************************************)
(* Proofs about BootstrapSession, for any number of sessions, candidates   *)
(* and keys, and any bounds.                                               *)
(***************************************************************************)
EXTENDS BootstrapSession, TLAPS

-----------------------------------------------------------------------------
(* The records.                                                            *)

(* The states of a revision whose request has a key.                       *)
Acted == {"apply_pending", "applied", "recovery_required"}

LEMMA RevTyped ==
  ASSUME NEW st \in LifecycleState \cup {"torn"}, NEW req \in Request,
         st \in Acted => req.key \in Keys,
         NEW offer \in SUBSET Facts, NEW sel \in SUBSET Facts,
         NEW base \in Graphs, NEW reg \in BOOLEAN
  PROVE  /\ Rev(st, req, offer, sel, base, reg) \in Revision
         /\ Rev(st, req, offer, sel, base, reg).st = st
         /\ Rev(st, req, offer, sel, base, reg).req = req
         /\ Rev(st, req, offer, sel, base, reg).offer = offer
         /\ Rev(st, req, offer, sel, base, reg).sel = sel
  BY DEF Rev, Revision, Acted

LEMMA ReqTyped ==
  ASSUME NEW op \in Operations, NEW k \in Keys \cup {None}, NEW n \in Nat,
         NEW S \in SUBSET Facts
  PROVE  /\ Req(op, k, n, S) \in Request
         /\ Req(op, k, n, S).op = op
         /\ Req(op, k, n, S).key = k
         /\ Req(op, k, n, S).sel = S
  BY DEF Req, Request

LEMMA NoRequestFacts ==
  NoRequest \in Request /\ NoRequest.key = None /\ NoRequest.op = "start"
  BY DEF NoRequest, Req, Request, Operations

LEMMA DoingTyped ==
  ASSUME NEW pc \in WorkerPc, NEW req \in Request, NEW held \in Graphs,
         NEW ok \in BOOLEAN, NEW at \in Nat
  PROVE  /\ Doing(pc, req, held, ok, at) \in Worker
         /\ Doing(pc, req, held, ok, at).pc = pc
         /\ Doing(pc, req, held, ok, at).req = req
         /\ Doing(pc, req, held, ok, at).held = held
         /\ Doing(pc, req, held, ok, at).at = at
  BY DEF Doing, Worker

LEMMA RevNew ==
  ASSUME NEW st \in LifecycleState \cup {"torn"}, NEW req \in Request, st \notin Acted
  PROVE  /\ Rev(st, req, {}, {}, {}, FALSE) \in Revision
         /\ Rev(st, req, {}, {}, {}, FALSE).st = st
         /\ Rev(st, req, {}, {}, {}, FALSE).req = req
         /\ Rev(st, req, {}, {}, {}, FALSE).offer = {}
  BY DEF Rev, Revision, Graphs, Acted

LEMMA IdleTyped == Idle \in Worker /\ Idle.pc = "idle"
  BY NoRequestFacts DEF Idle, Doing, Worker, WorkerPc, Graphs

LEMMA Readables ==
  ASSUME TypeOK, NEW s \in Sessions, Readable(s)
  PROVE  /\ Current(s) \in Revision
         /\ Current(s).st \in LifecycleState
         /\ Len(log[s]) \in DOMAIN log[s]
         /\ Len(log[s]) \in Nat
<1>1. log[s] \in Seq(Revision) /\ log[s] # <<>>
  BY DEF TypeOK, Readable
<1>2. Len(log[s]) \in DOMAIN log[s] /\ log[s][Len(log[s])] \in Revision
  BY <1>1
<1>3. Current(s) \in Revision
  BY <1>2 DEF Current
<1>4. Current(s).st \in LifecycleState
  BY <1>3 DEF Readable, Revision
<1> QED
  BY <1>1, <1>2, <1>3, <1>4

LEMMA Busy ==
  ASSUME TypeOK, NEW s \in Sessions, worker[s].pc # "idle"
  PROVE  /\ worker[s] \in Worker
         /\ worker[s].req \in Request
         /\ worker[s].req.key \in Keys
         /\ worker[s].held \in Graphs
         /\ Readable(s)
  BY DEF TypeOK, Worker

LEMMA Fields ==
  ASSUME NEW r \in Revision
  PROVE  /\ r.st \in LifecycleState \cup {"torn"} /\ r.req \in Request
         /\ r.offer \in SUBSET Facts /\ r.sel \in SUBSET Facts
         /\ r.base \in Graphs /\ r.reg \in BOOLEAN
         /\ r.req.key \in Keys \cup {None} /\ r.req.op \in Operations
         /\ r.st \in Acted => r.req.key \in Keys
  BY DEF Revision, Request, Acted

-----------------------------------------------------------------------------
(* What the two kinds of update do.                                        *)

LEMMA Appended ==
  ASSUME TypeOK, NEW s \in Sessions, NEW r \in Revision, AppendRevision(s, r)
  PROVE  /\ log' \in [Sessions -> Seq(Revision)]
         /\ latest' \in Sessions \cup {None}
         /\ log'[s] = Append(log[s], r)
         /\ \A t \in Sessions \ {s} : log'[t] = log[t]
         /\ r.st # "torn" => Readable(s)'
<1>1. log[s] \in Seq(Revision)
  BY DEF TypeOK
<1> DEFINE longer == Append(log[s], r)
<1>2. longer \in Seq(Revision) /\ Len(longer) = Len(log[s]) + 1
      /\ longer[Len(longer)] = r /\ longer # <<>>
  BY <1>1
<1>3. log' = [log EXCEPT ![s] = longer] /\ latest' = s
  BY DEF AppendRevision
<1>4. log'[s] = longer
  BY <1>3 DEF TypeOK
<1>5. r.st # "torn" => Readable(s)'
  BY <1>2, <1>4 DEF Readable, Current
<1> HIDE DEF longer
<1>6. log' \in [Sessions -> Seq(Revision)] /\ \A t \in Sessions \ {s} : log'[t] = log[t]
  BY <1>2, <1>3 DEF TypeOK
<1> QED
  BY <1>3, <1>4, <1>5, <1>6 DEF longer

LEMMA Moved ==
  ASSUME TypeOK, NEW s \in Sessions, NEW w \in Worker, Moves(s, w)
  PROVE  /\ worker' \in [Sessions -> Worker]
         /\ worker'[s] = w
         /\ \A t \in Sessions \ {s} : worker'[t] = worker[t]
  BY DEF TypeOK, Moves

(* A session keeps its log and its worker.                                 *)
Rests(t) == log'[t] = log[t] /\ worker'[t] = worker[t]

LEMMA RestsReady ==
  ASSUME TypeOK, NEW t \in Sessions, Rests(t), worker'[t].pc # "idle"
  PROVE  Readable(t)' /\ worker'[t].req.key \in Keys
  BY DEF TypeOK, Rests, Readable, Current

(* The parts of TypeOK about sessions, in the next state.                  *)
SessionsTyped ==
  /\ log' \in [Sessions -> Seq(Revision)]
  /\ latest' \in Sessions \cup {None}
  /\ worker' \in [Sessions -> Worker]
  /\ \A t \in Sessions : worker'[t].pc # "idle" =>
       Readable(t)' /\ worker'[t].req.key \in Keys

LEMMA MoveTyped ==
  ASSUME TypeOK, NEW s \in Sessions, NEW w \in Worker, Moves(s, w),
         UNCHANGED <<log, latest>>,
         w.pc # "idle" => Readable(s) /\ w.req.key \in Keys
  PROVE  SessionsTyped
<1>1. \A t \in Sessions \ {s} : Rests(t)
  BY Moved DEF Rests
<1>2. w.pc # "idle" => Readable(s)'
  BY DEF Readable, Current
<1> QED
  BY <1>1, <1>2, Moved, RestsReady DEF TypeOK, SessionsTyped

LEMMA AppendTyped ==
  ASSUME TypeOK, NEW s \in Sessions, NEW r \in Revision, AppendRevision(s, r),
         UNCHANGED worker, worker[s].pc = "idle"
  PROVE  SessionsTyped
<1>1. \A t \in Sessions \ {s} : Rests(t)
  BY Appended DEF Rests
<1> QED
  BY <1>1, Appended, RestsReady DEF TypeOK, SessionsTyped

LEMMA AppendMoveTyped ==
  ASSUME TypeOK, NEW s \in Sessions, NEW r \in Revision, AppendRevision(s, r),
         NEW w \in Worker, Moves(s, w),
         w.pc # "idle" => r.st # "torn" /\ w.req.key \in Keys
  PROVE  SessionsTyped
<1>1. \A t \in Sessions \ {s} : Rests(t)
  BY Appended, Moved DEF Rests
<1> QED
  BY <1>1, Appended, Moved, RestsReady DEF TypeOK, SessionsTyped

LEMMA GoesTyped ==
  ASSUME TypeOK, NEW s \in Sessions, NEW pc \in WorkerPc, worker[s].pc # "idle",
         Goes(s, pc)
  PROVE  \E w \in Worker : /\ Moves(s, w) /\ w.pc = pc
                           /\ w.req = worker[s].req /\ w.held = worker[s].held
<1> DEFINE old == worker[s]
           w == Doing(pc, old.req, old.held, old.ok, old.at)
<1>1. old \in Worker /\ old.req \in Request
  BY Busy
<1>2. old.held \in Graphs /\ old.ok \in BOOLEAN /\ old.at \in Nat
  BY <1>1 DEF Worker
<1> HIDE DEF old
<1>3. w \in Worker /\ w.pc = pc /\ w.req = old.req /\ w.held = old.held
  BY <1>1, <1>2, DoingTyped
<1>4. Moves(s, w)
  BY DEF Goes, old
<1> HIDE DEF w
<1> QED
  BY <1>3, <1>4 DEF old

LEMMA RevisesTyped ==
  ASSUME TypeOK, NEW s \in Sessions, NEW st \in LifecycleState, NEW req \in Request,
         NEW offer \in SUBSET Facts, NEW reg \in BOOLEAN, Readable(s),
         st \in Acted => req.key \in Keys, Revises(s, st, req, offer, reg)
  PROVE  \E r \in Revision : /\ AppendRevision(s, r) /\ r.st = st
                             /\ r.req = req /\ r.offer = offer
<1> DEFINE c == Current(s)
           r == Rev(st, req, offer, c.sel, c.base, reg)
<1>1. c \in Revision
  BY Readables
<1>2. c.sel \in SUBSET Facts /\ c.base \in Graphs
  BY <1>1, Fields
<1> HIDE DEF c
<1>3. r \in Revision /\ r.st = st /\ r.req = req /\ r.offer = offer
  BY <1>2, RevTyped
<1>4. AppendRevision(s, r)
  BY DEF Revises, c
<1> HIDE DEF r
<1> QED
  BY <1>3, <1>4

-----------------------------------------------------------------------------
(* What each action does to its session, in terms of one revision r and    *)
(* one worker w.                                                           *)

LEMMA AskTyped ==
  ASSUME TypeOK, NEW s \in Sessions, NEW op \in Operations,
         NEW k \in Keys \cup {None}, NEW S \in SUBSET Facts
  PROVE  /\ Ask(s, op, k, S) \in Request
         /\ Ask(s, op, k, S).op = op
         /\ Ask(s, op, k, S).key = k
         /\ Ask(s, op, k, S).sel = S
<1>1. Len(log[s]) \in Nat
  BY DEF TypeOK
<1> QED
  BY <1>1, ReqTyped DEF Ask

LEMMA OperationNames ==
  /\ {"start", "tell", "preview", "apply", "cancel", "resume", "recover"} \subseteq Operations
  /\ Open \subseteq LifecycleState
  /\ {} \in Graphs
  BY DEF Operations, Open, LifecycleState, Graphs

LEMMA StartEffect ==
  ASSUME TypeOK, NEW s \in Sessions, Start(s)
  PROVE  \E r \in Revision : /\ AppendRevision(s, r) /\ r.st = "interview_active"
                             /\ r.req.op = "start" /\ r.offer = {}
<1> DEFINE req == Ask(s, "start", None, {})
           r == Rev("interview_active", req, {}, {}, {}, FALSE)
<1>1. req \in Request /\ req.op = "start"
  BY AskTyped, OperationNames
<1>2. AppendRevision(s, r)
  BY DEF Start
<1> HIDE DEF req
<1>3. r \in Revision /\ r.st = "interview_active" /\ r.req = req /\ r.offer = {}
  BY <1>1, RevNew DEF LifecycleState, Acted
<1> HIDE DEF r
<1> QED
  BY <1>1, <1>2, <1>3

LEMMA AppendsEffect ==
  ASSUME TypeOK, NEW s \in Sessions, NEW req \in Request, NEW from,
         NEW st \in LifecycleState \ Acted, NEW offer \in SUBSET Facts,
         Appends(s, req, from, st, offer)
  PROVE  \E r \in Revision : /\ AppendRevision(s, r) /\ r.st = st
                             /\ r.req = req /\ r.offer = offer
<1>1. Readable(s) /\ Revises(s, st, req, offer, Current(s).reg)
  BY DEF Appends, Accepted
<1>2. Current(s).reg \in BOOLEAN
  BY <1>1, Readables, Fields
<1> QED
  BY <1>1, <1>2, RevisesTyped

(* The requests that leave an offer as it is, or make or take it away.     *)
Said(s, r) ==
  /\ r.st \in {"interview_active", "preview_ready", "cancelled"}
  /\ \/ r.offer = {}
     \/ r.req.op = "preview"
     \/ r.req.op # "tell" /\ Readable(s) /\ r.offer = Current(s).offer

LEMMA SaysEffect ==
  ASSUME TypeOK, NEW s \in Sessions,
         \/ Tell(s) \/ Cancel(s) \/ Resume(s)
         \/ \E S \in Offers : Preview(s, S)
  PROVE  /\ \E r \in Revision : AppendRevision(s, r) /\ Said(s, r)
         /\ worker[s].pc = "idle"
         /\ UNCHANGED <<graph, worker, edits, obscure, stored, done>>
<1>1. CASE Tell(s)
  <2> DEFINE req == Ask(s, "tell", None, {})
  <2>1. req \in Request
    BY AskTyped, OperationNames
  <2>2. Appends(s, req, Open, "interview_active", {})
    BY <1>1 DEF Tell
  <2> HIDE DEF req
  <2>3. \E r \in Revision : AppendRevision(s, r) /\ r.st = "interview_active" /\ r.offer = {}
    BY <2>1, <2>2, AppendsEffect DEF LifecycleState, Acted
  <2> QED
    BY <2>2, <2>3 DEF Said, Appends, Accepted
<1>2. CASE \E S \in Offers : Preview(s, S)
  <2> PICK S \in Offers : Preview(s, S)
    BY <1>2
  <2> DEFINE req == Ask(s, "preview", None, {})
  <2>1. req \in Request /\ req.op = "preview" /\ S \in SUBSET Facts
    BY AskTyped, OperationNames DEF Offers
  <2>2. Appends(s, req, Open, "preview_ready", S)
    BY DEF Preview
  <2> HIDE DEF req
  <2>3. \E r \in Revision : AppendRevision(s, r) /\ r.st = "preview_ready" /\ r.req = req
    BY <2>1, <2>2, AppendsEffect DEF LifecycleState, Acted
  <2> QED
    BY <2>1, <2>2, <2>3 DEF Said, Appends, Accepted
<1>3. CASE Cancel(s)
  <2> DEFINE req == Ask(s, "cancel", None, {})
             offer == Current(s).offer
  <2>1. req \in Request /\ req.op = "cancel"
    BY AskTyped, OperationNames
  <2>2. Appends(s, req, Open, "cancelled", offer)
    BY <1>3 DEF Cancel
  <2>3. Readable(s)
    BY <2>2 DEF Appends, Accepted
  <2>4. offer \in SUBSET Facts
    BY <2>3, Readables, Fields
  <2> HIDE DEF req, offer
  <2>5. \E r \in Revision : AppendRevision(s, r) /\ r.st = "cancelled"
                             /\ r.req = req /\ r.offer = offer
    BY <2>1, <2>2, <2>4, AppendsEffect DEF LifecycleState, Acted
  <2> QED
    BY <2>1, <2>2, <2>3, <2>5 DEF Said, Appends, Accepted, offer
<1>4. CASE Resume(s)
  <2> DEFINE req == Ask(s, "resume", None, {})
             offer == Current(s).offer
             st == IF offer = {} THEN "interview_active" ELSE "preview_ready"
  <2>1. req \in Request /\ req.op = "resume"
    BY AskTyped, OperationNames
  <2>2. Appends(s, req, {"cancelled"}, st, offer)
    BY <1>4 DEF Resume
  <2>3. Readable(s)
    BY <2>2 DEF Appends, Accepted
  <2>4. offer \in SUBSET Facts
    BY <2>3, Readables, Fields
  <2>5. st \in {"interview_active", "preview_ready"} /\ st \in LifecycleState \ Acted
    BY DEF LifecycleState, Acted
  <2> HIDE DEF req, offer, st
  <2>6. \E r \in Revision : AppendRevision(s, r) /\ r.st = st
                             /\ r.req = req /\ r.offer = offer
    BY <2>1, <2>2, <2>4, <2>5, AppendsEffect
  <2> QED
    BY <2>1, <2>2, <2>3, <2>5, <2>6 DEF Said, Appends, Accepted, offer
<1> QED
  BY <1>1, <1>2, <1>3, <1>4

LEMMA BeginApplyEffect ==
  ASSUME TypeOK, NEW s \in Sessions, NEW k \in Keys, NEW S \in Offers,
         BeginApply(s, k, S)
  PROVE  \E w \in Worker : /\ Moves(s, w) /\ w.pc = "intending"
                           /\ w.req.op = "apply" /\ w.req.key = k /\ w.req.sel = S
<1> DEFINE req == Ask(s, "apply", k, S)
           w == Doing("intending", req, graph, FALSE, 0)
<1>1. req \in Request /\ req.op = "apply" /\ req.key = k /\ req.sel = S
  BY AskTyped, OperationNames DEF Offers
<1>2. Moves(s, w)
  BY DEF BeginApply
<1>3. graph \in Graphs
  BY DEF TypeOK
<1> HIDE DEF req
<1>4. w \in Worker /\ w.pc = "intending" /\ w.req = req
  BY <1>1, <1>3 DEF Doing, Worker, WorkerPc
<1> HIDE DEF w
<1> QED
  BY <1>1, <1>2, <1>4

LEMMA RecordIntentEffect ==
  ASSUME TypeOK, NEW s \in Sessions, RecordIntent(s)
  PROVE  \E r \in Revision, w \in Worker :
           /\ AppendRevision(s, r) /\ r.st = "apply_pending" /\ r.req = worker[s].req
           /\ r.sel = worker[s].req.sel /\ r.offer = Current(s).offer
           /\ Moves(s, w) /\ w.pc = "reading" /\ w.req = worker[s].req
<1> DEFINE old == worker[s]
           c == Current(s)
           r == Rev("apply_pending", old.req, c.offer, old.req.sel, old.held, c.reg)
<1>1. worker[s].pc = "intending" /\ Goes(s, "reading") /\ AppendRevision(s, r)
  BY DEF RecordIntent
<1>2. old.req \in Request /\ old.req.key \in Keys /\ old.held \in Graphs /\ Readable(s)
  BY <1>1, Busy
<1>3. c \in Revision
  BY <1>2, Readables
<1>4. c.offer \in SUBSET Facts /\ c.reg \in BOOLEAN
  BY <1>3, Fields
<1>5. old.req.sel \in SUBSET Facts
  BY <1>2 DEF Request
<1> HIDE DEF old, c
<1>6. /\ r \in Revision /\ r.st = "apply_pending" /\ r.req = old.req
      /\ r.sel = old.req.sel /\ r.offer = c.offer
  BY <1>2, <1>4, <1>5, RevTyped DEF LifecycleState
<1> HIDE DEF r
<1>7. \E w \in Worker : Moves(s, w) /\ w.pc = "reading" /\ w.req = worker[s].req
  BY <1>1, GoesTyped DEF WorkerPc
<1> QED
  BY <1>1, <1>6, <1>7 DEF old, c

LEMMA ExecutorReadsEffect ==
  ASSUME TypeOK, NEW s \in Sessions, ExecutorReads(s)
  PROVE  \E w \in Worker : /\ Moves(s, w) /\ w.pc = "storing"
                           /\ w.req = worker[s].req /\ w.held = graph
<1> DEFINE req == worker[s].req
           w == Doing("storing", req, graph, FALSE, 0)
<1>1. Moves(s, w) /\ worker[s].pc = "reading"
  BY DEF ExecutorReads
<1>2. req \in Request /\ graph \in Graphs
  BY <1>1, Busy DEF TypeOK
<1> HIDE DEF req
<1>3. w \in Worker /\ w.pc = "storing" /\ w.req = req /\ w.held = graph
  BY <1>2 DEF Doing, Worker, WorkerPc
<1> HIDE DEF w
<1> QED
  BY <1>1, <1>3 DEF req

LEMMA ExecutorEndsEffect ==
  ASSUME TypeOK, NEW s \in Sessions,
         ExecutorRaises(s) \/ \E New \in SUBSET Facts : ExecutorStores(s, New)
  PROVE  \E w \in Worker : /\ Moves(s, w) /\ w.pc = "probing"
                           /\ w.req = worker[s].req
<1>1. worker[s].pc # "idle" /\ Goes(s, "probing")
  BY DEF ExecutorRaises, ExecutorStores
<1> QED
  BY <1>1, GoesTyped DEF WorkerPc

LEMMA ProbeEffect ==
  ASSUME TypeOK, NEW s \in Sessions, Probe(s)
  PROVE  \E w \in Worker : /\ Moves(s, w) /\ w.pc = "settling"
                           /\ w.req = worker[s].req
<1> DEFINE req == worker[s].req
           held == worker[s].held
           ok == Witnessed(s)
           w == Doing("settling", req, held, ok, 0)
<1>1. Moves(s, w) /\ worker[s].pc = "probing"
  BY DEF Probe
<1>2. req \in Request /\ held \in Graphs
  BY <1>1, Busy
<1>3. ok \in BOOLEAN
  BY DEF Witnessed
<1> HIDE DEF req, held, ok
<1>4. w \in Worker /\ w.pc = "settling" /\ w.req = req
  BY <1>2, <1>3, DoingTyped DEF WorkerPc
<1> HIDE DEF w
<1> QED
  BY <1>1, <1>4 DEF req

LEMMA BeginRecoverEffect ==
  ASSUME TypeOK, NEW s \in Sessions, NEW k \in Keys, BeginRecover(s, k)
  PROVE  \E w \in Worker : /\ Moves(s, w) /\ w.pc = "probing"
                           /\ w.req.op = "recover" /\ w.req.key = k
<1> DEFINE req == Ask(s, "recover", k, {})
           w == Doing("probing", req, {}, FALSE, 0)
<1>1. req \in Request /\ req.op = "recover" /\ req.key = k
  BY AskTyped, OperationNames
<1>2. Moves(s, w)
  BY DEF BeginRecover
<1> HIDE DEF req
<1>3. w \in Worker /\ w.pc = "probing" /\ w.req = req
  BY <1>1, OperationNames DEF Doing, Worker, WorkerPc
<1> HIDE DEF w
<1> QED
  BY <1>1, <1>2, <1>3

(* A revision that takes over what the session offers.                     *)
Keeps(s, r) == Readable(s) /\ r.offer = Current(s).offer

LEMMA SettleAppliedEffect ==
  ASSUME TypeOK, NEW s \in Sessions, SettleApplied(s)
  PROVE  \E r \in Revision, w \in Worker :
           /\ AppendRevision(s, r) /\ r.st = "applied" /\ r.req = worker[s].req
           /\ Keeps(s, r)
           /\ Moves(s, w) /\ w.pc = "registering" /\ w.req = worker[s].req
           /\ w.at = Len(log[s]) + 1
<1> DEFINE old == worker[s]
           offer == Current(s).offer
           at == Len(log[s]) + 1
           reg == FALSE
           w == Doing("registering", old.req, old.held, old.ok, at)
<1>1. /\ worker[s].pc = "settling" /\ Moves(s, w)
      /\ Revises(s, "applied", old.req, offer, reg)
  BY DEF SettleApplied
<1>2. old.req \in Request /\ old.req.key \in Keys /\ old \in Worker /\ Readable(s)
  BY <1>1, Busy
<1>3. old.held \in Graphs /\ old.ok \in BOOLEAN /\ at \in Nat /\ offer \in SUBSET Facts
      /\ reg \in BOOLEAN
  BY <1>2, Readables, Fields DEF Worker
<1> HIDE DEF old, offer, at, reg
<1>4. w \in Worker /\ w.pc = "registering" /\ w.req = old.req /\ w.at = at
  BY <1>2, <1>3, DoingTyped DEF WorkerPc
<1>5. \E r \in Revision : /\ AppendRevision(s, r) /\ r.st = "applied"
                          /\ r.req = old.req /\ r.offer = offer
  BY <1>1, <1>2, <1>3, RevisesTyped DEF LifecycleState
<1> HIDE DEF w
<1> QED
  BY <1>1, <1>2, <1>4, <1>5 DEF old, offer, at, Keeps

LEMMA SettleUnverifiedEffect ==
  ASSUME TypeOK, NEW s \in Sessions, SettleUnverified(s)
  PROVE  \E r \in Revision :
           /\ AppendRevision(s, r) /\ r.st \in {"recovery_required", "review_required"}
           /\ r.req = worker[s].req /\ Keeps(s, r) /\ Moves(s, Idle)
<1> DEFINE req == worker[s].req
           offer == Current(s).offer
           st == IF req.op = "apply" THEN "recovery_required" ELSE "review_required"
           reg == FALSE
<1>1. /\ worker[s].pc = "settling" /\ Moves(s, Idle)
      /\ Revises(s, st, req, offer, reg)
  BY DEF SettleUnverified
<1>2. req \in Request /\ req.key \in Keys /\ Readable(s)
  BY <1>1, Busy
<1>3. offer \in SUBSET Facts
  BY <1>2, Readables, Fields
<1>4. st \in {"recovery_required", "review_required"} /\ st \in LifecycleState
      /\ reg \in BOOLEAN
  BY DEF LifecycleState
<1> HIDE DEF req, offer, st, reg
<1>5. \E r \in Revision : /\ AppendRevision(s, r) /\ r.st = st
                          /\ r.req = req /\ r.offer = offer
  BY <1>1, <1>2, <1>3, <1>4, RevisesTyped
<1> QED
  BY <1>1, <1>2, <1>4, <1>5 DEF req, offer, Keeps

LEMMA RegistryFailsEffect ==
  ASSUME TypeOK, NEW s \in Sessions, RegistryFails(s)
  PROVE  /\ worker[s].pc = "registering" /\ Moves(s, Idle)
         /\ \/ UNCHANGED <<log, latest>>
            \/ \E r \in Revision :
                 /\ AppendRevision(s, r) /\ r.st = "recovery_required"
                 /\ r.req = worker[s].req /\ Keeps(s, r)
                 /\ worker[s].at = Len(log[s])
<1> DEFINE req == worker[s].req
           offer == Current(s).offer
           reg == TRUE
<1>1. worker[s].pc = "registering" /\ Moves(s, Idle)
  BY DEF RegistryFails
<1>2. CASE worker[s].at = Len(log[s])
  <2>1. Revises(s, "recovery_required", req, offer, reg)
    BY <1>2 DEF RegistryFails
  <2>2. Readable(s) /\ req \in Request /\ req.key \in Keys
    BY <1>1, Busy
  <2>3. offer \in SUBSET Facts /\ reg \in BOOLEAN
    BY <2>2, Readables, Fields
  <2> HIDE DEF req, offer, reg
  <2>4. \E r \in Revision : /\ AppendRevision(s, r) /\ r.st = "recovery_required"
                            /\ r.req = req /\ r.offer = offer
    BY <2>1, <2>2, <2>3, RevisesTyped DEF LifecycleState
  <2> QED
    BY <1>1, <1>2, <2>2, <2>4 DEF req, offer, Keeps
<1>3. CASE worker[s].at # Len(log[s])
  BY <1>1, <1>3 DEF RegistryFails
<1> QED
  BY <1>2, <1>3

LEMMA Logged ==
  ASSUME TypeOK, NEW s \in Sessions, NEW n \in DOMAIN log[s]
  PROVE  log[s][n] \in Revision /\ n \in Nat
  BY DEF TypeOK

LEMMA RetryEffect ==
  ASSUME TypeOK, NEW s \in Sessions, NEW n \in DOMAIN log[s], Retry(s, n)
  PROVE  /\ worker[s].pc = "idle" /\ Readable(s)
         /\ \E w \in Worker :
              /\ Moves(s, w) /\ w.pc = "registering" /\ w.req = log[s][n].req
              /\ \/ /\ log[s][n].st = "applied" /\ w.at = n
                    /\ UNCHANGED <<log, latest>>
                 \/ /\ log[s][n].st = "recovery_required" /\ w.at = n + 1
                    /\ n = Len(log[s])
                    /\ \E r \in Revision : /\ AppendRevision(s, r) /\ r.st = "applied"
                                           /\ r.req = log[s][n].req /\ Keeps(s, r)
<1> DEFINE old == log[s][n]
           req == old.req
           offer == old.offer
           reg == FALSE
<1>1. worker[s].pc = "idle" /\ Readable(s)
  BY DEF Retry
<1>2. req \in Request /\ offer \in SUBSET Facts /\ n \in Nat
      /\ reg \in BOOLEAN
  BY Logged, Fields
<1>3. CASE /\ old.st = "applied"
           /\ Moves(s, Doing("registering", req, {}, FALSE, n))
           /\ UNCHANGED <<log, latest>>
  <2> DEFINE w == Doing("registering", req, {}, FALSE, n)
  <2> HIDE DEF req
  <2>1. w \in Worker /\ w.pc = "registering" /\ w.req = req /\ w.at = n
    BY <1>2 DEF Doing, Worker, WorkerPc, Graphs
  <2>2. Moves(s, w)
    BY <1>3
  <2> HIDE DEF w
  <2> QED
    BY <1>1, <1>3, <2>1, <2>2 DEF req
<1>4. CASE /\ old.st = "recovery_required" /\ n = Len(log[s])
           /\ Revises(s, "applied", req, offer, reg)
           /\ Moves(s, Doing("registering", req, {}, FALSE, n + 1))
  <2> DEFINE w == Doing("registering", req, {}, FALSE, n + 1)
  <2>0. offer = Current(s).offer /\ req.key \in Keys
    BY <1>4, Logged, Fields DEF Current, Acted
  <2> HIDE DEF req, offer, reg
  <2>1. w \in Worker /\ w.pc = "registering" /\ w.req = req /\ w.at = n + 1
    BY <1>2 DEF Doing, Worker, WorkerPc, Graphs
  <2>2. Moves(s, w)
    BY <1>4
  <2>3. \E r \in Revision : /\ AppendRevision(s, r) /\ r.st = "applied"
                            /\ r.req = req /\ r.offer = offer
    BY <1>1, <1>2, <1>4, <2>0, RevisesTyped DEF LifecycleState
  <2>4. \E r \in Revision : /\ AppendRevision(s, r) /\ r.st = "applied"
                            /\ r.req = req /\ Keeps(s, r)
    BY <1>1, <2>0, <2>3 DEF Keeps
  <2> HIDE DEF w
  <2> QED
    BY <1>1, <1>4, <2>1, <2>2, <2>4 DEF req
<1> QED
  BY <1>1, <1>3, <1>4 DEF Retry

LEMMA CrashTearsEffect ==
  ASSUME TypeOK, NEW s \in Sessions, CrashTears(s)
  PROVE  /\ \E r \in Revision : /\ AppendRevision(s, r) /\ r.st = "torn"
                                /\ r.req.op = "start" /\ r.offer = {}
         /\ worker' = [t \in Sessions |-> Idle]
<1> DEFINE req == NoRequest
           r == Rev("torn", req, {}, {}, {}, FALSE)
<1>1. req \in Request /\ req.op = "start"
  BY NoRequestFacts
<1>3. AppendRevision(s, r)
  BY DEF CrashTears
<1> HIDE DEF req
<1>2. r \in Revision /\ r.st = "torn" /\ r.req = req /\ r.offer = {}
  BY <1>1, RevNew DEF Acted
<1> HIDE DEF r
<1> QED
  BY <1>1, <1>2, <1>3 DEF CrashTears

LEMMA RestTyped ==
  ASSUME TypeOK, UNCHANGED <<log, latest>>, worker' = [t \in Sessions |-> Idle]
  PROVE  SessionsTyped
  BY IdleTyped DEF TypeOK, SessionsTyped

-----------------------------------------------------------------------------
(* Type correctness.                                                       *)

LEMMA StoresTyped ==
  ASSUME TypeOK, NEW s \in Sessions, NEW New \in SUBSET Facts, ExecutorStores(s, New)
  PROVE  /\ graph' \in Graphs /\ obscure' \in Graphs
         /\ stored' \in [Sessions -> Seq(Keys)]
<1> DEFINE k == worker[s].req.key
<1>1. worker[s].pc = "storing" /\ k \in Keys /\ worker[s].held \in Graphs
  BY Busy DEF ExecutorStores
<1>2. New \X {<<s, k>>} \in Graphs
  BY <1>1 DEF Graphs
<1>3. graph' = worker[s].held \cup (New \X {<<s, k>>})
  BY DEF ExecutorStores
<1>4. graph' \in Graphs
  BY <1>1, <1>2, <1>3 DEF Graphs
<1>7. obscure' \in {obscure, obscure \cup (New \X {<<s, k>>})}
  BY DEF ExecutorStores
<1>8. obscure' \in Graphs
  BY <1>2, <1>7 DEF Graphs, TypeOK
<1> DEFINE longer == IF New = {} THEN stored[s] ELSE Append(stored[s], k)
<1> HIDE DEF k
<1>5. longer \in Seq(Keys)
  BY <1>1 DEF TypeOK
<1>6. stored' = [stored EXCEPT ![s] = longer]
  BY DEF ExecutorStores, k
<1> HIDE DEF longer
<1> QED
  BY <1>4, <1>5, <1>6, <1>8 DEF TypeOK

LEMMA EditTyped ==
  ASSUME TypeOK, NEW f \in Facts, ForeignEdit(f)
  PROVE  graph' \in Graphs /\ obscure' \in Graphs /\ edits' \in Nat
<1>1. /\ graph' \in {graph \cup {<<f, Foreign>>}, {p \in graph : p[1] # f}}
      /\ obscure' \subseteq obscure \cup {<<f, Foreign>>}
  BY DEF ForeignEdit
<1>2. <<f, Foreign>> \in Facts \X ((Sessions \X Keys) \cup {Foreign})
  OBVIOUS
<1> QED
  BY <1>1, <1>2 DEF ForeignEdit, TypeOK, Graphs

LEMMA RequestsTyped ==
  ASSUME TypeOK, NEW s \in Sessions, Requests(s)
  PROVE  SessionsTyped /\ UNCHANGED <<graph, edits, obscure, stored, done>>
<1>1. CASE Start(s)
  <2>1. worker[s].pc = "idle"
    BY <1>1, Busy DEF Start, Readable
  <2> QED
    BY <1>1, <2>1, StartEffect, AppendTyped DEF Start
<1>2. CASE Tell(s) \/ Cancel(s) \/ Resume(s) \/ \E S \in Offers : Preview(s, S)
  BY <1>2, SaysEffect, AppendTyped
<1>3. ASSUME NEW k \in Keys, BeginRecover(s, k)
      PROVE  SessionsTyped /\ UNCHANGED <<graph, edits, obscure, stored, done>>
  <2>1. Readable(s)
    BY <1>3 DEF BeginRecover, Accepted
  <2>2. PICK w \in Worker : Moves(s, w) /\ w.req.key = k
    BY <1>3, BeginRecoverEffect
  <2> QED
    BY <1>3, <2>1, <2>2, MoveTyped DEF BeginRecover
<1>4. ASSUME NEW k \in Keys, NEW S \in Offers, BeginApply(s, k, S)
      PROVE  SessionsTyped /\ UNCHANGED <<graph, edits, obscure, stored, done>>
  <2>1. Readable(s)
    BY <1>4 DEF BeginApply, Accepted
  <2>2. PICK w \in Worker : Moves(s, w) /\ w.req.key = k
    BY <1>4, BeginApplyEffect
  <2> QED
    BY <1>4, <2>1, <2>2, MoveTyped DEF BeginApply
<1> QED
  BY <1>1, <1>2, <1>3, <1>4 DEF Requests

LEMMA WorkingTyped ==
  ASSUME TypeOK, NEW s \in Sessions, Working(s)
  PROVE  SessionsTyped
<1>1. CASE RecordIntent(s)
  <2>1. worker[s].req.key \in Keys
    BY <1>1, Busy DEF RecordIntent
  <2>2. PICK r \in Revision, w \in Worker :
          /\ AppendRevision(s, r) /\ r.st = "apply_pending"
          /\ Moves(s, w) /\ w.req = worker[s].req
    BY <1>1, RecordIntentEffect
  <2> QED
    BY <2>1, <2>2, AppendMoveTyped
<1>2. CASE ExecutorReads(s)
  <2>1. worker[s].req.key \in Keys /\ Readable(s)
    BY <1>2, Busy DEF ExecutorReads
  <2>2. PICK w \in Worker : Moves(s, w) /\ w.req = worker[s].req
    BY <1>2, ExecutorReadsEffect
  <2> QED
    BY <1>2, <2>1, <2>2, MoveTyped DEF ExecutorReads
<1>3. CASE ExecutorRaises(s) \/ \E New \in SUBSET Facts : ExecutorStores(s, New)
  <2>1. worker[s].req.key \in Keys /\ Readable(s)
    BY <1>3, Busy DEF ExecutorRaises, ExecutorStores
  <2>2. PICK w \in Worker : Moves(s, w) /\ w.req = worker[s].req
    BY <1>3, ExecutorEndsEffect
  <2> QED
    BY <1>3, <2>1, <2>2, MoveTyped DEF ExecutorRaises, ExecutorStores
<1>4. CASE Probe(s)
  <2>1. worker[s].req.key \in Keys /\ Readable(s)
    BY <1>4, Busy DEF Probe
  <2>2. PICK w \in Worker : Moves(s, w) /\ w.req = worker[s].req
    BY <1>4, ProbeEffect
  <2> QED
    BY <1>4, <2>1, <2>2, MoveTyped DEF Probe
<1>5. CASE SettleApplied(s)
  <2>1. worker[s].req.key \in Keys
    BY <1>5, Busy DEF SettleApplied
  <2>2. PICK r \in Revision, w \in Worker :
          /\ AppendRevision(s, r) /\ r.st = "applied"
          /\ Moves(s, w) /\ w.req = worker[s].req
    BY <1>5, SettleAppliedEffect
  <2> QED
    BY <2>1, <2>2, AppendMoveTyped
<1>6. CASE SettleUnverified(s)
  <2>1. PICK r \in Revision : AppendRevision(s, r) /\ Moves(s, Idle)
    BY <1>6, SettleUnverifiedEffect
  <2> QED
    BY <2>1, IdleTyped, AppendMoveTyped
<1>7. CASE RegistryCommits(s)
  <2>1. Moves(s, Idle) /\ UNCHANGED <<log, latest>>
    BY <1>7 DEF RegistryCommits
  <2> QED
    BY <2>1, IdleTyped, MoveTyped
<1>8. CASE RegistryFails(s)
  <2>1. CASE UNCHANGED <<log, latest>>
    BY <1>8, <2>1, RegistryFailsEffect, IdleTyped, MoveTyped
  <2>2. CASE \E r \in Revision : AppendRevision(s, r)
    BY <1>8, <2>2, RegistryFailsEffect, IdleTyped, AppendMoveTyped
  <2> QED
    BY <1>8, <2>1, <2>2, RegistryFailsEffect
<1> QED
  BY <1>1, <1>2, <1>3, <1>4, <1>5, <1>6, <1>7, <1>8 DEF Working

LEMMA RetryTyped ==
  ASSUME TypeOK, NEW s \in Sessions, NEW n \in DOMAIN log[s], Retry(s, n)
  PROVE  SessionsTyped
<1>1. log[s][n].req.key \in Keys
  BY Logged, Fields DEF Retry, Acted
<1>2. PICK w \in Worker :
        /\ Moves(s, w) /\ w.req = log[s][n].req
        /\ \/ UNCHANGED <<log, latest>>
           \/ \E r \in Revision : AppendRevision(s, r) /\ r.st = "applied"
  BY RetryEffect
<1>3. CASE UNCHANGED <<log, latest>>
  BY <1>1, <1>2, <1>3, RetryEffect, MoveTyped
<1>4. CASE \E r \in Revision : AppendRevision(s, r) /\ r.st = "applied"
  BY <1>1, <1>2, <1>4, AppendMoveTyped
<1> QED
  BY <1>2, <1>3, <1>4

LEMMA CrashTyped ==
  ASSUME TypeOK, \/ Crash
                 \/ \E s \in Sessions : CrashTears(s)
  PROVE  SessionsTyped
<1>1. CASE Crash
  BY <1>1, RestTyped DEF Crash
<1>2. CASE \E s \in Sessions : CrashTears(s)
  <2> PICK s \in Sessions : CrashTears(s)
    BY <1>2
  <2>1. worker' = [t \in Sessions |-> Idle] /\ \E r \in Revision : AppendRevision(s, r)
    BY CrashTearsEffect
  <2> QED
    BY <2>1, Appended, IdleTyped DEF SessionsTyped
<1> QED
  BY <1>1, <1>2

LEMMA TypeNext ==
  ASSUME TypeOK, [Next]_vars
  PROVE  TypeOK'
<1> SUFFICES /\ SessionsTyped
             /\ graph' \in Graphs /\ edits' \in Nat /\ obscure' \in Graphs
             /\ stored' \in [Sessions -> Seq(Keys)] /\ done' \subseteq Sessions
  BY DEF TypeOK, SessionsTyped
<1>1. CASE UNCHANGED vars
  BY <1>1 DEF vars, TypeOK, SessionsTyped, Readable, Current
<1>2. ASSUME NEW s \in Sessions, Requests(s)
      PROVE  SessionsTyped /\ UNCHANGED <<graph, edits, obscure, stored, done>>
  BY <1>2, RequestsTyped
<1>3. ASSUME NEW s \in Sessions, Working(s)
      PROVE  /\ SessionsTyped /\ graph' \in Graphs /\ edits' = edits /\ obscure' \in Graphs
             /\ stored' \in [Sessions -> Seq(Keys)] /\ done' \subseteq Sessions
  <2>1. CASE \E New \in SUBSET Facts : ExecutorStores(s, New)
    BY <1>3, <2>1, WorkingTyped, StoresTyped DEF ExecutorStores, TypeOK
  <2>2. CASE \/ RecordIntent(s) \/ ExecutorReads(s) \/ ExecutorRaises(s) \/ Probe(s)
             \/ SettleApplied(s) \/ SettleUnverified(s) \/ RegistryCommits(s)
             \/ RegistryFails(s)
    <3>1. UNCHANGED <<graph, edits, obscure, stored>> /\ done' \subseteq done \cup {s}
      BY <2>2 DEF RecordIntent, ExecutorReads, ExecutorRaises, Probe, SettleApplied,
                  SettleUnverified, RegistryCommits, RegistryFails
    <3> QED
      BY <1>3, <3>1, WorkingTyped DEF TypeOK
  <2> QED
    BY <1>3, <2>1, <2>2 DEF Working
<1>4. ASSUME NEW s \in Sessions, CrashTears(s)
      PROVE  SessionsTyped /\ UNCHANGED <<graph, edits, obscure, stored, done>>
  BY <1>4, CrashTyped DEF CrashTears
<1>5. ASSUME NEW s \in Sessions, NEW n \in DOMAIN log[s], Retry(s, n)
      PROVE  SessionsTyped /\ UNCHANGED <<graph, edits, obscure, stored, done>>
  BY <1>5, RetryTyped DEF Retry
<1>6. ASSUME NEW f \in Facts, ForeignEdit(f)
      PROVE  /\ SessionsTyped /\ graph' \in Graphs /\ edits' \in Nat /\ obscure' \in Graphs
             /\ UNCHANGED <<stored, done>>
  <2>1. SessionsTyped
    BY <1>6 DEF ForeignEdit, TypeOK, SessionsTyped, Readable, Current
  <2> QED
    BY <1>6, <2>1, EditTyped DEF ForeignEdit
<1>7. CASE Crash
  BY <1>7, CrashTyped DEF Crash, TypeOK
<1>8. UNCHANGED <<graph, edits, obscure, stored, done>> =>
        /\ graph' \in Graphs /\ edits' \in Nat /\ obscure' \in Graphs
        /\ stored' \in [Sessions -> Seq(Keys)] /\ done' \subseteq Sessions
  BY DEF TypeOK
<1>9. edits \in Nat /\ obscure \in Graphs /\ stored \in [Sessions -> Seq(Keys)] /\ done \subseteq Sessions
  BY DEF TypeOK
<1> QED
  BY <1>1, <1>2, <1>3, <1>4, <1>5, <1>6, <1>7, <1>8, <1>9 DEF Next

LEMMA TypeInit == Init => TypeOK
<1> SUFFICES ASSUME Init PROVE TypeOK
  OBVIOUS
<1>1. graph \in Graphs /\ obscure \in Graphs
  BY DEF Init, Graphs
<1>2. log \in [Sessions -> Seq(Revision)] /\ stored \in [Sessions -> Seq(Keys)]
  BY DEF Init
<1>3. \A s \in Sessions : worker[s] = Idle
  BY DEF Init
<1> QED
  BY <1>1, <1>2, <1>3, IdleTyped DEF Init, TypeOK

(* Every reachable state is well formed, and a session with a request at   *)
(* work has a last revision that is whole (BootstrapSessionStore.locked,   *)
(* load_history).                                                          *)
THEOREM TypeCorrect == Spec => []TypeOK
<1>1. Init => TypeOK
  BY TypeInit
<1>2. TypeOK /\ [Next]_vars => TypeOK'
  BY TypeNext
<1> QED
  BY <1>1, <1>2, PTL DEF Spec

-----------------------------------------------------------------------------
(* What a step does to the log and to the worker of any session.           *)

NoTell ==
  \A s \in Sessions :
    /\ worker[s].pc # "idle" => worker[s].req.op # "tell"
    /\ \A n \in DOMAIN log[s] :
         log[s][n].st \in {"applied", "recovery_required"} => log[s][n].req.op # "tell"
    /\ worker[s].pc = "registering" =>
         worker[s].at \in DOMAIN log[s] /\ log[s][worker[s].at].st = "applied"

(* The candidates on offer are the ones of before, of a preview, or none.  *)
Continues(t, r) ==
  /\ \/ r.offer = {}
     \/ r.req.op = "preview"
     \/ r.req.op # "tell" /\ Keeps(t, r)
  /\ r.st = "apply_pending" =>
       /\ worker[t].pc = "intending" /\ Readable(t)
       /\ r.req = worker[t].req /\ r.sel = worker[t].req.sel
  /\ r.st \in {"applied", "recovery_required"} => r.req.op # "tell"

LogStep(t) ==
  \/ log'[t] = log[t]
  \/ \E r \in Revision : log'[t] = Append(log[t], r) /\ Continues(t, r)

(* Nothing of kind op was asked with key k before.                         *)
Fresh(t, op, k) ==
  \A n \in DOMAIN log[t] : ~(log[t][n].req.op = op /\ log[t][n].req.key = k)

Intends(t) ==
  LET w == worker'[t] IN
  /\ worker[t].pc = "idle" /\ Readable(t) /\ log'[t] = log[t]
  /\ w.pc = "intending" /\ w.req.op = "apply" /\ Fresh(t, "apply", w.req.key)
  /\ w.req.sel # {} /\ w.req.sel \subseteq Current(t).offer
  /\ Current(t).st \in {"preview_ready", "review_required"}

Records(t) ==
  /\ worker[t].pc = "intending" /\ worker'[t].pc = "reading"
  /\ worker'[t].req = worker[t].req
  /\ \E r \in Revision : /\ log'[t] = Append(log[t], r) /\ r.st = "apply_pending"
                         /\ r.req = worker[t].req /\ r.sel = worker[t].req.sel

ReadsGraph(t) ==
  /\ worker[t].pc = "reading" /\ worker'[t].pc = "storing"
  /\ worker'[t].req = worker[t].req /\ worker'[t].held = graph

Settles(t) ==
  /\ worker'[t].pc \in {"idle", "probing", "settling", "registering"}
  /\ worker'[t].pc # "idle" =>
       \/ worker[t].pc # "idle" /\ worker'[t].req = worker[t].req
       \/ worker'[t].req.op = "recover"
       \/ \E n \in DOMAIN log[t] :
            /\ log[t][n].st \in {"applied", "recovery_required"}
            /\ worker'[t].req = log[t][n].req
  /\ worker'[t].pc = "registering" =>
       \E n \in DOMAIN log'[t] : worker'[t].at = n /\ log'[t][n].st = "applied"

WorkerStep(t) ==
  \/ worker'[t] = worker[t] /\ (worker[t].pc = "idle" \/ log'[t] = log[t])
  \/ Intends(t) \/ Records(t) \/ ReadsGraph(t) \/ Settles(t)

LEMMA AppendIndexes ==
  ASSUME NEW q \in Seq(Revision), NEW r \in Revision
  PROVE  /\ Len(q) \in Nat
         /\ Len(Append(q, r)) = Len(q) + 1
         /\ DOMAIN q = 1..Len(q)
         /\ DOMAIN Append(q, r) = 1..(Len(q) + 1)
         /\ \A n \in DOMAIN q : n \in Nat /\ Append(q, r)[n] = q[n]
         /\ Append(q, r)[Len(q) + 1] = r
         /\ Len(q) + 1 \in DOMAIN Append(q, r)
  OBVIOUS

LEMMA RequestsStep ==
  ASSUME TypeOK, NEW s \in Sessions, Requests(s)
  PROVE  \A t \in Sessions : LogStep(t) /\ WorkerStep(t)
<1>1. CASE Start(s)
  <2>1. PICK r \in Revision : /\ AppendRevision(s, r) /\ r.st = "interview_active"
                              /\ r.req.op = "start" /\ r.offer = {}
    BY <1>1, StartEffect
  <2>2. Continues(s, r)
    BY <2>1 DEF Continues
  <2>3. worker[s].pc = "idle"
    BY <1>1, Busy DEF Start, Readable
  <2> QED
    BY <1>1, <2>1, <2>2, <2>3, Appended DEF Start, LogStep, WorkerStep
<1>2. CASE Tell(s) \/ Cancel(s) \/ Resume(s) \/ \E S \in Offers : Preview(s, S)
  <2>1. PICK r \in Revision : AppendRevision(s, r) /\ Said(s, r)
    BY <1>2, SaysEffect
  <2>2. Continues(s, r)
    BY <2>1 DEF Said, Continues, Keeps
  <2> QED
    BY <1>2, <2>1, <2>2, SaysEffect, Appended DEF LogStep, WorkerStep
<1>3. ASSUME NEW k \in Keys, BeginRecover(s, k)
      PROVE  \A t \in Sessions : LogStep(t) /\ WorkerStep(t)
  <2>1. PICK w \in Worker : Moves(s, w) /\ w.pc = "probing" /\ w.req.op = "recover"
    BY <1>3, BeginRecoverEffect
  <2>2. worker'[s] = w /\ \A t \in Sessions \ {s} : worker'[t] = worker[t]
    BY <2>1, Moved
  <2>3. Settles(s)
    BY <2>1, <2>2 DEF Settles
  <2> QED
    BY <1>3, <2>2, <2>3 DEF BeginRecover, LogStep, WorkerStep
<1>4. ASSUME NEW k \in Keys, NEW S \in Offers, BeginApply(s, k, S)
      PROVE  \A t \in Sessions : LogStep(t) /\ WorkerStep(t)
  <2>1. PICK w \in Worker : /\ Moves(s, w) /\ w.pc = "intending"
                            /\ w.req.op = "apply" /\ w.req.key = k /\ w.req.sel = S
    BY <1>4, BeginApplyEffect
  <2>2. worker'[s] = w /\ \A t \in Sessions \ {s} : worker'[t] = worker[t]
    BY <2>1, Moved
  <2>3. /\ worker[s].pc = "idle" /\ Readable(s) /\ UNCHANGED log
        /\ S # {} /\ S \subseteq Current(s).offer
        /\ Current(s).st \in {"preview_ready", "review_required"}
    BY <1>4 DEF BeginApply, Accepted
  <2>4. Fresh(s, "apply", k)
    <3> DEFINE req == Ask(s, "apply", k, S)
    <3>1. req.op = "apply" /\ req.key = k
      BY AskTyped, OperationNames DEF Offers
    <3>2. Accepted(s, req)
      BY <1>4 DEF BeginApply
    <3> HIDE DEF req
    <3> QED
      BY <3>1, <3>2, BootstrapAssumption DEF Accepted, Fresh
  <2>5. Intends(s)
    BY <2>1, <2>2, <2>3, <2>4 DEF Intends
  <2> QED
    BY <2>2, <2>3, <2>5 DEF LogStep, WorkerStep
<1> QED
  BY <1>1, <1>2, <1>3, <1>4 DEF Requests

LEMMA WorkingStep ==
  ASSUME TypeOK, NoTell, NEW s \in Sessions, Working(s)
  PROVE  \A t \in Sessions : LogStep(t) /\ WorkerStep(t)
<1>1. CASE RecordIntent(s)
  <2>1. PICK r \in Revision, w \in Worker :
          /\ AppendRevision(s, r) /\ r.st = "apply_pending" /\ r.req = worker[s].req
          /\ r.sel = worker[s].req.sel /\ r.offer = Current(s).offer
          /\ Moves(s, w) /\ w.pc = "reading" /\ w.req = worker[s].req
    BY <1>1, RecordIntentEffect
  <2>2. worker[s].pc = "intending" /\ Readable(s) /\ worker[s].req.op # "tell"
    BY <1>1, Busy DEF RecordIntent, NoTell
  <2>3. Continues(s, r) /\ Records(s)
    BY <2>1, <2>2, Appended, Moved DEF Continues, Keeps, Records
  <2> QED
    BY <2>1, <2>3, Appended, Moved DEF LogStep, WorkerStep
<1>2. CASE ExecutorReads(s)
  <2>1. PICK w \in Worker : /\ Moves(s, w) /\ w.pc = "storing"
                            /\ w.req = worker[s].req /\ w.held = graph
    BY <1>2, ExecutorReadsEffect
  <2>2. ReadsGraph(s)
    BY <1>2, <2>1, Moved DEF ReadsGraph, ExecutorReads
  <2> QED
    BY <1>2, <2>1, <2>2, Moved DEF LogStep, WorkerStep, ExecutorReads
<1>3. CASE ExecutorRaises(s) \/ \E New \in SUBSET Facts : ExecutorStores(s, New)
  <2>1. PICK w \in Worker : Moves(s, w) /\ w.pc = "probing" /\ w.req = worker[s].req
    BY <1>3, ExecutorEndsEffect
  <2>2. worker[s].pc # "idle" /\ UNCHANGED log
    BY <1>3 DEF ExecutorRaises, ExecutorStores
  <2>3. Settles(s)
    BY <2>1, <2>2, Moved DEF Settles
  <2> QED
    BY <2>1, <2>2, <2>3, Moved DEF LogStep, WorkerStep
<1>4. CASE Probe(s)
  <2>1. PICK w \in Worker : Moves(s, w) /\ w.pc = "settling" /\ w.req = worker[s].req
    BY <1>4, ProbeEffect
  <2>2. worker[s].pc # "idle" /\ UNCHANGED log
    BY <1>4 DEF Probe
  <2>3. Settles(s)
    BY <2>1, <2>2, Moved DEF Settles
  <2> QED
    BY <2>1, <2>2, <2>3, Moved DEF LogStep, WorkerStep
<1>5. CASE SettleApplied(s)
  <2>1. PICK r \in Revision, w \in Worker :
          /\ AppendRevision(s, r) /\ r.st = "applied" /\ r.req = worker[s].req
          /\ Keeps(s, r)
          /\ Moves(s, w) /\ w.pc = "registering" /\ w.req = worker[s].req
          /\ w.at = Len(log[s]) + 1
    BY <1>5, SettleAppliedEffect
  <2>2. worker[s].pc # "idle" /\ worker[s].req.op # "tell" /\ log[s] \in Seq(Revision)
    BY <1>5 DEF SettleApplied, NoTell, TypeOK
  <2>3. Continues(s, r)
    BY <2>1, <2>2 DEF Continues
  <2>4. log'[s] = Append(log[s], r) /\ worker'[s] = w
    BY <2>1, Appended, Moved
  <2>5. Len(log[s]) + 1 \in DOMAIN log'[s] /\ log'[s][Len(log[s]) + 1] = r
    BY <2>2, <2>4, AppendIndexes
  <2>6. Settles(s)
    BY <2>1, <2>2, <2>4, <2>5 DEF Settles
  <2> QED
    BY <2>1, <2>3, <2>6, Appended, Moved DEF LogStep, WorkerStep
<1>6. CASE SettleUnverified(s)
  <2>1. PICK r \in Revision :
          /\ AppendRevision(s, r) /\ r.st \in {"recovery_required", "review_required"}
          /\ r.req = worker[s].req /\ Keeps(s, r) /\ Moves(s, Idle)
    BY <1>6, SettleUnverifiedEffect
  <2>2. worker[s].req.op # "tell"
    BY <1>6 DEF SettleUnverified, NoTell
  <2>3. Continues(s, r) /\ Settles(s)
    BY <2>1, <2>2, IdleTyped, Moved DEF Continues, Settles
  <2> QED
    BY <2>1, <2>3, IdleTyped, Appended, Moved DEF LogStep, WorkerStep
<1>7. CASE RegistryCommits(s)
  <2>1. Moves(s, Idle) /\ UNCHANGED log
    BY <1>7 DEF RegistryCommits
  <2>2. Settles(s)
    BY <2>1, IdleTyped, Moved DEF Settles
  <2> QED
    BY <2>1, <2>2, IdleTyped, Moved DEF LogStep, WorkerStep
<1>8. CASE RegistryFails(s)
  <2>1. Moves(s, Idle) /\ worker[s].pc = "registering"
    BY <1>8, RegistryFailsEffect
  <2>2. Settles(s) /\ \A t \in Sessions \ {s} : worker'[t] = worker[t]
    BY <2>1, IdleTyped, Moved DEF Settles
  <2>3. CASE UNCHANGED <<log, latest>>
    BY <2>2, <2>3 DEF LogStep, WorkerStep
  <2>4. CASE \E r \in Revision :
               /\ AppendRevision(s, r) /\ r.st = "recovery_required"
               /\ r.req = worker[s].req /\ Keeps(s, r)
               /\ worker[s].at = Len(log[s])
    <3> PICK r \in Revision :
               /\ AppendRevision(s, r) /\ r.st = "recovery_required"
               /\ r.req = worker[s].req /\ Keeps(s, r)
               /\ worker[s].at = Len(log[s])
      BY <2>4
    <3>1. r.req.op # "tell"
      BY <2>1 DEF NoTell
    <3>2. Continues(s, r)
      BY <3>1 DEF Continues
    <3> QED
      BY <2>2, <3>2, Appended DEF LogStep, WorkerStep
  <2> QED
    BY <1>8, <2>3, <2>4, RegistryFailsEffect
<1> QED
  BY <1>1, <1>2, <1>3, <1>4, <1>5, <1>6, <1>7, <1>8 DEF Working

LEMMA RetryStep ==
  ASSUME TypeOK, NoTell, NEW s \in Sessions, NEW n \in DOMAIN log[s], Retry(s, n)
  PROVE  \A t \in Sessions : LogStep(t) /\ WorkerStep(t)
<1>1. PICK w \in Worker :
        /\ Moves(s, w) /\ w.pc = "registering" /\ w.req = log[s][n].req
        /\ \/ /\ log[s][n].st = "applied" /\ w.at = n
              /\ UNCHANGED <<log, latest>>
           \/ /\ log[s][n].st = "recovery_required" /\ w.at = n + 1
              /\ n = Len(log[s])
              /\ \E r \in Revision : /\ AppendRevision(s, r) /\ r.st = "applied"
                                     /\ r.req = log[s][n].req /\ Keeps(s, r)
  BY RetryEffect
<1>2. worker'[s] = w /\ \A t \in Sessions \ {s} : worker'[t] = worker[t]
  BY <1>1, Moved
<1>3. log[s] \in Seq(Revision)
  BY DEF TypeOK
<1>4. CASE log[s][n].st = "applied" /\ w.at = n /\ UNCHANGED <<log, latest>>
  <2>1. Settles(s)
    BY <1>1, <1>2, <1>4 DEF Settles
  <2> QED
    BY <1>2, <1>4, <2>1 DEF LogStep, WorkerStep
<1>5. CASE /\ log[s][n].st = "recovery_required" /\ w.at = n + 1 /\ n = Len(log[s])
           /\ \E r \in Revision : /\ AppendRevision(s, r) /\ r.st = "applied"
                                  /\ r.req = log[s][n].req /\ Keeps(s, r)
  <2> PICK r \in Revision : /\ AppendRevision(s, r) /\ r.st = "applied"
                            /\ r.req = log[s][n].req /\ Keeps(s, r)
    BY <1>5
  <2>1. Continues(s, r)
    BY <1>5 DEF Continues, NoTell
  <2>2. log'[s] = Append(log[s], r) /\ \A t \in Sessions \ {s} : log'[t] = log[t]
    BY Appended
  <2>3. n + 1 \in DOMAIN log'[s] /\ log'[s][n + 1] = r
    BY <1>3, <1>5, <2>2, AppendIndexes
  <2>4. Settles(s)
    BY <1>1, <1>2, <1>5, <2>3 DEF Settles
  <2> QED
    BY <1>2, <2>1, <2>2, <2>4 DEF LogStep, WorkerStep
<1> QED
  BY <1>1, <1>4, <1>5

LEMMA EveryStep ==
  ASSUME TypeOK, NoTell, [Next]_vars
  PROVE  \A t \in Sessions : LogStep(t) /\ WorkerStep(t)
<1>1. CASE UNCHANGED vars
  BY <1>1 DEF vars, LogStep, WorkerStep
<1>2. ASSUME NEW s \in Sessions, CrashTears(s)
      PROVE  \A t \in Sessions : LogStep(t) /\ WorkerStep(t)
  <2>1. worker' = [t \in Sessions |-> Idle]
    BY <1>2, CrashTearsEffect
  <2>2. PICK r \in Revision : /\ AppendRevision(s, r) /\ r.st = "torn" /\ r.offer = {}
    BY <1>2, CrashTearsEffect
  <2>3. Continues(s, r)
    BY <2>2 DEF Continues
  <2>4. \A t \in Sessions : Settles(t)
    BY <2>1, IdleTyped DEF Settles
  <2> QED
    BY <2>2, <2>3, <2>4, Appended DEF LogStep, WorkerStep
<1>3. CASE Crash
  <2>1. \A t \in Sessions : Settles(t)
    BY <1>3, IdleTyped DEF Crash, Settles
  <2> QED
    BY <1>3, <2>1 DEF Crash, LogStep, WorkerStep
<1>4. ASSUME NEW f \in Facts, ForeignEdit(f)
      PROVE  \A t \in Sessions : LogStep(t) /\ WorkerStep(t)
  BY <1>4 DEF ForeignEdit, LogStep, WorkerStep
<1> QED
  BY <1>1, <1>2, <1>3, <1>4, RequestsStep, WorkingStep, RetryStep DEF Next

LEMMA LogGrows ==
  ASSUME TypeOK, NEW t \in Sessions, LogStep(t)
  PROVE  \A n \in DOMAIN log[t] : n \in DOMAIN log'[t] /\ log'[t][n] = log[t][n]
<1>1. CASE log'[t] = log[t]
  BY <1>1
<1>2. CASE \E r \in Revision : log'[t] = Append(log[t], r)
  <2> PICK r \in Revision : log'[t] = Append(log[t], r)
    BY <1>2
  <2>1. log[t] \in Seq(Revision)
    BY DEF TypeOK
  <2> QED
    BY <2>1, AppendIndexes
<1> QED
  BY <1>1, <1>2 DEF LogStep

LEMMA CurrentStays ==
  ASSUME NEW s \in Sessions, log'[s] = log[s]
  PROVE  Current(s)' = Current(s) /\ (Readable(s)' <=> Readable(s))
  BY DEF Current, Readable

LEMMA NoTellNext ==
  ASSUME TypeOK, NoTell, [Next]_vars
  PROVE  NoTell'
<1>1. ASSUME NEW t \in Sessions, NEW n \in DOMAIN log'[t],
             log'[t][n].st \in {"applied", "recovery_required"}
      PROVE  log'[t][n].req.op # "tell"
  <2>1. CASE log'[t] = log[t]
    BY <1>1, <2>1 DEF NoTell
  <2>2. CASE \E r \in Revision : log'[t] = Append(log[t], r) /\ Continues(t, r)
    <3> PICK r \in Revision : log'[t] = Append(log[t], r) /\ Continues(t, r)
      BY <2>2
    <3>1. log[t] \in Seq(Revision)
      BY DEF TypeOK
    <3>2. n \in DOMAIN log[t] \/ n = Len(log[t]) + 1
      BY <3>1, AppendIndexes
    <3>3. CASE n \in DOMAIN log[t]
      BY <1>1, <3>1, <3>3, AppendIndexes DEF NoTell
    <3>4. CASE n = Len(log[t]) + 1
      BY <1>1, <3>1, <3>4, AppendIndexes DEF Continues
    <3> QED
      BY <3>2, <3>3, <3>4
  <2> QED
    BY <2>1, <2>2, EveryStep DEF LogStep
<1>2. ASSUME NEW t \in Sessions, worker'[t].pc # "idle"
      PROVE  worker'[t].req.op # "tell"
  <2>1. CASE worker'[t] = worker[t]
    BY <1>2, <2>1 DEF NoTell
  <2>2. CASE Intends(t) \/ Records(t) \/ ReadsGraph(t)
    BY <2>2 DEF Intends, Records, ReadsGraph, NoTell
  <2>3. CASE Settles(t)
    BY <1>2, <2>3 DEF Settles, NoTell
  <2> QED
    BY <2>1, <2>2, <2>3, EveryStep DEF WorkerStep
<1>3. ASSUME NEW t \in Sessions, worker'[t].pc = "registering"
      PROVE  worker'[t].at \in DOMAIN log'[t] /\ log'[t][worker'[t].at].st = "applied"
  <2>1. CASE worker'[t] = worker[t]
    BY <1>3, <2>1, EveryStep, LogGrows DEF NoTell
  <2>2. CASE Intends(t) \/ Records(t) \/ ReadsGraph(t)
    BY <1>3, <2>2 DEF Intends, Records, ReadsGraph
  <2>3. CASE Settles(t)
    BY <1>3, <2>3 DEF Settles
  <2> QED
    BY <2>1, <2>2, <2>3, EveryStep DEF WorkerStep
<1> QED
  BY <1>1, <1>2, <1>3 DEF NoTell

LEMMA NoTellInit == Init => NoTell
  BY IdleTyped DEF Init, NoTell

-----------------------------------------------------------------------------
(* What is applied was reviewed.                                           *)

(* A preview at or before n had the candidates S, and no answer since.     *)
Seen(q, n, S) ==
  \E m \in 1..n : /\ q[m].req.op = "preview" /\ S \subseteq q[m].offer
                  /\ \A l \in (m + 1)..n : q[l].req.op # "tell"

OffersReviewed ==
  \A s \in Sessions : \A n \in DOMAIN log[s] :
    log[s][n].offer # {} => Seen(log[s], n, log[s][n].offer)

Chosen ==
  \A s \in Sessions : worker[s].pc = "intending" =>
    worker[s].req.sel # {} /\ worker[s].req.sel \subseteq Current(s).offer

Reviewing == OffersReviewed /\ Chosen /\ AppliedWasReviewed

LEMMA SeenStays ==
  ASSUME NEW q \in Seq(Revision), NEW r \in Revision, NEW n \in DOMAIN q,
         NEW S, Seen(q, n, S)
  PROVE  Seen(Append(q, r), n, S)
<1> PICK m \in 1..n : /\ q[m].req.op = "preview" /\ S \subseteq q[m].offer
                      /\ \A l \in (m + 1)..n : q[l].req.op # "tell"
  BY DEF Seen
<1> DEFINE p == Append(q, r)
<1>1. n \in 1..Len(q) /\ Len(q) \in Nat /\ \A i \in 1..Len(q) : p[i] = q[i]
  BY AppendIndexes
<1> HIDE DEF p
<1>2. p[m] = q[m] /\ \A l \in (m + 1)..n : p[l].req.op # "tell"
  BY <1>1
<1>3. Seen(p, n, S)
  BY <1>2 DEF Seen
<1> QED
  BY <1>3 DEF p

LEMMA Between ==
  ASSUME NEW n \in Nat, NEW m \in 1..n, NEW l \in (m + 1)..(n + 1)
  PROVE  l \in (m + 1)..n \/ l = n + 1
  OBVIOUS

(* It is still seen after the next revision, unless that one is an answer. *)
LEMMA SeenOn ==
  ASSUME NEW q \in Seq(Revision), NEW r \in Revision, r.req.op # "tell",
         Len(q) \in DOMAIN q, NEW S, Seen(q, Len(q), S)
  PROVE  \E m \in 1..Len(q) :
           /\ Append(q, r)[m].req.op = "preview" /\ S \subseteq Append(q, r)[m].offer
           /\ \A l \in (m + 1)..(Len(q) + 1) : Append(q, r)[l].req.op # "tell"
<1> DEFINE n == Len(q)
           p == Append(q, r)
<1>1. PICK m \in 1..n : /\ q[m].req.op = "preview" /\ S \subseteq q[m].offer
                        /\ \A l \in (m + 1)..n : q[l].req.op # "tell"
  BY DEF Seen
<1>2. n \in Nat /\ p[n + 1] = r /\ \A i \in 1..n : p[i] = q[i]
  BY AppendIndexes
<1> HIDE DEF n, p
<1>3. p[m] = q[m] /\ \A l \in (m + 1)..n : p[l].req.op # "tell"
  BY <1>1, <1>2
<1>4. \A l \in (m + 1)..(n + 1) : p[l].req.op # "tell"
  BY <1>2, <1>3, Between
<1>5. \E i \in 1..n : /\ p[i].req.op = "preview" /\ S \subseteq p[i].offer
                      /\ \A l \in (i + 1)..(n + 1) : p[l].req.op # "tell"
  BY <1>1, <1>3, <1>4
<1> QED
  BY <1>5 DEF n, p

LEMMA OffersNext ==
  ASSUME TypeOK, NoTell, OffersReviewed, NEW t \in Sessions, LogStep(t),
         NEW n \in DOMAIN log'[t], log'[t][n].offer # {}
  PROVE  Seen(log'[t], n, log'[t][n].offer)
<1>1. CASE log'[t] = log[t]
  BY <1>1 DEF OffersReviewed
<1>2. CASE \E r \in Revision : log'[t] = Append(log[t], r) /\ Continues(t, r)
  <2> PICK r \in Revision : log'[t] = Append(log[t], r) /\ Continues(t, r)
    BY <1>2
  <2> DEFINE q == log[t]
  <2>1. q \in Seq(Revision)
    BY DEF TypeOK
  <2>2. n \in DOMAIN q \/ n = Len(q) + 1
    BY <2>1, AppendIndexes
  <2>3. CASE n \in DOMAIN q
    <3>1. Append(q, r)[n] = q[n]
      BY <2>1, <2>3, AppendIndexes
    <3>2. Seen(q, n, q[n].offer)
      BY <2>3, <3>1 DEF OffersReviewed
    <3> QED
      BY <2>1, <2>3, <3>1, <3>2, SeenStays
  <2>4. CASE n = Len(q) + 1
    <3> DEFINE p == Append(q, r)
    <3>1. p[n] = r /\ Len(q) \in Nat /\ n \in 1..n
      BY <2>1, <2>4, AppendIndexes
    <3>2. CASE r.req.op = "preview"
      <4> HIDE DEF p
      <4>1. \A l \in (n + 1)..n : p[l].req.op # "tell"
        BY <2>4, <3>1
      <4> QED
        BY <3>1, <3>2, <4>1 DEF Seen, p
    <3>3. CASE r.req.op # "tell" /\ Keeps(t, r)
      <4> DEFINE k == Len(q)
      <4>1. k \in DOMAIN q /\ r.offer = q[k].offer
        BY <3>3, Readables DEF Keeps, Current
      <4>2. Seen(q, k, r.offer)
        BY <3>1, <4>1 DEF OffersReviewed
      <4>3. \E m \in 1..k : /\ p[m].req.op = "preview" /\ r.offer \subseteq p[m].offer
                            /\ \A l \in (m + 1)..(k + 1) : p[l].req.op # "tell"
        BY <2>1, <3>3, <4>1, <4>2, SeenOn
      <4> HIDE DEF p
      <4>4. Seen(p, k + 1, r.offer)
        BY <3>1, <4>3 DEF Seen
      <4> QED
        BY <2>4, <3>1, <4>4 DEF p
    <3> QED
      BY <3>1, <3>2, <3>3 DEF Continues
  <2> QED
    BY <2>2, <2>3, <2>4
<1> QED
  BY <1>1, <1>2 DEF LogStep

LEMMA AppliesNext ==
  ASSUME TypeOK, NoTell, Reviewing, NEW t \in Sessions, LogStep(t),
         NEW n \in DOMAIN log'[t], log'[t][n].st = "apply_pending"
  PROVE  \E m \in 1..(n - 1) :
           /\ log'[t][m].req.op = "preview"
           /\ log'[t][n].sel \subseteq log'[t][m].offer
           /\ \A l \in (m + 1)..n : log'[t][l].req.op # "tell"
<1>1. CASE log'[t] = log[t]
  BY <1>1 DEF Reviewing, AppliedWasReviewed
<1>2. CASE \E r \in Revision : log'[t] = Append(log[t], r) /\ Continues(t, r)
  <2> PICK r \in Revision : log'[t] = Append(log[t], r) /\ Continues(t, r)
    BY <1>2
  <2> DEFINE q == log[t]
             p == Append(q, r)
  <2>1. q \in Seq(Revision)
    BY DEF TypeOK
  <2>2. n \in DOMAIN q \/ n = Len(q) + 1
    BY <2>1, AppendIndexes
  <2>3. /\ Len(q) \in Nat /\ DOMAIN q = 1..Len(q)
        /\ \A i \in 1..Len(q) : p[i] = q[i]
        /\ p[Len(q) + 1] = r
    BY <2>1, AppendIndexes
  <2>4. CASE n \in DOMAIN q
    <3>1. q[n].st = "apply_pending"
      BY <2>3, <2>4
    <3>2. PICK m \in 1..(n - 1) :
            /\ q[m].req.op = "preview" /\ q[n].sel \subseteq q[m].offer
            /\ \A l \in (m + 1)..n : q[l].req.op # "tell"
      BY <2>4, <3>1 DEF Reviewing, AppliedWasReviewed
    <3> HIDE DEF q, p
    <3>3. p[m] = q[m] /\ p[n] = q[n] /\ \A l \in (m + 1)..n : p[l] = q[l]
      BY <2>3, <2>4
    <3>4. \A l \in (m + 1)..n : p[l].req.op # "tell"
      BY <3>2, <3>3
    <3> QED
      BY <3>2, <3>3, <3>4 DEF p, q
  <2>5. CASE n = Len(q) + 1
    <3> DEFINE k == Len(q)
               w == worker[t]
    <3>1. r.st = "apply_pending"
      BY <2>3, <2>5
    <3>2. w.pc = "intending" /\ Readable(t) /\ r.req = w.req /\ r.sel = w.req.sel
      BY <3>1 DEF Continues
    <3>3. k \in DOMAIN q /\ r.sel # {} /\ r.sel \subseteq q[k].offer
      BY <3>2, Readables DEF Reviewing, Chosen, Current
    <3>4. Seen(q, k, q[k].offer)
      BY <3>3 DEF Reviewing, OffersReviewed
    <3>5. r.req.op # "tell"
      BY <3>2 DEF NoTell
    <3>6. PICK m \in 1..k :
            /\ p[m].req.op = "preview" /\ q[k].offer \subseteq p[m].offer
            /\ \A l \in (m + 1)..(k + 1) : p[l].req.op # "tell"
      BY <2>1, <3>3, <3>4, <3>5, SeenOn
    <3> HIDE DEF p, q
    <3>7. m \in 1..(n - 1) /\ p[n] = r
      BY <2>3, <2>5
    <3> QED
      BY <2>5, <3>3, <3>6, <3>7 DEF p, q
  <2> QED
    BY <2>2, <2>4, <2>5
<1> QED
  BY <1>1, <1>2 DEF LogStep

LEMMA ReviewingNext ==
  ASSUME TypeOK, NoTell, Reviewing, [Next]_vars
  PROVE  Reviewing'
<1>1. OffersReviewed'
  BY EveryStep, OffersNext DEF Reviewing, OffersReviewed
<1>2. AppliedWasReviewed'
  BY EveryStep, AppliesNext DEF AppliedWasReviewed
<1>3. ASSUME NEW t \in Sessions, worker'[t].pc = "intending"
      PROVE  worker'[t].req.sel # {} /\ worker'[t].req.sel \subseteq Current(t)'.offer
  <2>1. CASE worker'[t] = worker[t] /\ log'[t] = log[t]
    BY <1>3, <2>1 DEF Reviewing, Chosen, Current
  <2>2. CASE Intends(t)
    BY <2>2 DEF Intends, Current
  <2>3. CASE Records(t) \/ ReadsGraph(t) \/ Settles(t)
    BY <1>3, <2>3 DEF Records, ReadsGraph, Settles
  <2> QED
    BY <1>3, <2>1, <2>2, <2>3, EveryStep DEF WorkerStep
<1> QED
  BY <1>1, <1>2, <1>3 DEF Reviewing, Chosen

LEMMA ReviewingInit == Init => Reviewing
  BY IdleTyped DEF Init, Reviewing, OffersReviewed, Chosen, AppliedWasReviewed

(* For any number of sessions and candidates, what an intent selects comes *)
(* from a preview that no later answer or source has made void.            *)
THEOREM AlwaysReviewed == Spec => []AppliedWasReviewed
<1>1. Init => TypeOK /\ NoTell /\ Reviewing
  BY TypeInit, NoTellInit, ReviewingInit
<1>2. TypeOK /\ NoTell /\ Reviewing /\ [Next]_vars => (TypeOK /\ NoTell /\ Reviewing)'
  BY TypeNext, NoTellNext, ReviewingNext
<1>3. Reviewing => AppliedWasReviewed
  BY DEF Reviewing
<1> QED
  BY <1>1, <1>2, <1>3, PTL DEF Spec

-----------------------------------------------------------------------------
(* The intent comes first.                                                 *)

(* f is selected by an intent of session t with key k.                     *)
Intended(t, k, f) ==
  \E n \in DOMAIN log[t] :
    log[t][n].st = "apply_pending" /\ log[t][n].req.key = k /\ f \in log[t][n].sel

Asked(t, req) ==
  \E n \in DOMAIN log[t] :
    /\ log[t][n].st = "apply_pending" /\ log[t][n].req = req
    /\ log[t][n].sel = req.sel

(* Before the executor runs its intent is in the log.                      *)
Writing ==
  \A s \in Sessions : worker[s].pc \in {"reading", "storing"} =>
    worker[s].req.op = "apply" /\ Asked(s, worker[s].req)

Intending ==
  \A s \in Sessions : worker[s].pc = "intending" => worker[s].req.op = "apply"

(* The copy of the graph that an executor is about to store.               *)
Held ==
  \A s \in Sessions : worker[s].pc = "storing" =>
    \A t \in Sessions, k \in Keys, f \in Facts :
      <<f, <<t, k>>>> \in worker[s].held => Intended(t, k, f)

Accounted == Intending /\ Writing /\ Held /\ IntentFirst

GraphStep ==
  \/ graph' \subseteq graph \cup (Facts \X {Foreign})
  \/ \E s \in Sessions :
       /\ worker[s].pc = "storing"
       /\ graph' \subseteq
            worker[s].held \cup (worker[s].req.sel \X {<<s, worker[s].req.key>>})

LEMMA EveryGraphStep ==
  ASSUME TypeOK, [Next]_vars
  PROVE  GraphStep
<1>1. CASE UNCHANGED vars
  BY <1>1 DEF vars, GraphStep
<1>2. ASSUME NEW s \in Sessions, Working(s)
      PROVE  GraphStep
  <2>1. CASE \E New \in SUBSET Facts : ExecutorStores(s, New)
    <3> PICK New \in SUBSET Facts : ExecutorStores(s, New)
      BY <2>1
    <3>1. /\ worker[s].pc = "storing" /\ New \subseteq worker[s].req.sel
          /\ graph' = worker[s].held \cup (New \X {<<s, worker[s].req.key>>})
      BY DEF ExecutorStores
    <3> DEFINE writer == <<s, worker[s].req.key>>
               sel == worker[s].req.sel
    <3>2. New \X {writer} \subseteq sel \X {writer}
      BY <3>1
    <3> QED
      BY <3>1, <3>2 DEF GraphStep
  <2>2. CASE UNCHANGED graph
    BY <2>2 DEF GraphStep
  <2> QED
    BY <1>2, <2>1, <2>2
    DEF Working, RecordIntent, ExecutorReads, ExecutorRaises, Probe, SettleApplied,
        SettleUnverified, RegistryCommits, RegistryFails
<1>3. ASSUME NEW f \in Facts, ForeignEdit(f)
      PROVE  GraphStep
  <2>1. graph' \in {graph \cup {<<f, Foreign>>}, {p \in graph : p[1] # f}}
    BY <1>3 DEF ForeignEdit
  <2> QED
    BY <2>1 DEF GraphStep
<1>4. ASSUME NEW s \in Sessions, Requests(s)
      PROVE  GraphStep
  BY <1>4, RequestsTyped DEF GraphStep
<1>5. CASE \/ Crash
           \/ \E s \in Sessions : CrashTears(s) \/ \E n \in DOMAIN log[s] : Retry(s, n)
  BY <1>5 DEF Crash, CrashTears, Retry, GraphStep
<1> QED
  BY <1>1, <1>2, <1>3, <1>4, <1>5 DEF Next

LEMMA IntentsStay ==
  ASSUME TypeOK, NEW t \in Sessions, LogStep(t)
  PROVE  /\ \A k, f : Intended(t, k, f) => Intended(t, k, f)'
         /\ \A req : Asked(t, req) => Asked(t, req)'
  BY LogGrows DEF Intended, Asked

LEMMA AskedIntends ==
  ASSUME NEW t \in Sessions, NEW req, Asked(t, req), NEW f \in req.sel
  PROVE  Intended(t, req.key, f)
  BY DEF Asked, Intended

LEMMA RecordsAsked ==
  ASSUME TypeOK, NEW t \in Sessions, Records(t)
  PROVE  \E n \in DOMAIN log'[t] :
           /\ log'[t][n].st = "apply_pending" /\ log'[t][n].req = worker'[t].req
           /\ log'[t][n].sel = worker'[t].req.sel
<1>1. PICK r \in Revision : /\ log'[t] = Append(log[t], r) /\ r.st = "apply_pending"
                            /\ r.req = worker[t].req /\ r.sel = worker[t].req.sel
  BY DEF Records
<1>2. log[t] \in Seq(Revision) /\ worker'[t].req = worker[t].req
  BY DEF TypeOK, Records
<1> DEFINE n == Len(log[t]) + 1
<1>3. n \in DOMAIN log'[t] /\ log'[t][n] = r
  BY <1>1, <1>2, AppendIndexes
<1> HIDE DEF n
<1> QED
  BY <1>1, <1>2, <1>3

LEMMA IntentNext ==
  ASSUME TypeOK, NoTell, Accounted, [Next]_vars
  PROVE  IntentFirst'
<1> SUFFICES ASSUME NEW t \in Sessions, NEW k \in Keys, NEW f \in Facts,
                    <<f, <<t, k>>>> \in graph'
             PROVE  Intended(t, k, f)'
  BY DEF IntentFirst, Intended
<1>1. Intended(t, k, f) => Intended(t, k, f)'
  BY EveryStep, IntentsStay
<1>2. CASE <<f, <<t, k>>>> \in graph
  BY <1>1, <1>2 DEF Accounted, IntentFirst, Intended
<1>3. CASE <<f, <<t, k>>>> \in Facts \X {Foreign}
  BY <1>3, BootstrapAssumption
<1>4. ASSUME NEW s \in Sessions, worker[s].pc = "storing",
             <<f, <<t, k>>>> \in worker[s].held
      PROVE  Intended(t, k, f)
  BY <1>4 DEF Accounted, Held
<1>5. ASSUME NEW s \in Sessions, worker[s].pc = "storing",
             <<f, <<t, k>>>> \in worker[s].req.sel \X {<<s, worker[s].req.key>>}
      PROVE  Intended(t, k, f)
  <2>1. t = s /\ k = worker[s].req.key /\ f \in worker[s].req.sel
    BY <1>5
  <2>2. Asked(s, worker[s].req)
    BY <1>5 DEF Accounted, Writing
  <2> QED
    BY <2>1, <2>2, AskedIntends
<1> QED
  BY <1>1, <1>2, <1>3, <1>4, <1>5, EveryGraphStep DEF GraphStep

LEMMA WritingNext ==
  ASSUME TypeOK, NoTell, Accounted, [Next]_vars
  PROVE  Intending' /\ Writing' /\ Held'
<1>1. ASSUME NEW s \in Sessions, worker'[s].pc = "intending"
      PROVE  worker'[s].req.op = "apply"
  <2>1. CASE worker'[s] = worker[s]
    BY <1>1, <2>1 DEF Accounted, Intending
  <2>2. CASE Intends(s) \/ Records(s) \/ ReadsGraph(s) \/ Settles(s)
    BY <1>1, <2>2 DEF Intends, Records, ReadsGraph, Settles
  <2> QED
    BY <2>1, <2>2, EveryStep DEF WorkerStep
<1>2. ASSUME NEW s \in Sessions, worker'[s].pc \in {"reading", "storing"}
      PROVE  worker'[s].req.op = "apply" /\ Asked(s, worker[s].req)'
  <2>0. Asked(s, worker[s].req) => \E n \in DOMAIN log'[s] :
          /\ log'[s][n].st = "apply_pending" /\ log'[s][n].req = worker[s].req
          /\ log'[s][n].sel = worker[s].req.sel
    BY EveryStep, LogGrows DEF Asked
  <2>1. CASE worker'[s] = worker[s]
    BY <1>2, <2>0, <2>1 DEF Accounted, Writing, Asked
  <2>2. CASE Records(s)
    BY <2>2, RecordsAsked DEF Records, Accounted, Intending, Asked
  <2>3. CASE ReadsGraph(s)
    BY <2>0, <2>3 DEF ReadsGraph, Accounted, Writing, Asked
  <2>4. CASE Intends(s) \/ Settles(s)
    BY <1>2, <2>4 DEF Intends, Settles
  <2> QED
    BY <2>1, <2>2, <2>3, <2>4, EveryStep DEF WorkerStep
<1>3. ASSUME NEW s \in Sessions, worker'[s].pc = "storing",
             NEW t \in Sessions, NEW k \in Keys, NEW f \in Facts,
             <<f, <<t, k>>>> \in worker'[s].held
      PROVE  Intended(t, k, f)'
  <2>1. Intended(t, k, f) => Intended(t, k, f)'
    BY EveryStep, IntentsStay
  <2>2. CASE worker'[s] = worker[s]
    BY <1>3, <2>1, <2>2 DEF Accounted, Held
  <2>3. CASE ReadsGraph(s)
    BY <1>3, <2>1, <2>3 DEF ReadsGraph, Accounted, IntentFirst, Intended
  <2>4. CASE Intends(s) \/ Records(s) \/ Settles(s)
    BY <1>3, <2>4 DEF Intends, Records, Settles
  <2> QED
    BY <2>2, <2>3, <2>4, EveryStep DEF WorkerStep
<1> QED
  BY <1>1, <1>2, <1>3 DEF Intending, Writing, Held

LEMMA AccountedInit == Init => Accounted
<1> SUFFICES ASSUME Init PROVE Accounted
  OBVIOUS
<1>1. \A s \in Sessions : worker[s].pc = "idle"
  BY IdleTyped DEF Init
<1>2. \A t \in Sessions, k \in Keys, f \in Facts : <<f, <<t, k>>>> \notin graph
  BY BootstrapAssumption DEF Init
<1> QED
  BY <1>1, <1>2 DEF Accounted, Intending, Writing, Held, IntentFirst

(* Whatever crashes, raises or is overwritten, by this session or another  *)
(* one of the brain, what a session has in the brain is in an intent of    *)
(* its log.                                                                *)
THEOREM IntentAlwaysFirst == Spec => []IntentFirst
<1>1. Init => TypeOK /\ NoTell /\ Accounted
  BY TypeInit, NoTellInit, AccountedInit
<1>2. TypeOK /\ NoTell /\ Accounted /\ [Next]_vars => (TypeOK /\ NoTell /\ Accounted)'
  BY TypeNext, NoTellNext, WritingNext, IntentNext DEF Accounted
<1>3. Accounted => IntentFirst
  BY DEF Accounted
<1> QED
  BY <1>1, <1>2, <1>3, PTL DEF Spec

-----------------------------------------------------------------------------
(* One confirmation, one store.                                            *)

(* A key that stored is the key of an apply in the log.                    *)
StoredAsked ==
  \A s \in Sessions : \A m \in DOMAIN stored[s] : ~Fresh(s, "apply", stored[s][m])

(* The apply at work has not stored.                                       *)
Unstored ==
  \A s \in Sessions : worker[s].pc \in {"intending", "reading", "storing"} =>
    \A m \in DOMAIN stored[s] : stored[s][m] # worker[s].req.key

Once == StoredAsked /\ Unstored /\ KeyStoresOnce

StoredStep(t) ==
  \/ stored'[t] = stored[t]
  \/ /\ worker[t].pc = "storing" /\ worker'[t].pc = "probing"
     /\ stored'[t] = Append(stored[t], worker[t].req.key)

LEMMA EveryStoredStep ==
  ASSUME TypeOK, [Next]_vars
  PROVE  \A t \in Sessions : StoredStep(t)
<1>1. CASE UNCHANGED vars
  BY <1>1 DEF vars, StoredStep
<1>2. ASSUME NEW s \in Sessions, NEW New \in SUBSET Facts, ExecutorStores(s, New)
      PROVE  \A t \in Sessions : StoredStep(t)
  <2>1. PICK w \in Worker : Moves(s, w) /\ w.pc = "probing"
    BY <1>2, ExecutorEndsEffect
  <2>2. worker'[s].pc = "probing" /\ worker[s].pc = "storing"
    BY <1>2, <2>1, Moved DEF ExecutorStores
  <2>3. \A t \in Sessions \ {s} : stored'[t] = stored[t]
    BY <1>2 DEF ExecutorStores, TypeOK
  <2>4. stored'[s] = stored[s] \/ stored'[s] = Append(stored[s], worker[s].req.key)
    BY <1>2 DEF ExecutorStores, TypeOK
  <2> QED
    BY <2>2, <2>3, <2>4 DEF StoredStep
<1>3. ASSUME NEW s \in Sessions, Working(s)
      PROVE  \A t \in Sessions : StoredStep(t)
  <2>1. CASE UNCHANGED stored
    BY <2>1 DEF StoredStep
  <2> QED
    BY <1>2, <1>3, <2>1
    DEF Working, RecordIntent, ExecutorReads, ExecutorRaises, Probe, SettleApplied,
        SettleUnverified, RegistryCommits, RegistryFails
<1>4. ASSUME NEW s \in Sessions, Requests(s)
      PROVE  \A t \in Sessions : StoredStep(t)
  BY <1>4, RequestsTyped DEF StoredStep
<1>5. CASE \/ Crash \/ \E f \in Facts : ForeignEdit(f)
           \/ \E s \in Sessions : CrashTears(s) \/ \E n \in DOMAIN log[s] : Retry(s, n)
  BY <1>5 DEF Crash, CrashTears, Retry, ForeignEdit, StoredStep
<1> QED
  BY <1>1, <1>3, <1>4, <1>5 DEF Next

LEMMA KeyIndexes ==
  ASSUME NEW q \in Seq(Keys), NEW k \in Keys
  PROVE  /\ DOMAIN Append(q, k) = DOMAIN q \cup {Len(q) + 1}
         /\ \A n \in DOMAIN q : Append(q, k)[n] = q[n]
         /\ Append(q, k)[Len(q) + 1] = k
  OBVIOUS

LEMMA OnceNext ==
  ASSUME TypeOK, NoTell, Accounted, Once, [Next]_vars
  PROVE  Once'
<1>1. ASSUME NEW t \in Sessions, worker[t].pc = "storing"
      PROVE  ~Fresh(t, "apply", worker[t].req.key) /\ worker[t].req.key \in Keys
  <2>1. worker[t].req.op = "apply" /\ Asked(t, worker[t].req)
    BY <1>1 DEF Accounted, Writing
  <2> QED
    BY <1>1, <2>1, Busy DEF Asked, Fresh
<1>2. ASSUME NEW t \in Sessions, NEW m \in DOMAIN stored'[t]
      PROVE  \E n \in DOMAIN log'[t] :
               log'[t][n].req.op = "apply" /\ log'[t][n].req.key = stored'[t][m]
  <2>1. CASE stored'[t] = stored[t]
    <3>1. ~Fresh(t, "apply", stored[t][m])
      BY <2>1 DEF Once, StoredAsked
    <3> QED
      BY <2>1, <3>1, EveryStep, LogGrows DEF Fresh
  <2>2. CASE worker[t].pc = "storing" /\ stored'[t] = Append(stored[t], worker[t].req.key)
    <3>1. stored[t] \in Seq(Keys) /\ worker[t].req.key \in Keys
      BY <1>1, <2>2 DEF TypeOK
    <3>2. ~Fresh(t, "apply", stored'[t][m])
      BY <1>1, <2>2, <3>1, KeyIndexes DEF Once, StoredAsked
    <3> QED
      BY <3>2, EveryStep, LogGrows DEF Fresh
  <2> QED
    BY <2>1, <2>2, EveryStoredStep DEF StoredStep
<1>3. ASSUME NEW t \in Sessions, worker'[t].pc \in {"intending", "reading", "storing"},
             NEW m \in DOMAIN stored'[t]
      PROVE  stored'[t][m] # worker'[t].req.key
  <2>1. stored'[t] = stored[t]
    BY <1>3, EveryStoredStep DEF StoredStep
  <2>2. CASE worker'[t] = worker[t] \/ Records(t) \/ ReadsGraph(t)
    BY <1>3, <2>1, <2>2 DEF Records, ReadsGraph, Once, Unstored
  <2>3. CASE Intends(t)
    BY <2>1, <2>3 DEF Intends, Once, StoredAsked
  <2>4. CASE Settles(t)
    BY <1>3, <2>4 DEF Settles
  <2> QED
    BY <2>2, <2>3, <2>4, EveryStep DEF WorkerStep
<1>4. ASSUME NEW t \in Sessions, NEW m \in DOMAIN stored'[t], NEW n \in DOMAIN stored'[t],
             stored'[t][m] = stored'[t][n]
      PROVE  m = n
  <2>1. CASE stored'[t] = stored[t]
    BY <1>4, <2>1 DEF Once, KeyStoresOnce
  <2>2. CASE worker[t].pc = "storing" /\ stored'[t] = Append(stored[t], worker[t].req.key)
    <3>1. stored[t] \in Seq(Keys) /\ worker[t].req.key \in Keys
      BY <1>1, <2>2 DEF TypeOK
    <3>2. \A i \in DOMAIN stored[t] : stored[t][i] # worker[t].req.key
      BY <2>2 DEF Once, Unstored
    <3> QED
      BY <1>4, <2>2, <3>1, <3>2, KeyIndexes DEF Once, KeyStoresOnce
  <2> QED
    BY <2>1, <2>2, EveryStoredStep DEF StoredStep
<1> QED
  BY <1>2, <1>3, <1>4 DEF Once, StoredAsked, Fresh, Unstored, KeyStoresOnce

LEMMA OnceInit == Init => Once
  BY DEF Init, Once, StoredAsked, Unstored, KeyStoresOnce

(* No retry, recovery or crash makes one idempotency key store twice, in   *)
(* any number of sessions.                                                 *)
THEOREM KeysStoreOnce == Spec => []KeyStoresOnce
<1>1. Init => TypeOK /\ NoTell /\ Accounted /\ Once
  BY TypeInit, NoTellInit, AccountedInit, OnceInit
<1>2. TypeOK /\ NoTell /\ Accounted /\ Once /\ [Next]_vars
        => (TypeOK /\ NoTell /\ Accounted /\ Once)'
  BY TypeNext, NoTellNext, WritingNext, IntentNext, OnceNext DEF Accounted
<1>3. Once => KeyStoresOnce
  BY DEF Once
<1> QED
  BY <1>1, <1>2, <1>3, PTL DEF Spec

-----------------------------------------------------------------------------
(* A second store was reviewed again.                                      *)

(* From an intent on the session is in one of these states, until another  *)
(* review is asked for.                                                    *)
Pending == {"apply_pending", "applied", "recovery_required", "torn"}

IsIntent(q, n, k) == q[n].st = "apply_pending" /\ q[n].req.key = k

PendingStep(t) ==
  \/ log'[t] = log[t]
  \/ \E r \in Revision :
       /\ log'[t] = Append(log[t], r)
       /\ r.st = "apply_pending" => worker[t].pc = "intending"
       /\ log[t] # <<>> /\ Current(t).st \in Pending =>
            r.st \in Pending \cup {"review_required"}

(* An apply that was let in is at a review.                                *)
Deciding ==
  \A t \in Sessions : worker[t].pc = "intending" => Current(t).st \notin Pending

Awaited ==
  \A t \in Sessions : \A i \in DOMAIN log[t] : log[t][i].st = "apply_pending" =>
    \/ Current(t).st \in Pending
    \/ \E j \in DOMAIN log[t] : i < j /\ log[t][j].st = "review_required"

(* Two intents of a session have a review between them.                    *)
Apart ==
  \A t \in Sessions : \A i, l \in DOMAIN log[t] :
    i < l /\ log[t][i].st = "apply_pending" /\ log[t][l].st = "apply_pending" =>
      \E j \in DOMAIN log[t] : i < j /\ j < l /\ log[t][j].st = "review_required"

(* Keys store in the order of their intents.                               *)
StoredIntended ==
  \A t \in Sessions : \A m \in DOMAIN stored[t] :
    \E i \in DOMAIN log[t] : IsIntent(log[t], i, stored[t][m])

TurnLast ==
  \A t \in Sessions : worker[t].pc \in {"reading", "storing"} =>
    \E l \in DOMAIN log[t] :
      /\ IsIntent(log[t], l, worker[t].req.key)
      /\ \A m \in DOMAIN stored[t] :
           \E i \in DOMAIN log[t] : i < l /\ IsIntent(log[t], i, stored[t][m])

StoredInOrder ==
  \A t \in Sessions : \A m, n \in DOMAIN stored[t] : m < n =>
    \E i, l \in DOMAIN log[t] :
      i < l /\ IsIntent(log[t], i, stored[t][m]) /\ IsIntent(log[t], l, stored[t][n])

Reviewed == Deciding /\ Awaited /\ Apart /\ StoredIntended /\ TurnLast /\ StoredInOrder

LEMMA PendingRequests ==
  ASSUME TypeOK, NEW s \in Sessions, Requests(s)
  PROVE  \A t \in Sessions : PendingStep(t)
<1>1. CASE Start(s)
  <2>1. PICK r \in Revision : AppendRevision(s, r) /\ r.st = "interview_active"
    BY <1>1, StartEffect
  <2> QED
    BY <1>1, <2>1, Appended DEF PendingStep, Start
<1>2. CASE Tell(s) \/ Cancel(s) \/ Resume(s) \/ \E S \in Offers : Preview(s, S)
  <2>1. PICK r \in Revision : AppendRevision(s, r) /\ r.st # "apply_pending"
    BY <1>2, SaysEffect DEF Said
  <2>2. Current(s).st \notin Pending
    BY <1>2 DEF Tell, Cancel, Resume, Preview, Appends, Open, Pending
  <2> QED
    BY <2>1, <2>2, Appended DEF PendingStep
<1>3. CASE \E k \in Keys : BeginRecover(s, k) \/ \E S \in Offers : BeginApply(s, k, S)
  BY <1>3 DEF BeginRecover, BeginApply, PendingStep
<1> QED
  BY <1>1, <1>2, <1>3 DEF Requests

LEMMA PendingWorking ==
  ASSUME TypeOK, NEW s \in Sessions, Working(s)
  PROVE  \A t \in Sessions : PendingStep(t)
<1>1. CASE RecordIntent(s)
  <2>1. PICK r \in Revision : AppendRevision(s, r) /\ r.st = "apply_pending"
    BY <1>1, RecordIntentEffect
  <2> QED
    BY <1>1, <2>1, Appended DEF RecordIntent, PendingStep, Pending
<1>2. CASE SettleApplied(s)
  <2>1. PICK r \in Revision : AppendRevision(s, r) /\ r.st = "applied"
    BY <1>2, SettleAppliedEffect
  <2> QED
    BY <2>1, Appended DEF PendingStep, Pending
<1>3. CASE SettleUnverified(s)
  <2>1. PICK r \in Revision :
          AppendRevision(s, r) /\ r.st \in {"recovery_required", "review_required"}
    BY <1>3, SettleUnverifiedEffect
  <2> QED
    BY <2>1, Appended DEF PendingStep, Pending
<1>4. CASE RegistryFails(s)
  <2>1. CASE UNCHANGED <<log, latest>>
    BY <2>1 DEF PendingStep
  <2>2. CASE \E r \in Revision : AppendRevision(s, r) /\ r.st = "recovery_required"
    BY <2>2, Appended DEF PendingStep, Pending
  <2> QED
    BY <1>4, <2>1, <2>2, RegistryFailsEffect
<1>5. CASE UNCHANGED log
  BY <1>5 DEF PendingStep
<1> QED
  BY <1>1, <1>2, <1>3, <1>4, <1>5
  DEF Working, ExecutorReads, ExecutorRaises, Probe, ExecutorStores, RegistryCommits

LEMMA EveryPendingStep ==
  ASSUME TypeOK, [Next]_vars
  PROVE  \A t \in Sessions : PendingStep(t)
<1>1. CASE UNCHANGED vars
  BY <1>1 DEF vars, PendingStep
<1>2. ASSUME NEW s \in Sessions, CrashTears(s)
      PROVE  \A t \in Sessions : PendingStep(t)
  <2>1. PICK r \in Revision : AppendRevision(s, r) /\ r.st = "torn"
    BY <1>2, CrashTearsEffect
  <2> QED
    BY <2>1, Appended DEF PendingStep, Pending
<1>3. ASSUME NEW s \in Sessions, NEW n \in DOMAIN log[s], Retry(s, n)
      PROVE  \A t \in Sessions : PendingStep(t)
  <2>1. CASE UNCHANGED <<log, latest>>
    BY <2>1 DEF PendingStep
  <2>2. CASE \E r \in Revision : AppendRevision(s, r) /\ r.st = "applied"
    BY <2>2, Appended DEF PendingStep, Pending
  <2> QED
    BY <1>3, <2>1, <2>2, RetryEffect
<1>4. CASE Crash \/ \E f \in Facts : ForeignEdit(f)
  BY <1>4 DEF Crash, ForeignEdit, PendingStep
<1> QED
  BY <1>1, <1>2, <1>3, <1>4, PendingRequests, PendingWorking DEF Next

(* The log alone.                                                          *)
LEMMA AwaitedNext ==
  ASSUME TypeOK, NoTell, Reviewed, [Next]_vars, NEW t \in Sessions
  PROVE  /\ worker'[t].pc = "intending" => Current(t)'.st \notin Pending
         /\ \A i \in DOMAIN log'[t] : log'[t][i].st = "apply_pending" =>
              \/ Current(t)'.st \in Pending
              \/ \E j \in DOMAIN log'[t] : i < j /\ log'[t][j].st = "review_required"
<1>1. worker'[t].pc = "intending" => Current(t)'.st \notin Pending
  <2> SUFFICES ASSUME worker'[t].pc = "intending"
               PROVE  Current(t)'.st \notin Pending
    OBVIOUS
  <2>1. CASE worker'[t] = worker[t] /\ (worker[t].pc = "idle" \/ log'[t] = log[t])
    BY <2>1, CurrentStays DEF Reviewed, Deciding
  <2>2. CASE Intends(t)
    BY <2>2, CurrentStays DEF Intends, Pending
  <2>3. CASE Records(t) \/ ReadsGraph(t) \/ Settles(t)
    BY <2>3 DEF Records, ReadsGraph, Settles
  <2> QED
    BY <2>1, <2>2, <2>3, EveryStep DEF WorkerStep
<1>2. CASE log'[t] = log[t]
  BY <1>1, <1>2, CurrentStays DEF Reviewed, Awaited
<1>3. CASE log'[t] # log[t]
  <2>1. PICK r \in Revision :
          /\ log'[t] = Append(log[t], r)
          /\ r.st = "apply_pending" => worker[t].pc = "intending"
          /\ log[t] # <<>> /\ Current(t).st \in Pending =>
               r.st \in Pending \cup {"review_required"}
    BY <1>3, EveryPendingStep DEF PendingStep
  <2> DEFINE n == Len(log[t]) + 1
  <2>2. log[t] \in Seq(Revision)
    BY DEF TypeOK
  <2>3. /\ n \in Nat /\ DOMAIN log'[t] = DOMAIN log[t] \cup {n}
        /\ n \in DOMAIN log'[t] /\ log'[t][n] = r
        /\ \A i \in DOMAIN log[t] : i < n /\ log'[t][i] = log[t][i]
    BY <2>1, <2>2, AppendIndexes
  <2>4. Current(t)' = r
    <3>1. Len(log'[t]) = n
      BY <2>1, <2>2, AppendIndexes
    <3> QED
      BY <2>3, <3>1 DEF Current
  <2> HIDE DEF n
  <2>5. ASSUME NEW i \in DOMAIN log'[t], log'[t][i].st = "apply_pending"
        PROVE  \/ r.st \in Pending
               \/ \E j \in DOMAIN log'[t] : i < j /\ log'[t][j].st = "review_required"
    <3>1. CASE i = n
      BY <2>3, <2>5, <3>1 DEF Pending
    <3>2. CASE i \in DOMAIN log[t]
      <4>1. CASE Current(t).st \in Pending
        <5>1. log[t] # <<>>
          BY <2>2, <3>2
        <5> QED
          BY <2>1, <2>3, <3>2, <4>1, <5>1
      <4>2. CASE \E j \in DOMAIN log[t] : i < j /\ log[t][j].st = "review_required"
        BY <2>3, <4>2
      <4> QED
        BY <2>3, <2>5, <3>2, <4>1, <4>2 DEF Reviewed, Awaited
    <3> QED
      BY <2>3, <3>1, <3>2
  <2> QED
    BY <1>1, <2>4, <2>5
<1> QED
  BY <1>2, <1>3

LEMMA ApartNext ==
  ASSUME TypeOK, NoTell, Reviewed, [Next]_vars, NEW t \in Sessions,
         NEW i \in DOMAIN log'[t], NEW l \in DOMAIN log'[t], i < l,
         log'[t][i].st = "apply_pending", log'[t][l].st = "apply_pending"
  PROVE  \E j \in DOMAIN log'[t] : i < j /\ j < l /\ log'[t][j].st = "review_required"
<1>1. CASE log'[t] = log[t]
  BY <1>1 DEF Reviewed, Apart
<1>2. CASE log'[t] # log[t]
  <2>1. PICK r \in Revision :
          /\ log'[t] = Append(log[t], r)
          /\ r.st = "apply_pending" => worker[t].pc = "intending"
    BY <1>2, EveryPendingStep DEF PendingStep
  <2> DEFINE n == Len(log[t]) + 1
  <2>2. log[t] \in Seq(Revision)
    BY DEF TypeOK
  <2>3. /\ n \in Nat /\ DOMAIN log'[t] = DOMAIN log[t] \cup {n}
        /\ log'[t][n] = r
        /\ \A m \in DOMAIN log[t] : m \in Nat /\ m < n /\ log'[t][m] = log[t][m]
    BY <2>1, <2>2, AppendIndexes
  <2> HIDE DEF n
  <2>4. i \in DOMAIN log[t]
    <3>1. CASE i = n
      <4>1. l = n \/ l < n
        BY <2>3
      <4> QED
        BY <2>3, <3>1, <4>1
    <3> QED
      BY <2>3, <3>1
  <2>5. CASE l \in DOMAIN log[t]
    <3>1. PICK j \in DOMAIN log[t] : i < j /\ j < l /\ log[t][j].st = "review_required"
      BY <2>3, <2>4, <2>5 DEF Reviewed, Apart
    <3> QED
      BY <2>3, <3>1
  <2>6. CASE l = n
    <3>1. Current(t).st \notin Pending
      BY <2>1, <2>3, <2>6 DEF Reviewed, Deciding
    <3>2. PICK j \in DOMAIN log[t] : i < j /\ log[t][j].st = "review_required"
      BY <2>3, <2>4, <3>1 DEF Reviewed, Awaited
    <3> QED
      BY <2>3, <2>6, <3>2
  <2> QED
    BY <2>3, <2>5, <2>6
<1> QED
  BY <1>1, <1>2

(* Stores and intents.                                                     *)
LEMMA IntentStays ==
  ASSUME TypeOK, NoTell, [Next]_vars, NEW t \in Sessions, NEW k, NEW n \in DOMAIN log[t],
         IsIntent(log[t], n, k)
  PROVE  n \in DOMAIN log'[t] /\ IsIntent(log'[t], n, k)
  BY EveryStep, LogGrows DEF IsIntent

LEMMA StoredNext ==
  ASSUME TypeOK, NoTell, Reviewed, [Next]_vars
  PROVE  StoredIntended' /\ StoredInOrder'
<1> SUFFICES ASSUME NEW t \in Sessions
             PROVE  /\ \A m \in DOMAIN stored'[t] :
                         \E i \in DOMAIN log'[t] : IsIntent(log'[t], i, stored'[t][m])
                    /\ \A m, n \in DOMAIN stored'[t] : m < n =>
                         \E i, l \in DOMAIN log'[t] :
                           /\ i < l /\ IsIntent(log'[t], i, stored'[t][m])
                           /\ IsIntent(log'[t], l, stored'[t][n])
  BY DEF StoredIntended, StoredInOrder, IsIntent
<1>1. CASE stored'[t] = stored[t]
  BY <1>1, IntentStays DEF Reviewed, StoredIntended, StoredInOrder
<1>2. CASE worker[t].pc = "storing" /\ stored'[t] = Append(stored[t], worker[t].req.key)
  <2> DEFINE k == worker[t].req.key
             last == Len(stored[t]) + 1
  <2>1. stored[t] \in Seq(Keys) /\ k \in Keys
    BY <1>2, Busy DEF TypeOK
  <2>2. /\ last \in Nat /\ DOMAIN stored'[t] = DOMAIN stored[t] \cup {last}
        /\ stored'[t][last] = k
        /\ \A m \in DOMAIN stored[t] : m \in Nat /\ m < last /\ stored'[t][m] = stored[t][m]
    BY <1>2, <2>1, KeyIndexes
  <2>3. PICK l \in DOMAIN log[t] :
          /\ IsIntent(log[t], l, k)
          /\ \A m \in DOMAIN stored[t] :
               \E i \in DOMAIN log[t] : i < l /\ IsIntent(log[t], i, stored[t][m])
    BY <1>2 DEF Reviewed, TurnLast
  <2> HIDE DEF k, last
  <2>4. l \in DOMAIN log'[t] /\ IsIntent(log'[t], l, k)
    BY <2>3, IntentStays
  <2>5. ASSUME NEW m \in DOMAIN stored'[t]
        PROVE  \E i \in DOMAIN log'[t] : IsIntent(log'[t], i, stored'[t][m])
    BY <2>2, <2>4, IntentStays DEF Reviewed, StoredIntended
  <2>6. ASSUME NEW m \in DOMAIN stored'[t], NEW n \in DOMAIN stored'[t], m < n
        PROVE  \E i, o \in DOMAIN log'[t] :
                 /\ i < o /\ IsIntent(log'[t], i, stored'[t][m])
                 /\ IsIntent(log'[t], o, stored'[t][n])
    <3>1. m \in DOMAIN stored[t]
      <4>1. n = last \/ n < last
        BY <2>2
      <4>2. m # last
        BY <2>2, <2>6, <4>1
      <4> QED
        BY <2>2, <4>2
    <3>2. CASE n = last
      BY <2>2, <2>3, <2>4, <3>1, <3>2, IntentStays
    <3>3. CASE n \in DOMAIN stored[t]
      <4>1. PICK i \in DOMAIN log[t], o \in DOMAIN log[t] :
              i < o /\ IsIntent(log[t], i, stored[t][m]) /\ IsIntent(log[t], o, stored[t][n])
        BY <2>6, <3>1, <3>3 DEF Reviewed, StoredInOrder
      <4> QED
        BY <2>2, <3>1, <3>3, <4>1, IntentStays
    <3> QED
      BY <2>2, <3>2, <3>3
  <2> QED
    BY <2>5, <2>6
<1> QED
  BY <1>1, <1>2, EveryStoredStep DEF StoredStep

LEMMA TurnLastNext ==
  ASSUME TypeOK, NoTell, Reviewed, [Next]_vars
  PROVE  TurnLast'
<1> SUFFICES ASSUME NEW t \in Sessions, worker'[t].pc \in {"reading", "storing"}
             PROVE  \E l \in DOMAIN log'[t] :
                      /\ IsIntent(log'[t], l, worker'[t].req.key)
                      /\ \A m \in DOMAIN stored'[t] :
                           \E i \in DOMAIN log'[t] : i < l /\ IsIntent(log'[t], i, stored'[t][m])
  BY DEF TurnLast, IsIntent
<1>1. stored'[t] = stored[t]
  BY EveryStoredStep DEF StoredStep
<1>2. CASE /\ worker[t].pc \in {"reading", "storing"}
           /\ worker'[t].req = worker[t].req
  <2>1. PICK l \in DOMAIN log[t] :
          /\ IsIntent(log[t], l, worker[t].req.key)
          /\ \A m \in DOMAIN stored[t] :
               \E i \in DOMAIN log[t] : i < l /\ IsIntent(log[t], i, stored[t][m])
    BY <1>2 DEF Reviewed, TurnLast
  <2> QED
    BY <1>1, <1>2, <2>1, IntentStays
<1>3. CASE Records(t)
  <2>1. PICK r \in Revision : /\ log'[t] = Append(log[t], r) /\ r.st = "apply_pending"
                              /\ r.req = worker[t].req
    BY <1>3 DEF Records
  <2>2. log[t] \in Seq(Revision) /\ worker'[t].req = worker[t].req
    BY <1>3 DEF TypeOK, Records
  <2> DEFINE l == Len(log[t]) + 1
  <2>3. /\ l \in DOMAIN log'[t] /\ log'[t][l] = r
        /\ \A i \in DOMAIN log[t] : i < l
    BY <2>1, <2>2, AppendIndexes
  <2> HIDE DEF l
  <2>4. IsIntent(log'[t], l, worker'[t].req.key)
    BY <2>1, <2>2, <2>3 DEF IsIntent
  <2>5. ASSUME NEW m \in DOMAIN stored'[t]
        PROVE  \E i \in DOMAIN log'[t] : i < l /\ IsIntent(log'[t], i, stored'[t][m])
    <3>1. PICK i \in DOMAIN log[t] : IsIntent(log[t], i, stored[t][m])
      BY <1>1 DEF Reviewed, StoredIntended
    <3> QED
      BY <1>1, <2>3, <3>1, IntentStays
  <2> QED
    BY <2>3, <2>4, <2>5
<1>4. CASE worker'[t] = worker[t] \/ ReadsGraph(t)
  BY <1>2, <1>4 DEF ReadsGraph
<1>5. CASE Intends(t) \/ Settles(t)
  BY <1>5 DEF Intends, Settles
<1> QED
  BY <1>3, <1>4, <1>5, EveryStep DEF WorkerStep

LEMMA ReviewedNext ==
  ASSUME TypeOK, NoTell, Reviewed, [Next]_vars
  PROVE  Reviewed'
  BY AwaitedNext, ApartNext, StoredNext, TurnLastNext
  DEF Reviewed, Deciding, Awaited, Apart, IsIntent

LEMMA ReviewedInit == Init => Reviewed
  BY IdleTyped
  DEF Init, Reviewed, Deciding, Awaited, Apart, StoredIntended, TurnLast, StoredInOrder

(* Whatever crashes, is retried, recovered or overwritten: a session that  *)
(* stores again was reviewed again after the first of the two intents.     *)
THEOREM StoresAlwaysReviewed == Spec => []StoresAgainReviewed
<1>1. Init => TypeOK /\ NoTell /\ Reviewed
  BY TypeInit, NoTellInit, ReviewedInit
<1>2. TypeOK /\ NoTell /\ Reviewed /\ [Next]_vars => (TypeOK /\ NoTell /\ Reviewed)'
  BY TypeNext, NoTellNext, ReviewedNext
<1>3. Reviewed => StoresAgainReviewed
  BY DEF Reviewed, StoredInOrder, Apart, IsIntent, StoresAgainReviewed
<1> QED
  BY <1>1, <1>2, <1>3, PTL DEF Spec

-----------------------------------------------------------------------------
(* A session alone with its brain.                                         *)

(* The session has not changed the brain, nor has anyone since it began to *)
(* apply: its copy and its receipt are of the graph as it is.              *)
NotYet(s) ==
  LET w == worker[s] IN
  /\ stored[s] = <<>>
  /\ \A f \in Facts, k \in Keys : <<f, <<s, k>>>> \notin graph
  /\ w.pc \in {"intending", "storing"} => w.held = graph
  /\ w.pc \in {"reading", "storing"} =>
       /\ Current(s).st = "apply_pending"
       /\ Current(s).base = graph /\ Current(s).sel = w.req.sel

(* What a worker may be at when nothing is left for its executor to do.    *)
Behind == {"idle", "probing", "settling", "registering"}

(* It has, the receipt in its last revision says so, and no state it can   *)
(* be in takes another apply.                                              *)
Recognised(s) ==
  /\ Len(stored[s]) = 1
  /\ log[s] # <<>>
  /\ Readable(s) =>
       /\ Current(s).st \in {"apply_pending", "recovery_required", "applied"}
       /\ Witnessed(s)
  /\ worker[s].pc \in Behind
  /\ worker[s].pc = "settling" => worker[s].ok

AloneOnce == \A s \in Sessions : Alone(s) => NotYet(s) \/ Recognised(s)

(* A revision becomes the last one.                                        *)
LEMMA CurrentAppended ==
  ASSUME TypeOK, NEW s \in Sessions, NEW r, AppendRevision(s, r)
  PROVE  /\ log'[s] # <<>> /\ Current(s)' = r
         /\ Readable(s)' <=> r.st # "torn"
         /\ \A t \in Sessions \ {s} : log'[t] = log[t]
<1> DEFINE R == Revision \cup {r}
           longer == Append(log[s], r)
<1>1. log[s] \in Seq(R) /\ r \in R
  BY DEF TypeOK
<1>2. longer # <<>> /\ Len(longer) = Len(log[s]) + 1 /\ longer[Len(longer)] = r
  <2> HIDE DEF R
  <2> QED BY <1>1
<1>3. log'[s] = longer /\ \A t \in Sessions \ {s} : log'[t] = log[t]
  BY DEF TypeOK, AppendRevision
<1> HIDE DEF longer
<1> QED
  BY <1>2, <1>3 DEF Readable, Current

LEMMA RevisesEffect ==
  ASSUME TypeOK, NEW s \in Sessions, NEW st, NEW req, NEW offer, NEW reg,
         Revises(s, st, req, offer, reg)
  PROVE  /\ log'[s] # <<>>
         /\ Current(s)'.st = st /\ Current(s)'.sel = Current(s).sel
         /\ Current(s)'.base = Current(s).base
<1> DEFINE c == Current(s)
           r == Rev(st, req, offer, c.sel, c.base, reg)
<1>1. AppendRevision(s, r)
  BY DEF Revises
<1> HIDE DEF c
<1>2. r.st = st /\ r.sel = c.sel /\ r.base = c.base
  BY DEF Rev
<1> HIDE DEF r
<1> QED
  BY <1>1, <1>2, CurrentAppended DEF c

LEMMA MovesTo ==
  ASSUME TypeOK, NEW s \in Sessions, NEW pc, NEW req, NEW held, NEW ok, NEW at,
         Moves(s, Doing(pc, req, held, ok, at))
  PROVE  /\ worker'[s].pc = pc /\ worker'[s].req = req /\ worker'[s].held = held
         /\ worker'[s].ok = ok
<1> DEFINE w == Doing(pc, req, held, ok, at)
<1>1. w.pc = pc /\ w.req = req /\ w.held = held /\ w.ok = ok
  BY DEF Doing
<1> HIDE DEF w
<1>2. worker'[s] = w
  BY DEF Moves, TypeOK, w
<1> QED
  BY <1>1, <1>2

LEMMA MovesIdle ==
  ASSUME TypeOK, NEW s \in Sessions, Moves(s, Idle)
  PROVE  worker'[s].pc = "idle"
  BY IdleTyped DEF Moves, TypeOK

(* Where nothing happens to the graph, a session that is not yet stays so  *)
(* unless it comes to its executor.                                        *)
LEMMA NotYetStays ==
  ASSUME NEW s \in Sessions, NotYet(s), graph' = graph, stored'[s] = stored[s],
         worker'[s].pc \in Behind
  PROVE  NotYet(s)'
  BY DEF NotYet, Behind

LEMMA WitnessStays ==
  ASSUME NEW s \in Sessions, graph' = graph, obscure' = obscure,
         Current(s)'.sel = Current(s).sel, Current(s)'.base = Current(s).base
  PROVE  Witnessed(s) => Witnessed(s)'
  BY DEF Witnessed

LEMMA RecognisedStays ==
  ASSUME NEW s \in Sessions, Recognised(s), graph' = graph, obscure' = obscure,
         stored'[s] = stored[s], log'[s] = log[s], worker'[s].pc \in Behind,
         worker'[s].pc = "settling" => worker'[s].ok
  PROVE  Recognised(s)'
<1>1. Readable(s)' => Readable(s) /\ Current(s)' = Current(s)
  BY CurrentStays
<1>2. Readable(s)' => Witnessed(s)'
  BY <1>1, WitnessStays DEF Recognised
<1> QED
  BY <1>1, <1>2 DEF Recognised

(* A readable session goes on to another revision about the same receipt.  *)
LEMMA RecognisedRevises ==
  ASSUME TypeOK, NEW s \in Sessions, Recognised(s), graph' = graph, obscure' = obscure,
         stored'[s] = stored[s], Readable(s),
         NEW st \in {"recovery_required", "applied"}, NEW req, NEW offer, NEW reg,
         Revises(s, st, req, offer, reg), worker'[s].pc \in {"idle", "registering"}
  PROVE  Recognised(s)'
<1>1. /\ log'[s] # <<>>
      /\ Current(s)'.st = st /\ Current(s)'.sel = Current(s).sel
      /\ Current(s)'.base = Current(s).base
  BY RevisesEffect
<1>2. Witnessed(s)'
  BY <1>1, WitnessStays DEF Recognised
<1> QED
  BY <1>1, <1>2 DEF Recognised, Behind

-----------------------------------------------------------------------------
(* The steps of the session itself.                                        *)

(* From the store on, the receipt finds the mutation.                      *)
LEMMA StoredWitnessed ==
  ASSUME TypeOK, NEW s \in Sessions, NotYet(s), NEW New \in SUBSET Facts, New # {},
         ExecutorStores(s, New), Alone(s)'
  PROVE  Recognised(s)'
<1> DEFINE w == worker[s]
           k == w.req.key
           c == Current(s)
<1>1. /\ w.pc = "storing" /\ New \subseteq w.req.sel
      /\ \A f \in w.req.sel \ New : Known(f, w.held)
      /\ graph' = w.held \cup (New \X {<<s, k>>})
      /\ stored' = [stored EXCEPT ![s] = Append(@, k)]
      /\ Goes(s, "probing") /\ log' = log
  BY DEF ExecutorStores
<1>2. k \in Keys /\ Readable(s)
  BY <1>1, Busy
<1>3. w.held = graph /\ c.st = "apply_pending" /\ c.base = graph /\ c.sel = w.req.sel
  BY <1>1 DEF NotYet
<1>4. Current(s)' = c /\ log'[s] # <<>>
  BY <1>1, <1>2, CurrentStays DEF Readable
<1>5. worker'[s].pc = "probing"
  BY <1>1, MovesTo DEF Goes
<1>6. Len(stored'[s]) = 1
  <2>1. stored'[s] = Append(<<>>, k)
    BY <1>1 DEF NotYet, TypeOK
  <2> QED
    BY <2>1
<1>7. graph' = graph \cup (New \X {<<s, k>>})
  BY <1>1, <1>3
<1>8. graph' # graph
  <2> PICK f \in New : TRUE
    OBVIOUS
  <2>1. <<f, <<s, k>>>> \in graph' /\ <<f, <<s, k>>>> \notin graph
    BY <1>2, <1>7 DEF NotYet
  <2> QED
    BY <2>1
<1>9. ASSUME NEW f \in w.req.sel
      PROVE  \E p \in graph' : p[1] = f
  <2>1. CASE f \in New
    <3>1. <<f, <<s, k>>>> \in graph'
      BY <1>7, <2>1
    <3>2. <<f, <<s, k>>>>[1] = f
      OBVIOUS
    <3> QED
      BY <3>1, <3>2
  <2>2. CASE f \notin New
    BY <1>1, <1>3, <1>7, <2>2 DEF Known
  <2> QED
    BY <2>1, <2>2
<1>10. ASSUME NEW p \in graph' \ graph
       PROVE  p[1] \in w.req.sel /\ p = <<p[1], <<s, k>>>> /\ p \notin obscure'
  <2>1. PICK f \in New : p = <<f, <<s, k>>>>
    BY <1>7, <1>10
  <2>2. <<f, <<s, k>>>> \notin obscure'
    BY <1>2 DEF Alone
  <2> QED
    BY <1>1, <2>1, <2>2
<1> HIDE DEF w, k, c
<1>11. Witnessed(s)'
  <2> DEFINE added == graph' \ graph
             root == {}
  <2>1. added \cap obscure' = {}
    BY <1>10
  <2>2. \A p, q \in added \ root : p[1] \in w.req.sel /\ (p[1] = q[1] => p = q)
    BY <1>10
  <2>3. root \in {{}} \cup {{p} : p \in added}
    OBVIOUS
  <2>4. graph \subseteq graph'
    BY <1>7
  <2> HIDE DEF added, root
  <2>5. \E r \in {{}} \cup {{p} : p \in added} :
          \A p, q \in added \ r : p[1] \in w.req.sel /\ (p[1] = q[1] => p = q)
    BY <2>2, <2>3
  <2>6. \A f \in w.req.sel : Known(f, graph')
    BY <1>9 DEF Known
  <2> QED
    BY <1>3, <1>4, <1>8, <2>1, <2>4, <2>5, <2>6 DEF Witnessed, added
<1> QED
  BY <1>3, <1>4, <1>5, <1>6, <1>11 DEF Recognised, Behind

LEMMA NotYetRequests ==
  ASSUME TypeOK, NEW s \in Sessions, NotYet(s), Requests(s)
  PROVE  NotYet(s)'
<1>0. graph' = graph /\ stored'[s] = stored[s]
  BY RequestsTyped
<1>1. CASE Start(s)
  <2>1. worker'[s].pc = "idle"
    BY <1>1, Busy DEF Start, Readable
  <2> QED
    BY <1>0, <2>1, NotYetStays DEF Behind
<1>2. CASE Tell(s) \/ Cancel(s) \/ Resume(s) \/ \E S \in Offers : Preview(s, S)
  <2>1. worker'[s].pc = "idle"
    BY <1>2, SaysEffect
  <2> QED
    BY <1>0, <2>1, NotYetStays DEF Behind
<1>3. ASSUME NEW k \in Keys, BeginRecover(s, k)
      PROVE  NotYet(s)'
  <2>1. worker'[s].pc = "probing"
    BY <1>3, MovesTo DEF BeginRecover
  <2> QED
    BY <1>0, <2>1, NotYetStays DEF Behind
<1>4. ASSUME NEW k \in Keys, NEW S \in Offers, BeginApply(s, k, S)
      PROVE  NotYet(s)'
  <2>1. worker'[s].pc = "intending" /\ worker'[s].held = graph
    BY <1>4, MovesTo DEF BeginApply
  <2> QED
    BY <1>0, <2>1 DEF NotYet
<1> QED
  BY <1>1, <1>2, <1>3, <1>4 DEF Requests

LEMMA NotYetWorking ==
  ASSUME TypeOK, NEW s \in Sessions, NotYet(s), Working(s), Alone(s)'
  PROVE  NotYet(s)' \/ Recognised(s)'
<1>1. CASE RecordIntent(s)
  <2> DEFINE w == worker[s]
             r == Rev("apply_pending", w.req, Current(s).offer, w.req.sel, w.held,
                      Current(s).reg)
  <2>1. /\ w.pc = "intending" /\ AppendRevision(s, r) /\ Goes(s, "reading")
        /\ graph' = graph /\ stored' = stored
    BY <1>1 DEF RecordIntent
  <2>2. r.st = "apply_pending" /\ r.sel = w.req.sel /\ r.base = w.held
    BY DEF Rev
  <2>3. worker'[s].pc = "reading" /\ worker'[s].req = w.req
    BY <2>1, MovesTo DEF Goes
  <2> HIDE DEF w, r
  <2>4. Current(s)' = r
    BY <2>1, CurrentAppended
  <2> QED
    BY <2>1, <2>2, <2>3, <2>4 DEF NotYet, w
<1>2. CASE ExecutorReads(s)
  <2>1. /\ worker[s].pc = "reading" /\ graph' = graph /\ stored' = stored /\ log' = log
    BY <1>2 DEF ExecutorReads
  <2>2. worker'[s].pc = "storing" /\ worker'[s].req = worker[s].req /\ worker'[s].held = graph
    BY <1>2, MovesTo DEF ExecutorReads
  <2> QED
    BY <2>1, <2>2, CurrentStays DEF NotYet
<1>3. ASSUME NEW New \in SUBSET Facts, ExecutorStores(s, New)
      PROVE  NotYet(s)' \/ Recognised(s)'
  <2>1. CASE New = {}
    <3>1. worker[s].held = graph
      BY <1>3 DEF ExecutorStores, NotYet
    <3>2. graph' = graph /\ stored'[s] = stored[s]
      BY <1>3, <2>1, <3>1 DEF ExecutorStores, TypeOK
    <3>3. worker'[s].pc = "probing"
      BY <1>3, MovesTo DEF ExecutorStores, Goes
    <3> QED
      BY <3>2, <3>3, NotYetStays DEF Behind
  <2>2. CASE New # {}
    BY <1>3, <2>2, StoredWitnessed
  <2> QED
    BY <2>1, <2>2
<1>4. CASE \/ ExecutorRaises(s) \/ Probe(s) \/ SettleApplied(s) \/ SettleUnverified(s)
           \/ RegistryCommits(s) \/ RegistryFails(s)
  <2>1. graph' = graph /\ stored' = stored
    BY <1>4 DEF ExecutorRaises, Probe, SettleApplied, SettleUnverified, RegistryCommits,
                RegistryFails
  <2>2. worker'[s].pc \in Behind
    BY <1>4, MovesTo, MovesIdle
    DEF ExecutorRaises, Goes, Probe, SettleApplied, SettleUnverified, RegistryCommits,
        RegistryFails, Behind
  <2> QED
    BY <2>1, <2>2, NotYetStays
<1> QED
  BY <1>1, <1>2, <1>3, <1>4 DEF Working

LEMMA RecognisedRequests ==
  ASSUME TypeOK, NEW s \in Sessions, Recognised(s), Requests(s)
  PROVE  Recognised(s)'
<1>1. ASSUME NEW k \in Keys, BeginRecover(s, k)
      PROVE  Recognised(s)'
  <2>1. worker'[s].pc = "probing"
    BY <1>1, MovesTo DEF BeginRecover
  <2> QED
    BY <1>1, <2>1, RecognisedStays DEF BeginRecover, Behind
<1>2. ~Start(s)
  BY DEF Start, Recognised
<1>3. Current(s).st \notin Open \cup {"cancelled"} \/ ~Readable(s)
  BY DEF Recognised, Open
<1>4. ~Tell(s) /\ ~Cancel(s) /\ ~Resume(s) /\ \A S \in Offers : ~Preview(s, S)
  BY <1>3 DEF Tell, Cancel, Resume, Preview, Appends, Accepted
<1>5. \A k \in Keys, S \in Offers : ~BeginApply(s, k, S)
  BY <1>3 DEF BeginApply, Accepted, Open
<1> QED
  BY <1>1, <1>2, <1>4, <1>5 DEF Requests

LEMMA RecognisedWorking ==
  ASSUME TypeOK, NEW s \in Sessions, Recognised(s), Working(s)
  PROVE  Recognised(s)'
<1>1. CASE Probe(s)
  <2>1. Readable(s)
    BY <1>1, Busy DEF Probe
  <2>2. Witnessed(s)
    BY <2>1 DEF Recognised
  <2>3. worker'[s].pc = "settling" /\ worker'[s].ok = Witnessed(s)
    BY <1>1, MovesTo DEF Probe
  <2> QED
    BY <1>1, <2>2, <2>3, RecognisedStays DEF Probe, Behind
<1>2. CASE SettleApplied(s)
  <2>1. Readable(s)
    BY <1>2, Busy DEF SettleApplied
  <2>2. worker'[s].pc = "registering"
    BY <1>2, MovesTo DEF SettleApplied
  <2>3. Revises(s, "applied", worker[s].req, Current(s).offer, FALSE)
        /\ graph' = graph /\ obscure' = obscure /\ stored' = stored
    BY <1>2 DEF SettleApplied
  <2> QED
    BY <2>1, <2>2, <2>3, RecognisedRevises
<1>3. CASE RegistryCommits(s)
  BY <1>3, MovesIdle, RecognisedStays DEF RegistryCommits, Behind
<1>4. CASE RegistryFails(s)
  <2>1. /\ worker'[s].pc = "idle" /\ graph' = graph /\ obscure' = obscure
        /\ stored' = stored
    BY <1>4, MovesIdle DEF RegistryFails
  <2>2. CASE worker[s].at = Len(log[s])
    <3>1. Readable(s)
      BY <1>4, Busy DEF RegistryFails
    <3>2. Revises(s, "recovery_required", worker[s].req, Current(s).offer, TRUE)
      BY <1>4, <2>2 DEF RegistryFails
    <3> QED
      BY <2>1, <3>1, <3>2, RecognisedRevises
  <2>3. CASE worker[s].at # Len(log[s])
    BY <1>4, <2>1, <2>3, RecognisedStays DEF RegistryFails, Behind
  <2> QED
    BY <2>2, <2>3
<1>5. /\ ~RecordIntent(s) /\ ~ExecutorReads(s) /\ ~ExecutorRaises(s)
      /\ \A New \in SUBSET Facts : ~ExecutorStores(s, New)
  BY DEF Recognised, Behind, RecordIntent, ExecutorReads, ExecutorRaises, ExecutorStores
<1>6. ~SettleUnverified(s)
  BY DEF Recognised, SettleUnverified
<1> QED
  BY <1>1, <1>2, <1>3, <1>4, <1>5, <1>6 DEF Working

LEMMA AloneRetry ==
  ASSUME TypeOK, NEW s \in Sessions, NotYet(s) \/ Recognised(s),
         NEW n \in DOMAIN log[s], Retry(s, n)
  PROVE  NotYet(s)' \/ Recognised(s)'
<1>1. graph' = graph /\ obscure' = obscure /\ stored' = stored /\ Readable(s)
  BY DEF Retry
<1>2. worker'[s].pc = "registering"
  BY MovesTo DEF Retry
<1>3. CASE NotYet(s)
  BY <1>1, <1>2, <1>3, NotYetStays DEF Behind
<1>4. CASE Recognised(s) /\ log' = log
  BY <1>1, <1>2, <1>4, RecognisedStays DEF Behind
<1>5. CASE Recognised(s) /\ Revises(s, "applied", log[s][n].req, log[s][n].offer, FALSE)
  BY <1>1, <1>2, <1>5, RecognisedRevises
<1> QED
  BY <1>3, <1>4, <1>5 DEF Retry

LEMMA AloneTears ==
  ASSUME TypeOK, NEW s \in Sessions, NotYet(s) \/ Recognised(s), CrashTears(s)
  PROVE  NotYet(s)' \/ Recognised(s)'
<1>1. graph' = graph /\ stored' = stored /\ worker'[s].pc = "idle"
  BY IdleTyped DEF CrashTears
<1>2. log'[s] # <<>> /\ ~Readable(s)'
  BY CrashTearsEffect, CurrentAppended
<1>3. CASE NotYet(s)
  BY <1>1, <1>3, NotYetStays DEF Behind
<1>4. CASE Recognised(s)
  BY <1>1, <1>2, <1>4 DEF Recognised, Behind
<1> QED
  BY <1>3, <1>4

-----------------------------------------------------------------------------
(* The steps of everyone else.                                             *)

(* Nothing happens to the session but that its process may stop.           *)
LEMMA AloneRests ==
  ASSUME NEW s \in Sessions, NotYet(s) \/ Recognised(s), graph' = graph,
         obscure' = obscure, stored'[s] = stored[s], log'[s] = log[s],
         worker'[s] = worker[s] \/ worker'[s] = Idle
  PROVE  NotYet(s)' \/ Recognised(s)'
<1>1. CASE worker'[s] = Idle /\ NotYet(s)
  BY <1>1, IdleTyped, NotYetStays DEF Behind
<1>2. CASE worker'[s] = Idle /\ Recognised(s)
  BY <1>2, IdleTyped, RecognisedStays DEF Behind
<1>3. CASE worker'[s] = worker[s] /\ NotYet(s)
  BY <1>3, CurrentStays DEF NotYet
<1>4. CASE worker'[s] = worker[s] /\ Recognised(s)
  BY <1>4, RecognisedStays DEF Recognised
<1> QED
  BY <1>1, <1>2, <1>3, <1>4

(* Without an intent no executor runs.                                     *)
LEMMA OthersRest ==
  ASSUME TypeOK, Accounted, NEW s \in Sessions, Alone(s), NEW t \in Sessions, t # s,
         \/ Requests(t) \/ Working(t) \/ CrashTears(t)
         \/ \E n \in DOMAIN log[t] : Retry(t, n)
  PROVE  /\ graph' = graph /\ obscure' = obscure
         /\ stored'[s] = stored[s] /\ log'[s] = log[s]
         /\ worker'[s] = worker[s] \/ worker'[s] = Idle
<1>0. worker[t].pc \notin {"reading", "storing"}
  BY DEF Alone, Accounted, Writing, Asked
<1>1. graph' = graph /\ obscure' = obscure /\ stored'[s] = stored[s]
  <2>1. CASE Requests(t)
    BY <2>1, RequestsTyped
  <2>2. CASE Working(t)
    BY <1>0, <2>2
    DEF Working, RecordIntent, ExecutorReads, ExecutorRaises, ExecutorStores, Probe,
        SettleApplied, SettleUnverified, RegistryCommits, RegistryFails
  <2>3. CASE CrashTears(t) \/ \E n \in DOMAIN log[t] : Retry(t, n)
    BY <2>3 DEF CrashTears, Retry
  <2> QED
    BY <2>1, <2>2, <2>3
<1>2. ASSUME \E r : AppendRevision(t, r)
      PROVE  log'[s] = log[s]
  BY <1>2, CurrentAppended
<1>3. ASSUME \E w : Moves(t, w)
      PROVE  worker'[s] = worker[s]
  BY <1>3 DEF Moves, TypeOK
<1>4. CASE Requests(t)
  BY <1>2, <1>3, <1>4
  DEF Requests, Start, Tell, Cancel, Resume, Preview, Appends, Revises, BeginApply,
      BeginRecover
<1>5. CASE Working(t)
  <2>1. log'[s] = log[s]
    BY <1>2, <1>5
    DEF Working, RecordIntent, ExecutorReads, ExecutorRaises, ExecutorStores, Probe,
        SettleApplied, SettleUnverified, RegistryCommits, RegistryFails, Revises
  <2>2. worker'[s] = worker[s]
    BY <1>3, <1>5
    DEF Working, RecordIntent, ExecutorReads, ExecutorRaises, ExecutorStores, Probe, Goes,
        SettleApplied, SettleUnverified, RegistryCommits, RegistryFails
  <2> QED
    BY <1>1, <2>1, <2>2
<1>6. CASE CrashTears(t)
  BY <1>2, <1>6 DEF CrashTears
<1>7. CASE \E n \in DOMAIN log[t] : Retry(t, n)
  BY <1>2, <1>3, <1>7 DEF Retry, Revises
<1> QED
  BY <1>1, <1>4, <1>5, <1>6, <1>7

(* What the probe does not know of a session it will not know.             *)
LEMMA ObscureStays ==
  ASSUME TypeOK, [Next]_vars, NEW f \in Facts, NEW s \in Sessions, NEW k \in Keys,
         <<f, <<s, k>>>> \in obscure
  PROVE  <<f, <<s, k>>>> \in obscure'
<1>1. ASSUME NEW t \in Sessions, Working(t)
      PROVE  obscure \subseteq obscure'
  BY <1>1
  DEF Working, RecordIntent, ExecutorReads, ExecutorRaises, ExecutorStores, Probe,
      SettleApplied, SettleUnverified, RegistryCommits, RegistryFails
<1>2. ASSUME NEW t \in Sessions, Requests(t)
      PROVE  obscure' = obscure
  BY <1>2, RequestsTyped
<1>3. ASSUME NEW g \in Facts, ForeignEdit(g)
      PROVE  obscure \ {<<g, Foreign>>} \subseteq obscure'
  BY <1>3 DEF ForeignEdit
<1>4. CASE \/ Crash \/ UNCHANGED vars
           \/ \E t \in Sessions : CrashTears(t) \/ \E n \in DOMAIN log[t] : Retry(t, n)
  BY <1>4 DEF Crash, CrashTears, Retry, vars
<1>5. \A g \in Facts : <<f, <<s, k>>>> # <<g, Foreign>>
  BY BootstrapAssumption
<1> QED
  BY <1>1, <1>2, <1>3, <1>4, <1>5 DEF Next

(* Who was alone until now was alone before.                               *)
LEMMA AloneBefore ==
  ASSUME TypeOK, NoTell, [Next]_vars, NEW s \in Sessions, Alone(s)'
  PROVE  Alone(s)
<1>1. edits = 0
  <2>1. edits' = edits \/ edits' = edits + 1
    <3>1. ASSUME NEW t \in Sessions, Requests(t)
          PROVE  edits' = edits
      BY <3>1, RequestsTyped
    <3>2. ASSUME NEW t \in Sessions, Working(t)
          PROVE  edits' = edits
      BY <3>2
      DEF Working, RecordIntent, ExecutorReads, ExecutorRaises, ExecutorStores, Probe,
          SettleApplied, SettleUnverified, RegistryCommits, RegistryFails
    <3>3. CASE \/ Crash \/ \E f \in Facts : ForeignEdit(f)
               \/ \E t \in Sessions : CrashTears(t) \/ \E n \in DOMAIN log[t] : Retry(t, n)
      BY <3>3 DEF Crash, CrashTears, Retry, ForeignEdit
    <3>4. CASE UNCHANGED vars
      BY <3>4 DEF vars
    <3> QED
      BY <3>1, <3>2, <3>3, <3>4 DEF Next
  <2>2. edits' = 0 /\ edits \in Nat
    BY DEF Alone, TypeOK
  <2> QED
    BY <2>1, <2>2
<1>2. \A t \in Sessions \ {s} : \A n \in DOMAIN log[t] :
        n \in DOMAIN log'[t] /\ log'[t][n] = log[t][n]
  BY EveryStep, LogGrows
<1>3. ASSUME NEW f \in Facts, NEW k \in Keys, <<f, <<s, k>>>> \in obscure
      PROVE  <<f, <<s, k>>>> \in obscure'
  BY <1>3, ObscureStays
<1> QED
  BY <1>1, <1>2, <1>3 DEF Alone

LEMMA AloneNext ==
  ASSUME TypeOK, NoTell, Accounted, AloneOnce, [Next]_vars
  PROVE  AloneOnce'
<1> SUFFICES ASSUME NEW s \in Sessions, Alone(s)'
             PROVE  NotYet(s)' \/ Recognised(s)'
  BY DEF AloneOnce
<1>0. Alone(s) /\ (NotYet(s) \/ Recognised(s))
  BY AloneBefore DEF AloneOnce
<1>1. CASE UNCHANGED vars
  BY <1>0, <1>1, AloneRests DEF vars
<1>2. CASE Requests(s)
  BY <1>0, <1>2, NotYetRequests, RecognisedRequests
<1>3. CASE Working(s)
  BY <1>0, <1>3, NotYetWorking, RecognisedWorking
<1>4. CASE CrashTears(s)
  BY <1>0, <1>4, AloneTears
<1>5. CASE \E n \in DOMAIN log[s] : Retry(s, n)
  BY <1>0, <1>5, AloneRetry
<1>6. ASSUME NEW t \in Sessions, t # s,
             \/ Requests(t) \/ Working(t) \/ CrashTears(t)
             \/ \E n \in DOMAIN log[t] : Retry(t, n)
      PROVE  NotYet(s)' \/ Recognised(s)'
  BY <1>0, <1>6, OthersRest, AloneRests
<1>7. ASSUME NEW f \in Facts, ForeignEdit(f)
      PROVE  FALSE
  <2>1. edits' = edits + 1 /\ edits \in Nat
    BY <1>7 DEF ForeignEdit, TypeOK
  <2>2. edits' = 0
    BY DEF Alone
  <2> QED
    BY <2>1, <2>2
<1>8. CASE Crash
  BY <1>0, <1>8, AloneRests DEF Crash
<1> QED
  BY <1>1, <1>2, <1>3, <1>4, <1>5, <1>6, <1>7, <1>8 DEF Next

LEMMA AloneInit == Init => AloneOnce
<1> SUFFICES ASSUME Init, NEW s \in Sessions
             PROVE  NotYet(s)
  BY DEF AloneOnce
<1>1. worker[s].pc = "idle" /\ stored[s] = <<>>
  BY IdleTyped DEF Init
<1>2. \A f \in Facts, k \in Keys : <<f, <<s, k>>>> \notin graph
  BY BootstrapAssumption DEF Init
<1> QED
  BY <1>1, <1>2 DEF NotYet

(* Among any number of sessions, with any keys and any crashes, one that no*)
(* other session or writer got in the way of changes the brain at most     *)
(* once: while the baseline of the receipt is the graph, a store is found  *)
(* by every later probe, and no state in which it is found takes an apply. *)
THEOREM AloneStoresAtMostOnce == Spec => []AloneStoresOnce
<1>1. Init => TypeOK /\ NoTell /\ Accounted /\ AloneOnce
  BY TypeInit, NoTellInit, AccountedInit, AloneInit
<1>2. TypeOK /\ NoTell /\ Accounted /\ AloneOnce /\ [Next]_vars
        => (TypeOK /\ NoTell /\ Accounted /\ AloneOnce)'
  BY TypeNext, NoTellNext, WritingNext, IntentNext, AloneNext DEF Accounted
<1>3. AloneOnce => AloneStoresOnce
  <2> SUFFICES ASSUME AloneOnce, NEW s \in Sessions, Alone(s)
               PROVE  Len(stored[s]) <= 1
    BY DEF AloneStoresOnce
  <2>1. CASE stored[s] = <<>>
    BY <2>1
  <2>2. CASE Len(stored[s]) = 1
    BY <2>2
  <2> QED
    BY <2>1, <2>2 DEF AloneOnce, NotYet, Recognised
<1> QED
  BY <1>1, <1>2, <1>3, PTL DEF Spec

=============================================================================
