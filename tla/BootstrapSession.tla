--------------------------- MODULE BootstrapSession ---------------------------
(***************************************************************************)
(* Brain Bootstrap V1: interview sessions whose reviewed candidates are    *)
(* applied to the brain. A session is a directory of revision files that   *)
(* only grows (brain_bootstrap_v1/store.py); every request appends to it   *)
(* under the lock of the session, held in the process                      *)
(* (brain_bootstrap_v1/service.py). Sessions of one brain, and its other   *)
(* writers, share the graph and nothing else.                              *)
(*                                                                         *)
(* Requests that the code refuses change nothing and are left out: a stale *)
(* expected revision, a reused key, a state that does not allow them.      *)
(***************************************************************************)
EXTENDS Naturals, Sequences, FiniteSets

CONSTANTS
  Sessions,      \* session ids of one brain
  Facts,         \* candidates, named by their content
  Keys,          \* idempotency keys
  None,          \* no session, no key
  Foreign,       \* every other writer of the brain
  MaxRevisions,  \* bound on the revisions of a session
  MaxEdits       \* bound on edits by other writers

ASSUME BootstrapAssumption ==
  /\ None \notin Sessions /\ None \notin Keys
  /\ Foreign \notin Sessions \X Keys
  /\ MaxRevisions \in Nat /\ MaxEdits \in Nat

VARIABLES
  graph,    \* the brain: contributions <<fact, writer>>
  log,      \* log[s]: the revision files of session s
  latest,   \* the session whose file was written last
  worker,   \* worker[s]: the request that holds the lock of session s
  edits,    \* edits by other writers so far (bound only)
  obscure,  \* contributions that the probe of a receipt does not recognise
  stored,   \* history: the keys whose apply changed the brain, per session
  done      \* history: sessions that were answered as applied

vars == <<graph, log, latest, worker, edits, obscure, stored, done>>

-----------------------------------------------------------------------------
(* State.                                                                  *)

(* What one apply of one session writes, and what everyone else does.      *)
Graphs == SUBSET (Facts \X ((Sessions \X Keys) \cup {Foreign}))

(* "tell" is both answer and add_source: more material for the preview.    *)
Operations == {"start", "tell", "preview", "apply", "cancel", "resume", "recover"}

LifecycleState == {"interview_active", "preview_ready", "review_required",
                   "apply_pending", "recovery_required", "applied", "cancelled"}

(* A request and its digest are one: the expected revision and the selected*)
(* ids are part of both. The keys of an operation are its own, and those of*)
(* an apply and a recovery matter: any other request that comes again under*)
(* its key is answered from the log, which is no action, and has none here.*)
Request == [op : Operations, key : Keys \cup {None}, rev : Nat, sel : SUBSET Facts]

(* offer: the candidates of the preview, {} when there is none. sel, base: *)
(* the mutation receipt of the apply intent. reg: its recovery is          *)
(* registry_commit_failed. A file that a crash cut short is "torn".        *)
Revision ==
  {r \in [st : LifecycleState \cup {"torn"}, req : Request, offer : SUBSET Facts,
          sel : SUBSET Facts, base : Graphs, reg : BOOLEAN] :
     r.st \in {"apply_pending", "applied", "recovery_required"} => r.req.key \in Keys}

Rev(st, req, offer, sel, base, reg) ==
  [st |-> st, req |-> req, offer |-> offer, sel |-> sel, base |-> base, reg |-> reg]

WorkerPc == {"idle", "intending", "reading", "storing", "probing", "settling",
             "registering"}

(* held: the graph it read. ok: the probe found the mutation. at: the      *)
(* revision it commits to the registry.                                    *)
Req(op, key, rev, sel) == [op |-> op, key |-> key, rev |-> rev, sel |-> sel]

NoRequest == Req("start", None, 0, {})

Worker == [pc : WorkerPc, req : Request, held : Graphs,
           ok : BOOLEAN, at : Nat]

Doing(pc, req, held, ok, at) ==
  [pc |-> pc, req |-> req, held |-> held, ok |-> ok, at |-> at]

Idle == Doing("idle", NoRequest, {}, FALSE, 0)

Init ==
  /\ graph \in {{}, Facts \X {Foreign}}
  /\ log = [s \in Sessions |-> <<>>]
  /\ latest = None
  /\ worker = [s \in Sessions |-> Idle]
  /\ edits = 0
  /\ obscure = {}
  /\ stored = [s \in Sessions |-> <<>>]
  /\ done = {}

Current(s) == log[s][Len(log[s])]

(* load_history: the whole history is read, and one torn file refuses it.  *)
Readable(s) == log[s] # <<>> /\ Current(s).st # "torn"

Room(s, n) == Len(log[s]) + n <= MaxRevisions

(* BootstrapSessionStore.append.                                           *)
AppendRevision(s, r) ==
  /\ log' = [log EXCEPT ![s] = Append(@, r)]
  /\ latest' = s

Moves(s, w) == worker' = [worker EXCEPT ![s] = w]

(* The worker goes on with what it has.                                    *)
Goes(s, pc) ==
  LET w == worker[s] IN Moves(s, Doing(pc, w.req, w.held, w.ok, w.at))

(* The next revision keeps what the last one has of an intent.             *)
Revises(s, st, req, offer, reg) ==
  LET r == Current(s) IN AppendRevision(s, Rev(st, req, offer, r.sel, r.base, reg))

(* The lock is free, the key is new and the revision is the last one.      *)
Accepted(s, req) ==
  /\ worker[s].pc = "idle"
  /\ Readable(s)
  /\ req.rev = Len(log[s])
  /\ req.key # None =>
       \A n \in DOMAIN log[s] :
         ~(log[s][n].req.op = req.op /\ log[s][n].req.key = req.key)

Ask(s, op, k, S) == Req(op, k, Len(log[s]), S)

-----------------------------------------------------------------------------
(* Requests that append one revision.                                      *)

Start(s) ==
  /\ log[s] = <<>> /\ Room(s, 1)
  /\ AppendRevision(s, Rev("interview_active", Ask(s, "start", None, {}), {}, {}, {}, FALSE))
  /\ UNCHANGED <<graph, worker, edits, obscure, stored, done>>

Open == {"interview_active", "preview_ready", "review_required"}

Appends(s, req, from, st, offer) ==
  /\ Accepted(s, req) /\ Room(s, 1)
  /\ Current(s).st \in from
  /\ Revises(s, st, req, offer, Current(s).reg)
  /\ UNCHANGED <<graph, worker, edits, obscure, stored, done>>

(* Flaw: the preview of before the answer stays in the session.            *)
Tell_KeepsPreview(s) ==
  Appends(s, Ask(s, "tell", None, {}), Open, "interview_active", Current(s).offer)

(* An answer or a source: what was previewed is void.                      *)
Tell(s) ==
  Appends(s, Ask(s, "tell", None, {}), Open, "interview_active", {})

(* The builder found candidates S.                                         *)
Preview(s, S) ==
  Appends(s, Ask(s, "preview", None, {}), Open, "preview_ready", S)

Cancel(s) ==
  Appends(s, Ask(s, "cancel", None, {}), Open, "cancelled", Current(s).offer)

Resume(s) ==
  Appends(s, Ask(s, "resume", None, {}), {"cancelled"},
          IF Current(s).offer = {} THEN "interview_active" ELSE "preview_ready",
          Current(s).offer)

-----------------------------------------------------------------------------
(* Apply: intent, mutation, probe, revision, registry.                     *)

(* Flaw: an apply whose outcome is unknown can be confirmed again.         *)
BeginApply_Unrecovered(s, k, S) ==
  LET req == Ask(s, "apply", k, S) IN
  /\ Accepted(s, req) /\ Room(s, 3)
  /\ Current(s).st \in {"preview_ready", "review_required", "recovery_required"}
  /\ S # {} /\ S \subseteq Current(s).offer
  /\ Moves(s, Doing("intending", req, graph, FALSE, 0))
  /\ UNCHANGED <<graph, log, latest, edits, obscure, stored, done>>

(* The receipt is built on the graph as it is read here.                   *)
BeginApply(s, k, S) ==
  LET req == Ask(s, "apply", k, S) IN
  /\ Accepted(s, req) /\ Room(s, 3)
  /\ Current(s).st \in {"preview_ready", "review_required"}
  /\ S # {} /\ S \subseteq Current(s).offer
  /\ Moves(s, Doing("intending", req, graph, FALSE, 0))
  /\ UNCHANGED <<graph, log, latest, edits, obscure, stored, done>>

(* Flaw: the executor starts before its intent is on disk.                 *)
RecordIntent_Late(s) ==
  /\ worker[s].pc = "intending"
  /\ Goes(s, "reading")
  /\ UNCHANGED <<graph, log, latest, edits, obscure, stored, done>>

RecordIntent(s) ==
  /\ worker[s].pc = "intending"
  /\ LET w == worker[s] IN
       AppendRevision(s, Rev("apply_pending", w.req, Current(s).offer, w.req.sel, w.held,
                             Current(s).reg))
  /\ Goes(s, "reading")
  /\ UNCHANGED <<graph, edits, obscure, stored, done>>

(* The executor reads the graph again, edits its copy, and stores the copy *)
(* as the whole graph.                                                     *)
ExecutorReads(s) ==
  /\ worker[s].pc = "reading"
  /\ Moves(s, Doing("storing", worker[s].req, graph, FALSE, 0))
  /\ UNCHANGED <<graph, log, latest, edits, obscure, stored, done>>

Known(f, g) == \E p \in g : p[1] = f

(* New: the candidates that become nodes, even next to a node of the same  *)
(* content. One whose content is in the graph may be merged into the node  *)
(* that has it instead. Whether the probe will know a node that was added  *)
(* is settled here: it takes the first node with the content, and nodes    *)
(* are read in the order of ids drawn at random; it compares fields that a *)
(* node read back may not have; and the nodes of the copy, which are stored*)
(* with it, may be rounded and count as changed.                           *)
ExecutorStores(s, New) ==
  LET w == worker[s]
      Mine == New \X {<<s, w.req.key>>} IN
  /\ w.pc = "storing"
  /\ New \subseteq w.req.sel
  /\ \A f \in w.req.sel \ New : Known(f, w.held)
  /\ graph' = w.held \cup Mine
  /\ obscure' \in {obscure, obscure \cup Mine}
  /\ stored' = [stored EXCEPT ![s] = IF New = {} THEN @ ELSE Append(@, w.req.key)]
  /\ Goes(s, "probing")
  /\ UNCHANGED <<log, latest, edits, done>>

ExecutorRaises(s) ==
  /\ worker[s].pc \in {"reading", "storing"}
  /\ Goes(s, "probing")
  /\ UNCHANGED <<graph, log, latest, edits, obscure, stored, done>>

(* What the graph has to look like for the probe of the mutation receipt to*)
(* call it applied: the baseline is intact, every witness is found by its  *)
(* content, and what is new is a node for a witness each, and at most one  *)
(* more, as a selection has a root of its own. (What does not change the   *)
(* graph is not_applied, all the rest is ambiguous.)                       *)
Witnessed(s) ==
  LET r == Current(s)
      added == graph \ r.base IN
  /\ graph # r.base
  /\ r.base \subseteq graph
  /\ added \cap obscure = {}
  /\ \A f \in r.sel : Known(f, graph)
  /\ \E root \in {{}} \cup {{p} : p \in added} :
       \A p, q \in added \ root : p[1] \in r.sel /\ (p[1] = q[1] => p = q)

Probe(s) ==
  /\ worker[s].pc = "probing"
  /\ Moves(s, Doing("settling", worker[s].req, worker[s].held, Witnessed(s), 0))
  /\ UNCHANGED <<graph, log, latest, edits, obscure, stored, done>>

(* Flaw: recovery does not look at the graph.                              *)
BeginRecover_NoProbe(s, k) ==
  LET req == Ask(s, "recover", k, {}) IN
  /\ Accepted(s, req) /\ Room(s, 2)
  /\ Current(s).st \in {"apply_pending", "recovery_required"}
  /\ Moves(s, Doing("settling", req, {}, FALSE, 0))
  /\ UNCHANGED <<graph, log, latest, edits, obscure, stored, done>>

(* Flaw: recovery runs the apply that was interrupted again.               *)
BeginRecover_Reapplies(s, k) ==
  LET req == Ask(s, "recover", k, {}) IN
  /\ Accepted(s, req) /\ Room(s, 2)
  /\ Current(s).st \in {"apply_pending", "recovery_required"}
  /\ Moves(s, Doing("reading", Current(s).req, {}, FALSE, 0))
  /\ UNCHANGED <<graph, log, latest, edits, obscure, stored, done>>

BeginRecover(s, k) ==
  LET req == Ask(s, "recover", k, {}) IN
  /\ Accepted(s, req) /\ Room(s, 2)
  /\ Current(s).st \in {"apply_pending", "recovery_required"}
  /\ Moves(s, Doing("probing", req, {}, FALSE, 0))
  /\ UNCHANGED <<graph, log, latest, edits, obscure, stored, done>>

(* The mutation is verified: applied, next the registry.                   *)
SettleApplied(s) ==
  LET w == worker[s] IN
  /\ w.pc = "settling" /\ w.ok
  /\ Revises(s, "applied", w.req, Current(s).offer, FALSE)
  /\ Moves(s, Doing("registering", w.req, w.held, w.ok, Len(log[s]) + 1))
  /\ UNCHANGED <<graph, edits, obscure, stored, done>>

(* Flaw: a failed recovery gets a state of its own that nothing accepts.   *)
SettleUnverified_Unknown(s) ==
  LET w == worker[s] IN
  /\ w.pc = "settling" /\ ~w.ok
  /\ Revises(s, IF w.req.op = "apply" THEN "recovery_required" ELSE "failed",
             w.req, Current(s).offer, FALSE)
  /\ Moves(s, Idle)
  /\ UNCHANGED <<graph, edits, obscure, stored, done>>

(* It is not: an apply asks for recovery, a recovery for another review.   *)
SettleUnverified(s) ==
  LET w == worker[s] IN
  /\ w.pc = "settling" /\ ~w.ok
  /\ Revises(s, IF w.req.op = "apply" THEN "recovery_required" ELSE "review_required",
             w.req, Current(s).offer, FALSE)
  /\ Moves(s, Idle)
  /\ UNCHANGED <<graph, edits, obscure, stored, done>>

(* refresh_local_brain_record takes the newest file of all sessions for the*)
(* state of the brain, and refuses it unless it is this session's and says *)
(* applied.                                                                *)
RegistryCommits(s) ==
  /\ worker[s].pc = "registering"
  /\ latest = s /\ Current(s).st = "applied"
  /\ done' = done \cup {s}
  /\ Moves(s, Idle)
  /\ UNCHANGED <<graph, log, latest, edits, obscure, stored>>

(* It refuses, or its file cannot be written.                              *)
RegistryFails(s) ==
  LET w == worker[s] IN
  /\ w.pc = "registering"
  /\ IF w.at = Len(log[s])
     THEN Revises(s, "recovery_required", w.req, Current(s).offer, TRUE)
     ELSE UNCHANGED <<log, latest>>
  /\ Moves(s, Idle)
  /\ UNCHANGED <<graph, edits, obscure, stored, done>>

(* A request that was answered before is repeated, with the same key. Only *)
(* the registry is tried again; anything else is answered from the log.    *)
LastOf(s, n) ==
  \A m \in DOMAIN log[s] : m > n =>
    ~(log[s][m].req.op = log[s][n].req.op /\ log[s][m].req.key = log[s][n].req.key)

Retry(s, n) ==
  LET r == log[s][n] IN
  /\ worker[s].pc = "idle" /\ Readable(s) /\ LastOf(s, n) /\ Room(s, 2)
  /\ \/ /\ r.st = "applied"
        /\ Moves(s, Doing("registering", r.req, {}, FALSE, n))
        /\ UNCHANGED <<log, latest>>
     \/ /\ r.st = "recovery_required" /\ r.reg /\ n = Len(log[s])
        /\ Revises(s, "applied", r.req, r.offer, FALSE)
        /\ Moves(s, Doing("registering", r.req, {}, FALSE, n + 1))
  /\ UNCHANGED <<graph, edits, obscure, stored, done>>

-----------------------------------------------------------------------------
(* The environment.                                                        *)

ForeignEdit(f) ==
  LET p == <<f, Foreign>> IN
  /\ edits < MaxEdits
  /\ edits' = edits + 1
  /\ \/ /\ graph' = graph \cup {p}
        /\ obscure' \in {obscure \ {p}, obscure \cup {p}}
     \/ /\ graph' = {q \in graph : q[1] # f}
        /\ UNCHANGED obscure
  /\ graph' # graph
  /\ UNCHANGED <<log, latest, worker, stored, done>>

(* The process stops between two steps.                                    *)
Crash ==
  /\ worker' = [s \in Sessions |-> Idle]
  /\ UNCHANGED <<graph, log, latest, edits, obscure, stored, done>>

(* The process stops while it writes a revision of s: the file was opened  *)
(* under its final name and stays there, incomplete.                       *)
CrashTears(s) ==
  /\ \/ /\ worker[s].pc = "idle"
        /\ (log[s] = <<>> \/ (Readable(s) /\ Current(s).st # "applied"))
     \/ worker[s].pc \in {"intending", "settling"}
     \/ /\ worker[s].pc = "registering"
        /\ worker[s].at = Len(log[s])
  /\ Room(s, 1)
  /\ AppendRevision(s, Rev("torn", NoRequest, {}, {}, {}, FALSE))
  /\ worker' = [t \in Sessions |-> Idle]
  /\ UNCHANGED <<graph, edits, obscure, stored, done>>

-----------------------------------------------------------------------------
Offers == (SUBSET Facts) \ {{}}

Requests(s) ==
  \/ Start(s) \/ Tell(s) \/ Cancel(s) \/ Resume(s)
  \/ \E S \in Offers : Preview(s, S)
  \/ \E k \in Keys : BeginRecover(s, k) \/ \E S \in Offers : BeginApply(s, k, S)

Working(s) ==
  \/ RecordIntent(s) \/ ExecutorReads(s) \/ ExecutorRaises(s) \/ Probe(s)
  \/ \E New \in SUBSET Facts : ExecutorStores(s, New)
  \/ SettleApplied(s) \/ SettleUnverified(s) \/ RegistryCommits(s) \/ RegistryFails(s)

Next ==
  \/ \E s \in Sessions :
       \/ Requests(s) \/ Working(s) \/ CrashTears(s)
       \/ \E n \in DOMAIN log[s] : Retry(s, n)
  \/ \E f \in Facts : ForeignEdit(f)
  \/ Crash

Spec == Init /\ [][Next]_vars

-----------------------------------------------------------------------------
(* Properties.                                                             *)

TypeOK ==
  /\ graph \in Graphs
  /\ log \in [Sessions -> Seq(Revision)]
  /\ latest \in Sessions \cup {None}
  /\ worker \in [Sessions -> Worker]
  /\ \A s \in Sessions : worker[s].pc # "idle" => Readable(s) /\ worker[s].req.key \in Keys
  /\ edits \in Nat
  /\ obscure \in Graphs
  /\ stored \in [Sessions -> Seq(Keys)]
  /\ done \subseteq Sessions

(* Nothing of a session is in the brain before its confirmed intent, with  *)
(* that very candidate in it, is on disk: whatever crashes, what was       *)
(* written can be told from the log (_apply of service.py).                *)
IntentFirst ==
  \A s \in Sessions, k \in Keys, f \in Facts :
    <<f, <<s, k>>>> \in graph =>
      \E n \in DOMAIN log[s] :
        /\ log[s][n].st = "apply_pending" /\ log[s][n].req.key = k
        /\ f \in log[s][n].sel

(* What is applied was reviewed: the candidates of every intent are those  *)
(* of a preview after which neither an answer nor a source came, through   *)
(* cancel and resume, crash and recovery (the resets of _answer,           *)
(* _add_source and the states that _assert_operation_allowed lets through).*)
AppliedWasReviewed ==
  \A s \in Sessions : \A n \in DOMAIN log[s] :
    log[s][n].st = "apply_pending" =>
      \E m \in 1..(n - 1) :
        /\ log[s][m].req.op = "preview"
        /\ log[s][n].sel \subseteq log[s][m].offer
        /\ \A l \in (m + 1)..n : log[s][l].req.op # "tell"

(* One confirmation changes the brain at most once: neither a retry with   *)
(* the same key nor a recovery runs the executor again, as the sessions    *)
(* say of themselves ("automatic_reapply_allowed": False).                 *)
KeyStoresOnce ==
  \A s \in Sessions : \A m, n \in DOMAIN stored[s] :
    stored[s][m] = stored[s][n] => m = n

(* An apply that changed the brain is followed by another that does only   *)
(* after a recovery, of a revision that follows the intent of the first,   *)
(* has asked for another review: whatever is retried, interrupted or lost, *)
(* the same confirmation never stores under a new key by itself            *)
(* ("automatic_reapply_allowed": False, _assert_operation_allowed).        *)
StoresAgainReviewed ==
  \A s \in Sessions : \A m, n \in DOMAIN stored[s] : m < n =>
    \E i, j, l \in DOMAIN log[s] :
      /\ i < j /\ j < l
      /\ log[s][i].st = "apply_pending" /\ log[s][i].req.key = stored[s][m]
      /\ log[s][j].st = "review_required"
      /\ log[s][l].st = "apply_pending" /\ log[s][l].req.key = stored[s][n]

(* Nobody else writes the brain: no other writer did, and no other session *)
(* came as far as an intent. (That the others stored nothing new would not *)
(* be enough: an apply that merges everything stores the copy it read, over*)
(* what this session has stored since.) And the probe knows the nodes that *)
(* the session adds, which an older node of the same content can prevent.  *)
Alone(s) ==
  /\ edits = 0
  /\ \A t \in Sessions \ {s} : \A n \in DOMAIN log[t] : log[t][n].st # "apply_pending"
  /\ \A f \in Facts, k \in Keys : <<f, <<s, k>>>> \notin obscure

(* A session that is the only writer of its brain, and whose nodes the     *)
(* probe can tell, changes the brain at most once, with any keys, wherever *)
(* a crash or a failure of the executor or of the registry falls.          *)
AloneStoresOnce ==
  \A s \in Sessions : Alone(s) => Len(stored[s]) <= 1

(* docs/brain-bootstrap.md: "apply once with confirmation and an           *)
(* idempotency key". A session that was answered as applied does not change*)
(* the brain again.                                                        *)
AppliedOnce ==
  [][\A s \in Sessions : s \in done => stored'[s] = stored[s]]_vars

-----------------------------------------------------------------------------
(* What a session shows of itself: the candidates on offer, the intents in *)
(* its log, the executor at work, and what executors have stored.          *)

OfferOf(s) == IF Readable(s) THEN Current(s).offer ELSE {}

IntentsOf(s) == {n \in DOMAIN log[s] : log[s][n].st = "apply_pending"}

ConfirmedBy(s) == {<<log[s][n].req.key, log[s][n].sel>> : n \in IntentsOf(s)}

TurnOf(s) ==
  IF worker[s].pc \in {"reading", "storing"} THEN worker[s].req.key ELSE None

WrittenBy(s) == {stored[s][m] : m \in DOMAIN stored[s]}

Promise == INSTANCE ConfirmedWrites
             WITH brain <- graph,
                  offer <- [s \in Sessions |-> OfferOf(s)],
                  confirmed <- [s \in Sessions |-> ConfirmedBy(s)],
                  turn <- [s \in Sessions |-> TurnOf(s)],
                  written <- [s \in Sessions |-> WrittenBy(s)]

(* Every step of a session, its crashes and its recoveries is a step that  *)
(* the owner of the brain was promised, or none that shows: no recovery    *)
(* gives a confirmation a second turn, no copy of the brain that is stored *)
(* late brings back what no confirmation had written.                      *)
ConfirmedWritesSpec == Promise!CSpec
===============================================================================
