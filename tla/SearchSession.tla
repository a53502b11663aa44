---------------------------- MODULE SearchSession ----------------------------
(***************************************************************************)
(* A Search: its row in search_sessions and its rows in search_events      *)
(* (sqlite_store.py), the request threads and background workers that run  *)
(* it (core_retrieve_router.py), its final-materialization heartbeat       *)
(* (search_lifecycle_heartbeat.py), the server-sent event streams that     *)
(* follow it, cancellation, retention, and the crash and restart of the    *)
(* server process.                                                         *)
(*                                                                         *)
(* finalize_search_session, save_search_result_snapshot and                *)
(* cancel_search_session are BEGIN IMMEDIATE transactions: one action      *)
(* each. mark_search_running SELECTs the status and then writes it, with no *)
(* transaction around the two: two actions, and seen keeps what the SELECT  *)
(* saw. append_search_event has the same gap; it is one action here, since  *)
(* the gap only lets one event follow search_cancelled, and a heartbeat's   *)
(* append, where more can happen in between, is two.                       *)
(*                                                                         *)
(* What the AI planner and the retrieval engine return is a choice.        *)
(***************************************************************************)
EXTENDS Naturals, Sequences, FiniteSets

CONSTANTS
  Searches,      \* search ids
  Workers,       \* threads that run searches: request threads and workers
  Streams,       \* clients of /memory/query-stream
  Keys,          \* idempotency keys of cancellations
  NoWorker, NoSearch, NoStatus,
  MaxRuns,       \* bound on query, query-create, query-plan, query-run calls
  MaxSnapshots,  \* bound on progressive result snapshots
  MaxBeats,      \* bound on heartbeat events
  MaxCrashes,    \* bound on crashes of the server
  MaxRetentions  \* bound on runtime-retention sweeps

ASSUME SearchAssumption ==
  /\ NoWorker \notin Workers /\ NoSearch \notin Searches
  /\ {MaxRuns, MaxSnapshots, MaxBeats, MaxCrashes, MaxRetentions} \subseteq Nat

VARIABLES
  status,   \* search_sessions.status
  planned,  \* whether plan_json is stored
  final,    \* canonical state of final_result_json
  log,      \* search_events, by seq
  keys,     \* idempotency keys of the cancellations in the log
  pc, job,  \* every thread: where it is, and the search and entry point
  seen,     \* the status mark_search_running's SELECT saw, until it writes
  reg,      \* _SEARCH_THREADS: the live worker of a search
  hb,       \* the heartbeat thread a run started
  hbReg,    \* FINAL_MATERIALIZATION_HEARTBEATS.states
  stream,   \* every stream: its search, its last seq, what it does next
  doomed,   \* sessions a retention sweep has planned to delete
  used      \* the bounded counters

store == <<status, planned, final, log, keys>>
threads == <<pc, job, seen, reg>>
beats == <<hb, hbReg>>
vars == <<store, threads, beats, stream, doomed, used>>

-----------------------------------------------------------------------------
(* The lifecycle of stream_contract.py.                                    *)

Terminal == {"blocked", "cancelled", "completed", "failed"}

Ended == Terminal \cup {"review_required"}

Active == {"running", "finalizing"}

Order == [created |-> 0, planning |-> 1, running |-> 2, review_required |-> 3,
          finalizing |-> 4, completed |-> 5, blocked |-> 5, cancelled |-> 5,
          failed |-> 5]

\* "absent": not created yet; "deleted": swept by retention.
Gone == {"absent", "deleted"}

Status == DOMAIN Order \cup Gone

\* advance_canonical_search_state: forward only, and never out of Terminal.
Advance(from, to) ==
  IF from \notin Terminal /\ Order[to] >= Order[from] THEN to ELSE from

\* How a run ends: what retrieve_runtime, or a failure, hands the finalizer.
\* blocked stands for superseded too, which is stored and read alike.
Outcomes == {"completed", "review_required", "blocked", "failed"}

-----------------------------------------------------------------------------
(* Threads. A thread is a request (plan, sync), a worker (thread), or one  *)
(* that starts as a request and goes on as a worker (accepted, mcp).       *)

Entries == {"accepted", "plan", "sync", "mcp", "thread"}

Job(s, entry, out) == [search |-> s, entry |-> entry, out |-> out]

NoJob == Job(NoSearch, "plan", "failed")

\* The event each appending step writes. planning_failed, a planning_complete
\* that is not an accepted worker's, final_materialization_started and the
\* progress events are left out: nothing here reads them.
Appends ==
  [announce |-> "planning_started", planned |-> "planning_complete_background",
   readyPlan |-> "result_ready",
   eventBlocked |-> "search_failed", started |-> "worker_started",
   early |-> "result_ready", ready |-> "result_ready",
   raised |-> "search_failed", again |-> "search_failed"]

EventOf(w) ==
  IF pc[w] = "announce" /\ job[w].entry = "accepted"
  THEN "planning_started_background" ELSE Appends[pc[w]]

\* Between mark_search_running and the transaction that ends the search.
RunSteps == {"started", "retrieve", "early", "savePlanLate", "finalize",
             "raised", "fail"}

Steps == DOMAIN Appends \cup RunSteps \cup
  {"idle", "register", "plan", "failPlan", "finalPlan", "savePlan", "poll",
   "finalBlocked", "mark", "end", "failAgain", "leave"}

\* The step that follows one with no choice of its own.
Following(w) ==
  LET entry == job[w].entry IN
  [announce |-> IF entry = "accepted" THEN "register" ELSE "plan",
   failPlan |-> "finalPlan", finalPlan |-> "readyPlan",
   finalBlocked |-> "eventBlocked", eventBlocked |-> "readyPlan",
   readyPlan |-> "leave",
   savePlan |-> IF entry = "accepted" THEN "planned"
                ELSE IF entry = "sync" THEN "mark" ELSE "leave",
   planned |-> "poll", mark |-> "started", started |-> "retrieve",
   early |-> IF entry \in {"accepted", "mcp"} THEN "savePlanLate" ELSE "finalize",
   savePlanLate |-> "finalize", finalize |-> "ready", ready |-> "end",
   raised |-> "fail", fail |-> IF entry = "accepted" THEN "again" ELSE "end",
   again |-> "failAgain", failAgain |-> "leave"][pc[w]]

WorksOn(w, s) == pc[w] # "idle" /\ job[w].search = s

Beating(s, stop, step) == [search |-> s, stop |-> stop, pc |-> step]

NoBeat == Beating(NoSearch, FALSE, "off")

Reading(s, seq, step, idle) ==
  [search |-> s, seq |-> seq, pc |-> step, idle |-> idle]

Counters == {"runs", "snapshots", "beats", "crashes", "sweeps"}

Events == {Appends[p] : p \in DOMAIN Appends} \cup
  {"planning_started_background", "search_cancelled",
   "final_materialization_heartbeat"}

TypeOK ==
  /\ status \in [Searches -> Status]
  /\ planned \in [Searches -> BOOLEAN]
  /\ final \in [Searches -> Outcomes \cup {NoStatus}]
  /\ log \in [Searches -> Seq(Events)]
  /\ keys \in [Searches -> SUBSET Keys]
  /\ pc \in [Workers -> Steps]
  /\ job \in [Workers -> [search : Searches \cup {NoSearch}, entry : Entries,
                          out : Outcomes]]
  /\ seen \in [Workers -> Status \cup {NoStatus}]
  /\ reg \in [Searches -> Workers \cup {NoWorker}]
  /\ hb \in [Workers -> [search : Searches \cup {NoSearch}, stop : BOOLEAN,
                         pc : {"off", "wait", "write"}]]
  /\ hbReg \in [Searches -> Workers \cup {NoWorker}]
  /\ stream \in [Streams -> [search : Searches \cup {NoSearch}, seq : Nat,
                             pc : {"new", "events", "status", "closed"},
                             idle : BOOLEAN]]
  /\ doomed \subseteq Searches
  /\ used \in [Counters -> Nat]

Init ==
  /\ status = [s \in Searches |-> "absent"]
  /\ planned = [s \in Searches |-> FALSE]
  /\ final = [s \in Searches |-> NoStatus]
  /\ log = [s \in Searches |-> <<>>]
  /\ keys = [s \in Searches |-> {}]
  /\ pc = [w \in Workers |-> "idle"]
  /\ job = [w \in Workers |-> NoJob]
  /\ seen = [w \in Workers |-> NoStatus]
  /\ reg = [s \in Searches |-> NoWorker]
  /\ hb = [w \in Workers |-> NoBeat]
  /\ hbReg = [s \in Searches |-> NoWorker]
  /\ stream = [r \in Streams |-> Reading(NoSearch, 0, "new", FALSE)]
  /\ doomed = {}
  /\ used = [c \in Counters |-> 0]

Count(c, max) == used[c] < max /\ used' = [used EXCEPT ![c] = @ + 1]

Goto(w, step) == pc' = [pc EXCEPT ![w] = step]

-----------------------------------------------------------------------------
(* What the store's operations do to the row of search s.                  *)

SetStatus(s, st) == status' = [status EXCEPT ![s] = st]

\* append_search_event
AppendTo(s, event) ==
  log' = IF status[s] \in Gone \cup {"cancelled"} THEN log
         ELSE [log EXCEPT ![s] = Append(@, event)]

\* Flaw: a review result only advances, and cannot come after finalizing.
FinalizeSession_AdvanceOnly(s, out) ==
  IF status[s] \in Gone \cup {"cancelled"} THEN UNCHANGED <<status, final>>
  ELSE /\ final' = [final EXCEPT ![s] = out]
       /\ SetStatus(s, Advance(status[s], out))

\* finalize_search_session: a sealed result and a terminal review replace
\* any status but cancelled; anything else only advances.
FinalizeSession(s, out) ==
  IF status[s] \in Gone \cup {"cancelled"} THEN UNCHANGED <<status, final>>
  ELSE /\ final' = [final EXCEPT ![s] = out]
       /\ SetStatus(s, IF out \in {"completed", "review_required"} THEN out
                       ELSE Advance(status[s], out))

\* Flaw: a failure replaces a cancellation.
FailSession_Cancelled(s) ==
  IF status[s] \in Gone THEN UNCHANGED status ELSE SetStatus(s, "failed")

\* Flaw: the name of the event is stored as the status.
FailSession_EventName(s) ==
  IF status[s] \in Gone \cup {"cancelled"} THEN UNCHANGED status
  ELSE SetStatus(s, "search_failed")

\* fail_search_session
FailSession(s) ==
  IF status[s] \in Gone \cup {"cancelled"} THEN UNCHANGED status
  ELSE SetStatus(s, "failed")

\* save_search_plan
SavePlan(s) ==
  IF status[s] \in Gone THEN UNCHANGED <<status, planned>>
  ELSE /\ planned' = [planned EXCEPT ![s] = TRUE]
       /\ SetStatus(s, IF status[s] = "created" THEN "planning" ELSE status[s])

\* The UPDATE of mark_search_running, after a SELECT that returned sawn.
MarkRunning(s, sawn) ==
  IF sawn \in Gone \/ status[s] \in Gone THEN UNCHANGED status
  ELSE SetStatus(s, Advance(sawn, "running"))

\* Flaw: the registry forgets the thread and does not set its stop event.
StopBeat_Forgets(s) ==
  /\ UNCHANGED hb
  /\ hbReg' = [hbReg EXCEPT ![s] = NoWorker]

\* FinalMaterializationHeartbeatRegistry.stop
StopBeat(s) ==
  /\ hb' = [w \in Workers |->
             IF hbReg[s] = w THEN Beating(hb[w].search, TRUE, hb[w].pc) ELSE hb[w]]
  /\ hbReg' = [hbReg EXCEPT ![s] = NoWorker]

-----------------------------------------------------------------------------
(* Requests that begin a run.                                              *)

\* query-create and query-plan?respond_async (accepted), query-plan (plan),
\* query (sync) and the MCP tools (mcp) create a session; AI admission of the
\* last three came before.
Begin(w, s, entry) ==
  /\ pc[w] = "idle" /\ hb[w].pc = "off" /\ status[s] = "absent"
  /\ Count("runs", MaxRuns)
  /\ job' = [job EXCEPT ![w] = Job(s, entry, "failed")]
  /\ SetStatus(s, "created")
  /\ Goto(w, "announce")
  /\ UNCHANGED <<planned, final, log, keys, seen, reg, beats, stream, doomed>>

\* query-run: any session that exists, whatever its status.
QueryRun(w, s) ==
  /\ pc[w] = "idle" /\ hb[w].pc = "off" /\ status[s] \notin Gone
  /\ reg[s] = NoWorker
  /\ Count("runs", MaxRuns)
  /\ job' = [job EXCEPT ![w] =
               Job(s, IF planned[s] THEN "thread" ELSE "accepted", "failed")]
  /\ reg' = [reg EXCEPT ![s] = w]
  /\ \E next \in IF planned[s] THEN {"mark"} ELSE {"plan", "finalBlocked"} :
       Goto(w, next)
  /\ UNCHANGED <<store, seen, beats, stream, doomed>>

\* Flaw: a worker starts beside one that already runs the search.
Register_Always(w) ==
  /\ pc[w] = "register"
  /\ reg' = [reg EXCEPT ![job[w].search] = w]
  /\ \E next \in IF job[w].entry = "accepted"
                 THEN {"plan", "finalBlocked"} ELSE {"mark"} : Goto(w, next)
  /\ UNCHANGED <<store, job, seen, beats, stream, doomed, used>>

\* _start_search_thread, _start_accepted_search_pipeline: under the lock,
\* unless a live worker already runs the search. An accepted worker goes
\* through AI admission first.
Register(w) ==
  /\ pc[w] = "register"
  /\ LET s == job[w].search IN
       IF reg[s] # NoWorker THEN Goto(w, "leave") /\ UNCHANGED reg
       ELSE /\ reg' = [reg EXCEPT ![s] = w]
            /\ \E next \in IF job[w].entry = "accepted"
                           THEN {"plan", "finalBlocked"} ELSE {"mark"} :
                 Goto(w, next)
  /\ UNCHANGED <<store, job, seen, beats, stream, doomed, used>>

\* The thread ends: a run stops its heartbeat (its finally clause), and a
\* worker leaves the registry.
Leave(w) ==
  /\ pc[w] \in {"end", "leave"}
  /\ IF pc[w] = "end" THEN StopBeat(job[w].search) ELSE UNCHANGED beats
  /\ reg' = [s \in Searches |-> IF reg[s] = w THEN NoWorker ELSE reg[s]]
  /\ Goto(w, "idle")
  /\ job' = [job EXCEPT ![w] = NoJob]
  /\ UNCHANGED <<store, seen, stream, doomed, used>>

-----------------------------------------------------------------------------
(* Steps of a run.                                                         *)

\* An accepted worker looks for a cancellation; a busy database shows none.
Drops(w) ==
  IF job[w].entry = "accepted" /\ status[job[w].search] = "cancelled"
  THEN {"leave"} ELSE {}

\* prepare_runtime_plan: a plan, a failed AI call, or another exception.
Plan(w) ==
  /\ pc[w] = "plan"
  /\ LET success == IF job[w].entry = "mcp" THEN "register" ELSE "savePlan"
         exception == IF job[w].entry = "accepted" THEN "again" ELSE "leave"
     IN \E next \in {success, "failPlan", exception} \cup Drops(w) : Goto(w, next)
  /\ UNCHANGED <<store, job, seen, reg, beats, stream, doomed, used>>

\* append_search_event and, inside a run, the heartbeat registry's after_event.
AppendEvent(w) ==
  /\ pc[w] \in DOMAIN Appends
  /\ AppendTo(job[w].search, EventOf(w))
  /\ IF pc[w] \in {"early", "ready", "raised"} THEN StopBeat(job[w].search)
     ELSE UNCHANGED beats
  /\ Goto(w, Following(w))
  /\ UNCHANGED <<status, planned, final, keys, job, seen, reg, stream, doomed,
                 used>>

\* An accepted worker looks once more before it runs the plan.
Poll(w) ==
  /\ pc[w] = "poll"
  /\ \E next \in {"mark"} \cup Drops(w) : Goto(w, next)
  /\ UNCHANGED <<store, job, seen, reg, beats, stream, doomed, used>>

\* mark_search_running: the SELECT, then the UPDATE.
ReadStatusToMark(w) ==
  /\ pc[w] = "mark" /\ seen[w] = NoStatus
  /\ seen' = [seen EXCEPT ![w] = status[job[w].search]]
  /\ UNCHANGED <<store, pc, job, reg, beats, stream, doomed, used>>

Mark(w) ==
  /\ pc[w] = "mark" /\ seen[w] # NoStatus
  /\ MarkRunning(job[w].search, seen[w])
  /\ seen' = [seen EXCEPT ![w] = NoStatus]
  /\ Goto(w, Following(w))
  /\ UNCHANGED <<planned, final, log, keys, job, reg, beats, stream, doomed, used>>

StorePlan(w) ==
  /\ pc[w] \in {"savePlan", "savePlanLate"}
  /\ SavePlan(job[w].search)
  /\ Goto(w, Following(w))
  /\ UNCHANGED <<final, log, keys, job, seen, reg, beats, stream, doomed, used>>

Finalize(w) ==
  /\ pc[w] \in {"finalPlan", "finalBlocked", "finalize"}
  /\ FinalizeSession(job[w].search, IF pc[w] = "finalPlan" THEN "failed"
                                    ELSE IF pc[w] = "finalBlocked" THEN "blocked"
                                    ELSE job[w].out)
  /\ Goto(w, Following(w))
  /\ UNCHANGED <<planned, log, keys, job, seen, reg, beats, stream, doomed, used>>

Fail(w) ==
  /\ pc[w] \in {"failPlan", "fail", "failAgain"}
  /\ FailSession(job[w].search)
  /\ IF pc[w] = "fail" THEN StopBeat(job[w].search) ELSE UNCHANGED beats
  /\ Goto(w, Following(w))
  /\ UNCHANGED <<planned, final, log, keys, job, seen, reg, stream, doomed, used>>

-----------------------------------------------------------------------------
(* retrieve_runtime and its callbacks.                                     *)

\* save_search_result_snapshot of a pending snapshot.
Snapshot(w, st) ==
  /\ pc[w] = "retrieve" /\ Count("snapshots", MaxSnapshots)
  /\ LET s == job[w].search IN
       /\ status[s] \notin Gone \cup {"cancelled", "completed", "failed"}
       /\ SetStatus(s, Advance(status[s], st))
  /\ UNCHANGED <<planned, final, log, keys, threads, beats, stream, doomed>>

\* final_materialization_started, once in a run: the heartbeat registry's
\* start, unless the search has a live heartbeat.
StartBeat(w) ==
  /\ pc[w] = "retrieve" /\ hb[w].pc = "off"
  /\ LET s == job[w].search IN
       /\ hbReg[s] = NoWorker
       /\ hbReg' = [hbReg EXCEPT ![s] = w]
       /\ hb' = [hb EXCEPT ![w] = Beating(s, FALSE, "wait")]
  /\ UNCHANGED <<store, threads, stream, doomed, used>>

\* retrieve_runtime returns, returns a partial result after a late AI failure
\* (having told its callback result_ready itself), or raises.
EndRetrieval(w) ==
  /\ pc[w] = "retrieve"
  /\ \/ \E out \in Outcomes \ {"failed"} :
          /\ job' = [job EXCEPT ![w] = Job(@.search, @.entry, out)]
          /\ Goto(w, IF job[w].entry \in {"accepted", "mcp"} THEN "savePlanLate"
                     ELSE "finalize")
     \/ \E out \in {"review_required", "blocked"} :
          /\ job' = [job EXCEPT ![w] = Job(@.search, @.entry, out)]
          /\ Goto(w, "early")
     \/ Goto(w, "raised") /\ UNCHANGED job
  /\ UNCHANGED <<store, seen, reg, beats, stream, doomed, used>>

\* The store refuses result_ready (a locked or full database): the run's
\* except clause takes over although the final result is committed. An
\* earlier write that fails is like a retrieval that raised.
StoreFails(w) ==
  /\ pc[w] = "ready"
  /\ Goto(w, "raised")
  /\ UNCHANGED <<store, job, seen, reg, beats, stream, doomed, used>>

-----------------------------------------------------------------------------
(* The heartbeat thread: wait for the interval or the stop event, append.  *)

Beat(w) ==
  /\ hb[w].pc = "wait" /\ ~hb[w].stop
  /\ status[hb[w].search] \notin Gone \cup {"cancelled"}
  /\ Count("beats", MaxBeats)
  /\ hb' = [hb EXCEPT ![w] = Beating(@.search, @.stop, "write")]
  /\ UNCHANGED <<store, threads, hbReg, stream, doomed>>

WriteBeat(w) ==
  /\ hb[w].pc = "write"
  /\ log' = IF status[hb[w].search] \in Gone THEN log
            ELSE [log EXCEPT ![hb[w].search] =
                    Append(@, "final_materialization_heartbeat")]
  /\ hb' = [hb EXCEPT ![w] = Beating(@.search, @.stop, "wait")]
  /\ UNCHANGED <<status, planned, final, keys, threads, hbReg, stream, doomed,
                 used>>

EndBeat(w) ==
  /\ hb[w].pc = "wait" /\ hb[w].stop
  /\ hb' = [hb EXCEPT ![w] = NoBeat]
  /\ UNCHANGED <<store, threads, hbReg, stream, doomed, used>>

-----------------------------------------------------------------------------
(* Clients and the operator.                                               *)

\* cancel_search_session, with a key not used before. A replayed key, a
\* stale expected_state_revision and an already cancelled session are
\* answered without a change.
Cancel(s, k) ==
  /\ status[s] \notin Gone \cup {"cancelled"} /\ k \notin keys[s]
  /\ keys' = [keys EXCEPT ![s] = @ \cup {k}]
  /\ log' = [log EXCEPT ![s] = Append(@, "search_cancelled")]
  /\ SetStatus(s, "cancelled")
  /\ UNCHANGED <<planned, final, threads, beats, stream, doomed, used>>

OpenStream(r, s) ==
  /\ stream[r].pc = "new" /\ status[s] \notin Gone
  /\ \E seq \in {0, Len(log[s])} :
       stream' = [stream EXCEPT ![r] = Reading(s, seq, "events", FALSE)]
  /\ UNCHANGED <<store, threads, beats, doomed, used>>

Closing == {"result_ready", "search_cancelled", "search_failed"}

\* One turn of the stream's loop reads the events, then the session.
ReadEvents(r) ==
  /\ stream[r].pc = "events"
  /\ LET s == stream[r].search
         fresh == stream[r].seq + 1 .. Len(log[s])
         over == \E i \in fresh : log[s][i] \in Closing
     IN stream' = [stream EXCEPT ![r] =
          Reading(s, IF fresh = {} THEN @.seq ELSE Len(log[s]),
                  IF over THEN "closed" ELSE "status", fresh = {})]
  /\ UNCHANGED <<store, threads, beats, doomed, used>>

\* Flaw: the stream of a session that has ended waits for one more event.
ReadStatus_Waits(r) ==
  /\ stream[r].pc = "status"
  /\ LET over == status[stream[r].search] \in Gone
     IN stream' = [stream EXCEPT ![r] = Reading(@.search, @.seq,
          IF over THEN "closed" ELSE "events", @.idle)]
  /\ UNCHANGED <<store, threads, beats, doomed, used>>

ReadStatus(r) ==
  /\ stream[r].pc = "status"
  /\ LET st == status[stream[r].search]
         over == st \in Gone \/ (st \in Ended /\ stream[r].idle)
     IN stream' = [stream EXCEPT ![r] = Reading(@.search, @.seq,
          IF over THEN "closed" ELSE "events", @.idle)]
  /\ UNCHANGED <<store, threads, beats, doomed, used>>

\* _runtime_retention_build_plan: sessions that have ended, and created or
\* planning ones that nobody has touched for the grace period.
PlanRetention ==
  /\ doomed = {} /\ Count("sweeps", MaxRetentions)
  /\ doomed' \in {S \in SUBSET Searches : S # {} /\ \A s \in S :
       \/ status[s] \in Ended
       \/ status[s] \in {"created", "planning"} /\ \A w \in Workers : ~WorksOn(w, s)}
  /\ UNCHANGED <<store, threads, beats, stream>>

\* The deletions that follow, by id.
Retain ==
  /\ doomed # {}
  /\ status' = [s \in Searches |-> IF s \in doomed THEN "deleted" ELSE status[s]]
  /\ log' = [s \in Searches |-> IF s \in doomed THEN <<>> ELSE log[s]]
  /\ doomed' = {}
  /\ UNCHANGED <<planned, final, keys, threads, beats, stream, used>>

\* Flaw: only the events count, and marking running comes before its event.
Interrupted_Events(s) ==
  /\ status[s] \in Active \cup {"created", "planning"}
  /\ \E i \in 1..Len(log[s]) :
       log[s][i] \in {"worker_started", "planning_started_background",
                     "planning_complete_background"}

\* Flaw: a planned session nobody ran yet is recovered too.
Interrupted_Planned(s) == status[s] \in Active \cup {"created", "planning"}

\* _recover_interrupted_search_sessions_on_bootstrap
Interrupted(s) ==
  \/ status[s] \in Active
  \/ /\ status[s] \in {"created", "planning"}
     /\ \E i \in 1..Len(log[s]) :
          log[s][i] \in {"worker_started", "planning_started_background",
                        "planning_complete_background"}

\* The process dies with all its threads; the next one recovers the store
\* before it serves anything.
Restart ==
  /\ Count("crashes", MaxCrashes)
  /\ pc' = [w \in Workers |-> "idle"] /\ job' = [w \in Workers |-> NoJob]
  /\ seen' = [w \in Workers |-> NoStatus]
  /\ reg' = [s \in Searches |-> NoWorker]
  /\ hb' = [w \in Workers |-> NoBeat] /\ hbReg' = [s \in Searches |-> NoWorker]
  /\ stream' = [r \in Streams |-> Reading(stream[r].search, stream[r].seq,
                  IF stream[r].pc = "new" THEN "new" ELSE "closed", stream[r].idle)]
  /\ doomed' = {}
  /\ status' = [s \in Searches |-> IF Interrupted(s) THEN "failed" ELSE status[s]]
  /\ final' = [s \in Searches |-> IF Interrupted(s) THEN "failed" ELSE final[s]]
  /\ log' = [s \in Searches |-> IF Interrupted(s)
                                THEN Append(log[s], "search_failed") ELSE log[s]]
  /\ UNCHANGED <<planned, keys>>

-----------------------------------------------------------------------------

\* What a thread does of itself once begun: it is never blocked.
Work(w) ==
  \/ Register(w) \/ Leave(w) \/ Plan(w) \/ AppendEvent(w) \/ Poll(w)
  \/ ReadStatusToMark(w) \/ Mark(w) \/ StorePlan(w) \/ Finalize(w) \/ Fail(w)
  \/ EndRetrieval(w)

HeartbeatThread(w) == Beat(w) \/ WriteBeat(w) \/ EndBeat(w)

Follow(r) == ReadEvents(r) \/ ReadStatus(r)

Next ==
  \/ \E w \in Workers :
       \/ \E s \in Searches :
            \/ \E entry \in Entries \ {"thread"} : Begin(w, s, entry)
            \/ QueryRun(w, s)
       \/ \E st \in Active : Snapshot(w, st)
       \/ StartBeat(w) \/ StoreFails(w)
       \/ Work(w)
       \/ HeartbeatThread(w)
  \/ \E s \in Searches : \E k \in Keys : Cancel(s, k)
  \/ \E r \in Streams : (\E s \in Searches : OpenStream(r, s)) \/ Follow(r)
  \/ PlanRetention \/ Retain
  \/ Restart

\* Threads and stream coroutines are scheduled by the operating system; the
\* AI calls inside Plan and EndRetrieval run under the search deadline.
Fairness ==
  /\ \A w \in Workers : WF_vars(Work(w)) /\ WF_vars(WriteBeat(w) \/ EndBeat(w))
  /\ \A r \in Streams : WF_vars(Follow(r))

Spec == Init /\ [][Next]_vars /\ Fairness

-----------------------------------------------------------------------------
(* Properties.                                                             *)

\* A session the store calls running or finalizing has a thread that is
\* running it: a failure, a cancellation, a second run or a restart never
\* leaves one behind that nobody will end.
NoOrphan ==
  \A s \in Searches : status[s] \in Active =>
    \E w \in Workers : job[w].search = s /\ pc[w] \in RunSteps

\* The registry keeps two background workers off the same search.
OneWorker ==
  \A v, w \in Workers :
    /\ job[v].search = job[w].search
    /\ {pc[v], pc[w]} \subseteq RunSteps
    /\ {job[v].entry, job[w].entry} \subseteq {"accepted", "mcp", "thread"}
    => v = w

\* A heartbeat that has not been told to stop belongs to a search that a
\* thread is still running or about to tell it so.
HeartbeatOwned ==
  \A w \in Workers : hb[w].pc # "off" /\ ~hb[w].stop =>
    \E v \in Workers : /\ job[v].search = hb[w].search
                       /\ pc[v] \in RunSteps \cup {"ready", "end"}

\* A search leaves cancelled only when a thread read its status before the
\* cancellation and marks it running after.
CancelLostOnlyToMark ==
  [][\A s \in Searches :
      (status[s] = "cancelled" /\ ~\E w \in Workers :
          WorksOn(w, s) /\ pc[w] = "mark" /\ seen[w] \notin {NoStatus, "cancelled"})
      => status'[s] \in {"cancelled", "deleted"}]_vars

\* A restart fails only a search that a thread of the dead process was
\* serving: a planned one that waits for its query-run survives.
RestartFailsOnlyInterrupted ==
  [][\A s \in Searches : used'["crashes"] # used["crashes"] /\ status'[s] # status[s]
      => \E w \in Workers : WorksOn(w, s)]_vars

\* Every running search ends, or is swept.
SearchEnds ==
  \A s \in Searches : status[s] \in Active ~> status[s] \in Ended \cup Gone

\* Every heartbeat stops.
HeartbeatStops == \A w \in Workers : hb[w].pc # "off" ~> hb[w].pc = "off"

\* Every stream that follows a running search closes.
StreamCloses ==
  \A r \in Streams : stream[r].pc \in {"events", "status"}
                      /\ status[stream[r].search] \in Active
                    ~> stream[r].pc = "closed"

\* Once cancelled, a search stays cancelled
\* (advance_canonical_search_state: a terminal checkpoint never regresses).
CancelledStays ==
  [][\A s \in Searches : status[s] = "cancelled"
                         => status'[s] \in {"cancelled", "deleted"}]_vars

=============================================================================
