------------------------ MODULE SearchSessionProofs ------------------------
(***************************************************************************)
(* Proofs about SearchSession, for any number of searches, threads,        *)
(* streams and cancellation keys, and any bounds.                          *)
(***************************************************************************)
EXTENDS SearchSession, TLAPS

-----------------------------------------------------------------------------
(* The lifecycle and the steps of a thread.                                *)

LEMMA StatusNames ==
  /\ DOMAIN Order = {"created", "planning", "running", "review_required",
                     "finalizing", "completed", "blocked", "cancelled", "failed"}
  /\ DOMAIN Order \cap Gone = {}
  BY DEF Order, Gone

LEMMA AdvanceTyped ==
  ASSUME NEW from \in DOMAIN Order, NEW to \in DOMAIN Order
  PROVE  Advance(from, to) \in DOMAIN Order
  BY DEF Advance

(* A terminal status stays, and so does nothing that could come before     *)
(* a terminal one: advancing to a terminal status ends the search.         *)
LEMMA AdvanceEnds ==
  ASSUME NEW from \in DOMAIN Order, NEW to \in Terminal
  PROVE  Advance(from, to) \in Terminal
  BY StatusNames DEF Advance, Terminal, Order

LEMMA AppendNames ==
  /\ DOMAIN Appends = {"announce", "planned", "readyPlan", "eventBlocked",
                       "started", "early", "ready", "raised", "again"}
  /\ \A p \in DOMAIN Appends : Appends[p] \in Events
  BY DEF Appends, Events

LEMMA FollowingTyped ==
  ASSUME TypeOK, NEW w \in Workers,
         pc[w] \in DOMAIN Appends \cup {"savePlan", "savePlanLate", "mark",
                     "failPlan", "finalPlan", "finalBlocked", "finalize", "fail",
                     "failAgain"}
  PROVE  Following(w) \in Steps
<1>1. pc[w] \in {"announce", "planned", "readyPlan", "eventBlocked", "started",
                 "early", "ready", "raised", "again", "savePlan", "savePlanLate",
                 "mark", "failPlan", "finalPlan", "finalBlocked", "finalize",
                 "fail", "failAgain"}
  BY AppendNames
<1> QED
  BY <1>1, AppendNames DEF Following, Steps, RunSteps

-----------------------------------------------------------------------------
(* Type correctness: what each kind of update does to its variables.       *)

LEMMA AppendTyped ==
  ASSUME TypeOK, NEW s, NEW event \in Events, AppendTo(s, event)
  PROVE  log' \in [Searches -> Seq(Events)]
<1>1. log \in [Searches -> Seq(Events)]
  BY DEF TypeOK
<1>2. CASE log' = log
  BY <1>1, <1>2
<1>3. CASE log' = [log EXCEPT ![s] = Append(@, event)]
  <2> DEFINE longer == Append(log[s], event)
  <2>1. s \in Searches => longer \in Seq(Events)
    BY <1>1
  <2>2. log' = [log EXCEPT ![s] = longer]
    BY <1>3
  <2> HIDE DEF longer
  <2> QED
    BY <1>1, <2>1, <2>2
<1> QED
  BY <1>2, <1>3 DEF AppendTo

LEMMA SetStatusTyped ==
  ASSUME TypeOK, NEW s, NEW st, s \in Searches => st \in Status, SetStatus(s, st)
  PROVE  status' \in [Searches -> Status]
  BY DEF TypeOK, SetStatus

LEMMA LiveStatus ==
  ASSUME TypeOK, NEW s \in Searches, status[s] \notin Gone
  PROVE  status[s] \in DOMAIN Order
  BY DEF TypeOK, Status

LEMMA OutcomeNames == Outcomes \subseteq DOMAIN Order /\ DOMAIN Order \subseteq Status
  BY StatusNames DEF Outcomes, Status

LEMMA FinalizeTyped ==
  ASSUME TypeOK, NEW s, NEW out \in Outcomes, FinalizeSession(s, out)
  PROVE  /\ status' \in [Searches -> Status]
         /\ final' \in [Searches -> Outcomes \cup {NoStatus}]
<1>1. final' \in [Searches -> Outcomes \cup {NoStatus}]
  BY DEF TypeOK, FinalizeSession
<1>2. CASE status[s] \in Gone \cup {"cancelled"}
  BY <1>1, <1>2 DEF TypeOK, FinalizeSession
<1>3. CASE status[s] \notin Gone \cup {"cancelled"}
  <2> DEFINE st == IF out \in {"completed", "review_required"} THEN out
                   ELSE Advance(status[s], out)
  <2>1. s \in Searches => st \in Status
    BY <1>3, LiveStatus, OutcomeNames, AdvanceTyped
  <2>2. SetStatus(s, st)
    BY <1>3 DEF FinalizeSession
  <2> QED
    BY <1>1, <2>1, <2>2, SetStatusTyped
<1> QED
  BY <1>2, <1>3

LEMMA FailTyped ==
  ASSUME TypeOK, NEW s, FailSession(s)
  PROVE  status' \in [Searches -> Status]
<1>1. "failed" \in Status
  BY StatusNames DEF Status
<1> QED
  BY <1>1, SetStatusTyped DEF FailSession, TypeOK

LEMMA SavePlanTyped ==
  ASSUME TypeOK, NEW s, SavePlan(s)
  PROVE  /\ status' \in [Searches -> Status]
         /\ planned' \in [Searches -> BOOLEAN]
<1>1. "planning" \in Status /\ (s \in Searches => status[s] \in Status)
  BY StatusNames DEF Status, TypeOK
<1>2. planned' \in [Searches -> BOOLEAN]
  BY DEF TypeOK, SavePlan
<1> QED
  BY <1>1, <1>2, SetStatusTyped DEF SavePlan, TypeOK

LEMMA MarkTyped ==
  ASSUME TypeOK, NEW s, NEW sawn \in Status, MarkRunning(s, sawn)
  PROVE  status' \in [Searches -> Status]
<1>1. CASE sawn \in Gone \/ status[s] \in Gone
  BY <1>1 DEF MarkRunning, TypeOK
<1>2. CASE ~(sawn \in Gone \/ status[s] \in Gone)
  <2>1. sawn \in DOMAIN Order /\ "running" \in DOMAIN Order
    BY <1>2, StatusNames DEF Status
  <2>2. Advance(sawn, "running") \in Status
    BY <2>1, AdvanceTyped, OutcomeNames
  <2> QED
    BY <1>2, <2>2, SetStatusTyped DEF MarkRunning
<1> QED
  BY <1>1, <1>2

Hb == [search : Searches \cup {NoSearch}, stop : BOOLEAN,
       pc : {"off", "wait", "write"}]

LEMMA StopTyped ==
  ASSUME TypeOK, NEW s, StopBeat(s)
  PROVE  /\ hb' \in [Workers -> Hb]
         /\ hbReg' \in [Searches -> Workers \cup {NoWorker}]
<1>1. hb \in [Workers -> Hb] /\ hbReg \in [Searches -> Workers \cup {NoWorker}]
  BY DEF TypeOK, Hb
<1>2. \A w \in Workers : Beating(hb[w].search, TRUE, hb[w].pc) \in Hb
  BY <1>1 DEF Beating, Hb
<1> QED
  BY <1>1, <1>2 DEF StopBeat

LEMMA GotoTyped ==
  ASSUME TypeOK, NEW w, NEW step \in Steps, Goto(w, step)
  PROVE  pc' \in [Workers -> Steps]
  BY DEF TypeOK, Goto

LEMMA CountTyped ==
  ASSUME TypeOK, NEW c \in Counters, NEW max, Count(c, max)
  PROVE  used' \in [Counters -> Nat]
<1>1. used \in [Counters -> Nat] /\ used' = [used EXCEPT ![c] = @ + 1]
  BY DEF TypeOK, Count
<1> QED
  BY <1>1

LEMMA StepNames ==
  /\ Steps = {"announce", "planned", "readyPlan", "eventBlocked", "started",
              "early", "ready", "raised", "again", "retrieve", "savePlanLate",
              "finalize", "fail", "idle", "register", "plan", "failPlan",
              "finalPlan", "savePlan", "poll", "finalBlocked", "mark", "end",
              "failAgain", "leave"}
  /\ Entries = {"accepted", "plan", "sync", "mcp", "thread"}
  /\ Counters = {"runs", "snapshots", "beats", "crashes", "sweeps"}
  BY AppendNames DEF Steps, RunSteps, Entries, Counters

Jobs == [search : Searches \cup {NoSearch}, entry : Entries, out : Outcomes]

LEMMA RecordsTyped ==
  /\ NoJob \in Jobs /\ NoBeat \in Hb
  /\ \A s \in Searches \cup {NoSearch}, entry \in Entries, out \in Outcomes :
       Job(s, entry, out) \in Jobs
  /\ \A s \in Searches \cup {NoSearch}, stop \in BOOLEAN, step \in {"off", "wait", "write"} :
       Beating(s, stop, step) \in Hb
  BY DEF NoJob, NoBeat, Job, Beating, Jobs, Hb, Entries, Outcomes

(* The variables by owner, to prove a step's effect on each separately.    *)
StoreTyped ==
  /\ status \in [Searches -> Status] /\ planned \in [Searches -> BOOLEAN]
  /\ final \in [Searches -> Outcomes \cup {NoStatus}]
  /\ log \in [Searches -> Seq(Events)] /\ keys \in [Searches -> SUBSET Keys]

ThreadsTyped ==
  /\ pc \in [Workers -> Steps] /\ job \in [Workers -> Jobs]
  /\ seen \in [Workers -> Status \cup {NoStatus}]
  /\ reg \in [Searches -> Workers \cup {NoWorker}]

BeatsTyped ==
  /\ hb \in [Workers -> Hb] /\ hbReg \in [Searches -> Workers \cup {NoWorker}]

Streaming == [search : Searches \cup {NoSearch}, seq : Nat,
              pc : {"new", "events", "status", "closed"}, idle : BOOLEAN]

RestTyped ==
  /\ stream \in [Streams -> Streaming] /\ doomed \subseteq Searches
  /\ used \in [Counters -> Nat]

LEMMA TypeParts == TypeOK <=> StoreTyped /\ ThreadsTyped /\ BeatsTyped /\ RestTyped
  BY DEF TypeOK, StoreTyped, ThreadsTyped, BeatsTyped, RestTyped, Jobs, Hb, Streaming

LEMMA TypeNext ==
  ASSUME StoreTyped', ThreadsTyped', BeatsTyped', RestTyped'
  PROVE  TypeOK'
  BY DEF TypeOK, StoreTyped, ThreadsTyped, BeatsTyped, RestTyped, Jobs, Hb, Streaming

LEMMA BeginTyped ==
  ASSUME TypeOK, NEW w \in Workers, NEW s \in Searches, NEW entry \in Entries,
         Begin(w, s, entry)
  PROVE  TypeOK'
<1>1. "created" \in Status /\ "failed" \in Outcomes /\ "runs" \in Counters
  BY StatusNames, StepNames DEF Status, Outcomes
<1>2. StoreTyped'
  BY <1>1, TypeParts, SetStatusTyped DEF Begin, StoreTyped
<1>3. ThreadsTyped'
  <2>1. pc' \in [Workers -> Steps]
    BY StepNames, GotoTyped DEF Begin
  <2>2. job' \in [Workers -> Jobs]
    BY <1>1, RecordsTyped, TypeParts DEF Begin, ThreadsTyped
  <2> QED
    BY <2>1, <2>2, TypeParts DEF Begin, ThreadsTyped
<1>4. BeatsTyped'
  BY TypeParts DEF Begin, BeatsTyped, beats
<1>5. RestTyped'
  BY <1>1, TypeParts, CountTyped DEF Begin, RestTyped
<1> QED
  BY <1>2, <1>3, <1>4, <1>5, TypeNext

LEMMA QueryRunTyped ==
  ASSUME TypeOK, NEW w \in Workers, NEW s \in Searches, QueryRun(w, s)
  PROVE  TypeOK'
<1>1. "failed" \in Outcomes /\ "runs" \in Counters
  BY StepNames DEF Outcomes
<1>2. StoreTyped' /\ BeatsTyped'
  BY TypeParts DEF QueryRun, StoreTyped, BeatsTyped, store, beats
<1>3. ThreadsTyped'
  <2>1. pc' \in [Workers -> Steps]
    BY StepNames, GotoTyped DEF QueryRun
  <2>2. job' \in [Workers -> Jobs]
    <3> DEFINE entry == IF planned[s] THEN "thread" ELSE "accepted"
    <3>1. Job(s, entry, "failed") \in Jobs
      BY <1>1, StepNames, RecordsTyped
    <3> HIDE DEF entry
    <3> QED
      BY <3>1, TypeParts DEF QueryRun, ThreadsTyped, entry
  <2> QED
    BY <2>1, <2>2, TypeParts DEF QueryRun, ThreadsTyped
<1>4. RestTyped'
  BY <1>1, TypeParts, CountTyped DEF QueryRun, RestTyped
<1> QED
  BY <1>2, <1>3, <1>4, TypeNext

(* A busy thread's next step, for the actions that move it and touch no    *)
(* other variable of the threads.                                          *)
LEMMA MovesTyped ==
  ASSUME TypeOK, NEW w \in Workers, NEW step \in Steps, Goto(w, step),
         UNCHANGED <<job, seen, reg>>
  PROVE  ThreadsTyped'
  BY GotoTyped, TypeParts DEF ThreadsTyped

LEMMA RegisterTyped ==
  ASSUME TypeOK, NEW w \in Workers, Register(w)
  PROVE  TypeOK'
<1>1. StoreTyped' /\ BeatsTyped' /\ RestTyped'
  BY TypeParts DEF Register, StoreTyped, BeatsTyped, RestTyped, store, beats
<1>2. pc' \in [Workers -> Steps]
  BY StepNames, GotoTyped DEF Register
<1>3. reg' \in [Searches -> Workers \cup {NoWorker}]
  BY TypeParts DEF Register, ThreadsTyped
<1>4. ThreadsTyped'
  BY <1>2, <1>3, TypeParts DEF Register, ThreadsTyped
<1> QED
  BY <1>1, <1>4, TypeNext

LEMMA LeaveTyped ==
  ASSUME TypeOK, NEW w \in Workers, Leave(w)
  PROVE  TypeOK'
<1>1. StoreTyped' /\ RestTyped'
  BY TypeParts DEF Leave, StoreTyped, RestTyped, store
<1>2. BeatsTyped'
  BY StopTyped, TypeParts DEF Leave, BeatsTyped, beats
<1>3. pc' \in [Workers -> Steps]
  BY StepNames, GotoTyped DEF Leave
<1>4. job' \in [Workers -> Jobs] /\ reg' \in [Searches -> Workers \cup {NoWorker}]
  BY RecordsTyped, TypeParts DEF Leave, ThreadsTyped
<1>5. ThreadsTyped'
  BY <1>3, <1>4, TypeParts DEF Leave, ThreadsTyped
<1> QED
  BY <1>1, <1>2, <1>5, TypeNext

LEMMA AppendEventTyped ==
  ASSUME TypeOK, NEW w \in Workers, AppendEvent(w)
  PROVE  TypeOK'
<1>1. EventOf(w) \in Events
  BY AppendNames DEF EventOf, AppendEvent, Events
<1>2. StoreTyped'
  BY <1>1, AppendTyped, TypeParts DEF AppendEvent, StoreTyped
<1>3. ThreadsTyped'
  BY FollowingTyped, MovesTyped DEF AppendEvent
<1>4. BeatsTyped'
  BY StopTyped, TypeParts DEF AppendEvent, BeatsTyped, beats
<1>5. RestTyped'
  BY TypeParts DEF AppendEvent, RestTyped
<1> QED
  BY <1>2, <1>3, <1>4, <1>5, TypeNext

LEMMA FinalizeStepTyped ==
  ASSUME TypeOK, NEW w \in Workers, Finalize(w)
  PROVE  TypeOK'
<1>1. StoreTyped'
  <2> DEFINE out == IF pc[w] = "finalPlan" THEN "failed"
                    ELSE IF pc[w] = "finalBlocked" THEN "blocked" ELSE job[w].out
  <2>1. out \in Outcomes
    BY TypeParts DEF Outcomes, ThreadsTyped, Jobs
  <2>2. FinalizeSession(job[w].search, out)
    BY DEF Finalize
  <2> HIDE DEF out
  <2>3. /\ status' \in [Searches -> Status]
        /\ final' \in [Searches -> Outcomes \cup {NoStatus}]
    BY <2>1, <2>2, FinalizeTyped
  <2> QED
    BY <2>3, TypeParts DEF Finalize, StoreTyped
<1>2. ThreadsTyped'
  BY FollowingTyped, MovesTyped DEF Finalize
<1>3. BeatsTyped' /\ RestTyped'
  BY TypeParts DEF Finalize, BeatsTyped, RestTyped, beats
<1> QED
  BY <1>1, <1>2, <1>3, TypeNext

LEMMA FailStepTyped ==
  ASSUME TypeOK, NEW w \in Workers, Fail(w)
  PROVE  TypeOK'
<1>1. StoreTyped' /\ RestTyped'
  BY FailTyped, TypeParts DEF Fail, StoreTyped, RestTyped
<1>2. ThreadsTyped'
  BY FollowingTyped, MovesTyped DEF Fail
<1>3. BeatsTyped'
  BY StopTyped, TypeParts DEF Fail, BeatsTyped, beats
<1> QED
  BY <1>1, <1>2, <1>3, TypeNext

LEMMA MarkStepTyped ==
  ASSUME TypeOK, NEW w \in Workers, Mark(w)
  PROVE  TypeOK'
<1>1. seen[w] \in Status
  BY TypeParts DEF ThreadsTyped, Mark
<1>2. StoreTyped'
  BY <1>1, MarkTyped, TypeParts DEF Mark, StoreTyped
<1>3. pc' \in [Workers -> Steps]
  BY FollowingTyped, GotoTyped DEF Mark
<1>4. ThreadsTyped'
  BY <1>3, TypeParts DEF Mark, ThreadsTyped
<1>5. BeatsTyped' /\ RestTyped'
  BY TypeParts DEF Mark, BeatsTyped, RestTyped, beats
<1> QED
  BY <1>2, <1>4, <1>5, TypeNext

LEMMA StorePlanTyped ==
  ASSUME TypeOK, NEW w \in Workers, StorePlan(w)
  PROVE  TypeOK'
<1>1. StoreTyped'
  BY SavePlanTyped, TypeParts DEF StorePlan, StoreTyped
<1>2. ThreadsTyped'
  BY FollowingTyped, MovesTyped DEF StorePlan
<1>3. BeatsTyped' /\ RestTyped'
  BY TypeParts DEF StorePlan, BeatsTyped, RestTyped, beats
<1> QED
  BY <1>1, <1>2, <1>3, TypeNext

LEMMA EndRetrievalTyped ==
  ASSUME TypeOK, NEW w \in Workers, EndRetrieval(w)
  PROVE  TypeOK'
<1>1. StoreTyped' /\ BeatsTyped' /\ RestTyped'
  BY TypeParts DEF EndRetrieval, StoreTyped, BeatsTyped, RestTyped, store, beats
<1>2. pc' \in [Workers -> Steps]
  BY StepNames, GotoTyped DEF EndRetrieval
<1>3. job' \in [Workers -> Jobs]
  <2>1. job[w] \in Jobs /\ job \in [Workers -> Jobs]
    BY TypeParts DEF ThreadsTyped
  <2>2. \A out \in Outcomes : Job(job[w].search, job[w].entry, out) \in Jobs
    BY <2>1 DEF Job, Jobs
  <2>3. \/ job' = job
        \/ \E out \in Outcomes :
             job' = [job EXCEPT ![w] = Job(job[w].search, job[w].entry, out)]
    BY DEF EndRetrieval, Outcomes
  <2> QED
    BY <2>1, <2>2, <2>3
<1>4. ThreadsTyped'
  BY <1>2, <1>3, TypeParts DEF EndRetrieval, ThreadsTyped
<1> QED
  BY <1>1, <1>4, TypeNext

(* A busy thread and an open stream have a search: without it the types    *)
(* are not inductive.                                                      *)
Assigned ==
  /\ \A w \in Workers : pc[w] # "idle" => job[w].search \in Searches
  /\ \A r \in Streams : stream[r].pc # "new" => stream[r].search \in Searches

LEMMA WorkTyped ==
  ASSUME TypeOK, Assigned, NEW w \in Workers, Work(w)
  PROVE  TypeOK'
<1>1. CASE Plan(w)
  <2>1. ThreadsTyped'
    BY <1>1, StepNames, MovesTyped DEF Plan, Drops
  <2> QED
    BY <1>1, <2>1, TypeParts, TypeNext
    DEF Plan, StoreTyped, BeatsTyped, RestTyped, store, beats
<1>2. CASE Poll(w)
  <2>1. ThreadsTyped'
    BY <1>2, StepNames, MovesTyped DEF Poll, Drops
  <2> QED
    BY <1>2, <2>1, TypeParts, TypeNext
    DEF Poll, StoreTyped, BeatsTyped, RestTyped, store, beats
<1>3. CASE ReadStatusToMark(w)
  <2>1. status[job[w].search] \in Status
    BY <1>3, TypeParts DEF StoreTyped, Assigned, ReadStatusToMark
  <2>2. ThreadsTyped'
    BY <1>3, <2>1, TypeParts DEF ReadStatusToMark, ThreadsTyped
  <2> QED
    BY <1>3, <2>2, TypeParts, TypeNext
    DEF ReadStatusToMark, StoreTyped, BeatsTyped, RestTyped, store, beats
<1> QED
  BY <1>1, <1>2, <1>3, RegisterTyped, LeaveTyped, AppendEventTyped, MarkStepTyped,
     StorePlanTyped, FinalizeStepTyped, FailStepTyped, EndRetrievalTyped
  DEF Work

(* What one thread does of itself leaves the other threads alone, and keeps *)
(* its own search until it leaves.                                         *)
LEMMA OneThreadMoves ==
  ASSUME TypeOK, NEW w \in Workers, Work(w) \/ StoreFails(w)
  PROVE  /\ pc[w] # "idle"
         /\ \A v \in Workers \ {w} :
              pc'[v] = pc[v] /\ job'[v] = job[v] /\ seen'[v] = seen[v]
         /\ \/ Leave(w) /\ pc'[w] = "idle"
            \/ /\ job'[w].search = job[w].search
               /\ job'[w].entry = job[w].entry
<1>1. pc \in [Workers -> Steps] /\ job \in [Workers -> Jobs]
      /\ seen \in [Workers -> Status \cup {NoStatus}]
  BY TypeParts DEF ThreadsTyped
<1>2. \A step : Goto(w, step) => \A v \in Workers \ {w} : pc'[v] = pc[v]
  BY <1>1 DEF Goto
<1>3. CASE EndRetrieval(w)
  <2>1. \/ job' = job
        \/ \E out \in Outcomes :
             job' = [job EXCEPT ![w] = Job(job[w].search, job[w].entry, out)]
    BY <1>3 DEF EndRetrieval, Outcomes
  <2>2. /\ job'[w].search = job[w].search /\ job'[w].entry = job[w].entry
        /\ \A v \in Workers \ {w} : job'[v] = job[v]
    BY <1>1, <2>1 DEF Job
  <2> QED
    BY <1>2, <1>3, <2>2 DEF EndRetrieval
<1>4. CASE Leave(w)
  BY <1>1, <1>2, <1>4 DEF Leave, Goto
<1>5. CASE Register(w) \/ Plan(w) \/ Poll(w) \/ StoreFails(w)
  BY <1>2, <1>5 DEF Register, Plan, Poll, StoreFails
<1>6. CASE AppendEvent(w)
  BY <1>2, <1>6, AppendNames DEF AppendEvent
<1>7. CASE ReadStatusToMark(w) \/ Mark(w)
  BY <1>1, <1>2, <1>7 DEF ReadStatusToMark, Mark
<1>8. CASE StorePlan(w) \/ Finalize(w) \/ Fail(w)
  BY <1>2, <1>8 DEF StorePlan, Finalize, Fail
<1> QED
  BY <1>3, <1>4, <1>5, <1>6, <1>7, <1>8 DEF Work

LEMMA StepTyped ==
  ASSUME TypeOK, Assigned, [Next]_vars
  PROVE  TypeOK'
<1>1. ASSUME NEW w \in Workers, NEW st \in Active, Snapshot(w, st)
      PROVE  TypeOK'
  <2>1. st \in DOMAIN Order /\ "snapshots" \in Counters
    BY StatusNames, StepNames DEF Active
  <2>2. status' \in [Searches -> Status]
    <3> DEFINE s == job[w].search
               next == Advance(status[s], st)
    <3>1. s \in Searches => next \in Status
      BY <1>1, <2>1, LiveStatus, OutcomeNames, AdvanceTyped DEF Snapshot
    <3>2. SetStatus(s, next)
      BY <1>1 DEF Snapshot
    <3> HIDE DEF s, next
    <3> QED
      BY <3>1, <3>2, SetStatusTyped
  <2>3. StoreTyped'
    BY <1>1, <2>2, TypeParts DEF Snapshot, StoreTyped
  <2> QED
    BY <1>1, <2>1, <2>3, CountTyped, TypeParts, TypeNext
    DEF Snapshot, ThreadsTyped, BeatsTyped, RestTyped, threads, beats
<1>2. ASSUME NEW w \in Workers, StartBeat(w)
      PROVE  TypeOK'
  <2>1. Beating(job[w].search, FALSE, "wait") \in Hb
    BY TypeParts DEF ThreadsTyped, Jobs, Beating, Hb
  <2>2. BeatsTyped'
    BY <1>2, <2>1, TypeParts DEF StartBeat, BeatsTyped
  <2> QED
    BY <1>2, <2>2, TypeParts, TypeNext
    DEF StartBeat, StoreTyped, ThreadsTyped, RestTyped, store, threads
<1>3. ASSUME NEW w \in Workers, StoreFails(w)
      PROVE  TypeOK'
  <2>1. ThreadsTyped'
    BY <1>3, StepNames, MovesTyped DEF StoreFails
  <2> QED
    BY <1>3, <2>1, TypeParts, TypeNext
    DEF StoreFails, StoreTyped, BeatsTyped, RestTyped, store, beats
<1>4. ASSUME NEW w \in Workers, HeartbeatThread(w)
      PROVE  TypeOK'
  <2>1. /\ hb \in [Workers -> Hb] /\ NoBeat \in Hb
        /\ \A step \in {"wait", "write"} :
             Beating(hb[w].search, hb[w].stop, step) \in Hb
    BY RecordsTyped, TypeParts DEF BeatsTyped, Beating, Hb
  <2>2. BeatsTyped'
    BY <1>4, <2>1, TypeParts DEF HeartbeatThread, Beat, WriteBeat, EndBeat, BeatsTyped
  <2>3. log' \in [Searches -> Seq(Events)]
    <3> DEFINE s == hb[w].search
               longer == Append(log[s], "final_materialization_heartbeat")
    <3>1. log \in [Searches -> Seq(Events)]
      BY TypeParts DEF StoreTyped
    <3>2. s \in Searches => longer \in Seq(Events)
      BY <3>1 DEF Events
    <3>3. log' = log \/ log' = [log EXCEPT ![s] = longer]
      BY <1>4 DEF HeartbeatThread, Beat, WriteBeat, EndBeat, store
    <3> HIDE DEF s, longer
    <3> QED
      BY <3>1, <3>2, <3>3
  <2>4. StoreTyped' /\ ThreadsTyped'
    BY <1>4, <2>3, TypeParts
    DEF HeartbeatThread, Beat, WriteBeat, EndBeat, StoreTyped, ThreadsTyped, store, threads
  <2>5. RestTyped'
    BY <1>4, CountTyped, StepNames, TypeParts
    DEF HeartbeatThread, Beat, WriteBeat, EndBeat, RestTyped
  <2> QED
    BY <2>2, <2>4, <2>5, TypeNext
<1>5. ASSUME NEW s \in Searches, NEW k \in Keys, Cancel(s, k)
      PROVE  TypeOK'
  <2>1. "cancelled" \in Status
    BY StatusNames DEF Status
  <2>2. log' \in [Searches -> Seq(Events)]
    <3> DEFINE longer == Append(log[s], "search_cancelled")
    <3>1. log \in [Searches -> Seq(Events)]
      BY TypeParts DEF StoreTyped
    <3>2. longer \in Seq(Events)
      BY <3>1 DEF Events
    <3>3. log' = [log EXCEPT ![s] = longer]
      BY <1>5 DEF Cancel
    <3> HIDE DEF longer
    <3> QED
      BY <3>1, <3>2, <3>3
  <2>3. keys' \in [Searches -> SUBSET Keys]
    BY <1>5, TypeParts DEF Cancel, StoreTyped
  <2>4. StoreTyped'
    BY <1>5, <2>1, <2>2, <2>3, SetStatusTyped, TypeParts DEF Cancel, StoreTyped
  <2> QED
    BY <1>5, <2>4, TypeParts, TypeNext
    DEF Cancel, ThreadsTyped, BeatsTyped, RestTyped, threads, beats
<1>6. ASSUME NEW r \in Streams, (\E s \in Searches : OpenStream(r, s)) \/ Follow(r)
      PROVE  TypeOK'
  <2>1. /\ stream \in [Streams -> Streaming]
        /\ \A s \in Searches : Len(log[s]) \in Nat
    BY TypeParts DEF RestTyped, StoreTyped
  <2>2. stream' \in [Streams -> Streaming]
    <3>1. CASE \E s \in Searches : OpenStream(r, s)
      BY <3>1, <2>1 DEF OpenStream, Reading, Streaming
    <3>2. CASE ReadEvents(r)
      <4> DEFINE s == stream[r].search
                 fresh == stream[r].seq + 1 .. Len(log[s])
                 seq == IF fresh = {} THEN stream[r].seq ELSE Len(log[s])
                 step == IF \E i \in fresh : log[s][i] \in Closing
                         THEN "closed" ELSE "status"
      <4>0. stream' = [stream EXCEPT ![r] = Reading(s, seq, step, fresh = {})]
        BY <3>2 DEF ReadEvents
      <4>1. s \in Searches /\ step \in {"closed", "status"}
        BY <3>2 DEF Assigned, ReadEvents
      <4>2. seq \in Nat
        BY <2>1, <4>1 DEF Streaming
      <4>3. Reading(s, seq, step, fresh = {}) \in Streaming
        BY <4>1, <4>2 DEF Reading, Streaming
      <4> QED
        BY <2>1, <4>0, <4>3
    <3>3. CASE ReadStatus(r)
      BY <3>3, <2>1 DEF ReadStatus, Reading, Streaming
    <3> QED
      BY <1>6, <3>1, <3>2, <3>3 DEF Follow
  <2> QED
    BY <1>6, <2>2, TypeParts, TypeNext
    DEF OpenStream, Follow, ReadEvents, ReadStatus, StoreTyped, ThreadsTyped,
        BeatsTyped, RestTyped, store, threads, beats
<1>7. CASE PlanRetention
  BY <1>7, CountTyped, StepNames, TypeParts, TypeNext
  DEF PlanRetention, StoreTyped, ThreadsTyped, BeatsTyped, RestTyped, store, threads, beats
<1>8. CASE Retain
  <2>1. "deleted" \in Status /\ <<>> \in Seq(Events)
    BY DEF Status, Gone
  <2>2. StoreTyped'
    BY <1>8, <2>1, TypeParts DEF Retain, StoreTyped
  <2> QED
    BY <1>8, <2>2, TypeParts, TypeNext
    DEF Retain, ThreadsTyped, BeatsTyped, RestTyped, threads, beats
<1>9. CASE Restart
  <2>1. "failed" \in Status /\ "failed" \in Outcomes /\ "search_failed" \in Events
    BY StatusNames, AppendNames DEF Status, Outcomes, Appends
  <2>2. log' \in [Searches -> Seq(Events)]
    <3> DEFINE more(s) == IF Interrupted(s) THEN Append(log[s], "search_failed")
                          ELSE log[s]
    <3>1. \A s \in Searches : more(s) \in Seq(Events)
      <4>1. log \in [Searches -> Seq(Events)]
        BY TypeParts DEF StoreTyped
      <4> QED
        BY <4>1, <2>1
    <3>2. log' = [s \in Searches |-> more(s)]
      BY <1>9 DEF Restart
    <3> HIDE DEF more
    <3> QED
      BY <3>1, <3>2
  <2>3. StoreTyped'
    BY <1>9, <2>1, <2>2, TypeParts DEF Restart, StoreTyped
  <2>4. ThreadsTyped' /\ BeatsTyped'
    BY <1>9, RecordsTyped, StepNames DEF Restart, ThreadsTyped, BeatsTyped
  <2>5. RestTyped'
    <3>1. stream' \in [Streams -> Streaming]
      BY <1>9, TypeParts DEF Restart, RestTyped, Reading, Streaming
    <3> QED
      BY <1>9, <3>1, CountTyped, StepNames DEF Restart, RestTyped
  <2> QED
    BY <2>3, <2>4, <2>5, TypeNext
<1>10. CASE UNCHANGED vars
  BY <1>10, TypeParts, TypeNext
  DEF vars, store, threads, beats, StoreTyped, ThreadsTyped, BeatsTyped, RestTyped
<1> QED
  BY <1>1, <1>2, <1>3, <1>4, <1>5, <1>6, <1>7, <1>8, <1>9, <1>10, BeginTyped,
     QueryRunTyped, WorkTyped DEF Next

LEMMA AssignedStep ==
  ASSUME TypeOK, Assigned, [Next]_vars
  PROVE  Assigned'
<1>0. /\ pc \in [Workers -> Steps] /\ job \in [Workers -> Jobs]
      /\ stream \in [Streams -> Streaming]
  BY TypeParts DEF ThreadsTyped, RestTyped
<1>1. ASSUME NEW w \in Workers, Work(w) \/ StoreFails(w)
      PROVE  Assigned'
  <2>1. stream' = stream
    BY <1>1
    DEF Work, Register, Leave, Plan, AppendEvent, Poll, ReadStatusToMark, Mark,
        StorePlan, Finalize, Fail, EndRetrieval, StoreFails
  <2> QED
    BY <1>1, <2>1, OneThreadMoves DEF Assigned
<1>2. ASSUME NEW w \in Workers, NEW s \in Searches,
             (\E entry \in Entries : Begin(w, s, entry)) \/ QueryRun(w, s)
      PROVE  Assigned'
  <2>1. /\ stream' = stream /\ job'[w].search = s
        /\ \A v \in Workers \ {w} : pc'[v] = pc[v] /\ job'[v] = job[v]
    BY <1>0, <1>2 DEF Begin, QueryRun, Goto, Job
  <2> QED
    BY <2>1 DEF Assigned
<1>3. ASSUME NEW r \in Streams, (\E s \in Searches : OpenStream(r, s)) \/ Follow(r)
      PROVE  Assigned'
  <2>1. /\ UNCHANGED threads
        /\ \A q \in Streams \ {r} : stream'[q] = stream[q]
        /\ stream'[r].search \in Searches
    BY <1>0, <1>3
    DEF Assigned, OpenStream, Follow, ReadEvents, ReadStatus, Reading, threads
  <2> QED
    BY <2>1 DEF Assigned, threads
<1>4. CASE Restart
  BY <1>0, <1>4 DEF Restart, Assigned, Reading
<1>5. UNCHANGED <<pc, job, stream>> => Assigned'
  BY DEF Assigned
<1>6. ASSUME NEW w \in Workers,
             (\E st \in Active : Snapshot(w, st)) \/ StartBeat(w) \/ HeartbeatThread(w)
      PROVE  UNCHANGED <<pc, job, stream>>
  BY <1>6 DEF Snapshot, StartBeat, HeartbeatThread, Beat, WriteBeat, EndBeat, threads
<1>7. ASSUME \/ \E s \in Searches : \E k \in Keys : Cancel(s, k)
             \/ PlanRetention \/ Retain \/ UNCHANGED vars
      PROVE  UNCHANGED <<pc, job, stream>>
  BY <1>7 DEF Cancel, PlanRetention, Retain, vars, threads
<1> QED
  BY <1>1, <1>2, <1>3, <1>4, <1>5, <1>6, <1>7 DEF Next

(* Every reachable state is well typed.                                    *)
THEOREM Typed == Spec => [](TypeOK /\ Assigned)
<1>1. Init => TypeOK /\ Assigned
  <2>1. ASSUME Init PROVE TypeOK
    <3>1. /\ NoJob \in Jobs /\ NoBeat \in Hb /\ "idle" \in Steps
          /\ "absent" \in Status /\ <<>> \in Seq(Events)
      BY RecordsTyped, StepNames DEF Status, Gone
    <3>2. StoreTyped /\ ThreadsTyped /\ BeatsTyped
      BY <2>1, <3>1 DEF Init, StoreTyped, ThreadsTyped, BeatsTyped
    <3>3. RestTyped
      BY <2>1 DEF Init, RestTyped, Reading, Streaming
    <3> QED
      BY <3>2, <3>3, TypeParts
  <2> QED
    BY <2>1 DEF Init, Assigned, Reading
<1>2. TypeOK /\ Assigned /\ [Next]_vars => TypeOK' /\ Assigned'
  BY StepTyped, AssignedStep
<1> QED
  BY <1>1, <1>2, PTL DEF Spec

(* TypeOK holds of every execution: statuses, steps and events have names  *)
(* the code knows, whatever the number of threads and searches.            *)
THEOREM TypeCorrect == Spec => []TypeOK
  BY Typed, PTL

-----------------------------------------------------------------------------
(* NoOrphan is inductive with the types: a status becomes running or       *)
(* finalizing only by a step of a thread that stays in its run, and a      *)
(* thread leaves its run only by a step that ends the search.              *)

LEMMA RunNames ==
  /\ RunSteps = {"started", "retrieve", "early", "savePlanLate", "finalize",
                 "raised", "fail"}
  /\ Active = {"running", "finalizing"}
  /\ Terminal = {"blocked", "cancelled", "completed", "failed"}
  BY DEF RunSteps, Active, Terminal

(* A run that goes on keeps the search from being orphaned, whoever else   *)
(* changes its status.                                                     *)
LEMMA RunKept ==
  ASSUME NoOrphan, NEW w \in Workers,
         \A v \in Workers \ {w} : pc'[v] = pc[v] /\ job'[v] = job[v],
         pc[w] \in RunSteps =>
           \/ pc'[w] \in RunSteps /\ job'[w].search = job[w].search
           \/ status'[job[w].search] \notin Active,
         \A s \in Searches : status'[s] \in Active =>
           \/ status[s] \in Active
           \/ pc'[w] \in RunSteps /\ job'[w].search = s
  PROVE  NoOrphan'
<1> SUFFICES ASSUME NEW s \in Searches, status'[s] \in Active
             PROVE  \E v \in Workers : job'[v].search = s /\ pc'[v] \in RunSteps
  BY DEF NoOrphan
<1>1. CASE pc'[w] \in RunSteps /\ job'[w].search = s
  BY <1>1
<1>2. CASE status[s] \in Active
  <2>1. PICK v \in Workers : job[v].search = s /\ pc[v] \in RunSteps
    BY <1>2 DEF NoOrphan
  <2> QED
    BY <2>1
<1> QED
  BY <1>1, <1>2

LEMMA FinalizeEnds ==
  ASSUME TypeOK, NEW s \in Searches, NEW out \in Outcomes, FinalizeSession(s, out)
  PROVE  /\ status'[s] \notin Active
         /\ \A t \in Searches \ {s} : status'[t] = status[t]
<1>0. status \in [Searches -> Status]
  BY TypeParts DEF StoreTyped
<1>1. CASE status[s] \in Gone \cup {"cancelled"}
  BY <1>0, <1>1, RunNames DEF FinalizeSession, Gone
<1>2. CASE status[s] \notin Gone \cup {"cancelled"}
  <2> DEFINE st == IF out \in {"completed", "review_required"} THEN out
                   ELSE Advance(status[s], out)
  <2>1. out \in {"blocked", "failed"} => Advance(status[s], out) \in Terminal
    BY <1>2, LiveStatus, AdvanceEnds, RunNames
  <2>2. st \notin Active
    BY <2>1, RunNames DEF Outcomes
  <2>3. SetStatus(s, st)
    BY <1>2 DEF FinalizeSession
  <2> HIDE DEF st
  <2> QED
    BY <1>0, <2>2, <2>3 DEF SetStatus
<1> QED
  BY <1>1, <1>2

LEMMA NoOrphanWork ==
  ASSUME TypeOK, Assigned, NoOrphan, NEW w \in Workers, Work(w) \/ StoreFails(w)
  PROVE  NoOrphan'
<1>0. /\ status \in [Searches -> Status] /\ pc \in [Workers -> Steps]
      /\ job \in [Workers -> Jobs] /\ job[w].search \in Searches
  BY OneThreadMoves, TypeParts DEF StoreTyped, ThreadsTyped, Assigned
<1>1. \A step : Goto(w, step) => pc'[w] = step
  BY <1>0 DEF Goto
<1>2. CASE Leave(w) \/ Register(w) \/ Plan(w) \/ Poll(w) \/ ReadStatusToMark(w)
  <2>1. pc[w] \notin RunSteps /\ status' = status
    BY <1>2, RunNames DEF Leave, Register, Plan, Poll, ReadStatusToMark, store
  <2> QED
    BY <2>1, OneThreadMoves, RunKept
<1>3. CASE AppendEvent(w)
  <2>1. /\ pc[w] \in DOMAIN Appends /\ status' = status
        /\ pc'[w] = Following(w) /\ job' = job
    BY <1>1, <1>3 DEF AppendEvent
  <2>2. pc[w] \in RunSteps => pc[w] \in {"started", "early", "raised"}
    BY <2>1, AppendNames, RunNames
  <2>3. pc[w] \in {"started", "early", "raised"} => Following(w) \in RunSteps
    BY RunNames DEF Following
  <2> QED
    BY <2>1, <2>2, <2>3, OneThreadMoves, RunKept
<1>4. CASE Mark(w)
  <2>1. pc'[w] \in RunSteps /\ job' = job
    BY <1>1, <1>4, RunNames DEF Mark, Following
  <2>2. \A s \in Searches \ {job[w].search} : status'[s] = status[s]
    BY <1>0, <1>4 DEF Mark, MarkRunning, SetStatus
  <2> QED
    BY <2>1, <2>2, OneThreadMoves, RunKept
<1>5. CASE StorePlan(w)
  <2>0. pc[w] \in {"savePlan", "savePlanLate"} /\ pc'[w] = Following(w) /\ job' = job
    BY <1>1, <1>5 DEF StorePlan
  <2>1. pc[w] = "savePlanLate" => Following(w) = "finalize"
    BY DEF Following
  <2>2. \A s \in Searches : status'[s] = status[s] \/ status'[s] = "planning"
    BY <1>0, <1>5 DEF StorePlan, SavePlan, SetStatus
  <2> QED
    BY <2>0, <2>1, <2>2, RunNames, OneThreadMoves, RunKept
<1>6. CASE Finalize(w)
  <2> DEFINE out == IF pc[w] = "finalPlan" THEN "failed"
                    ELSE IF pc[w] = "finalBlocked" THEN "blocked" ELSE job[w].out
  <2>1. out \in Outcomes
    BY <1>0 DEF Outcomes, Jobs
  <2>2. FinalizeSession(job[w].search, out)
    BY <1>6 DEF Finalize
  <2> HIDE DEF out
  <2> QED
    BY <1>0, <2>1, <2>2, FinalizeEnds, OneThreadMoves, RunKept
<1>7. CASE Fail(w)
  <2>1. /\ status'[job[w].search] \notin Active
        /\ \A s \in Searches \ {job[w].search} : status'[s] = status[s]
    BY <1>0, <1>7, RunNames DEF Fail, FailSession, SetStatus, Gone
  <2> QED
    BY <2>1, OneThreadMoves, RunKept
<1>8. CASE EndRetrieval(w)
  <2>1. pc'[w] \in RunSteps /\ status' = status /\ ~Leave(w)
    BY <1>1, <1>8, RunNames DEF EndRetrieval, store, Leave
  <2> QED
    BY <2>1, OneThreadMoves, RunKept
<1>9. CASE StoreFails(w)
  <2>1. pc[w] = "ready" /\ status' = status
    BY <1>9 DEF StoreFails, store
  <2> QED
    BY <2>1, RunNames, OneThreadMoves, RunKept
<1> QED
  BY <1>2, <1>3, <1>4, <1>5, <1>6, <1>7, <1>8, <1>9 DEF Work

LEMMA NoOrphanStep ==
  ASSUME TypeOK, Assigned, NoOrphan, [Next]_vars
  PROVE  NoOrphan'
<1>0. /\ status \in [Searches -> Status] /\ pc \in [Workers -> Steps]
      /\ job \in [Workers -> Jobs]
  BY TypeParts DEF StoreTyped, ThreadsTyped
<1>1. ASSUME NEW w \in Workers, NEW s \in Searches,
             (\E entry \in Entries : Begin(w, s, entry)) \/ QueryRun(w, s)
      PROVE  NoOrphan'
  <2>1. /\ pc[w] \notin RunSteps
        /\ \A v \in Workers \ {w} : pc'[v] = pc[v] /\ job'[v] = job[v]
        /\ \A t \in Searches : status'[t] = status[t] \/ status'[t] = "created"
    BY <1>0, <1>1, RunNames DEF Begin, QueryRun, Goto, SetStatus, store
  <2> QED
    BY <2>1, RunNames, RunKept
<1>2. ASSUME NEW w \in Workers, NEW st \in Active, Snapshot(w, st)
      PROVE  NoOrphan'
  <2>1. /\ pc[w] \in RunSteps /\ UNCHANGED <<pc, job>>
        /\ \A s \in Searches \ {job[w].search} : status'[s] = status[s]
    BY <1>0, <1>2, RunNames DEF Snapshot, SetStatus, threads
  <2> QED
    BY <2>1, RunKept
<1>3. ASSUME UNCHANGED <<pc, job>>,
             \A s \in Searches : status'[s] = status[s] \/ status'[s] \notin Active
      PROVE  NoOrphan'
  BY <1>3 DEF NoOrphan
<1>4. ASSUME NEW w \in Workers, StartBeat(w) \/ HeartbeatThread(w)
      PROVE  NoOrphan'
  BY <1>3, <1>4 DEF StartBeat, HeartbeatThread, Beat, WriteBeat, EndBeat, store, threads
<1>5. ASSUME NEW s \in Searches, NEW k \in Keys, Cancel(s, k)
      PROVE  NoOrphan'
  <2>1. UNCHANGED <<pc, job>> /\ SetStatus(s, "cancelled")
    BY <1>5 DEF Cancel, threads
  <2> QED
    BY <1>0, <1>3, <2>1, RunNames DEF SetStatus
<1>6. ASSUME NEW r \in Streams, (\E s \in Searches : OpenStream(r, s)) \/ Follow(r)
      PROVE  NoOrphan'
  BY <1>3, <1>6 DEF OpenStream, Follow, ReadEvents, ReadStatus, store, threads
<1>7. CASE PlanRetention \/ UNCHANGED vars
  BY <1>3, <1>7 DEF PlanRetention, vars, store, threads
<1>8. CASE Retain
  BY <1>3, <1>8, RunNames DEF Retain, threads
<1>9. CASE Restart
  BY <1>9, RunNames DEF Restart, Interrupted, NoOrphan
<1> QED
  BY <1>1, <1>2, <1>4, <1>5, <1>6, <1>7, <1>8, <1>9, NoOrphanWork DEF Next

(* No failure, cancellation, second run, retention sweep or restart leaves *)
(* a search running or finalizing without a thread that will end it.       *)
THEOREM NeverOrphaned == Spec => []NoOrphan
<1>1. Init => NoOrphan
  BY RunNames DEF Init, NoOrphan
<1>2. TypeOK /\ Assigned /\ NoOrphan /\ [Next]_vars => NoOrphan'
  BY NoOrphanStep
<1> QED
  BY <1>1, <1>2, Typed, PTL DEF Spec

-----------------------------------------------------------------------------
(* CancelLostOnlyToMark needs no more than the types: every other writer    *)
(* of a status looks at it in the step that writes.                        *)

LEMMA CancelledKept ==
  ASSUME TypeOK, Assigned, [Next]_vars, NEW s \in Searches, status[s] = "cancelled",
         ~\E w \in Workers : WorksOn(w, s) /\ pc[w] = "mark"
                             /\ seen[w] \notin {NoStatus, "cancelled"}
  PROVE  status'[s] \in {"cancelled", "deleted"}
<1>0. status \in [Searches -> Status]
  BY TypeParts DEF StoreTyped
<1>1. ASSUME NEW w \in Workers, Work(w)
      PROVE  status'[s] = "cancelled"
  <2>1. CASE Mark(w)
    <3>1. CASE job[w].search = s
      <4>1. seen[w] = "cancelled"
        BY <2>1, <3>1 DEF Mark, WorksOn
      <4>2. Advance(seen[w], "running") = "cancelled"
        BY <4>1 DEF Advance, Terminal
      <4>3. MarkRunning(s, "cancelled") => status'[s] = "cancelled"
        BY <1>0, <4>1, <4>2 DEF MarkRunning, SetStatus
      <4> QED
        BY <2>1, <3>1, <4>1, <4>3 DEF Mark
    <3>2. CASE job[w].search # s
      BY <1>0, <2>1, <3>2 DEF Mark, MarkRunning, SetStatus
    <3> QED
      BY <3>1, <3>2
  <2>2. CASE StorePlan(w)
    BY <1>0, <2>2 DEF StorePlan, SavePlan, SetStatus
  <2>3. CASE Finalize(w)
    BY <1>0, <2>3 DEF Finalize, FinalizeSession, SetStatus
  <2>4. CASE Fail(w)
    BY <1>0, <2>4 DEF Fail, FailSession, SetStatus
  <2>5. CASE Register(w) \/ Leave(w) \/ Plan(w) \/ AppendEvent(w) \/ Poll(w)
             \/ ReadStatusToMark(w) \/ EndRetrieval(w)
    BY <2>5
    DEF Register, Leave, Plan, AppendEvent, Poll, ReadStatusToMark, EndRetrieval, store
  <2> QED
    BY <1>1, <2>1, <2>2, <2>3, <2>4, <2>5 DEF Work
<1>2. ASSUME NEW w \in Workers, NEW t \in Searches,
             (\E entry \in Entries : Begin(w, t, entry)) \/ QueryRun(w, t)
      PROVE  status'[s] = "cancelled"
  BY <1>0, <1>2 DEF Begin, QueryRun, SetStatus, store
<1>3. ASSUME NEW w \in Workers, NEW st \in Active, Snapshot(w, st)
      PROVE  status'[s] = "cancelled"
  BY <1>0, <1>3 DEF Snapshot, SetStatus
<1>4. ASSUME NEW w \in Workers, StartBeat(w) \/ StoreFails(w) \/ HeartbeatThread(w)
      PROVE  status'[s] = "cancelled"
  BY <1>4 DEF StartBeat, StoreFails, HeartbeatThread, Beat, WriteBeat, EndBeat, store
<1>5. ASSUME NEW t \in Searches, NEW k \in Keys, Cancel(t, k)
      PROVE  status'[s] = "cancelled"
  BY <1>0, <1>5 DEF Cancel, SetStatus
<1>6. ASSUME NEW r \in Streams, (\E t \in Searches : OpenStream(r, t)) \/ Follow(r)
      PROVE  status'[s] = "cancelled"
  BY <1>6 DEF OpenStream, Follow, ReadEvents, ReadStatus, store
<1>7. CASE PlanRetention \/ UNCHANGED vars
  BY <1>7 DEF PlanRetention, vars, store
<1>8. CASE Retain
  BY <1>8 DEF Retain
<1>9. CASE Restart
  BY <1>9 DEF Restart, Interrupted, Active
<1> QED
  BY <1>1, <1>2, <1>3, <1>4, <1>5, <1>6, <1>7, <1>8, <1>9 DEF Next

(* A cancellation is lost to nothing but a mark_search_running that read   *)
(* the status before it: no failure, finalizer, snapshot, plan, retention  *)
(* or restart undoes one.                                                  *)
THEOREM CancelOnlyLostToMark == Spec => CancelLostOnlyToMark
<1>1. TypeOK /\ Assigned /\ [Next]_vars =>
        [\A s \in Searches :
          (status[s] = "cancelled" /\ ~\E w \in Workers :
              WorksOn(w, s) /\ pc[w] = "mark" /\ seen[w] \notin {NoStatus, "cancelled"})
          => status'[s] \in {"cancelled", "deleted"}]_vars
  BY CancelledKept
<1> QED
  BY <1>1, Typed, PTL DEF Spec, CancelLostOnlyToMark

-----------------------------------------------------------------------------
(* OneWorker, from the registry: a background worker that is running a     *)
(* search, or about to, is the one the registry has.                       *)

Background == {"accepted", "mcp", "thread"}

Registered ==
  \A w \in Workers :
    \/ job[w].entry \in Background /\ pc[w] \in RunSteps \cup {"planned", "poll", "mark", "ready"}
    \/ job[w].entry = "accepted" /\ pc[w] \in {"plan", "savePlan"}
    => reg[job[w].search] = w

LEMMA RegisteredOthers ==
  ASSUME Registered, NEW w \in Workers,
         \A v \in Workers \ {w} : /\ pc'[v] = pc[v] /\ job'[v] = job[v]
                                  /\ reg[job[v].search] = v => reg'[job[v].search] = v,
         \/ job'[w].entry \in Background /\ pc'[w] \in RunSteps \cup {"planned", "poll", "mark", "ready"}
         \/ job'[w].entry = "accepted" /\ pc'[w] \in {"plan", "savePlan"}
         => reg'[job'[w].search] = w
  PROVE  Registered'
  BY DEF Registered

LEMMA RegisteredWork ==
  ASSUME TypeOK, Assigned, Registered, NEW w \in Workers, Work(w) \/ StoreFails(w)
  PROVE  Registered'
<1>0. /\ pc \in [Workers -> Steps] /\ job \in [Workers -> Jobs]
      /\ reg \in [Searches -> Workers \cup {NoWorker}] /\ job[w].search \in Searches
  BY OneThreadMoves, TypeParts DEF ThreadsTyped, Assigned
<1>1. \A step : Goto(w, step) => pc'[w] = step
  BY <1>0 DEF Goto
<1>2. CASE Leave(w)
  <2>1. pc'[w] = "idle" /\ \A v \in Workers \ {w} : pc'[v] = pc[v] /\ job'[v] = job[v]
    BY <1>1, <1>2, OneThreadMoves DEF Leave
  <2>2. \A v \in Workers \ {w} : job[v].search \in Searches /\ reg[job[v].search] = v
                                 => reg'[job[v].search] = v
    BY <1>0, <1>2 DEF Leave
  <2>3. \A v \in Workers \ {w} : pc[v] # "idle" => job[v].search \in Searches
    BY DEF Assigned
  <2> QED
    BY <2>1, <2>2, <2>3, RunNames DEF Registered
<1>3. CASE Register(w)
  <2>1. \A v \in Workers \ {w} : pc'[v] = pc[v] /\ job'[v] = job[v]
    BY <1>3, OneThreadMoves
  <2>2. CASE reg[job[w].search] # NoWorker
    <3>1. pc'[w] = "leave" /\ reg' = reg
      BY <1>1, <1>3, <2>2 DEF Register
    <3> QED
      BY <2>1, <3>1, RunNames, RegisteredOthers
  <2>3. CASE reg[job[w].search] = NoWorker
    <3>1. reg' = [reg EXCEPT ![job[w].search] = w] /\ job' = job
      BY <1>3, <2>3 DEF Register
    <3>2. \A v \in Workers : v # NoWorker
      BY SearchAssumption
    <3> QED
      BY <1>0, <2>1, <2>3, <3>1, <3>2, RegisteredOthers
  <2> QED
    BY <2>2, <2>3
<1>4. ASSUME reg' = reg, job'[w].search = job[w].search, job'[w].entry = job[w].entry,
             \A v \in Workers \ {w} : pc'[v] = pc[v] /\ job'[v] = job[v],
             \/ /\ pc'[w] \in RunSteps \cup {"planned", "poll", "mark", "ready"}
                /\ \/ pc[w] \in RunSteps \cup {"planned", "poll", "mark", "ready"}
                   \/ job[w].entry = "accepted" /\ pc[w] \in {"plan", "savePlan"}
                   \/ job[w].entry \notin Background
             \/ /\ pc'[w] \in {"plan", "savePlan"}
                /\ \/ pc[w] \in {"plan", "savePlan"}
                   \/ job[w].entry # "accepted"
             \/ pc'[w] \notin RunSteps \cup {"planned", "poll", "mark", "ready",
                                             "plan", "savePlan"}
      PROVE  Registered'
  BY <1>4, RunNames DEF Registered, Background
<1>5. CASE Plan(w)
  <2>1. /\ reg' = reg /\ job' = job /\ pc[w] = "plan"
        /\ pc'[w] \in {"register", "savePlan", "failPlan", "again", "leave"}
    BY <1>1, <1>5 DEF Plan, Drops
  <2> QED
    BY <1>4, <1>5, <2>1, OneThreadMoves, RunNames
<1>6. CASE AppendEvent(w)
  <2>1. /\ reg' = reg /\ job' = job /\ pc[w] \in DOMAIN Appends
        /\ pc'[w] = Following(w)
    BY <1>1, <1>6 DEF AppendEvent
  <2>2. /\ pc[w] = "announce" =>
             \/ Following(w) = "register"
             \/ Following(w) = "plan" /\ job[w].entry # "accepted"
        /\ pc[w] = "planned" => Following(w) = "poll"
        /\ pc[w] \in {"readyPlan", "again"} => Following(w) \in {"leave", "failAgain"}
        /\ pc[w] = "eventBlocked" => Following(w) = "readyPlan"
        /\ pc[w] \in {"started", "early", "raised"} => Following(w) \in RunSteps
        /\ pc[w] = "ready" => Following(w) = "end"
    BY RunNames DEF Following
  <2>3. pc[w] \in {"announce", "planned", "readyPlan", "eventBlocked", "started",
                   "early", "ready", "raised", "again"}
    BY <2>1, AppendNames
  <2>4. \A v \in Workers \ {w} : pc'[v] = pc[v] /\ job'[v] = job[v]
    BY <1>6, OneThreadMoves
  <2>5. CASE pc[w] \in {"started", "early", "raised"}
    BY <1>4, <2>1, <2>2, <2>4, <2>5, RunNames
  <2>6. CASE pc[w] \in {"announce", "planned"}
    BY <1>4, <2>1, <2>2, <2>4, <2>6, RunNames
  <2>7. CASE pc[w] \in {"readyPlan", "again", "eventBlocked", "ready"}
    BY <1>4, <2>1, <2>2, <2>4, <2>7, RunNames
  <2> QED
    BY <2>3, <2>5, <2>6, <2>7
<1>7. CASE Poll(w)
  <2>1. /\ reg' = reg /\ job' = job /\ pc[w] = "poll"
        /\ pc'[w] \in {"mark", "leave"}
    BY <1>1, <1>7 DEF Poll, Drops
  <2> QED
    BY <1>4, <1>7, <2>1, OneThreadMoves, RunNames
<1>8. CASE ReadStatusToMark(w)
  BY <1>8 DEF ReadStatusToMark, Registered
<1>9. CASE Mark(w) \/ StorePlan(w) \/ Finalize(w) \/ Fail(w)
  <2>1. /\ reg' = reg /\ job' = job /\ pc'[w] = Following(w)
        /\ pc[w] \in {"mark", "savePlan", "savePlanLate", "finalPlan", "finalBlocked",
                      "finalize", "failPlan", "fail", "failAgain"}
    BY <1>1, <1>9 DEF Mark, StorePlan, Finalize, Fail
  <2>2. /\ pc[w] = "mark" => Following(w) = "started"
        /\ pc[w] = "savePlan" =>
             \/ job[w].entry = "accepted" /\ Following(w) = "planned"
             \/ job[w].entry = "sync" /\ Following(w) = "mark"
             \/ Following(w) = "leave"
        /\ pc[w] = "savePlanLate" => Following(w) = "finalize"
        /\ pc[w] = "finalize" => Following(w) = "ready"
        /\ pc[w] \in {"finalPlan", "finalBlocked"} =>
             Following(w) \in {"readyPlan", "eventBlocked"}
        /\ pc[w] \in {"failPlan", "fail", "failAgain"} =>
             Following(w) \in {"finalPlan", "again", "end", "leave"}
    BY DEF Following
  <2>3. "sync" \notin Background
    BY DEF Background
  <2> QED
    BY <1>4, <1>9, <2>1, <2>2, <2>3, OneThreadMoves, RunNames
<1>10. CASE EndRetrieval(w) \/ StoreFails(w)
  <2>1. /\ reg' = reg /\ ~Leave(w) /\ pc'[w] \in RunSteps
        /\ pc[w] \in {"retrieve", "ready"}
    BY <1>1, <1>10, RunNames DEF EndRetrieval, StoreFails, Leave
  <2> QED
    BY <1>4, <1>10, <2>1, OneThreadMoves, RunNames DEF Work
<1> QED
  BY <1>2, <1>3, <1>5, <1>6, <1>7, <1>8, <1>9, <1>10 DEF Work

LEMMA RegisteredStep ==
  ASSUME TypeOK, Assigned, Registered, [Next]_vars
  PROVE  Registered'
<1>0. /\ pc \in [Workers -> Steps] /\ job \in [Workers -> Jobs]
      /\ reg \in [Searches -> Workers \cup {NoWorker}]
      /\ \A v \in Workers : v # NoWorker
  BY SearchAssumption, TypeParts DEF ThreadsTyped
<1>1. ASSUME NEW w \in Workers, NEW s \in Searches, NEW entry \in Entries,
             Begin(w, s, entry)
      PROVE  Registered'
  BY <1>0, <1>1, RunNames DEF Begin, Goto, Registered
<1>2. ASSUME NEW w \in Workers, NEW s \in Searches, QueryRun(w, s)
      PROVE  Registered'
  <2> DEFINE j == Job(s, IF planned[s] THEN "thread" ELSE "accepted", "failed")
  <2>1. j.search = s
    BY DEF Job
  <2>2. /\ job' = [job EXCEPT ![w] = j] /\ reg' = [reg EXCEPT ![s] = w]
        /\ reg[s] = NoWorker
        /\ \A v \in Workers \ {w} : pc'[v] = pc[v]
    BY <1>0, <1>2 DEF QueryRun, Goto
  <2> HIDE DEF j
  <2> QED
    BY <1>0, <2>1, <2>2, RegisteredOthers
<1>3. ASSUME UNCHANGED threads PROVE Registered'
  BY <1>3 DEF Registered, threads
<1>4. ASSUME NEW w \in Workers,
             (\E st \in Active : Snapshot(w, st)) \/ StartBeat(w) \/ HeartbeatThread(w)
      PROVE  UNCHANGED threads
  BY <1>4 DEF Snapshot, StartBeat, HeartbeatThread, Beat, WriteBeat, EndBeat, threads
<1>5. ASSUME NEW r \in Streams, (\E s \in Searches : OpenStream(r, s)) \/ Follow(r)
      PROVE  UNCHANGED threads
  BY <1>5 DEF OpenStream, Follow, ReadEvents, ReadStatus, threads
<1>6. ASSUME \/ \E s \in Searches : \E k \in Keys : Cancel(s, k)
             \/ PlanRetention \/ Retain \/ UNCHANGED vars
      PROVE  UNCHANGED threads
  BY <1>6 DEF Cancel, PlanRetention, Retain, vars, threads
<1>7. CASE Restart
  BY <1>7, RunNames DEF Restart, Registered
<1> QED
  BY <1>1, <1>2, <1>3, <1>4, <1>5, <1>6, <1>7, RegisteredWork DEF Next

(* _SEARCH_THREADS keeps every two background workers off the same search, *)
(* however many requests to run it race.                                   *)
THEOREM NeverTwoWorkers == Spec => []OneWorker
<1>1. Init => Registered
  BY RunNames DEF Init, Registered
<1>2. TypeOK /\ Assigned /\ Registered /\ [Next]_vars => Registered'
  BY RegisteredStep
<1>3. Registered => OneWorker
  BY DEF Registered, OneWorker, Background
<1> QED
  BY <1>1, <1>2, <1>3, Typed, PTL DEF Spec

-----------------------------------------------------------------------------
(* HeartbeatOwned, from the heartbeat registry: a heartbeat not told to    *)
(* stop is the one the registry has for its search, so that the step by    *)
(* which a thread stops serving the search stops that heartbeat.           *)

Alive(w) == hb[w].pc # "off" /\ ~hb[w].stop

HbRegistered ==
  \A w \in Workers : Alive(w) =>
    hb[w].search \in Searches /\ hbReg[hb[w].search] = w

(* A thread that goes on serving keeps every heartbeat of its search owned. *)
LEMMA OwnedKept ==
  ASSUME HeartbeatOwned, NEW w \in Workers,
         \A v \in Workers \ {w} : pc'[v] = pc[v] /\ job'[v] = job[v],
         \A v \in Workers : Alive(v)' =>
           Alive(v) /\ hb'[v].search = hb[v].search,
         pc[w] \in RunSteps \cup {"ready", "end"} =>
           \/ pc'[w] \in RunSteps \cup {"ready", "end"} /\ job'[w].search = job[w].search
           \/ \A v \in Workers : Alive(v)' => hb[v].search # job[w].search
  PROVE  HeartbeatOwned'
<1> SUFFICES ASSUME NEW v \in Workers, hb'[v].pc # "off", ~hb'[v].stop
             PROVE  \E u \in Workers : /\ job'[u].search = hb'[v].search
                                       /\ pc'[u] \in RunSteps \cup {"ready", "end"}
  BY DEF HeartbeatOwned
<1>1. Alive(v)'
  BY DEF Alive
<1>2. hb'[v].search = hb[v].search /\ hb[v].pc # "off" /\ ~hb[v].stop
  BY <1>1 DEF Alive
<1>3. PICK u \in Workers : /\ job[u].search = hb[v].search
                           /\ pc[u] \in RunSteps \cup {"ready", "end"}
  BY <1>2 DEF HeartbeatOwned
<1> QED
  BY <1>1, <1>2, <1>3

(* Stopping a search's heartbeat leaves no heartbeat of it alive.          *)
LEMMA StopEnds ==
  ASSUME TypeOK, HbRegistered, NEW s \in Searches, StopBeat(s)
  PROVE  /\ HbRegistered'
         /\ \A v \in Workers : Alive(v)' =>
              Alive(v) /\ hb'[v] = hb[v] /\ hb[v].search # s
<1>0. hb \in [Workers -> Hb] /\ hbReg \in [Searches -> Workers \cup {NoWorker}]
  BY TypeParts DEF BeatsTyped
<1>1. ASSUME NEW v \in Workers, Alive(v)'
      PROVE  Alive(v) /\ hb'[v] = hb[v] /\ hb[v].search # s
  <2>1. CASE hbReg[s] = v
    <3>1. hb'[v].stop
      BY <2>1 DEF StopBeat, Beating
    <3> QED
      BY <1>1, <3>1 DEF Alive
  <2>2. CASE hbReg[s] # v
    <3>1. hb'[v] = hb[v]
      BY <2>2 DEF StopBeat
    <3> QED
      BY <1>1, <2>2, <3>1 DEF Alive, HbRegistered
  <2> QED
    BY <2>1, <2>2
<1>2. \A t \in Searches \ {s} : hbReg'[t] = hbReg[t]
  BY <1>0 DEF StopBeat
<1>3. HbRegistered'
  <2> SUFFICES ASSUME NEW v \in Workers, Alive(v)'
               PROVE  hb'[v].search \in Searches /\ hbReg'[hb'[v].search] = v
    BY DEF HbRegistered
  <2>1. Alive(v) /\ hb'[v] = hb[v] /\ hb[v].search # s
    BY <1>1
  <2> QED
    BY <1>2, <2>1 DEF HbRegistered
<1> QED
  BY <1>1, <1>3

LEMMA OwnedWork ==
  ASSUME TypeOK, Assigned, HbRegistered, HeartbeatOwned,
         NEW w \in Workers, Work(w) \/ StoreFails(w)
  PROVE  HbRegistered' /\ HeartbeatOwned'
<1>0. pc \in [Workers -> Steps] /\ job[w].search \in Searches
  BY OneThreadMoves, TypeParts DEF ThreadsTyped, Assigned
<1>1. \A step : Goto(w, step) => pc'[w] = step
  BY <1>0 DEF Goto
<1>2. ASSUME StopBeat(job[w].search)
      PROVE  HbRegistered' /\ HeartbeatOwned'
  <2>1. HbRegistered' /\ \A v \in Workers : Alive(v)' =>
          Alive(v) /\ hb'[v] = hb[v] /\ hb[v].search # job[w].search
    BY <1>0, <1>2, StopEnds
  <2> QED
    BY <2>1, OneThreadMoves, OwnedKept
<1>3. ASSUME UNCHANGED beats,
             \/ pc[w] \notin RunSteps \cup {"ready", "end"}
             \/ pc'[w] \in RunSteps \cup {"ready", "end"} /\ ~Leave(w)
      PROVE  HbRegistered' /\ HeartbeatOwned'
  <2>1. \A v \in Workers : (Alive(v)' <=> Alive(v)) /\ hb'[v].search = hb[v].search
    BY <1>3 DEF Alive, beats
  <2>2. HbRegistered'
    BY <1>3 DEF HbRegistered, Alive, beats
  <2> QED
    BY <1>3, <2>1, <2>2, OneThreadMoves, OwnedKept
<1>4. CASE Leave(w)
  BY <1>2, <1>3, <1>4, RunNames DEF Leave
<1>5. CASE AppendEvent(w)
  <2>1. CASE pc[w] \in {"early", "ready", "raised"}
    BY <1>2, <1>5, <2>1 DEF AppendEvent
  <2>2. CASE pc[w] = "started"
    <3>1. pc'[w] = Following(w) /\ UNCHANGED beats /\ ~Leave(w)
      BY <1>1, <1>5, <2>2 DEF AppendEvent, Leave
    <3>2. Following(w) = "retrieve"
      BY <2>2 DEF Following
    <3> QED
      BY <1>3, <3>1, <3>2, RunNames
  <2>3. CASE pc[w] \in {"announce", "planned", "readyPlan", "eventBlocked", "again"}
    BY <1>3, <1>5, <2>3, RunNames DEF AppendEvent
  <2> QED
    BY <1>5, <2>1, <2>2, <2>3, AppendNames DEF AppendEvent
<1>6. CASE Fail(w)
  BY <1>2, <1>3, <1>6, RunNames DEF Fail
<1>7. CASE StorePlan(w) \/ Finalize(w)
  <2>1. /\ UNCHANGED beats /\ ~Leave(w) /\ pc'[w] = Following(w)
        /\ pc[w] \in {"savePlan", "savePlanLate", "finalPlan", "finalBlocked", "finalize"}
    BY <1>1, <1>7 DEF StorePlan, Finalize, Leave
  <2>2. /\ pc[w] = "savePlanLate" => Following(w) = "finalize"
        /\ pc[w] = "finalize" => Following(w) = "ready"
    BY DEF Following
  <2> QED
    BY <1>3, <2>1, <2>2, RunNames
<1>8. CASE Register(w) \/ Plan(w) \/ Poll(w) \/ ReadStatusToMark(w) \/ Mark(w)
  BY <1>3, <1>8, RunNames DEF Register, Plan, Poll, ReadStatusToMark, Mark
<1>9. CASE EndRetrieval(w) \/ StoreFails(w)
  BY <1>1, <1>3, <1>9, RunNames DEF EndRetrieval, StoreFails, Leave
<1> QED
  BY <1>4, <1>5, <1>6, <1>7, <1>8, <1>9 DEF Work

LEMMA OwnedStep ==
  ASSUME TypeOK, Assigned, HbRegistered, HeartbeatOwned, [Next]_vars
  PROVE  HbRegistered' /\ HeartbeatOwned'
<1>0. /\ pc \in [Workers -> Steps] /\ job \in [Workers -> Jobs]
      /\ hb \in [Workers -> Hb] /\ hbReg \in [Searches -> Workers \cup {NoWorker}]
      /\ \A v \in Workers : v # NoWorker
  BY SearchAssumption, TypeParts DEF ThreadsTyped, BeatsTyped
<1>1. UNCHANGED beats => HbRegistered'
  BY DEF HbRegistered, Alive, beats
<1>2. ASSUME NEW w \in Workers, NEW s \in Searches,
             (\E entry \in Entries : Begin(w, s, entry)) \/ QueryRun(w, s)
      PROVE  HbRegistered' /\ HeartbeatOwned'
  <2>1. /\ UNCHANGED beats /\ pc[w] \notin RunSteps \cup {"ready", "end"}
        /\ \A v \in Workers \ {w} : pc'[v] = pc[v] /\ job'[v] = job[v]
    BY <1>0, <1>2, RunNames DEF Begin, QueryRun, Goto
  <2>2. \A v \in Workers : (Alive(v)' <=> Alive(v)) /\ hb'[v].search = hb[v].search
    BY <2>1 DEF Alive, beats
  <2> QED
    BY <1>1, <2>1, <2>2, OwnedKept
<1>3. ASSUME UNCHANGED <<pc, job>>, UNCHANGED beats
      PROVE  HbRegistered' /\ HeartbeatOwned'
  BY <1>1, <1>3 DEF HeartbeatOwned, beats
<1>4. ASSUME NEW w \in Workers, StartBeat(w)
      PROVE  HbRegistered' /\ HeartbeatOwned'
  <2> DEFINE s == job[w].search
  <2>1. /\ pc[w] = "retrieve" /\ s \in Searches /\ hbReg[s] = NoWorker
        /\ UNCHANGED <<pc, job>>
        /\ hbReg' = [hbReg EXCEPT ![s] = w]
        /\ hb' = [hb EXCEPT ![w] = Beating(s, FALSE, "wait")]
    BY <1>4 DEF StartBeat, Assigned, threads
  <2>2. /\ hb'[w].search = s /\ hbReg'[s] = w
        /\ \A v \in Workers \ {w} : hb'[v] = hb[v]
        /\ \A t \in Searches \ {s} : hbReg'[t] = hbReg[t]
    BY <1>0, <2>1 DEF Beating
  <2> HIDE DEF s
  <2>3. HbRegistered'
    <3> SUFFICES ASSUME NEW v \in Workers, Alive(v)'
                 PROVE  hb'[v].search \in Searches /\ hbReg'[hb'[v].search] = v
      BY DEF HbRegistered
    <3>1. CASE v = w
      BY <2>1, <2>2, <3>1
    <3>2. CASE v # w
      <4>1. hb'[v] = hb[v] /\ Alive(v)
        BY <2>2, <3>2 DEF Alive
      <4>2. hb[v].search \in Searches \ {s} /\ hbReg[hb[v].search] = v
        BY <1>0, <2>1, <4>1 DEF HbRegistered
      <4> QED
        BY <2>2, <4>1, <4>2
    <3> QED
      BY <3>1, <3>2
  <2>4. HeartbeatOwned'
    <3> SUFFICES ASSUME NEW v \in Workers, hb'[v].pc # "off", ~hb'[v].stop
                 PROVE  \E u \in Workers : /\ job'[u].search = hb'[v].search
                                           /\ pc'[u] \in RunSteps \cup {"ready", "end"}
      BY DEF HeartbeatOwned
    <3>1. CASE v = w
      BY <2>1, <2>2, <3>1, RunNames DEF s
    <3>2. CASE v # w
      BY <2>1, <2>2, <3>2 DEF HeartbeatOwned
    <3> QED
      BY <3>1, <3>2
  <2> QED
    BY <2>3, <2>4
<1>5. ASSUME NEW w \in Workers, HeartbeatThread(w)
      PROVE  HbRegistered' /\ HeartbeatOwned'
  <2>1. /\ UNCHANGED threads /\ hbReg' = hbReg
        /\ \A v \in Workers \ {w} : hb'[v] = hb[v]
        /\ \/ hb'[w].pc = "off"
           \/ /\ hb[w].pc # "off" /\ hb'[w].stop = hb[w].stop
              /\ hb'[w].search = hb[w].search
    BY <1>0, <1>5 DEF HeartbeatThread, Beat, WriteBeat, EndBeat, Beating, NoBeat
  <2>2. \A v \in Workers : Alive(v)' => Alive(v) /\ hb'[v].search = hb[v].search
    BY <2>1 DEF Alive
  <2>3. HbRegistered'
    BY <2>1, <2>2 DEF HbRegistered
  <2>4. HeartbeatOwned'
    BY <2>1, <2>2 DEF HeartbeatOwned, Alive, threads
  <2> QED
    BY <2>3, <2>4
<1>6. ASSUME NEW w \in Workers, NEW st \in Active, Snapshot(w, st)
      PROVE  UNCHANGED <<pc, job>> /\ UNCHANGED beats
  BY <1>6 DEF Snapshot, threads
<1>7. ASSUME NEW r \in Streams, (\E s \in Searches : OpenStream(r, s)) \/ Follow(r)
      PROVE  UNCHANGED <<pc, job>> /\ UNCHANGED beats
  BY <1>7 DEF OpenStream, Follow, ReadEvents, ReadStatus, threads
<1>8. ASSUME \/ \E s \in Searches : \E k \in Keys : Cancel(s, k)
             \/ PlanRetention \/ Retain \/ UNCHANGED vars
      PROVE  UNCHANGED <<pc, job>> /\ UNCHANGED beats
  BY <1>8 DEF Cancel, PlanRetention, Retain, vars, threads
<1>9. CASE Restart
  <2>1. \A v \in Workers : hb'[v].pc = "off"
    BY <1>9 DEF Restart, NoBeat, Beating
  <2> QED
    BY <2>1 DEF HbRegistered, Alive, HeartbeatOwned
<1> QED
  BY <1>2, <1>3, <1>4, <1>5, <1>6, <1>7, <1>8, <1>9, OwnedWork DEF Next

(* No thread leaves a search with its heartbeat still alive: whatever way  *)
(* the run ends, the heartbeat is stopped first.                           *)
THEOREM HeartbeatsOwned == Spec => []HeartbeatOwned
<1>1. Init => HbRegistered /\ HeartbeatOwned
  BY DEF Init, NoBeat, Beating, HbRegistered, Alive, HeartbeatOwned
<1>2. TypeOK /\ Assigned /\ HbRegistered /\ HeartbeatOwned /\ [Next]_vars
        => HbRegistered' /\ HeartbeatOwned'
  BY OwnedStep
<1> QED
  BY <1>1, <1>2, Typed, PTL DEF Spec

-----------------------------------------------------------------------------
(* RestartFailsOnlyInterrupted. A restart fails a fresh search only when   *)
(* its log shows that a run began; what has to be shown is that a thread   *)
(* then still serves the search: no way out of a run that is to be planned *)
(* leaves the search fresh with the beginning of a run in its log.         *)

Fresh == {"created", "planning"}

Began == {"worker_started", "planning_started_background",
          "planning_complete_background"}

Begun(s) == \E i \in 1..Len(log[s]) : log[s][i] \in Began

Known ==
  /\ \A w \in Workers : pc[w] # "idle" => status[job[w].search] # "absent"
  /\ \A s \in Searches : status[s] = "absent" => ~Begun(s) /\ reg[s] = NoWorker

(* A thread has marked the search running when it says that it started.    *)
MovedOn ==
  \A w \in Workers :
    /\ pc[w] = "started" => status[job[w].search] \notin Fresh
    /\ pc[w] # "mark" => seen[w] = NoStatus
    /\ pc[w] = "mark" /\ seen[w] \in Gone \ {NoStatus} => status[job[w].search] \in Gone
    /\ pc[w] = "planned" => job[w].entry = "accepted"

Planner == {"plan", "failPlan", "savePlan", "planned", "poll", "finalBlocked",
            "again", "failAgain"}

(* The registered worker of a fresh search is not on its way out.          *)
RegServes ==
  \A s \in Searches : reg[s] # NoWorker =>
    /\ job[reg[s]].search = s /\ pc[reg[s]] # "idle"
    /\ status[s] \in Fresh =>
         \/ pc[reg[s]] = "mark"
         \/ job[reg[s]].entry = "accepted" /\ pc[reg[s]] \in Planner

Registering(s) == \E w \in Workers :
  job[w].search = s /\ job[w].entry = "accepted" /\ pc[w] = "register"

BegunServed ==
  \A s \in Searches : status[s] \in Fresh /\ Begun(s)
                        => reg[s] # NoWorker \/ Registering(s)

LEMMA AdvanceFresh ==
  ASSUME NEW from \in DOMAIN Order, NEW to \in DOMAIN Order \ Fresh
  PROVE  Advance(from, to) \notin Fresh
  BY StatusNames DEF Advance, Terminal, Order, Fresh

LEMMA GoneFresh == Gone \cap Fresh = {} /\ "cancelled" \notin Fresh
  BY DEF Gone, Fresh

(* Marking a search running leaves no fresh one.                           *)
LEMMA MarkFresh ==
  ASSUME TypeOK, Assigned, MovedOn, NEW w \in Workers, Mark(w)
  PROVE  status'[job[w].search] \notin Fresh
<1> DEFINE s == job[w].search
<1>1. status \in [Searches -> Status] /\ s \in Searches
      /\ seen[w] \in Status \cup {NoStatus}
  BY TypeParts DEF StoreTyped, ThreadsTyped, Assigned, Mark
<1>2. CASE seen[w] \in Gone \/ status[s] \in Gone
  <2>1. status' = status /\ status[s] \in Gone
    BY <1>2 DEF Mark, MarkRunning, MovedOn
  <2> QED
    BY <2>1, GoneFresh
<1>3. CASE ~(seen[w] \in Gone \/ status[s] \in Gone)
  <2>1. seen[w] \in DOMAIN Order
    BY <1>1, <1>3 DEF Status, Mark
  <2>2. SetStatus(s, Advance(seen[w], "running"))
    BY <1>3 DEF Mark, MarkRunning
  <2>3. Advance(seen[w], "running") \notin Fresh
    BY <2>1, AdvanceFresh, StatusNames DEF Fresh
  <2> QED
    BY <1>1, <2>2, <2>3 DEF SetStatus
<1> QED
  BY <1>2, <1>3

(* Ending a search leaves no fresh one.                                    *)
LEMMA EndFresh ==
  ASSUME TypeOK, NEW s \in Searches,
         FailSession(s) \/ (\E out \in Outcomes : FinalizeSession(s, out))
  PROVE  /\ status'[s] \notin Fresh
         /\ status[s] \in Gone => status' = status
         /\ status[s] \notin Gone => status'[s] \notin Gone
         /\ \A t \in Searches \ {s} : status'[t] = status[t]
<1>0. status \in [Searches -> Status]
  BY TypeParts DEF StoreTyped
<1>1. CASE status[s] \in Gone \cup {"cancelled"}
  BY <1>1, GoneFresh DEF FailSession, FinalizeSession
<1>2. CASE status[s] \notin Gone \cup {"cancelled"} /\ FailSession(s)
  BY <1>0, <1>2 DEF FailSession, SetStatus, Fresh, Gone
<1>3. ASSUME status[s] \notin Gone \cup {"cancelled"}, NEW out \in Outcomes,
             FinalizeSession(s, out)
      PROVE  /\ status'[s] \notin Fresh \cup Gone
             /\ \A t \in Searches \ {s} : status'[t] = status[t]
  <2> DEFINE st == IF out \in {"completed", "review_required"} THEN out
                   ELSE Advance(status[s], out)
  <2>1. status[s] \in DOMAIN Order /\ out \in DOMAIN Order \ Fresh
    BY <1>3, LiveStatus, OutcomeNames DEF Outcomes, Fresh
  <2>2. Advance(status[s], out) \in DOMAIN Order \ Fresh
    BY <2>1, AdvanceFresh, AdvanceTyped
  <2>3. st \notin Fresh \cup Gone
    BY <2>1, <2>2, StatusNames
  <2>4. SetStatus(s, st)
    BY <1>3 DEF FinalizeSession
  <2> HIDE DEF st
  <2> QED
    BY <1>0, <2>3, <2>4 DEF SetStatus
<1> QED
  BY <1>1, <1>2, <1>3

(* What a thread's own step does to the statuses.                          *)
LEMMA WorkFresh ==
  ASSUME TypeOK, Assigned, MovedOn, Known, NEW w \in Workers, Work(w) \/ StoreFails(w)
  PROVE  /\ \A s \in Searches : status'[s] \in Fresh => status[s] \in Fresh
         /\ \A s \in Searches : status[s] \in Gone => status'[s] = status[s]
         /\ \A s \in Searches : status'[s] = "absent" => status[s] = "absent"
         /\ Mark(w) \/ Finalize(w) \/ Fail(w) => status'[job[w].search] \notin Fresh
<1>0. status \in [Searches -> Status] /\ job[w].search \in Searches
  BY OneThreadMoves, TypeParts DEF StoreTyped, Assigned
<1>1. CASE Mark(w)
  <2>1. /\ \A t \in Searches \ {job[w].search} : status'[t] = status[t]
        /\ status[job[w].search] \in Gone => status' = status
    BY <1>0, <1>1 DEF Mark, MarkRunning, SetStatus
  <2>2. status'[job[w].search] # "absent"
    <3>1. CASE status' = status
      BY <1>1, <3>1 DEF Known, Mark
    <3>2. CASE SetStatus(job[w].search, Advance(seen[w], "running")) /\ seen[w] \notin Gone
      <4>1. seen[w] \in DOMAIN Order
        BY <1>1, <3>2, TypeParts DEF Mark, ThreadsTyped, Status
      <4>2. Advance(seen[w], "running") # "absent"
        BY <4>1, AdvanceTyped, StatusNames DEF Gone
      <4> QED
        BY <1>0, <3>2, <4>2 DEF SetStatus
    <3> QED
      BY <1>1, <3>1, <3>2 DEF Mark, MarkRunning
  <2> QED
    BY <1>1, <2>1, <2>2, MarkFresh DEF Mark, Finalize, Fail
<1>2. CASE Finalize(w) \/ Fail(w)
  <2>1. \/ FailSession(job[w].search)
        \/ \E out \in Outcomes : FinalizeSession(job[w].search, out)
    <3>1. job[w].out \in Outcomes /\ "failed" \in Outcomes /\ "blocked" \in Outcomes
      BY TypeParts DEF ThreadsTyped, Jobs, Outcomes
    <3> QED
      BY <1>2, <3>1 DEF Finalize, Fail
  <2> QED
    BY <1>0, <2>1, EndFresh DEF Gone
<1>3. CASE StorePlan(w)
  <2>1. ~(Mark(w) \/ Finalize(w) \/ Fail(w))
    BY <1>3 DEF StorePlan, Mark, Finalize, Fail
  <2> QED
    BY <1>0, <1>3, <2>1 DEF StorePlan, SavePlan, SetStatus, Fresh, Gone
<1>4. CASE Register(w) \/ Leave(w) \/ Plan(w) \/ AppendEvent(w) \/ Poll(w)
           \/ ReadStatusToMark(w) \/ EndRetrieval(w) \/ StoreFails(w)
  <2>1. status' = status /\ ~(Finalize(w) \/ Fail(w))
    BY <1>4, AppendNames
    DEF Register, Leave, Plan, AppendEvent, Poll, ReadStatusToMark, EndRetrieval,
        StoreFails, Finalize, Fail, store
  <2> QED
    BY <1>1, <2>1
<1> QED
  BY <1>1, <1>2, <1>3, <1>4 DEF Work

(* The steps of a thread, in the order it takes them.                      *)
LEMMA Moves ==
  ASSUME TypeOK, NEW w \in Workers, Work(w) \/ StoreFails(w), ~Leave(w)
  PROVE  /\ pc'[w] # "idle" /\ pc[w] \notin {"end", "leave", "idle"}
         /\ pc'[w] = "started" => Mark(w)
         /\ pc[w] = "register" <=> Register(w)
         /\ pc'[w] = "planned" => job[w].entry = "accepted"
         /\ pc[w] = "mark" => pc'[w] = "mark" \/ Mark(w)
         /\ job[w].entry = "accepted" /\ pc[w] \in Planner =>
              \/ pc'[w] \in Planner \cup {"mark"} \/ Finalize(w) \/ Fail(w)
              \/ status[job[w].search] = "cancelled" /\ status' = status
<1>0. pc \in [Workers -> Steps]
  BY TypeParts DEF ThreadsTyped
<1>1. \A step : Goto(w, step) => pc'[w] = step
  BY <1>0 DEF Goto
<1>2. CASE Register(w)
  BY <1>1, <1>2 DEF Register, Planner
<1>3. CASE Plan(w)
  <2>1. /\ pc[w] = "plan" /\ status' = status
        /\ \/ pc'[w] \in {"register", "savePlan"}
              /\ (job[w].entry = "accepted" => pc'[w] = "savePlan")
           \/ pc'[w] = "failPlan"
           \/ pc'[w] \in {"again", "leave"}
              /\ (job[w].entry = "accepted" => pc'[w] = "again")
           \/ pc'[w] = "leave" /\ status[job[w].search] = "cancelled"
    BY <1>1, <1>3 DEF Plan, Drops, store
  <2> QED
    BY <2>1 DEF Planner, Register
<1>4. CASE AppendEvent(w)
  <2>1. /\ pc[w] \in {"announce", "planned", "readyPlan", "eventBlocked", "started",
                      "early", "ready", "raised", "again"}
        /\ pc'[w] = Following(w)
    BY <1>1, <1>4, AppendNames DEF AppendEvent
  <2>2. /\ pc[w] = "announce" => Following(w) \in {"register", "plan"}
        /\ pc[w] = "planned" => Following(w) = "poll"
        /\ pc[w] = "readyPlan" => Following(w) = "leave"
        /\ pc[w] = "eventBlocked" => Following(w) = "readyPlan"
        /\ pc[w] = "started" => Following(w) = "retrieve"
        /\ pc[w] = "early" => Following(w) \in {"savePlanLate", "finalize"}
        /\ pc[w] = "ready" => Following(w) = "end"
        /\ pc[w] = "raised" => Following(w) = "fail"
        /\ pc[w] = "again" => Following(w) = "failAgain"
    BY DEF Following
  <2> QED
    BY <2>1, <2>2 DEF Planner, Register
<1>5. CASE Poll(w)
  <2>1. /\ pc[w] = "poll" /\ status' = status
        /\ \/ pc'[w] = "mark"
           \/ pc'[w] = "leave" /\ status[job[w].search] = "cancelled"
    BY <1>1, <1>5 DEF Poll, Drops, store
  <2> QED
    BY <2>1 DEF Planner, Register
<1>6. CASE ReadStatusToMark(w)
  BY <1>6 DEF ReadStatusToMark, Planner, Register
<1>7. CASE Mark(w)
  <2>1. pc[w] = "mark" /\ pc'[w] = "started"
    BY <1>1, <1>7 DEF Mark, Following
  <2> QED
    BY <1>7, <2>1 DEF Planner, Register
<1>8. CASE StorePlan(w) \/ Finalize(w) \/ Fail(w)
  <2>1. /\ pc[w] \in {"savePlan", "savePlanLate", "finalPlan", "finalBlocked",
                      "finalize", "failPlan", "fail", "failAgain"}
        /\ pc'[w] = Following(w)
        /\ pc[w] \in Planner /\ pc[w] # "savePlan" => Finalize(w) \/ Fail(w)
    BY <1>1, <1>8 DEF StorePlan, Finalize, Fail, Planner
  <2>2. /\ pc[w] = "savePlan" =>
             \/ job[w].entry = "accepted" /\ Following(w) = "planned"
             \/ job[w].entry # "accepted" /\ Following(w) \in {"mark", "leave"}
        /\ pc[w] = "savePlanLate" => Following(w) = "finalize"
        /\ pc[w] = "finalize" => Following(w) = "ready"
        /\ pc[w] = "finalPlan" => Following(w) = "readyPlan"
        /\ pc[w] = "finalBlocked" => Following(w) = "eventBlocked"
        /\ pc[w] = "failPlan" => Following(w) = "finalPlan"
        /\ pc[w] = "fail" => Following(w) \in {"again", "end"}
        /\ pc[w] = "failAgain" => Following(w) = "leave"
    BY DEF Following
  <2> QED
    BY <2>1, <2>2 DEF Planner, Register
<1>9. CASE EndRetrieval(w) \/ StoreFails(w)
  <2>1. /\ pc[w] \in {"retrieve", "ready"}
        /\ pc'[w] \in {"savePlanLate", "finalize", "early", "raised"}
    BY <1>1, <1>9 DEF EndRetrieval, StoreFails
  <2> QED
    BY <2>1 DEF Planner, Register
<1> QED
  BY <1>2, <1>3, <1>4, <1>5, <1>6, <1>7, <1>8, <1>9 DEF Work

LEMMA AppendBegun ==
  ASSUME TypeOK, NEW s \in Searches, NEW event \in Events, AppendTo(s, event)
  PROVE  /\ \A t \in Searches : Begun(t)' => Begun(t) \/ (t = s /\ event \in Began)
         /\ \A t \in Searches : Begun(t) => Begun(t)'
         /\ status[s] = "absent" => log' = log
<1>0. log \in [Searches -> Seq(Events)]
  BY TypeParts DEF StoreTyped
<1>1. CASE log' = log
  BY <1>1 DEF Begun
<1>2. CASE log' = [log EXCEPT ![s] = Append(@, event)] /\ status[s] # "absent"
  <2>1. log'[s] = Append(log[s], event) /\ \A t \in Searches \ {s} : log'[t] = log[t]
    BY <1>0, <1>2
  <2>2. /\ Len(log'[s]) = Len(log[s]) + 1 /\ Len(log[s]) \in Nat
        /\ log'[s][Len(log[s]) + 1] = event
        /\ \A i \in 1..Len(log[s]) : log'[s][i] = log[s][i]
    BY <1>0, <2>1
  <2>3. \A i \in 1..Len(log'[s]) : i \in 1..Len(log[s]) \/ i = Len(log[s]) + 1
    BY <2>2
  <2>4. 1..Len(log[s]) \subseteq 1..Len(log'[s])
    BY <2>2
  <2> QED
    BY <1>2, <2>1, <2>2, <2>3, <2>4 DEF Begun
<1> QED
  BY <1>1, <1>2 DEF AppendTo, Gone

(* Which steps of a thread begin a run, in the log.                        *)
LEMMA WorkBegun ==
  ASSUME TypeOK, Assigned, NEW w \in Workers, Work(w) \/ StoreFails(w),
         NEW s \in Searches
  PROVE  /\ Begun(s)' => \/ Begun(s)
                         \/ /\ s = job[w].search /\ AppendEvent(w)
                            /\ \/ pc[w] = "announce" /\ job[w].entry = "accepted"
                               \/ pc[w] \in {"planned", "started"}
         /\ Begun(s) => Begun(s)'
         /\ status[s] = "absent" /\ status[job[w].search] # "absent" => log'[s] = log[s]
<1>1. CASE AppendEvent(w)
  <2>1. job[w].search \in Searches /\ EventOf(w) \in Events
    <3>1. pc[w] # "idle" /\ pc[w] \in DOMAIN Appends
      BY <1>1, AppendNames DEF AppendEvent
    <3> QED
      BY <3>1, AppendNames DEF Assigned, EventOf, Events
  <2>2. EventOf(w) \in Began =>
          \/ pc[w] = "announce" /\ job[w].entry = "accepted"
          \/ pc[w] \in {"planned", "started"}
    <3>1. pc[w] \in {"announce", "planned", "readyPlan", "eventBlocked", "started",
                     "early", "ready", "raised", "again"}
      BY <1>1, AppendNames DEF AppendEvent
    <3> QED
      BY <3>1 DEF EventOf, Appends, Began
  <2>3. AppendTo(job[w].search, EventOf(w))
    BY <1>1 DEF AppendEvent
  <2>4. s # job[w].search => log'[s] = log[s]
    BY <2>1, <2>3, TypeParts DEF AppendTo, StoreTyped
  <2> QED
    BY <1>1, <2>1, <2>2, <2>3, <2>4, AppendBegun
<1>2. CASE ~AppendEvent(w)
  <2>1. log' = log
    BY <1>2
    DEF Work, Register, Leave, Plan, Poll, ReadStatusToMark, Mark, StorePlan, Finalize,
        Fail, EndRetrieval, StoreFails, store
  <2> QED
    BY <2>1 DEF Begun
<1> QED
  BY <1>1, <1>2

Recovering == Known /\ MovedOn /\ RegServes /\ BegunServed

LEMMA LeaveRecovering ==
  ASSUME TypeOK, Assigned, Recovering, NEW w \in Workers, Leave(w)
  PROVE  Recovering'
<1>0. /\ status' = status /\ log' = log /\ seen' = seen /\ pc[w] \in {"end", "leave"}
      /\ pc'[w] = "idle" /\ \A s \in Searches : Begun(s)' = Begun(s)
      /\ \A v \in Workers \ {w} : pc'[v] = pc[v] /\ job'[v] = job[v]
      /\ reg' = [s \in Searches |-> IF reg[s] = w THEN NoWorker ELSE reg[s]]
  BY OneThreadMoves, TypeParts DEF Work, Leave, Goto, ThreadsTyped, Begun, store
<1>1. \A v \in Workers : v # NoWorker
  BY SearchAssumption
<1>2. reg \in [Searches -> Workers \cup {NoWorker}]
  BY TypeParts DEF ThreadsTyped
<1>3. Known'
  BY <1>0, <1>1 DEF Recovering, Known
<1>4. MovedOn'
  BY <1>0 DEF Recovering, MovedOn
<1>5. RegServes'
  <2>1. \A s \in Searches : reg'[s] # NoWorker => reg'[s] = reg[s] /\ reg[s] \in Workers \ {w}
    BY <1>0, <1>2
  <2> QED
    BY <1>0, <2>1 DEF Recovering, RegServes
<1>6. BegunServed'
  <2> SUFFICES ASSUME NEW s \in Searches, status[s] \in Fresh, Begun(s)
               PROVE  reg'[s] # NoWorker \/ Registering(s)'
    BY <1>0 DEF BegunServed
  <2>1. CASE reg[s] # NoWorker
    <3>1. reg[s] # w
      BY <1>0, <2>1 DEF Recovering, RegServes, Planner
    <3> QED
      BY <1>0, <2>1, <3>1
  <2>2. CASE Registering(s)
    BY <1>0, <2>2 DEF Registering
  <2> QED
    BY <2>1, <2>2 DEF Recovering, BegunServed
<1> QED
  BY <1>3, <1>4, <1>5, <1>6 DEF Recovering

LEMMA WorkRecovering ==
  ASSUME TypeOK, Assigned, Registered, Recovering, NEW w \in Workers,
         Work(w) \/ StoreFails(w), ~Leave(w)
  PROVE  Recovering'
<1> USE DEF Recovering
<1>0. /\ job[w].search \in Searches /\ status[job[w].search] # "absent"
      /\ reg \in [Searches -> Workers \cup {NoWorker}] /\ w # NoWorker
      /\ pc[w] # "idle" /\ pc'[w] # "idle"
      /\ job'[w].search = job[w].search /\ job'[w].entry = job[w].entry
      /\ \A v \in Workers \ {w} :
           pc'[v] = pc[v] /\ job'[v] = job[v] /\ seen'[v] = seen[v]
  BY OneThreadMoves, Moves, TypeParts, SearchAssumption DEF Assigned, ThreadsTyped, Known
<1>1. /\ \A s \in Searches : status'[s] \in Fresh => status[s] \in Fresh
      /\ \A s \in Searches : status[s] \in Gone => status'[s] = status[s]
      /\ \A s \in Searches : status'[s] = "absent" => status[s] = "absent"
      /\ Mark(w) \/ Finalize(w) \/ Fail(w) => status'[job[w].search] \notin Fresh
  BY WorkFresh
<1>2. \/ reg' = reg
      \/ /\ Register(w) /\ reg[job[w].search] = NoWorker /\ job' = job
         /\ reg' = [reg EXCEPT ![job[w].search] = w]
         /\ \/ pc'[w] = "mark"
            \/ job[w].entry = "accepted" /\ pc'[w] \in Planner
  <2>1. CASE Register(w)
    <3>1. \A step : Goto(w, step) => pc'[w] = step
      BY TypeParts DEF Goto, ThreadsTyped
    <3> QED
      BY <2>1, <3>1 DEF Register, Planner
  <2>2. CASE ~Register(w)
    BY <2>2 DEF Work, Plan, AppendEvent, Poll, ReadStatusToMark, Mark, StorePlan,
                Finalize, Fail, EndRetrieval, StoreFails
  <2> QED
    BY <2>1, <2>2
<1>3. Known'
  <2>1. \A v \in Workers : pc'[v] # "idle" =>
          pc[v] # "idle" /\ job'[v].search = job[v].search /\ job[v].search \in Searches
    BY <1>0 DEF Assigned
  <2>2. ASSUME NEW s \in Searches, status'[s] = "absent"
        PROVE  ~Begun(s)' /\ reg'[s] = NoWorker
    BY <1>0, <1>1, <1>2, <2>2, WorkBegun DEF Known
  <2> QED
    BY <1>1, <2>1, <2>2 DEF Known
<1>4. MovedOn'
  <2>1. ASSUME NEW v \in Workers \ {w}
        PROVE  /\ pc'[v] = "started" => status'[job'[v].search] \notin Fresh
               /\ pc'[v] # "mark" => seen'[v] = NoStatus
               /\ pc'[v] = "mark" /\ seen'[v] \in Gone \ {NoStatus}
                    => status'[job'[v].search] \in Gone
               /\ pc'[v] = "planned" => job'[v].entry = "accepted"
    BY <1>0, <1>1 DEF MovedOn, Assigned
  <2>2. /\ pc'[w] = "started" => status'[job'[w].search] \notin Fresh
        /\ pc'[w] = "planned" => job'[w].entry = "accepted"
    BY <1>0, <1>1, Moves
  <2>3. /\ pc'[w] # "mark" => seen'[w] = NoStatus
        /\ pc'[w] = "mark" /\ seen'[w] \in Gone \ {NoStatus}
             => status'[job'[w].search] \in Gone
    <3>1. CASE ReadStatusToMark(w)
      BY <1>0, <3>1, TypeParts DEF ReadStatusToMark, ThreadsTyped, store
    <3>2. CASE Mark(w)
      BY <1>0, <3>2, TypeParts DEF Mark, ThreadsTyped
    <3>3. CASE ~ReadStatusToMark(w) /\ ~Mark(w)
      <4>1. seen' = seen /\ pc[w] # "mark"
        BY <3>3 DEF Work, Register, Plan, AppendEvent, Poll, StorePlan, Finalize,
                    Fail, EndRetrieval, StoreFails, Appends
      <4> QED
        BY <4>1 DEF MovedOn
    <3> QED
      BY <3>1, <3>2, <3>3
  <2> QED
    BY <2>1, <2>2, <2>3 DEF MovedOn
<1>5. RegServes'
  <2> SUFFICES ASSUME NEW s \in Searches, reg'[s] # NoWorker
               PROVE  /\ job'[reg'[s]].search = s /\ pc'[reg'[s]] # "idle"
                      /\ status'[s] \in Fresh =>
                           \/ pc'[reg'[s]] = "mark"
                           \/ job'[reg'[s]].entry = "accepted" /\ pc'[reg'[s]] \in Planner
    BY DEF RegServes
  <2>1. CASE reg'[s] = reg[s] /\ reg[s] # w
    BY <1>0, <1>1, <2>1 DEF RegServes
  <2>2. CASE reg'[s] = reg[s] /\ reg[s] = w
    <3>1. job[w].search = s /\ pc[w] # "idle"
          /\ (status[s] \in Fresh =>
                \/ pc[w] = "mark"
                \/ job[w].entry = "accepted" /\ pc[w] \in Planner)
      BY <1>0, <2>2 DEF RegServes
    <3> QED
      BY <1>0, <1>1, <2>2, <3>1, Moves, GoneFresh
  <2>3. CASE reg'[s] # reg[s]
    BY <1>0, <1>2, <2>3
  <2> QED
    BY <2>1, <2>2, <2>3
<1>6. BegunServed'
  <2> SUFFICES ASSUME NEW s \in Searches, status'[s] \in Fresh, Begun(s)'
               PROVE  reg'[s] # NoWorker \/ Registering(s)'
    BY DEF BegunServed
  <2>1. status[s] \in Fresh
    BY <1>1
  <2>2. CASE reg[s] # NoWorker
    BY <1>0, <1>2, <2>2
  <2>3. CASE Registering(s) /\ reg[s] = NoWorker
    <3>1. PICK v \in Workers :
            job[v].search = s /\ job[v].entry = "accepted" /\ pc[v] = "register"
      BY <2>3 DEF Registering
    <3>2. CASE v = w
      <4>1. Register(w)
        BY <3>1, <3>2, Moves
      <4> QED
        BY <1>0, <2>3, <3>1, <3>2, <4>1 DEF Register
    <3> QED
      BY <1>0, <3>1, <3>2 DEF Registering
  <2>4. CASE ~Begun(s)
    <3>1. /\ s = job[w].search /\ AppendEvent(w)
          /\ \/ pc[w] = "announce" /\ job[w].entry = "accepted"
             \/ pc[w] \in {"planned", "started"}
      BY <2>4, WorkBegun
    <3>2. CASE pc[w] = "announce" /\ job[w].entry = "accepted"
      <4>1. pc'[w] = "register"
        BY <3>1, <3>2, TypeParts DEF AppendEvent, Following, Goto, ThreadsTyped
      <4> QED
        BY <1>0, <3>1, <3>2, <4>1 DEF Registering
    <3>3. CASE pc[w] = "planned"
      <4>1. reg[s] = w
        BY <3>1, <3>3 DEF MovedOn, Registered, Background
      <4> QED
        BY <1>0, <1>2, <3>1, <4>1
    <3>4. pc[w] # "started"
      BY <2>1, <3>1 DEF MovedOn
    <3> QED
      BY <3>1, <3>2, <3>3, <3>4
  <2> QED
    BY <2>1, <2>2, <2>3, <2>4 DEF BegunServed
<1> QED
  BY <1>3, <1>4, <1>5, <1>6

LEMMA AppendBegins ==
  ASSUME log \in [Searches -> Seq(Events)], NEW s, NEW event \in Events,
         log' = [log EXCEPT ![s] = Append(@, event)], NEW t \in Searches, Begun(t)'
  PROVE  Begun(t) \/ (t = s /\ event \in Began)
<1>1. CASE t # s
  <2>1. log'[t] = log[t]
    BY <1>1
  <2> QED
    BY <2>1 DEF Begun
<1>2. CASE t = s
  <2>1. log'[t] = Append(log[t], event) /\ log[t] \in Seq(Events)
    BY <1>2
  <2>2. PICK i \in 1..Len(log'[t]) : log'[t][i] \in Began
    BY DEF Begun
  <2>3. CASE i \in 1..Len(log[t])
    BY <2>1, <2>2, <2>3 DEF Begun
  <2>4. CASE i = Len(log[t]) + 1
    BY <1>2, <2>1, <2>2, <2>4
  <2> QED
    BY <2>1, <2>2, <2>3, <2>4
<1> QED
  BY <1>1, <1>2

LEMMA OnlyRestartCrashes ==
  ASSUME TypeOK, [Next]_vars, used'["crashes"] # used["crashes"]
  PROVE  Restart
<1>1. \A c \in Counters \ {"crashes"}, max \in Nat : Count(c, max) => used'["crashes"] = used["crashes"]
  BY StepNames, TypeParts DEF Count, RestTyped
<1>2. {"runs", "snapshots", "beats", "sweeps"} \subseteq Counters \ {"crashes"}
  BY StepNames
<1> QED
  BY <1>1, <1>2, SearchAssumption
  DEF Next, vars, Begin, QueryRun, Snapshot, StartBeat, StoreFails, Work, Register,
      Leave, Plan, AppendEvent, Poll, ReadStatusToMark, Mark, StorePlan, Finalize, Fail,
      EndRetrieval, HeartbeatThread, Beat, WriteBeat, EndBeat, Cancel, OpenStream,
      Follow, ReadEvents, ReadStatus, PlanRetention, Retain

(* A step that leaves the threads, and no status fresh that was not.       *)
LEMMA ElsewhereRecovering ==
  ASSUME Assigned, Recovering, UNCHANGED threads,
         \A s \in Searches :
           /\ status'[s] \in Fresh => status[s] \in Fresh
           /\ status[s] \in Gone => status'[s] \in Gone
           /\ status'[s] = "absent" => status[s] = "absent"
           /\ status[s] = "absent" \/ status'[s] \in Fresh => (Begun(s)' => Begun(s))
  PROVE  Recovering'
<1> USE DEF Recovering, threads
<1>1. Known'
  BY DEF Known, Assigned
<1>2. MovedOn'
  <2>1. \A w \in Workers : pc[w] # "idle" => job[w].search \in Searches
    BY DEF Assigned
  <2> QED
    BY <2>1 DEF MovedOn
<1>3. RegServes'
  BY DEF RegServes
<1>4. BegunServed'
  BY DEF BegunServed, Registering
<1> QED
  BY <1>1, <1>2, <1>3, <1>4

LEMMA RequestRecovering ==
  ASSUME TypeOK, Assigned, Recovering, NEW w \in Workers, NEW s \in Searches,
         (\E entry \in Entries : Begin(w, s, entry)) \/ QueryRun(w, s)
  PROVE  Recovering'
<1> USE DEF Recovering
<1>0. /\ status \in [Searches -> Status] /\ pc \in [Workers -> Steps]
      /\ job \in [Workers -> Jobs] /\ reg \in [Searches -> Workers \cup {NoWorker}]
      /\ w # NoWorker /\ pc[w] = "idle" /\ log' = log /\ seen' = seen
      /\ \A t \in Searches : Begun(t)' = Begun(t)
  BY TypeParts, SearchAssumption
  DEF StoreTyped, ThreadsTyped, Begin, QueryRun, Begun, store
<1>1. \A v \in Workers \ {w} : pc[v] # "idle" => job[v].search \in Searches
  BY DEF Assigned
<1>2. seen[w] = NoStatus
  BY <1>0 DEF MovedOn
<1>3. ASSUME NEW entry \in Entries, Begin(w, s, entry)
      PROVE  Recovering'
  <2>1. /\ status[s] = "absent" /\ status' = [status EXCEPT ![s] = "created"]
        /\ pc' = [pc EXCEPT ![w] = "announce"] /\ reg' = reg
        /\ job'[w].search = s /\ job'[w].entry = entry
        /\ \A v \in Workers \ {w} : job'[v] = job[v]
    BY <1>0, <1>3 DEF Begin, Goto, SetStatus, Job
  <2>2. \A v \in Workers : pc[v] # "idle" => job[v].search # s
    BY <2>1 DEF Known
  <2>3. reg[s] = NoWorker /\ ~Begun(s)
    BY <2>1 DEF Known
  <2>4. Known'
    BY <1>0, <1>1, <2>1, <2>2 DEF Known
  <2>5. MovedOn'
    BY <1>0, <1>1, <1>2, <2>1, <2>2 DEF MovedOn
  <2>6. RegServes'
    BY <1>0, <2>1, <2>3 DEF RegServes
  <2>7. BegunServed'
    <3> SUFFICES ASSUME NEW t \in Searches, status'[t] \in Fresh, Begun(t)
                 PROVE  reg[t] # NoWorker \/ Registering(t)'
      BY <1>0, <2>1 DEF BegunServed
    <3>1. t # s /\ status[t] \in Fresh
      BY <1>0, <2>1, <2>3
    <3> QED
      BY <1>0, <2>1, <3>1 DEF BegunServed, Registering
  <2> QED
    BY <2>4, <2>5, <2>6, <2>7
<1>4. CASE QueryRun(w, s)
  <2> DEFINE j == Job(s, IF planned[s] THEN "thread" ELSE "accepted", "failed")
  <2>0. j.search = s /\ (~planned[s] => j.entry = "accepted")
    BY DEF Job
  <2>1. /\ status[s] \notin Gone /\ status' = status
        /\ job' = [job EXCEPT ![w] = j] /\ reg' = [reg EXCEPT ![s] = w]
        /\ reg[s] = NoWorker
        /\ \A v \in Workers \ {w} : pc'[v] = pc[v]
        /\ planned[s] => pc'[w] = "mark"
        /\ ~planned[s] => pc'[w] \in {"plan", "finalBlocked"}
    BY <1>0, <1>4 DEF QueryRun, Goto, store
  <2> HIDE DEF j
  <2>2. /\ job'[w].search = s /\ (~planned[s] => job'[w].entry = "accepted")
        /\ \A v \in Workers \ {w} : job'[v] = job[v]
    BY <1>0, <2>0, <2>1
  <2>3. \A t \in Searches : reg[t] # w
    BY <1>0 DEF RegServes
  <2>4. Known'
    BY <1>0, <1>1, <2>1, <2>2 DEF Known, Gone
  <2>5. MovedOn'
    BY <1>0, <1>1, <1>2, <2>1, <2>2 DEF MovedOn
  <2>6. RegServes'
    BY <1>0, <2>1, <2>2, <2>3 DEF RegServes, Planner
  <2>7. BegunServed'
    BY <1>0, <2>1, <2>2 DEF BegunServed, Registering
  <2> QED
    BY <2>4, <2>5, <2>6, <2>7
<1> QED
  BY <1>3, <1>4

LEMMA RecoveringStep ==
  ASSUME TypeOK, Assigned, Registered, Recovering, [Next]_vars
  PROVE  Recovering'
<1>0. /\ status \in [Searches -> Status] /\ log \in [Searches -> Seq(Events)]
      /\ \A w \in Workers : pc[w] # "idle" => job[w].search \in Searches
  BY TypeParts DEF StoreTyped, Assigned
<1>1. ASSUME NEW w \in Workers, NEW st \in Active, Snapshot(w, st)
      PROVE  Recovering'
  <2> DEFINE s == job[w].search
  <2>1. /\ UNCHANGED threads /\ UNCHANGED log /\ status[s] \notin Gone
        /\ SetStatus(s, Advance(status[s], st)) /\ s \in Searches
    BY <1>0, <1>1 DEF Snapshot
  <2>2. st \in DOMAIN Order \ Fresh /\ status[s] \in DOMAIN Order
    BY <2>1, LiveStatus, StatusNames, RunNames DEF Fresh
  <2>3. Advance(status[s], st) \in DOMAIN Order \ Fresh
    BY <2>2, AdvanceFresh, AdvanceTyped
  <2>4. /\ status'[s] \notin Fresh /\ status'[s] # "absent"
        /\ \A t \in Searches \ {s} : status'[t] = status[t]
    BY <1>0, <2>1, <2>3, StatusNames DEF SetStatus, Gone
  <2>5. \A t \in Searches : Begun(t)' = Begun(t)
    BY <2>1 DEF Begun
  <2> QED
    BY <2>1, <2>4, <2>5, ElsewhereRecovering
<1>2. ASSUME UNCHANGED <<threads, status, log>>
      PROVE  Recovering'
  <2>1. \A t \in Searches : Begun(t)' = Begun(t)
    BY <1>2 DEF Begun
  <2> QED
    BY <1>2, <2>1, ElsewhereRecovering
<1>3. ASSUME NEW w \in Workers, StartBeat(w) \/ Beat(w) \/ EndBeat(w)
      PROVE  Recovering'
  BY <1>2, <1>3 DEF StartBeat, Beat, EndBeat, store
<1>4. ASSUME NEW w \in Workers, WriteBeat(w)
      PROVE  Recovering'
  <2> DEFINE s == hb[w].search
  <2>1. /\ UNCHANGED <<threads, status>>
        /\ \/ log' = log
           \/ status[s] \notin Gone
              /\ log' = [log EXCEPT ![s] = Append(@, "final_materialization_heartbeat")]
    BY <1>4 DEF WriteBeat
  <2>2. "final_materialization_heartbeat" \in Events \ Began
    BY DEF Events, Began
  <2>3. ASSUME NEW t \in Searches, Begun(t)'
        PROVE  Begun(t)
    <3>1. CASE log' = log
      BY <2>3, <3>1 DEF Begun
    <3>2. CASE log' # log
      BY <1>0, <2>1, <2>2, <2>3, <3>2, AppendBegins
    <3> QED
      BY <3>1, <3>2
  <2> QED
    BY <2>1, <2>3, ElsewhereRecovering
<1>5. ASSUME NEW s \in Searches, NEW k \in Keys, Cancel(s, k)
      PROVE  Recovering'
  <2>1. /\ UNCHANGED threads /\ status[s] \notin Gone
        /\ status' = [status EXCEPT ![s] = "cancelled"]
        /\ \A t \in Searches \ {s} : log'[t] = log[t]
    BY <1>0, <1>5 DEF Cancel, SetStatus
  <2>2. \A t \in Searches \ {s} : Begun(t)' = Begun(t)
    BY <2>1 DEF Begun
  <2> QED
    BY <1>0, <2>1, <2>2, GoneFresh, ElsewhereRecovering DEF Gone
<1>6. ASSUME NEW r \in Streams, (\E s \in Searches : OpenStream(r, s)) \/ Follow(r)
      PROVE  Recovering'
  BY <1>2, <1>6 DEF OpenStream, Follow, ReadEvents, ReadStatus, store
<1>7. CASE PlanRetention \/ UNCHANGED vars
  BY <1>2, <1>7 DEF PlanRetention, vars, store
<1>8. CASE Retain
  <2>1. /\ UNCHANGED threads
        /\ status' = [s \in Searches |-> IF s \in doomed THEN "deleted" ELSE status[s]]
        /\ log' = [s \in Searches |-> IF s \in doomed THEN <<>> ELSE log[s]]
    BY <1>8 DEF Retain
  <2>2. \A t \in Searches : Begun(t)' => Begun(t)
    BY <2>1 DEF Begun
  <2> QED
    BY <2>1, <2>2, ElsewhereRecovering DEF Gone, Fresh
<1>9. CASE Restart
  <2>1. /\ \A w \in Workers : pc'[w] = "idle" /\ seen'[w] = NoStatus
        /\ \A s \in Searches :
             /\ reg'[s] = NoWorker
             /\ status'[s] = IF Interrupted(s) THEN "failed" ELSE status[s]
             /\ ~Interrupted(s) => log'[s] = log[s]
    BY <1>9 DEF Restart
  <2>2. ASSUME NEW s \in Searches, status'[s] \in Fresh \cup {"absent"}
        PROVE  ~Begun(s)'
    <3>1. ~Interrupted(s) /\ status'[s] = status[s] /\ log'[s] = log[s]
      BY <2>1, <2>2 DEF Fresh
    <3>2. Begun(s)' = Begun(s)
      BY <3>1 DEF Begun
    <3> QED
      BY <2>2, <3>1, <3>2 DEF Interrupted, Recovering, Known, Begun, Fresh, Began
  <2>3. Known' /\ MovedOn' /\ RegServes' /\ BegunServed'
    BY <2>1, <2>2 DEF Known, MovedOn, RegServes, BegunServed
  <2> QED
    BY <2>3 DEF Recovering
<1> QED
  BY <1>1, <1>3, <1>4, <1>5, <1>6, <1>7, <1>8, <1>9, RequestRecovering,
     LeaveRecovering, WorkRecovering DEF Next, HeartbeatThread, Work

(* A restart fails only a search that a thread of the dead process was     *)
(* serving: no worker leaves a search fresh with the beginning of its run  *)
(* in the log, whatever it loses a race to and however its plan ends.      *)
THEOREM RestartsFailOnlyInterrupted == Spec => RestartFailsOnlyInterrupted
<1> DEFINE Fails(s) == used'["crashes"] # used["crashes"] /\ status'[s] # status[s]
<1>1. Init => Registered /\ Recovering
  BY RunNames DEF Init, Registered, Recovering, Known, MovedOn, RegServes, BegunServed,
                  Begun, Fresh
<1>2. TypeOK /\ Assigned /\ Registered /\ Recovering /\ [Next]_vars
        => Registered' /\ Recovering'
  BY RegisteredStep, RecoveringStep
<1>3. TypeOK /\ Assigned /\ NoOrphan /\ Recovering /\ [Next]_vars =>
        \A s \in Searches : Fails(s) => \E w \in Workers : WorksOn(w, s)
  <2> SUFFICES ASSUME TypeOK, Assigned, NoOrphan, Recovering, [Next]_vars,
                      NEW s \in Searches, Fails(s)
               PROVE  \E w \in Workers : WorksOn(w, s)
    OBVIOUS
  <2>1. Restart
    BY OnlyRestartCrashes
  <2>2. Interrupted(s)
    BY <2>1 DEF Restart
  <2>3. CASE status[s] \in Active
    BY <2>3, RunNames DEF NoOrphan, WorksOn
  <2>4. CASE status[s] \in Fresh /\ Begun(s)
    BY <2>4, TypeParts DEF Recovering, BegunServed, Registering, RegServes, WorksOn,
                           ThreadsTyped
  <2> QED
    BY <2>2, <2>3, <2>4 DEF Interrupted, Fresh, Begun, Began
<1> QED
  BY <1>1, <1>2, <1>3, Typed, NeverOrphaned, PTL DEF Spec, RestartFailsOnlyInterrupted
=============================================================================
