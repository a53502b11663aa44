----------------------- MODULE BootstrapSessionRefines -----------------------
(***************************************************************************)
(* The proof that BootstrapSession implements ConfirmedWrites: an intent on*)
(* disk is a confirmation, its turn lasts while the executor runs and ends *)
(* with it, whatever ends it, and the requests, probes and recoveries that *)
(* come before and after at most change what is on offer.                  *)
(***************************************************************************)
EXTENDS BootstrapSessionProofs

Executing == {"reading", "storing"}

-----------------------------------------------------------------------------
(* What the refinement needs of the reachable states.                      *)

(* An intent is of an apply, and the key of an apply that has not recorded *)
(* its intent was not used.                                                *)
FreshIntents ==
  /\ \A s \in Sessions : \A n \in IntentsOf(s) : log[s][n].req.op = "apply"
  /\ \A s \in Sessions : worker[s].pc = "intending" => Fresh(s, "apply", worker[s].req.key)

(* What has the name of a confirmation was written when it stored.         *)
Stored(g) ==
  \A t \in Sessions, k \in Keys, f \in Facts : <<f, <<t, k>>>> \in g => k \in WrittenBy(t)

CopiesStored ==
  /\ Stored(graph)
  /\ \A s \in Sessions : worker[s].pc = "storing" => Stored(worker[s].held)

LEMMA FreshIntentsNext ==
  ASSUME TypeOK, NoTell, Accounted, FreshIntents, [Next]_vars
  PROVE  FreshIntents'
<1>1. ASSUME NEW t \in Sessions, NEW n \in IntentsOf(t)'
      PROVE  log'[t][n].req.op = "apply"
  <2>1. n \in DOMAIN log'[t] /\ log'[t][n].st = "apply_pending"
    BY <1>1 DEF IntentsOf
  <2>2. CASE log'[t] = log[t]
    BY <2>1, <2>2 DEF FreshIntents, IntentsOf
  <2>3. CASE \E r \in Revision : log'[t] = Append(log[t], r) /\ Continues(t, r)
    <3> PICK r \in Revision : log'[t] = Append(log[t], r) /\ Continues(t, r)
      BY <2>3
    <3>1. log[t] \in Seq(Revision)
      BY DEF TypeOK
    <3>2. CASE n \in DOMAIN log[t]
      BY <2>1, <3>1, <3>2, AppendIndexes DEF FreshIntents, IntentsOf
    <3>3. CASE n = Len(log[t]) + 1
      <4>1. log'[t][n] = r
        BY <3>1, <3>3, AppendIndexes
      <4> QED
        BY <2>1, <4>1 DEF Continues, Accounted, Intending
    <3> QED
      BY <2>1, <3>1, <3>2, <3>3, AppendIndexes
  <2> QED
    BY <2>2, <2>3, EveryStep DEF LogStep
<1>2. ASSUME NEW t \in Sessions, worker'[t].pc = "intending"
      PROVE  Fresh(t, "apply", worker[t].req.key)'
  <2>1. CASE worker'[t] = worker[t] /\ log'[t] = log[t]
    BY <1>2, <2>1 DEF FreshIntents, Fresh
  <2>2. CASE Intends(t)
    BY <2>2 DEF Intends, Fresh
  <2>3. CASE Records(t) \/ ReadsGraph(t) \/ Settles(t)
    BY <1>2, <2>3 DEF Records, ReadsGraph, Settles
  <2> QED
    BY <1>2, <2>1, <2>2, <2>3, EveryStep DEF WorkerStep
<1> QED
  BY <1>1, <1>2 DEF FreshIntents

LEMMA WrittenGrows ==
  ASSUME TypeOK, NEW t \in Sessions, StoredStep(t)
  PROVE  WrittenBy(t) \subseteq WrittenBy(t)'
<1>1. CASE stored'[t] = stored[t]
  BY <1>1 DEF WrittenBy
<1>2. CASE worker[t].pc = "storing" /\ stored'[t] = Append(stored[t], worker[t].req.key)
  <2>1. stored[t] \in Seq(Keys) /\ worker[t].req.key \in Keys
    BY <1>2, Busy DEF TypeOK
  <2>2. \A m \in DOMAIN stored[t] : m \in DOMAIN stored'[t] /\ stored'[t][m] = stored[t][m]
    BY <1>2, <2>1, KeyIndexes
  <2> QED
    BY <2>2 DEF WrittenBy
<1> QED
  BY <1>1, <1>2 DEF StoredStep

LEMMA WrittenAppended ==
  ASSUME TypeOK, NEW s \in Sessions, NEW k \in Keys, stored'[s] = Append(stored[s], k)
  PROVE  WrittenBy(s)' = WrittenBy(s) \cup {k}
<1>1. stored[s] \in Seq(Keys)
  BY DEF TypeOK
<1>2. /\ DOMAIN stored'[s] = DOMAIN stored[s] \cup {Len(stored[s]) + 1}
      /\ \A m \in DOMAIN stored[s] : stored'[s][m] = stored[s][m]
      /\ stored'[s][Len(stored[s]) + 1] = k
  BY <1>1, KeyIndexes
<1> QED
  BY <1>2 DEF WrittenBy

LEMMA CopiesStoredNext ==
  ASSUME TypeOK, NoTell, CopiesStored, [Next]_vars
  PROVE  CopiesStored'
<1>0. \A t \in Sessions : WrittenBy(t) \subseteq WrittenBy(t)'
  BY EveryStoredStep, WrittenGrows
<1>1. ASSUME NEW g, NEW h, Stored(g), h \subseteq g \cup (Facts \X {Foreign})
      PROVE  \A t \in Sessions, k \in Keys, f \in Facts :
               <<f, <<t, k>>>> \in h => k \in WrittenBy(t)'
  BY <1>0, <1>1, BootstrapAssumption DEF Stored
<1>2. Stored(graph)'
  <2>1. ASSUME graph' \subseteq graph \cup (Facts \X {Foreign})
        PROVE  Stored(graph)'
    <3> DEFINE h == graph'
    <3>1. \A t \in Sessions, k \in Keys, f \in Facts :
            <<f, <<t, k>>>> \in h => k \in WrittenBy(t)'
      BY <1>1, <2>1 DEF CopiesStored
    <3> QED
      BY <3>1 DEF Stored
  <2>2. ASSUME NEW s \in Sessions, NEW New \in SUBSET Facts, ExecutorStores(s, New)
        PROVE  Stored(graph)'
    <3> DEFINE key == worker[s].req.key
    <3>1. /\ worker[s].pc = "storing"
          /\ graph' = worker[s].held \cup (New \X {<<s, key>>})
          /\ stored' = [stored EXCEPT ![s] = IF New = {} THEN @ ELSE Append(@, key)]
      BY <2>2 DEF ExecutorStores
    <3>2. key \in Keys
      BY <3>1, Busy
    <3>3. New # {} => key \in WrittenBy(s)'
      <4>1. New # {} => stored'[s] = Append(stored[s], key)
        BY <3>1 DEF TypeOK
      <4> QED
        BY <3>2, <4>1, WrittenAppended
    <3> SUFFICES ASSUME NEW t \in Sessions, NEW k \in Keys, NEW f \in Facts,
                        <<f, <<t, k>>>> \in graph'
                 PROVE  k \in WrittenBy(t)'
      BY DEF Stored
    <3>4. CASE <<f, <<t, k>>>> \in worker[s].held
      BY <1>0, <3>1, <3>4 DEF CopiesStored, Stored
    <3>5. CASE <<f, <<t, k>>>> \in New \X {<<s, key>>}
      <4>1. t = s /\ k = key /\ New # {}
        BY <3>5
      <4> QED
        BY <3>3, <4>1
    <3> QED
      BY <3>1, <3>4, <3>5
  <2>3. ASSUME NEW s \in Sessions, Working(s)
        PROVE  Stored(graph)'
    BY <2>1, <2>2, <2>3
    DEF Working, RecordIntent, ExecutorReads, ExecutorRaises, Probe, SettleApplied,
        SettleUnverified, RegistryCommits, RegistryFails
  <2>4. ASSUME NEW s \in Sessions, Requests(s)
        PROVE  Stored(graph)'
    BY <2>1, <2>4, RequestsTyped
  <2>5. ASSUME NEW f \in Facts, ForeignEdit(f)
        PROVE  Stored(graph)'
    <3>1. graph' \in {graph \cup {<<f, Foreign>>}, {p \in graph : p[1] # f}}
      BY <2>5 DEF ForeignEdit
    <3> QED
      BY <2>1, <3>1
  <2>6. CASE \/ Crash \/ UNCHANGED vars
             \/ \E s \in Sessions : CrashTears(s) \/ \E n \in DOMAIN log[s] : Retry(s, n)
    BY <2>1, <2>6 DEF Crash, CrashTears, Retry, vars
  <2> QED
    BY <2>3, <2>4, <2>5, <2>6 DEF Next
<1>3. ASSUME NEW s \in Sessions, worker'[s].pc = "storing"
      PROVE  \A t \in Sessions, k \in Keys, f \in Facts :
               <<f, <<t, k>>>> \in worker'[s].held => k \in WrittenBy(t)'
  <2>1. CASE worker'[s] = worker[s]
    BY <1>0, <1>3, <2>1 DEF CopiesStored, Stored
  <2>2. CASE ReadsGraph(s)
    BY <1>0, <2>2 DEF ReadsGraph, CopiesStored, Stored
  <2>3. CASE Intends(s) \/ Records(s) \/ Settles(s)
    BY <1>3, <2>3 DEF Intends, Records, Settles
  <2> QED
    BY <2>1, <2>2, <2>3, EveryStep DEF WorkerStep
<1> QED
  BY <1>2, <1>3 DEF CopiesStored, Stored

RInv ==
  /\ TypeOK /\ NoTell /\ Accounted /\ Once /\ Reviewing
  /\ FreshIntents /\ CopiesStored

LEMMA RInvNext == RInv /\ [Next]_vars => RInv'
<1> SUFFICES ASSUME RInv, [Next]_vars
             PROVE  RInv'
  OBVIOUS
<1> USE DEF RInv
<1>1. TypeOK' /\ NoTell' /\ Accounted' /\ Once' /\ Reviewing'
  BY TypeNext, NoTellNext, WritingNext, IntentNext, OnceNext, ReviewingNext DEF Accounted
<1>2. FreshIntents' /\ CopiesStored'
  BY FreshIntentsNext, CopiesStoredNext
<1> QED
  BY <1>1, <1>2

LEMMA RInvInit == Init => RInv
<1> SUFFICES ASSUME Init
             PROVE  FreshIntents /\ CopiesStored
  BY TypeInit, NoTellInit, AccountedInit, OnceInit, ReviewingInit DEF RInv
<1>1. \A s \in Sessions : worker[s].pc = "idle" /\ log[s] = <<>>
  BY IdleTyped DEF Init
<1>2. \A t \in Sessions, k \in Keys, f \in Facts : <<f, <<t, k>>>> \notin graph
  BY BootstrapAssumption DEF Init
<1>3. \A s \in Sessions : IntentsOf(s) = {}
  BY <1>1 DEF IntentsOf
<1> QED
  BY <1>1, <1>2, <1>3 DEF FreshIntents, CopiesStored, Stored

-----------------------------------------------------------------------------
(* What a session shows before and after a step.                           *)

OffersTyped == \A t \in Sessions : OfferOf(t) \in SUBSET Facts

LEMMA OffersAreTyped ==
  ASSUME TypeOK
  PROVE  OffersTyped
<1> SUFFICES ASSUME NEW t \in Sessions
             PROVE  OfferOf(t) \in SUBSET Facts
  BY DEF OffersTyped
<1>1. CASE Readable(t)
  BY <1>1, Readables, Fields DEF OfferOf
<1>2. CASE ~Readable(t)
  BY <1>2 DEF OfferOf
<1> QED
  BY <1>1, <1>2

(* Nothing of it shows.                                                    *)
Still(t) ==
  /\ OfferOf(t)' = OfferOf(t) /\ ConfirmedBy(t)' = ConfirmedBy(t)
  /\ TurnOf(t)' = TurnOf(t) /\ WrittenBy(t)' = WrittenBy(t)

LEMMA LogShows ==
  ASSUME NEW t \in Sessions, log'[t] = log[t]
  PROVE  OfferOf(t)' = OfferOf(t) /\ ConfirmedBy(t)' = ConfirmedBy(t)
<1>1. OfferOf(t)' = OfferOf(t)
  BY DEF OfferOf, Readable, Current
<1>2. ConfirmedBy(t)' = ConfirmedBy(t)
  BY DEF ConfirmedBy, IntentsOf
<1> QED
  BY <1>1, <1>2

LEMMA WorkerShows ==
  ASSUME NEW t \in Sessions, worker'[t] = worker[t]
  PROVE  TurnOf(t)' = TurnOf(t)
  BY DEF TurnOf

LEMMA StoreShows ==
  ASSUME NEW t \in Sessions, stored'[t] = stored[t]
  PROVE  WrittenBy(t)' = WrittenBy(t)
  BY DEF WrittenBy

LEMMA RevisionShows ==
  ASSUME TypeOK, NEW s \in Sessions, NEW r \in Revision, AppendRevision(s, r)
  PROVE  /\ r.st # "apply_pending" => ConfirmedBy(s)' = ConfirmedBy(s)
         /\ r.st = "apply_pending" =>
              ConfirmedBy(s)' = ConfirmedBy(s) \cup {<<r.req.key, r.sel>>}
         /\ OfferOf(s)' = IF r.st = "torn" THEN {} ELSE r.offer
         /\ \A t \in Sessions \ {s} : log'[t] = log[t]
<1>1. log[s] \in Seq(Revision) /\ log'[s] = Append(log[s], r)
  BY Appended DEF TypeOK
<1> DEFINE last == Len(log[s]) + 1
<1>2. /\ DOMAIN log'[s] = DOMAIN log[s] \cup {last}
      /\ \A n \in DOMAIN log[s] : log'[s][n] = log[s][n]
      /\ log'[s][last] = r
  BY <1>1, AppendIndexes
<1> HIDE DEF last
<1>3. CASE r.st # "apply_pending"
  <2>1. IntentsOf(s)' = IntentsOf(s)
    BY <1>2, <1>3 DEF IntentsOf
  <2>2. \A n \in IntentsOf(s) : log'[s][n] = log[s][n]
    BY <1>2 DEF IntentsOf
  <2> QED
    BY <1>3, <2>1, <2>2, CurrentAppended DEF ConfirmedBy, OfferOf
<1>4. CASE r.st = "apply_pending"
  <2>1. IntentsOf(s)' = IntentsOf(s) \cup {last}
    BY <1>2, <1>4 DEF IntentsOf
  <2>2. \A n \in IntentsOf(s) : log'[s][n] = log[s][n]
    BY <1>2 DEF IntentsOf
  <2>3. ConfirmedBy(s)' = ConfirmedBy(s) \cup {<<r.req.key, r.sel>>}
    BY <1>2, <2>1, <2>2 DEF ConfirmedBy
  <2> QED
    BY <1>4, <2>3, CurrentAppended DEF OfferOf
<1> QED
  BY <1>3, <1>4, Appended

-----------------------------------------------------------------------------
(* Steps of the promise, by what shows.                                    *)

LEMMA NothingShows ==
  ASSUME graph' = graph, \A t \in Sessions : Still(t)
  PROVE  UNCHANGED Promise!cvars
  BY DEF Promise!cvars, Still

LEMMA OfferShows ==
  ASSUME TypeOK, [Next]_vars, NEW s \in Sessions, graph' = graph,
         TurnOf(s) = None, TurnOf(s)' = None,
         ConfirmedBy(s)' = ConfirmedBy(s), WrittenBy(s)' = WrittenBy(s),
         \A t \in Sessions \ {s} : Still(t)
  PROVE  Promise!CNext
<1> DEFINE S == OfferOf(s)'
<1>1. S \in SUBSET Facts
  <2>1. OffersTyped'
    BY TypeNext, OffersAreTyped, PTL
  <2> QED
    BY <2>1 DEF OffersTyped
<1>2. \A t \in Sessions : /\ ConfirmedBy(t)' = ConfirmedBy(t)
                          /\ TurnOf(t)' = TurnOf(t) /\ WrittenBy(t)' = WrittenBy(t)
  BY DEF Still
<1>3. \A t \in Sessions : OfferOf(t)' = IF t = s THEN S ELSE OfferOf(t)
  BY DEF Still
<1> HIDE DEF S
<1>4. Promise!Offer(s, S)
  BY <1>2, <1>3 DEF Promise!Offer
<1> QED
  BY <1>1, <1>4 DEF Promise!CNext

LEMMA ConfirmShows ==
  ASSUME NEW s \in Sessions, NEW k \in Keys, NEW S \in SUBSET Facts,
         graph' = graph, TurnOf(s) = None, TurnOf(s)' = k,
         S # {}, S \subseteq OfferOf(s), OfferOf(s)' = OfferOf(s),
         \A c \in ConfirmedBy(s) : c[1] # k,
         ConfirmedBy(s)' = ConfirmedBy(s) \cup {<<k, S>>},
         WrittenBy(s)' = WrittenBy(s),
         \A t \in Sessions \ {s} : Still(t)
  PROVE  Promise!CNext
<1>1. \A t \in Sessions : OfferOf(t)' = OfferOf(t) /\ WrittenBy(t)' = WrittenBy(t)
  BY DEF Still
<1>2. \A t \in Sessions :
        /\ ConfirmedBy(t)' = IF t = s THEN ConfirmedBy(s) \cup {<<k, S>>}
                                      ELSE ConfirmedBy(t)
        /\ TurnOf(t)' = IF t = s THEN k ELSE TurnOf(t)
  BY DEF Still
<1>3. Promise!Confirm(s, k, S)
  BY <1>1, <1>2 DEF Promise!Confirm
<1> QED
  BY <1>3 DEF Promise!CNext

LEMMA WriteBackShows ==
  ASSUME NEW s \in Sessions, TurnOf(s) # None, TurnOf(s)' = None,
         graph' \in SUBSET (Facts \X Promise!Writers),
         \A p \in graph' : Promise!Traced(p),
         OfferOf(s)' = OfferOf(s), ConfirmedBy(s)' = ConfirmedBy(s),
         WrittenBy(s)' = WrittenBy(s),
         \A t \in Sessions \ {s} : Still(t)
  PROVE  Promise!CNext
<1>1. \A t \in Sessions : /\ OfferOf(t)' = OfferOf(t) /\ WrittenBy(t)' = WrittenBy(t)
                          /\ ConfirmedBy(t)' = ConfirmedBy(t)
                          /\ TurnOf(t)' = IF t = s THEN None ELSE TurnOf(t)
  BY DEF Still
<1>2. Promise!WriteBack(s)
  BY <1>1 DEF Promise!WriteBack
<1> QED
  BY <1>2 DEF Promise!CNext

LEMMA WriteShows ==
  ASSUME NEW s \in Sessions, TurnOf(s) # None, TurnOf(s)' = None,
         graph' \in SUBSET (Facts \X Promise!Writers),
         NEW c \in ConfirmedBy(s), c[1] = TurnOf(s),
         \A p \in graph' : Promise!Traced(p) \/ (p[2] = <<s, c[1]>> /\ p[1] \in c[2]),
         \E p \in graph' : p[2] = <<s, c[1]>>,
         OfferOf(s)' = OfferOf(s), ConfirmedBy(s)' = ConfirmedBy(s),
         WrittenBy(s)' = WrittenBy(s) \cup {TurnOf(s)},
         \A t \in Sessions \ {s} : Still(t)
  PROVE  Promise!CNext
<1>1. \A t \in Sessions : /\ OfferOf(t)' = OfferOf(t) /\ ConfirmedBy(t)' = ConfirmedBy(t)
                          /\ TurnOf(t)' = IF t = s THEN None ELSE TurnOf(t)
                          /\ WrittenBy(t)' = IF t = s THEN WrittenBy(s) \cup {TurnOf(s)}
                                                      ELSE WrittenBy(t)
  BY DEF Still
<1>2. Promise!Write(s)
  BY <1>1 DEF Promise!Write
<1> QED
  BY <1>2 DEF Promise!CNext

LEMMA LapseShows ==
  ASSUME NEW T \in SUBSET Sessions, graph' = graph,
         \A t \in Sessions : /\ TurnOf(t)' = IF t \in T THEN None ELSE TurnOf(t)
                             /\ ConfirmedBy(t)' = ConfirmedBy(t)
                             /\ WrittenBy(t)' = WrittenBy(t),
         \/ \A t \in Sessions : OfferOf(t)' = OfferOf(t)
         \/ \E s \in Sessions : \A t \in Sessions :
              OfferOf(t)' = IF t = s THEN {} ELSE OfferOf(t)
  PROVE  Promise!CNext
<1>1. CASE \A t \in Sessions : OfferOf(t)' = OfferOf(t)
  <2>1. Promise!Lapse(T)
    BY <1>1 DEF Promise!Lapse
  <2> QED
    BY <2>1 DEF Promise!CNext
<1>2. CASE \E s \in Sessions : \A t \in Sessions :
             OfferOf(t)' = IF t = s THEN {} ELSE OfferOf(t)
  <2> PICK s \in Sessions : \A t \in Sessions :
             OfferOf(t)' = IF t = s THEN {} ELSE OfferOf(t)
    BY <1>2
  <2>1. Promise!Lapse(T)
    BY DEF Promise!Lapse
  <2> QED
    BY <2>1 DEF Promise!CNext
<1> QED
  BY <1>1, <1>2

-----------------------------------------------------------------------------
(* The steps of a session.                                                 *)

LEMMA TurnNone ==
  ASSUME NEW t \in Sessions, worker[t].pc \notin Executing
  PROVE  TurnOf(t) = None
  BY DEF TurnOf, Executing

LEMMA TurnNoneNext ==
  ASSUME NEW t \in Sessions, worker'[t].pc \notin Executing
  PROVE  TurnOf(t)' = None
  BY DEF TurnOf, Executing

LEMMA TurnTaken ==
  ASSUME TypeOK, NEW t \in Sessions, worker[t].pc \in Executing
  PROVE  TurnOf(t) = worker[t].req.key /\ TurnOf(t) \in Keys /\ TurnOf(t) # None
  BY Busy, BootstrapAssumption DEF TurnOf, Executing

(* The steps before and after the executor: at most one revision, which is *)
(* no intent, and a worker that does not execute.                          *)
LEMMA BesideExecutor ==
  ASSUME TypeOK, [Next]_vars, NEW s \in Sessions, UNCHANGED <<graph, stored>>,
         worker[s].pc \notin Executing,
         \/ UNCHANGED worker
         \/ \E w \in Worker : Moves(s, w) /\ w.pc \notin Executing,
         \/ UNCHANGED log
         \/ \E r \in Revision : AppendRevision(s, r) /\ r.st # "apply_pending"
  PROVE  Promise!CNext
<1>1. worker'[s].pc \notin Executing /\ \A t \in Sessions \ {s} : worker'[t] = worker[t]
  BY Moved
<1>2. \A t \in Sessions \ {s} : log'[t] = log[t]
  BY Appended
<1>3. ConfirmedBy(s)' = ConfirmedBy(s)
  BY LogShows, RevisionShows
<1>4. \A t \in Sessions \ {s} : Still(t)
  BY <1>1, <1>2, LogShows, WorkerShows, StoreShows DEF Still
<1> QED
  BY <1>1, <1>3, <1>4, TurnNone, TurnNoneNext, StoreShows, OfferShows

LEMMA RequestsShow ==
  ASSUME TypeOK, [Next]_vars, NEW s \in Sessions, Requests(s)
  PROVE  Promise!CNext
<1>0. UNCHANGED <<graph, stored>>
  BY RequestsTyped
<1>1. CASE Start(s)
  <2>1. worker[s].pc = "idle" /\ UNCHANGED worker
    BY <1>1, Busy DEF Start, Readable
  <2>2. \E r \in Revision : AppendRevision(s, r) /\ r.st # "apply_pending"
    BY <1>1, StartEffect
  <2> QED
    BY <1>0, <2>1, <2>2, BesideExecutor DEF Executing
<1>2. CASE Tell(s) \/ Cancel(s) \/ Resume(s) \/ \E S \in Offers : Preview(s, S)
  <2>1. worker[s].pc = "idle" /\ UNCHANGED worker
    BY <1>2, SaysEffect
  <2>2. \E r \in Revision : AppendRevision(s, r) /\ r.st # "apply_pending"
    BY <1>2, SaysEffect DEF Said
  <2> QED
    BY <1>0, <2>1, <2>2, BesideExecutor DEF Executing
<1>3. CASE \E k \in Keys : BeginRecover(s, k)
  <2> PICK k \in Keys : BeginRecover(s, k)
    BY <1>3
  <2>1. worker[s].pc = "idle" /\ UNCHANGED log
    BY DEF BeginRecover, Accepted
  <2>2. \E w \in Worker : Moves(s, w) /\ w.pc = "probing"
    BY BeginRecoverEffect
  <2> QED
    BY <1>0, <2>1, <2>2, BesideExecutor DEF Executing
<1>4. CASE \E k \in Keys, S \in Offers : BeginApply(s, k, S)
  <2> PICK k \in Keys, S \in Offers : BeginApply(s, k, S)
    BY <1>4
  <2>1. worker[s].pc = "idle" /\ UNCHANGED log
    BY DEF BeginApply, Accepted
  <2>2. \E w \in Worker : Moves(s, w) /\ w.pc = "intending"
    BY BeginApplyEffect
  <2> QED
    BY <1>0, <2>1, <2>2, BesideExecutor DEF Executing
<1> QED
  BY <1>1, <1>2, <1>3, <1>4 DEF Requests

LEMMA RetryShows ==
  ASSUME TypeOK, [Next]_vars, NEW s \in Sessions, NEW n \in DOMAIN log[s], Retry(s, n)
  PROVE  Promise!CNext
<1>1. UNCHANGED <<graph, stored>> /\ worker[s].pc = "idle"
  BY DEF Retry
<1>2. /\ \E w \in Worker : Moves(s, w) /\ w.pc = "registering"
      /\ \/ UNCHANGED log
         \/ \E r \in Revision : AppendRevision(s, r) /\ r.st # "apply_pending"
  BY RetryEffect
<1> QED
  BY <1>1, <1>2, BesideExecutor DEF Executing

(* The intent is a confirmation of candidates on offer, with a new key.    *)
LEMMA IntentShows ==
  ASSUME RInv, NEW s \in Sessions, RecordIntent(s)
  PROVE  Promise!CNext
<1>0. TypeOK
  BY DEF RInv
<1> DEFINE k == worker[s].req.key
           S == worker[s].req.sel
<1>1. worker[s].pc = "intending" /\ UNCHANGED <<graph, stored>>
  BY DEF RecordIntent
<1>2. k \in Keys /\ S \in SUBSET Facts /\ Readable(s)
  BY <1>0, <1>1, Busy DEF Request
<1>3. PICK r \in Revision, w \in Worker :
        /\ AppendRevision(s, r) /\ r.st = "apply_pending" /\ r.req = worker[s].req
        /\ r.sel = worker[s].req.sel /\ r.offer = Current(s).offer
        /\ Moves(s, w) /\ w.pc = "reading" /\ w.req = worker[s].req
  BY <1>0, RecordIntentEffect
<1>4. worker'[s] = w /\ \A t \in Sessions \ {s} : worker'[t] = worker[t]
  BY <1>0, <1>3, Moved
<1>5. /\ ConfirmedBy(s)' = ConfirmedBy(s) \cup {<<k, S>>}
      /\ OfferOf(s)' = r.offer /\ \A t \in Sessions \ {s} : log'[t] = log[t]
  BY <1>0, <1>3, RevisionShows
<1>6. OfferOf(s) = Current(s).offer
  BY <1>2 DEF OfferOf
<1>7. S # {} /\ S \subseteq Current(s).offer
  BY <1>1 DEF RInv, Reviewing, Chosen
<1>8. \A c \in ConfirmedBy(s) : c[1] # k
  BY <1>1 DEF RInv, FreshIntents, Fresh, ConfirmedBy, IntentsOf
<1>9. TurnOf(s) = None
  BY <1>1, TurnNone DEF Executing
<1>10. TurnOf(s)' = k
  BY <1>3, <1>4 DEF TurnOf
<1>11. \A t \in Sessions \ {s} : Still(t)
  BY <1>1, <1>4, <1>5, LogShows, WorkerShows, StoreShows DEF Still
<1>12. WrittenBy(s)' = WrittenBy(s)
  BY <1>1, StoreShows
<1> HIDE DEF k, S
<1> QED
  BY <1>1, <1>2, <1>3, <1>5, <1>6, <1>7, <1>8, <1>9, <1>10, <1>11, <1>12, ConfirmShows

LEMMA ReadsShow ==
  ASSUME TypeOK, NEW s \in Sessions, ExecutorReads(s)
  PROVE  UNCHANGED Promise!cvars
<1>1. worker[s].pc = "reading" /\ UNCHANGED <<graph, log, stored>>
  BY DEF ExecutorReads
<1>2. PICK w \in Worker : Moves(s, w) /\ w.pc = "storing" /\ w.req = worker[s].req
  BY ExecutorReadsEffect
<1>3. worker'[s] = w /\ \A t \in Sessions \ {s} : worker'[t] = worker[t]
  BY <1>2, Moved
<1>4. TurnOf(s)' = TurnOf(s)
  BY <1>1, <1>2, <1>3 DEF TurnOf
<1> QED
  BY <1>1, <1>3, <1>4, LogShows, WorkerShows, StoreShows, NothingShows DEF Still

(* What a copy of the brain holds was confirmed and written.               *)
LEMMA CopyTraced ==
  ASSUME RInv, NEW g \in Graphs, Stored(g),
         \A t \in Sessions, k \in Keys, f \in Facts :
           <<f, <<t, k>>>> \in g => Intended(t, k, f)
  PROVE  \A p \in g : Promise!Traced(p)
<1> SUFFICES ASSUME NEW p \in g, p[2] # Foreign
             PROVE  Promise!Traced(p)
  BY DEF Promise!Traced
<1>1. PICK f \in Facts, t \in Sessions, k \in Keys : p = <<f, <<t, k>>>>
  BY DEF Graphs
<1>2. k \in WrittenBy(t) /\ Intended(t, k, f)
  BY <1>1 DEF Stored
<1>3. PICK n \in DOMAIN log[t] :
        log[t][n].st = "apply_pending" /\ log[t][n].req.key = k /\ f \in log[t][n].sel
  BY <1>2 DEF Intended
<1> DEFINE c == <<k, log[t][n].sel>>
<1>4. c \in ConfirmedBy(t)
  BY <1>3 DEF ConfirmedBy, IntentsOf
<1>5. p[2] = <<t, c[1]>> /\ c[1] \in WrittenBy(t) /\ p[1] \in c[2]
  BY <1>1, <1>2, <1>3
<1> HIDE DEF c
<1> QED
  BY <1>4, <1>5 DEF Promise!Traced

LEMMA StoresShow ==
  ASSUME RInv, NEW s \in Sessions, NEW New \in SUBSET Facts, ExecutorStores(s, New)
  PROVE  Promise!CNext
<1>0. TypeOK
  BY DEF RInv
<1> DEFINE k == worker[s].req.key
           S == worker[s].req.sel
           held == worker[s].held
<1>1. /\ worker[s].pc = "storing" /\ New \subseteq S /\ UNCHANGED log
      /\ graph' = held \cup (New \X {<<s, k>>})
      /\ stored' = [stored EXCEPT ![s] = IF New = {} THEN @ ELSE Append(@, k)]
  BY DEF ExecutorStores
<1>2. k \in Keys /\ held \in Graphs
  BY <1>0, <1>1, Busy
<1>3. \A p \in held : Promise!Traced(p)
  BY <1>1, <1>2, CopyTraced DEF RInv, CopiesStored, Accounted, Held
<1>4. graph' \in SUBSET (Facts \X Promise!Writers)
  BY <1>0, StoresTyped DEF Graphs, Promise!Writers
<1>5. TurnOf(s) = k /\ TurnOf(s) # None
  BY <1>0, <1>1, TurnTaken DEF Executing
<1>6. PICK w \in Worker : Moves(s, w) /\ w.pc = "probing"
  BY <1>0, ExecutorEndsEffect
<1>7. worker'[s] = w /\ \A t \in Sessions \ {s} : worker'[t] = worker[t]
  BY <1>0, <1>6, Moved
<1>8. TurnOf(s)' = None
  BY <1>6, <1>7, TurnNoneNext DEF Executing
<1>9. \A t \in Sessions \ {s} : stored'[t] = stored[t]
  BY <1>0, <1>1 DEF TypeOK
<1>10. \A t \in Sessions \ {s} : Still(t)
  BY <1>1, <1>7, <1>9, LogShows, WorkerShows, StoreShows DEF Still
<1>11. OfferOf(s)' = OfferOf(s) /\ ConfirmedBy(s)' = ConfirmedBy(s)
  BY <1>1, LogShows
<1>12. CASE New = {}
  <2>1. graph' = held
    BY <1>1, <1>12
  <2>2. stored'[s] = stored[s]
    BY <1>0, <1>1, <1>12 DEF TypeOK
  <2>3. WrittenBy(s)' = WrittenBy(s)
    BY <2>2, StoreShows
  <2> QED
    BY <1>3, <1>4, <1>5, <1>8, <1>10, <1>11, <2>1, <2>3, WriteBackShows
<1>13. CASE New # {}
  <2>1. stored'[s] = Append(stored[s], k)
    BY <1>0, <1>1, <1>13 DEF TypeOK
  <2>2. WrittenBy(s)' = WrittenBy(s) \cup {k}
    BY <1>0, <1>2, <2>1, WrittenAppended
  <2> DEFINE c == <<k, S>>
  <2>3. c \in ConfirmedBy(s)
    <3>1. Asked(s, worker[s].req)
      BY <1>1 DEF RInv, Accounted, Writing
    <3> QED
      BY <3>1 DEF Asked, ConfirmedBy, IntentsOf
  <2>4. c[1] = k /\ c[2] = S
    OBVIOUS
  <2> HIDE DEF c
  <2>5. \A p \in graph' : Promise!Traced(p) \/ (p[2] = <<s, c[1]>> /\ p[1] \in c[2])
    <3> SUFFICES ASSUME NEW p \in graph', p \notin held
                 PROVE  p[2] = <<s, c[1]>> /\ p[1] \in c[2]
      BY <1>3
    <3>1. p \in New \X {<<s, k>>}
      BY <1>1
    <3> QED
      BY <1>1, <2>4, <3>1
  <2>6. \E p \in graph' : p[2] = <<s, c[1]>>
    <3> PICK f \in New : TRUE
      BY <1>13
    <3>1. <<f, <<s, k>>>> \in graph'
      BY <1>1
    <3>2. <<f, <<s, k>>>>[2] = <<s, k>>
      OBVIOUS
    <3> QED
      BY <2>4, <3>1, <3>2
  <2> HIDE DEF k
  <2> QED
    BY <1>4, <1>5, <1>8, <1>10, <1>11, <2>2, <2>3, <2>4, <2>5, <2>6, WriteShows
<1> QED
  BY <1>12, <1>13

LEMMA RaisesShows ==
  ASSUME TypeOK, NEW s \in Sessions, ExecutorRaises(s)
  PROVE  Promise!CNext
<1>1. UNCHANGED <<graph, log, stored>>
  BY DEF ExecutorRaises
<1>2. PICK w \in Worker : Moves(s, w) /\ w.pc = "probing"
  BY ExecutorEndsEffect
<1>3. worker'[s] = w /\ \A t \in Sessions \ {s} : worker'[t] = worker[t]
  BY <1>2, Moved
<1>4. TurnOf(s)' = None
  BY <1>2, <1>3, TurnNoneNext DEF Executing
<1>5. \A t \in Sessions :
        /\ TurnOf(t)' = IF t \in {s} THEN None ELSE TurnOf(t)
        /\ ConfirmedBy(t)' = ConfirmedBy(t) /\ WrittenBy(t)' = WrittenBy(t)
        /\ OfferOf(t)' = OfferOf(t)
  BY <1>1, <1>3, <1>4, LogShows, WorkerShows, StoreShows
<1> QED
  BY <1>1, <1>5, LapseShows

LEMMA WorkingShows ==
  ASSUME RInv, [Next]_vars, NEW s \in Sessions, Working(s)
  PROVE  [Promise!CNext]_(Promise!cvars)
<1>0. TypeOK
  BY DEF RInv
<1>1. CASE RecordIntent(s)
  BY <1>1, IntentShows
<1>2. CASE ExecutorReads(s)
  BY <1>0, <1>2, ReadsShow
<1>3. CASE ExecutorRaises(s)
  BY <1>0, <1>3, RaisesShows
<1>4. CASE \E New \in SUBSET Facts : ExecutorStores(s, New)
  BY <1>4, StoresShow
<1>5. CASE Probe(s)
  <2>1. UNCHANGED <<graph, log, stored>> /\ worker[s].pc = "probing"
    BY <1>5 DEF Probe
  <2>2. \E w \in Worker : Moves(s, w) /\ w.pc = "settling"
    BY <1>0, <1>5, ProbeEffect
  <2> QED
    BY <1>0, <2>1, <2>2, BesideExecutor DEF Executing
<1>6. CASE SettleApplied(s)
  <2>1. UNCHANGED <<graph, stored>> /\ worker[s].pc = "settling"
    BY <1>6 DEF SettleApplied
  <2>2. PICK r \in Revision, w \in Worker :
          AppendRevision(s, r) /\ r.st = "applied" /\ Moves(s, w) /\ w.pc = "registering"
    BY <1>0, <1>6, SettleAppliedEffect
  <2> QED
    BY <1>0, <2>1, <2>2, BesideExecutor DEF Executing
<1>7. CASE SettleUnverified(s)
  <2>1. UNCHANGED <<graph, stored>> /\ worker[s].pc = "settling"
    BY <1>7 DEF SettleUnverified
  <2>2. PICK r \in Revision :
          /\ AppendRevision(s, r) /\ r.st \in {"recovery_required", "review_required"}
          /\ Moves(s, Idle)
    BY <1>0, <1>7, SettleUnverifiedEffect
  <2> QED
    BY <1>0, <2>1, <2>2, IdleTyped, BesideExecutor DEF Executing
<1>8. CASE RegistryCommits(s)
  <2>1. /\ UNCHANGED <<graph, log, stored>> /\ worker[s].pc = "registering"
        /\ Moves(s, Idle)
    BY <1>8 DEF RegistryCommits
  <2> QED
    BY <1>0, <2>1, IdleTyped, BesideExecutor DEF Executing
<1>9. CASE RegistryFails(s)
  <2>1. UNCHANGED <<graph, stored>> /\ worker[s].pc = "registering" /\ Moves(s, Idle)
    BY <1>9 DEF RegistryFails
  <2>2. \/ UNCHANGED log
        \/ \E r \in Revision : AppendRevision(s, r) /\ r.st # "apply_pending"
    BY <1>0, <1>9, RegistryFailsEffect
  <2> QED
    BY <1>0, <2>1, <2>2, IdleTyped, BesideExecutor DEF Executing
<1> QED
  BY <1>1, <1>2, <1>3, <1>4, <1>5, <1>6, <1>7, <1>8, <1>9 DEF Working

(* A crash ends every turn; a torn file takes away what was on offer.      *)
LEMMA CrashShows ==
  ASSUME TypeOK, Crash \/ \E s \in Sessions : CrashTears(s)
  PROVE  Promise!CNext
<1>1. UNCHANGED <<graph, stored>>
  BY DEF Crash, CrashTears
<1>2. \A t \in Sessions : worker'[t].pc = "idle"
  BY IdleTyped, CrashTearsEffect DEF Crash
<1>3. \A t \in Sessions : TurnOf(t)' = IF t \in Sessions THEN None ELSE TurnOf(t)
  BY <1>2, TurnNoneNext DEF Executing
<1>4. CASE Crash
  <2>1. \A t \in Sessions : OfferOf(t)' = OfferOf(t) /\ ConfirmedBy(t)' = ConfirmedBy(t)
    BY <1>4, LogShows DEF Crash
  <2> QED
    BY <1>1, <1>3, <2>1, StoreShows, LapseShows
<1>5. CASE \E s \in Sessions : CrashTears(s)
  <2> PICK s \in Sessions : CrashTears(s)
    BY <1>5
  <2>1. PICK r \in Revision : AppendRevision(s, r) /\ r.st = "torn"
    BY CrashTearsEffect
  <2>2. /\ OfferOf(s)' = {} /\ ConfirmedBy(s)' = ConfirmedBy(s)
        /\ \A t \in Sessions \ {s} : log'[t] = log[t]
    BY <2>1, RevisionShows
  <2>3. \A t \in Sessions : /\ OfferOf(t)' = IF t = s THEN {} ELSE OfferOf(t)
                            /\ ConfirmedBy(t)' = ConfirmedBy(t)
    BY <2>2, LogShows
  <2> QED
    BY <1>1, <1>3, <2>3, StoreShows, LapseShows
<1> QED
  BY <1>4, <1>5

LEMMA EditShows ==
  ASSUME NEW f \in Facts, ForeignEdit(f)
  PROVE  Promise!CNext
<1>1. graph' \in {graph \cup {<<f, Foreign>>}, {p \in graph : p[1] # f}}
  BY DEF ForeignEdit
<1>2. graph' \subseteq graph \cup (Facts \X {Foreign})
  BY <1>1
<1>3. \A t \in Sessions : Still(t)
  BY LogShows, WorkerShows, StoreShows DEF ForeignEdit, Still
<1>4. Promise!Elsewhere
  BY <1>2, <1>3 DEF Promise!Elsewhere, Still
<1> QED
  BY <1>4 DEF Promise!CNext

LEMMA StepShows ==
  ASSUME RInv, [Next]_vars
  PROVE  [Promise!CNext]_(Promise!cvars)
<1>0. TypeOK
  BY DEF RInv
<1>1. CASE UNCHANGED vars
  <2>1. graph' = graph /\ \A t \in Sessions : Still(t)
    BY <1>1, LogShows, WorkerShows, StoreShows DEF vars, Still
  <2> QED
    BY <2>1, NothingShows
<1>2. CASE Crash \/ \E s \in Sessions : CrashTears(s)
  BY <1>0, <1>2, CrashShows
<1>3. CASE \E s \in Sessions : Requests(s) \/ \E n \in DOMAIN log[s] : Retry(s, n)
  BY <1>0, <1>3, RequestsShow, RetryShows
<1>4. CASE \E s \in Sessions : Working(s)
  BY <1>4, WorkingShows
<1>5. CASE \E f \in Facts : ForeignEdit(f)
  BY <1>5, EditShows
<1> QED
  BY <1>1, <1>2, <1>3, <1>4, <1>5 DEF Next

LEMMA InitShows == Init => Promise!CInit
<1> SUFFICES ASSUME Init
             PROVE  Promise!CInit
  OBVIOUS
<1>1. \A t \in Sessions : worker[t].pc = "idle" /\ log[t] = <<>> /\ stored[t] = <<>>
  BY IdleTyped DEF Init
<1>2. \A t \in Sessions : OfferOf(t) = {} /\ ConfirmedBy(t) = {} /\ WrittenBy(t) = {}
  BY <1>1 DEF OfferOf, Readable, ConfirmedBy, IntentsOf, WrittenBy
<1>3. \A t \in Sessions : TurnOf(t) = None
  BY <1>1, TurnNone DEF Executing
<1>4. graph \subseteq Facts \X {Foreign}
  BY DEF Init
<1> QED
  BY <1>2, <1>3, <1>4 DEF Promise!CInit

(* Bootstrap keeps the promise of ConfirmedWrites, for any number of       *)
(* sessions: through crashes, torn files, recoveries, retries and stale    *)
(* copies, a confirmation is of what was on offer and has one turn to      *)
(* write, and nothing in the name of a session is in the brain that its    *)
(* confirmation did not select and its executor did not store.             *)
THEOREM BootstrapImplementsConfirmedWrites == Spec => ConfirmedWritesSpec
<1>1. RInv /\ [Next]_vars => [Promise!CNext]_(Promise!cvars)
  BY StepShows
<1> QED
  BY <1>1, InitShows, RInvInit, RInvNext, PTL DEF Spec, ConfirmedWritesSpec, Promise!CSpec

=============================================================================
