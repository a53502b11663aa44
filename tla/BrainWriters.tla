----------------------------- MODULE BrainWriters -----------------------------
(***************************************************************************)
(* Grow next to the writers of the brain that it does not know of: a node  *)
(* change, a node deletion and the apply of a bootstrap session. Each one  *)
(* reads the whole graph, edits its copy and stores the copy as the whole  *)
(* graph (replace_runtime_graph), with no transaction and no lock around   *)
(* the two and no comparison of revisions in the second.                   *)
(***************************************************************************)
EXTENDS MaintenancePreviews

CONSTANT Writers  \* request handlers that rewrite the whole graph

VARIABLES
  writer,  \* the graph each of them read and the one it will store
  stale    \* history: a copy was stored over a graph it was not made from

bvars == <<vars, mvars, writer, stale>>

NoWriter == [busy |-> FALSE, read |-> {}, write |-> {}]

Writer == [busy : BOOLEAN, read : Graphs, write : Graphs]

BInit == Init /\ MInit /\ writer = [w \in Writers |-> NoWriter] /\ stale = FALSE

(* The request is confirmed and the revision it expects is the one just    *)
(* read; anything else is answered without a write.                        *)
Read(w, write) ==
  /\ ~writer[w].busy
  /\ edits < MaxEdits
  /\ writer' = [writer EXCEPT ![w] = [busy |-> TRUE, read |-> graph, write |-> write]]
  /\ edits' = edits + 1
  /\ UNCHANGED <<graph, rows, handler, now, acked, mvars, stale>>

Exists(f) == \E p \in graph : p[1] = f

(* change_node_content.                                                    *)
ChangeNode(w, f) == Exists(f) /\ Read(w, graph \cup {<<f, Foreign>>})

(* delete_node.                                                            *)
DeleteNode(w, f) == Exists(f) /\ Read(w, {p \in graph : p[1] # f})

(* The selection of a bootstrap session is added to the graph.             *)
BootstrapApply(w, S) == Read(w, graph \cup Contribution(Foreign, S))

(* replace_runtime_graph: every table of the graph is emptied and filled   *)
(* again from the copy, in one transaction.                                *)
Store(w) ==
  /\ writer[w].busy
  /\ graph' = writer[w].write
  /\ stale' = (stale \/ graph # writer[w].read)
  /\ writer' = [writer EXCEPT ![w] = NoWriter]
  /\ UNCHANGED <<rows, handler, now, edits, acked, mvars>>

BCrash == MCrash /\ writer' = [w \in Writers |-> NoWriter] /\ UNCHANGED stale

BNext ==
  \/ (Serve \/ Tick \/ \E i \in Ids : Rollback(i)) /\ UNCHANGED <<mvars, writer, stale>>
  \/ MaintenanceNext /\ UNCHANGED <<writer, stale>>
  \/ \E w \in Writers :
       \/ \E f \in Facts : ChangeNode(w, f) \/ DeleteNode(w, f)
       \/ \E S \in Offers : BootstrapApply(w, S)
       \/ Store(w)
  \/ BCrash

BSpec == BInit /\ [][BNext]_bvars

-----------------------------------------------------------------------------
(* What Grow still keeps next to those writers: a node in its name comes   *)
(* from an apply that was committed (and may have been rolled back since:  *)
(* a copy stored late can bring it back, so Attributable does not hold).   *)
FromAnApply ==
  \A f \in Facts, i \in Ids :
    <<f, i>> \in graph => rows[i].st \in Applied /\ f \in rows[i].sel

(* Grow and Maintain together keep what Grow keeps alone: as long as no    *)
(* copy was stored late, whatever is in the brain on Grow's account has a  *)
(* receipt that is applied and not rolled back.                            *)
AttributableUnlessStale == ~stale => Attributable

(* A Grow contribution leaves the brain by its own rollback, by a reviewed *)
(* maintenance apply of a graph that had it, or by one of the writers that *)
(* review nothing: no other rollback ever takes it away.                   *)
LostOnlyReviewed ==
  [][\A i \in Ids : \A p \in Contribution(i, Facts) : p \in graph \ graph' =>
       \/ rows[i].st = "consumed" /\ rows'[i].st = "rolled_back"
       \/ \E s \in DOMAIN previews :
            /\ previews[s].st = "active" /\ previews'[s].st = "applied"
            /\ p \in s.before
       \/ \E w \in Writers : writer[w].busy /\ ~writer'[w].busy]_bvars

(* The node tools promise that expected_brain_revision "blocks stale       *)
(* apply": a copy is stored only over the graph it was made from.          *)
StaleEditsBlocked ==
  [][\A w \in Writers :
       writer[w].busy /\ ~writer'[w].busy /\ graph' # graph =>
         graph = writer[w].read]_bvars
===============================================================================
