---------------------------- MODULE ReviewedApply ----------------------------
(***************************************************************************)
(* What Grow promises the owner of a brain, without the store, the         *)
(* requests and the clock: memory changes only by a proposal that was      *)
(* reviewed on exactly the content it is applied to, at most once, and an  *)
(* undo takes away exactly what that proposal had put there.               *)
(*                                                                         *)
(* A memory is a set of contributions <<fact, writer>>: a node of the      *)
(* brain exists when some writer contributed to it, and its content is     *)
(* told apart by who contributed.                                          *)
(***************************************************************************)
CONSTANTS
  Ids,       \* proposals (Grow investigations)
  Facts,     \* memory nodes a proposal may create or change
  Foreign    \* the writer that stands for everything that is not Grow

VARIABLES
  memory,    \* the brain graph
  proposal   \* proposal[i]: its status, the memory it was built on, its offer

avars == <<memory, proposal>>

Status == {"none", "open", "applied", "undone", "closed"}

Unproposed == [st |-> "none", basis |-> {}, offer |-> {}]

Contribution(i, S) == S \X {i}

AInit ==
  /\ memory \subseteq Facts \X {Foreign}
  /\ proposal = [i \in Ids |-> Unproposed]

(* A preview becomes reviewable; memory is not touched.                    *)
Propose(i) ==
  /\ proposal[i].st = "none"
  /\ \E S \in (SUBSET Facts) \ {{}} :
       proposal' = [proposal EXCEPT ![i] =
                      [st |-> "open", basis |-> memory, offer |-> S]]
  /\ UNCHANGED memory

(* The reviewed selection enters memory, only while memory is still what   *)
(* the reviewer saw; every other open proposal is closed.                  *)
Apply(i) ==
  /\ proposal[i].st = "open"
  /\ proposal[i].basis = memory
  /\ \E S \in (SUBSET proposal[i].offer) \ {{}} :
       memory' = memory \cup Contribution(i, S)
  /\ proposal' = [j \in Ids |->
       IF j = i THEN [proposal[j] EXCEPT !.st = "applied"]
       ELSE IF proposal[j].st = "open" THEN [proposal[j] EXCEPT !.st = "closed"]
       ELSE proposal[j]]

(* Exactly the contribution of i leaves memory, once.                      *)
Undo(i) ==
  /\ proposal[i].st = "applied"
  /\ memory' = memory \ Contribution(i, Facts)
  /\ proposal' = [proposal EXCEPT ![i].st = "undone"]

(* An open proposal lapses.                                                *)
Close(i) ==
  /\ proposal[i].st = "open"
  /\ proposal' = [proposal EXCEPT ![i].st = "closed"]
  /\ UNCHANGED memory

(* Another writer edits memory. It may remove what Grow put there, it      *)
(* never puts a Grow contribution there.                                   *)
Edit ==
  /\ memory' \subseteq memory \cup (Facts \X {Foreign})
  /\ UNCHANGED proposal

ANext ==
  \/ \E i \in Ids : Propose(i) \/ Apply(i) \/ Undo(i) \/ Close(i)
  \/ Edit

ASpec == AInit /\ [][ANext]_avars
==============================================================================
