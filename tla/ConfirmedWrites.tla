--------------------------- MODULE ConfirmedWrites ---------------------------
(***************************************************************************)
(* What Brain Bootstrap promises the owner of a brain, without the revision*)
(* files, the probe, the registry and the crashes that cut them short: a   *)
(* session writes only what a user confirmed, out of what was offered then,*)
(* and each confirmation has one turn to write. What it writes next to its *)
(* own is a copy of the brain, with contributions that had been written    *)
(* before, by whoever it was.                                              *)
(***************************************************************************)
CONSTANTS
  Sessions,   \* sessions of one brain
  Facts,      \* candidates
  Keys,       \* names of confirmations
  None,       \* no turn
  Foreign     \* every other writer

VARIABLES
  brain,      \* contributions <<fact, writer>>
  offer,      \* offer[s]: the candidates a user may confirm
  confirmed,  \* confirmed[s]: the confirmations, <<key, selection>>
  turn,       \* turn[s]: the confirmation that may still write
  written     \* written[s]: the confirmations that have

cvars == <<brain, offer, confirmed, turn, written>>

Writers == (Sessions \X Keys) \cup {Foreign}

(* It may come back with a copy of the brain.                              *)
Traced(p) ==
  \/ p[2] = Foreign
  \/ \E t \in Sessions : \E c \in confirmed[t] :
       p[2] = <<t, c[1]>> /\ c[1] \in written[t] /\ p[1] \in c[2]

CInit ==
  /\ brain \subseteq Facts \X {Foreign}
  /\ offer = [s \in Sessions |-> {}]
  /\ confirmed = [s \in Sessions |-> {}]
  /\ turn = [s \in Sessions |-> None]
  /\ written = [s \in Sessions |-> {}]

(* The session offers other candidates, or none.                           *)
Offer(s, S) ==
  /\ turn[s] = None
  /\ offer' = [offer EXCEPT ![s] = S]
  /\ UNCHANGED <<brain, confirmed, turn, written>>

(* The user confirms candidates on offer, with a key of their own.         *)
Confirm(s, k, S) ==
  /\ turn[s] = None
  /\ S # {} /\ S \subseteq offer[s]
  /\ \A c \in confirmed[s] : c[1] # k
  /\ confirmed' = [confirmed EXCEPT ![s] = @ \cup {<<k, S>>}]
  /\ turn' = [turn EXCEPT ![s] = k]
  /\ UNCHANGED <<brain, offer, written>>

(* The confirmed candidates, or some of them, are written next to a copy of*)
(* the brain.                                                              *)
Write(s) ==
  /\ turn[s] # None
  /\ \E c \in confirmed[s] :
       /\ c[1] = turn[s]
       /\ \A p \in brain' : Traced(p) \/ (p[2] = <<s, c[1]>> /\ p[1] \in c[2])
       /\ \E p \in brain' : p[2] = <<s, c[1]>>
  /\ brain' \in SUBSET (Facts \X Writers)
  /\ written' = [written EXCEPT ![s] = @ \cup {turn[s]}]
  /\ turn' = [turn EXCEPT ![s] = None]
  /\ UNCHANGED <<offer, confirmed>>

(* All of them were known: the copy is all that is written.                *)
WriteBack(s) ==
  /\ turn[s] # None
  /\ brain' \in SUBSET (Facts \X Writers)
  /\ \A p \in brain' : Traced(p)
  /\ turn' = [turn EXCEPT ![s] = None]
  /\ UNCHANGED <<offer, confirmed, written>>

(* The turn of some sessions passes for good; a session may be lost with   *)
(* what it offers.                                                         *)
Lapse(T) ==
  /\ turn' = [s \in Sessions |-> IF s \in T THEN None ELSE turn[s]]
  /\ \/ UNCHANGED offer
     \/ \E s \in Sessions : offer' = [offer EXCEPT ![s] = {}]
  /\ UNCHANGED <<brain, confirmed, written>>

(* Others write the brain: they may take away what a session put there,    *)
(* and put nothing there in its name.                                      *)
Elsewhere ==
  /\ brain' \subseteq brain \cup (Facts \X {Foreign})
  /\ UNCHANGED <<offer, confirmed, turn, written>>

CNext ==
  \/ \E s \in Sessions :
       \/ Write(s) \/ WriteBack(s)
       \/ \E S \in SUBSET Facts : Offer(s, S) \/ \E k \in Keys : Confirm(s, k, S)
  \/ \E T \in SUBSET Sessions : Lapse(T)
  \/ Elsewhere

CSpec == CInit /\ [][CNext]_cvars
==============================================================================
