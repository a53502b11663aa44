----------------------------- MODULE GrowClaims -----------------------------
(***************************************************************************)
(* What the comments of the Grow store say of it, checked against what its *)
(* code does.                                                              *)
(***************************************************************************)
EXTENDS GrowStore

(* The server does not crash: the claims below are about failing providers *)
(* and repeated requests only.                                             *)
SteadyNext ==
  \/ Serve
  \/ \E i \in Ids : Rollback(i)
  \/ \E f \in Facts : ForeignEdit(f)
  \/ Tick

SteadySpec == Init /\ [][SteadyNext]_vars

(* The docstring of discard_grow_investigation_reservation: the cleanup    *)
(* "prevents an initial provider outage from leaving a phantom             *)
(* investigation that the client never received enough authority to        *)
(* resume". A pristine reservation with a random token belongs to a request*)
(* that is still being served.                                             *)
NoPhantomInvestigation ==
  \A i \in Ids :
    Pristine(i) /\ ~rows[i].derived =>
      \E c \in Clients : handler[c].id = i /\ handler[c].fresh

(* The same docstring: "Resumed or evidence-bearing investigations are     *)
(* never discarded: they remain server-authoritative and recoverable". An  *)
(* answer that a resume stored is still there after every step.            *)
AnswersKept ==
  [][\A i \in Ids : rows[i].answer # None => rows'[i].answer # None]_vars
=============================================================================
