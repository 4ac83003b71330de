--------------------------- MODULE OrderLifecycle ---------------------------
(***************************************************************************)
(* What the order component promises about one repair order: it is taken   *)
(* in as "received", and every later change of status is one arrow of the  *)
(* workshop matrix.                                                        *)
(***************************************************************************)
EXTENDS StatusMatrix

VARIABLE status

Init == status = "received"

Move(to) ==
  /\ to \in STATUS_TRANSITIONS[status]
  /\ status' = to

Next == \E to \in Status : Move(to)

Spec == Init /\ [][Next]_status
=============================================================================
