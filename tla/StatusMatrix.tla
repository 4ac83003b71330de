---------------------------- MODULE StatusMatrix ----------------------------
(***************************************************************************)
(* The status vocabulary of a repair order and the two transition matrices *)
(* that lib/services.ts validates against: the full one of the workshop    *)
(* (role "service") and the narrow one of the counter (role "sales").      *)
(***************************************************************************)

Status == {"received", "diagnosing", "awaiting_quote", "awaiting_parts",
           "repairing", "testing", "ready", "delivered", "on_hold",
           "rejected_by_customer", "returned_no_repair", "closed",
           "cancelled", "archived"}

Role == {"service", "sales"}

\* The exits shared by every stage of the repair pipeline.
Exits == {"on_hold", "cancelled", "archived"}
Refusals == {"rejected_by_customer", "returned_no_repair"}

STATUS_TRANSITIONS == [s \in Status |->
  CASE s = "received" ->
         {"diagnosing", "awaiting_quote", "awaiting_parts", "repairing"}
           \cup Refusals \cup Exits
    [] s = "diagnosing" ->
         {"awaiting_quote", "awaiting_parts", "repairing"} \cup Refusals \cup Exits
    [] s = "awaiting_quote" -> {"awaiting_parts", "repairing"} \cup Refusals \cup Exits
    [] s = "awaiting_parts" -> {"repairing"} \cup Refusals \cup Exits
    [] s = "repairing" -> {"awaiting_parts", "testing"} \cup Refusals \cup Exits
    [] s = "testing" -> {"ready", "repairing"} \cup Exits
    [] s = "on_hold" ->
         {"received", "diagnosing", "awaiting_quote", "awaiting_parts",
          "repairing", "testing", "ready", "cancelled", "archived"}
    [] s = "ready" -> {"delivered", "closed", "archived"}
    [] s = "rejected_by_customer" -> {"returned_no_repair", "closed", "archived"}
    [] s \in {"delivered", "returned_no_repair"} -> {"closed", "archived"}
    [] s = "cancelled" -> {"archived"}
    [] s \in {"closed", "archived"} -> {}]

SALES_TRANSITIONS == [s \in Status |->
  CASE s = "ready" -> {"delivered"}
    [] s = "delivered" -> {"closed"}
    [] s \notin {"ready", "delivered"} -> {}]

\* Slip: the matrix is chosen without looking at the role.
CanTransitionAnyRole(from, to, role) == from = to \/ to \in STATUS_TRANSITIONS[from]

\* A request for the status the order already has is always let through.
canTransition(from, to, role) ==
  \/ from = to
  \/ to \in (IF role = "sales" THEN SALES_TRANSITIONS ELSE STATUS_TRANSITIONS)[from]

\* Slip: the arguments are swapped.
IsAllowedBackwards(from, to) == canTransition(to, from, "service")

\* updateService never learns the caller's role: it always validates as "service".
isAllowedTransition(from, to) == canTransition(from, to, "service")

\* Statuses no transition leaves.
Terminal == {s \in Status : STATUS_TRANSITIONS[s] = {}}

\* Statuses an order can be put on hold from.
Holdable == {s \in Status : "on_hold" \in STATUS_TRANSITIONS[s]}
=============================================================================
