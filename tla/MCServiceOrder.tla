--------------------------- MODULE MCServiceOrder ---------------------------
(* Instances of ServiceOrder for TLC.                                      *)
EXTENDS ServiceOrder, TLC

AllOps == OrderOp \cup JobOp

\* What the mounted screens call: the dialog with the button that posts a bare
\* transport job is not mounted by any page.
MountedOps == AllOps \ {"post"}

\* Statuses along the repair line, a hold, and the two ends.
MainLine == {"repairing", "testing", "ready", "delivered", "on_hold", "cancelled", "archived"}
ShortLine == {"repairing", "ready", "on_hold"}

\* Bodies of the generic PATCH that leave the memory of a hold alone or clear
\* it, and bodies that also name a status to remember.
LineBodies == {[NoPatch EXCEPT !.status = s, !.previousStatus = m] :
                 s \in MainLine \cup {Keep}, m \in {Keep, Null}}
AnyBodies == {[NoPatch EXCEPT !.status = s, !.previousStatus = m] :
                s \in ShortLine \cup {Keep}, m \in {Keep, Null, "ready"}}

RequestSymmetry == Permutations(Request)
=============================================================================
