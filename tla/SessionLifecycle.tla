-------------------------- MODULE SessionLifecycle --------------------------
(***************************************************************************)
(* What a reader of mp_livekit_sessions may rely on: a session is created  *)
(* once, becomes active at most once, and an ended one never comes back.   *)
(***************************************************************************)
CONSTANTS Session

VARIABLE status

LifecycleInit == status = [s \in Session |-> "none"]

Moves == [none |-> {"waiting"}, waiting |-> {"active", "ended"}, active |-> {"ended"}, ended |-> {}]

\* The sweep of old rows may end several sessions in one step.
LifecycleNext ==
  /\ DOMAIN status' = Session
  /\ \A s \in Session : status'[s] = status[s] \/ status'[s] \in Moves[status[s]]

LifecycleSpec == LifecycleInit /\ [][LifecycleNext]_status
=============================================================================
