------------------------------ MODULE MCParts ------------------------------
(***************************************************************************)
(* Five components that share no state, checked side by side: a behaviour  *)
(* picks one of them at its start and is a behaviour of that one, with the *)
(* others where they began.  A property of one component is therefore      *)
(* checked as in a run of its own.                                         *)
(***************************************************************************)
EXTENDS ReleaseCode, PortalCode, TwoFactor, ConsultationRoom, AccountSync, TLC

CONSTANT Parts    \* the components in play

VARIABLE part     \* the one a behaviour is about

vars == <<part, codeVars, otpVars, tfaVars, roomVars, accountVars>>

Init ==
  /\ part \in Parts
  /\ ReleaseInit /\ OtpInit /\ TfaInit /\ RoomInit /\ AccountInit

Next ==
  /\ UNCHANGED part
  /\ \/ /\ part = "release" /\ ReleaseNext
        /\ UNCHANGED <<otpVars, tfaVars, roomVars, accountVars>>
     \/ /\ part = "portal" /\ OtpNext
        /\ UNCHANGED <<codeVars, tfaVars, roomVars, accountVars>>
     \/ /\ part = "twofactor" /\ TfaNext
        /\ UNCHANGED <<codeVars, otpVars, roomVars, accountVars>>
     \/ /\ part = "room" /\ RoomNext
        /\ UNCHANGED <<codeVars, otpVars, tfaVars, accountVars>>
     \/ /\ part = "account" /\ AccountNext
        /\ UNCHANGED <<codeVars, otpVars, tfaVars, roomVars>>

Spec == Init /\ [][Next]_vars

\* Where nothing has started there is nothing to be fair to, so the fairness of
\* the components that are not in play asks for nothing.
FairSpec == Spec /\ RoomFairness /\ AccountFairness

\* The requests of all components are the same two model values.
Symmetry == Permutations(ReleaseRequest) \cup Permutations(Room)

\* Every variable of every component keeps its type.
PartsTypeOK ==
  /\ part \in Parts
  /\ ReleaseTypeOK /\ OtpTypeOK /\ TfaTypeOK /\ RoomTypeOK /\ AccountTypeOK
=============================================================================
