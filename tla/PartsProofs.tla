---------------------------- MODULE PartsProofs ----------------------------
(***************************************************************************)
(* The composition of MCParts: to each component it is that component's    *)
(* specification, so what is proved of a component holds beside the others *)
(* and whichever components are in play.                                   *)
(***************************************************************************)
EXTENDS MCParts, ReleaseCodeProofs, LimitProofs, ConsultationRoomProofs, AccountSyncProofs

-----------------------------------------------------------------------------
(* Each component sees its own steps or none.                              *)

LEMMA PartsStart ==
  Init => /\ part \in Parts
          /\ ReleaseInit /\ OtpInit /\ TfaInit /\ RoomInit /\ AccountInit
BY DEF Init

LEMMA PartsStep ==
  [Next]_vars => /\ UNCHANGED part
                 /\ [ReleaseNext]_codeVars /\ [OtpNext]_otpVars /\ [TfaNext]_tfaVars
                 /\ [RoomNext]_roomVars /\ [AccountNext]_accountVars
<1>1. CASE UNCHANGED vars
  BY <1>1 DEF vars
<1>2. CASE Next
  BY <1>2 DEF Next
<1>3. QED
  BY <1>1, <1>2

\* A behaviour of the composition is a behaviour of the release codes, of the
\* portal's login codes, of the second factor, of the consultation rooms and of
\* the account queue: none of them writes what another one keeps.
THEOREM PartsAreComponents ==
  Spec => ReleaseSpec /\ OtpSpec /\ TfaSpec /\ RoomSpec /\ AccountSpec
BY PartsStart, PartsStep, PTL DEF Spec, ReleaseSpec, OtpSpec, TfaSpec, RoomSpec, AccountSpec

-----------------------------------------------------------------------------
(* What follows from the components' own theorems.                         *)

\* Every variable of every component keeps its type, for any set of components
\* in play and any size of each.
THEOREM PartsTypesOK == Spec => []PartsTypeOK
<1>1. Init => part \in Parts
  BY PartsStart
<1>2. part \in Parts /\ [Next]_vars => (part \in Parts)'
  BY PartsStep
<1>3. Spec => [](part \in Parts)
  BY <1>1, <1>2, PTL DEF Spec
<1>4. QED
  BY <1>3, PartsAreComponents, ReleaseTypeCorrect, OtpTypeCorrect, TfaTypeCorrect,
     RoomTypeCorrect, AccountTypeCorrect, PTL DEF PartsTypeOK

\* Beside the others too: a release code opens an order once and is used only if
\* it was accepted, for an order that closes unless the close fails or an older
\* write undoes it; its wrong tries lock and its mark "sent" is true; few
\* second-factor codes live at once, all of them mailed; a second open room of an
\* owner is a leftover and an end is logged at most once; an account without a
\* user has a reason, and at rest it has the role of its user, unless assignments
\* overlapped or somebody wrote past them.
THEOREM PartsStaySafe ==
  Spec => [](/\ CodeOpensOnce /\ UsedCodeWasAccepted /\ UsedUpOnlyByFailure
             /\ WrongTriesLock /\ SentCodeWasMailed
             /\ LiveCodesAreFew /\ LiveCodeWasMailed
             /\ SecondRoomIsALeftover /\ EndIsLoggedOnce
             /\ LeftoversAreExplained /\ RolesAgree)
BY PartsAreComponents, OneCodeOpensOnce, UseIsAcceptance, UseHandsOver, WrongTriesAreLocked,
   MailedIsSent, LiveCodesStayFew, LiveCodesWereMailed, SecondRoomsAreLeftovers, EndsAreLoggedOnce,
   LeftoversHaveAReason, AccountsAgree, PTL

\* And every step of the composition passes the gates of the login codes and of
\* the second factor, moves the row of a session along its life cycle, and takes
\* the account of a user Keycloak knows only by a deletion that came too late.
THEOREM PartsMoveSafely ==
  Spec => /\ IssuesAreLimited /\ OtpLimitsHold /\ TfaLimitsHold
          /\ RowsOnlyMoveForward /\ UsersKeepTheirAccounts
BY PartsAreComponents, IssuesPassTheGate, OtpLimitsAreGates, TfaLimitsAreGates,
   RowsMoveForward, AccountsAreKept, PTL
=============================================================================
