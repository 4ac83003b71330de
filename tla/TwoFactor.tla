----------------------------- MODULE TwoFactor -----------------------------
(***************************************************************************)
(* The e-mailed second factor of one user and one purpose: the rows of     *)
(* mp_2fa_codes (lib/security/two-factor.ts) and the handlers 2fa/request  *)
(* and 2fa/verify.  A verification names the row it is about.              *)
(***************************************************************************)
EXTENDS Naturals, FiniteSets

CONSTANTS
  TfaRequest,     \* requests that can be in flight at the same time
  TFA_ATTEMPTS,   \* wrong tries a code survives: 5 in the code
  MaxTfa,         \* bound: codes issued
  TfaFailures     \* a statement may fail, or the process die, at any await

ASSUME TfaAssumption ==
  /\ IsFiniteSet(TfaRequest)
  /\ TFA_ATTEMPTS \in Nat \ {0}
  /\ MaxTfa \in Nat
  /\ TfaFailures \in BOOLEAN

VARIABLES
  tfa,          \* tfa[c]: the row of the c-th code
  tfaIssued,    \* number of rows
  tfaReq,       \* tfaReq[r]: local state of the handler of request r
  tfaAccepted,  \* tfaAccepted[c]: verifications of code c that succeeded
  tfaWrong,     \* tfaWrong[c]: wrong tries that were judged by code c
  tfaMailed,    \* codes whose message was handed to the mail server
  tfaBroken     \* a handler died, or failed to withdraw a code it could not send

tfaVars == <<tfa, tfaIssued, tfaReq, tfaAccepted, tfaWrong, tfaMailed, tfaBroken>>

Tfa == 1..MaxTfa

TfaRow == [attempts : Nat, used : BOOLEAN, expired : BOOLEAN]
NewTfa == [attempts |-> 0, used |-> FALSE, expired |-> FALSE]

TfaStage == {"idle", "insert", "mail", "rollback", "count", "mark"}

\* `mine`: the session belongs to the user the code was issued to.
TfaRequestState == [stage : TfaStage, tfa : 0..MaxTfa, mine : BOOLEAN]
TfaIdle == [stage |-> "idle", tfa |-> 0, mine |-> TRUE]

TfaTypeOK ==
  /\ tfa \in [Tfa -> TfaRow]
  /\ tfaIssued \in 0..MaxTfa
  /\ tfaReq \in [TfaRequest -> TfaRequestState]
  /\ tfaAccepted \in [Tfa -> Nat]
  /\ tfaWrong \in [Tfa -> Nat]
  /\ tfaMailed \subseteq Tfa
  /\ tfaBroken \in BOOLEAN

TfaInit ==
  /\ tfa = [c \in Tfa |-> NewTfa]
  /\ tfaIssued = 0
  /\ tfaReq = [r \in TfaRequest |-> TfaIdle]
  /\ tfaAccepted = [c \in Tfa |-> 0]
  /\ tfaWrong = [c \in Tfa |-> 0]
  /\ tfaMailed = {}
  /\ tfaBroken = FALSE

TfaGoto(r, stage, c) == tfaReq' = [tfaReq EXCEPT ![r].stage = stage, ![r].tfa = c]
TfaRespond(r) == tfaReq' = [tfaReq EXCEPT ![r] = TfaIdle]

TfaIssuedCodes == 1..tfaIssued

-----------------------------------------------------------------------------
(* requestCode: withdraw what is unused, insert a new row, send the mail.  *)

RoomForTfa == tfaIssued + Cardinality({r \in TfaRequest : tfaReq[r].stage = "insert"}) < MaxTfa

\* Slip: the codes issued before are left alone.
RequestTfaKeeping(r) ==
  /\ tfaReq[r] = TfaIdle
  /\ RoomForTfa
  /\ TfaGoto(r, "insert", 0)
  /\ UNCHANGED <<tfa, tfaIssued, tfaAccepted, tfaWrong, tfaMailed, tfaBroken>>

RequestTfa(r) ==
  /\ tfaReq[r] = TfaIdle
  /\ RoomForTfa
  /\ tfa' = [c \in Tfa |-> [tfa[c] EXCEPT !.used = @ \/ c \in TfaIssuedCodes]]
  /\ TfaGoto(r, "insert", 0)
  /\ UNCHANGED <<tfaIssued, tfaAccepted, tfaWrong, tfaMailed, tfaBroken>>

InsertTfa(r) ==
  /\ tfaReq[r].stage = "insert"
  /\ tfaIssued' = tfaIssued + 1
  /\ tfa' = [tfa EXCEPT ![tfaIssued + 1] = NewTfa]
  /\ TfaGoto(r, "mail", tfaIssued + 1)
  /\ UNCHANGED <<tfaAccepted, tfaWrong, tfaMailed, tfaBroken>>

\* Three tries, then the code is withdrawn.
MailTfa(r) ==
  /\ tfaReq[r].stage = "mail"
  /\ \/ /\ tfaMailed' = tfaMailed \cup {tfaReq[r].tfa}
        /\ TfaRespond(r)
     \/ /\ TfaFailures
        /\ TfaGoto(r, "rollback", tfaReq[r].tfa)
        /\ UNCHANGED tfaMailed
  /\ UNCHANGED <<tfa, tfaIssued, tfaAccepted, tfaWrong, tfaBroken>>

\* Slip: the code that could not be sent stays.
RollbackTfaNot(r) ==
  /\ tfaReq[r].stage = "rollback"
  /\ TfaRespond(r)
  /\ UNCHANGED <<tfa, tfaIssued, tfaAccepted, tfaWrong, tfaMailed, tfaBroken>>

\* A failure of this statement is swallowed.
RollbackTfa(r) ==
  /\ tfaReq[r].stage = "rollback"
  /\ \/ /\ tfa' = [tfa EXCEPT ![tfaReq[r].tfa].used = TRUE]
        /\ UNCHANGED tfaBroken
     \/ /\ TfaFailures
        /\ tfaBroken' = TRUE
        /\ UNCHANGED tfa
  /\ TfaRespond(r)
  /\ UNCHANGED <<tfaIssued, tfaAccepted, tfaWrong, tfaMailed>>

-----------------------------------------------------------------------------
(* verifyCode, and the check of the session that comes after it.           *)

Judgeable(c) == ~tfa[c].used /\ ~tfa[c].expired /\ tfa[c].attempts < TFA_ATTEMPTS

\* The row of another user can be named too: its code is used up, and a wrong try
\* counted, all the same.
VerifyTfa(r, c, right, mine) ==
  /\ tfaReq[r] = TfaIdle
  /\ c \in TfaIssuedCodes
  /\ right => c \in tfaMailed
  /\ ~right => mine     \* whose session it is makes no difference to a wrong try
  /\ Judgeable(c)
  /\ tfaReq' = [tfaReq EXCEPT ![r] = [stage |-> IF right THEN "mark" ELSE "count",
                                      tfa |-> c, mine |-> mine]]
  /\ UNCHANGED <<tfa, tfaIssued, tfaAccepted, tfaWrong, tfaMailed, tfaBroken>>

\* Slip: the column is overwritten with one.
CountTfaOnce(r) ==
  /\ tfaReq[r].stage = "count"
  /\ tfa' = [tfa EXCEPT ![tfaReq[r].tfa].attempts = 1]
  /\ tfaWrong' = [tfaWrong EXCEPT ![tfaReq[r].tfa] = @ + 1]
  /\ TfaRespond(r)
  /\ UNCHANGED <<tfaIssued, tfaAccepted, tfaMailed, tfaBroken>>

CountTfa(r) ==
  /\ tfaReq[r].stage = "count"
  /\ tfa' = [tfa EXCEPT ![tfaReq[r].tfa].attempts = @ + 1]
  /\ tfaWrong' = [tfaWrong EXCEPT ![tfaReq[r].tfa] = @ + 1]
  /\ TfaRespond(r)
  /\ UNCHANGED <<tfaIssued, tfaAccepted, tfaMailed, tfaBroken>>

MarkTfa(r) ==
  /\ tfaReq[r].stage = "mark"
  /\ tfa' = [tfa EXCEPT ![tfaReq[r].tfa].used = TRUE]
  /\ tfaAccepted' = IF tfaReq[r].mine THEN [tfaAccepted EXCEPT ![tfaReq[r].tfa] = @ + 1]
                                      ELSE tfaAccepted
  /\ TfaRespond(r)
  /\ UNCHANGED <<tfaIssued, tfaWrong, tfaMailed, tfaBroken>>

-----------------------------------------------------------------------------
(* The environment of the handlers.                                        *)

TfaDie(r) ==
  /\ TfaFailures
  /\ tfaReq[r].stage # "idle"
  /\ TfaRespond(r)
  /\ tfaBroken' = TRUE
  /\ UNCHANGED <<tfa, tfaIssued, tfaAccepted, tfaWrong, tfaMailed>>

\* Five minutes after it was issued, a code expires; the oldest one first.
ExpireTfa(c) ==
  /\ c \in TfaIssuedCodes
  /\ ~tfa[c].expired
  /\ \A d \in 1..(c - 1) : tfa[d].expired
  /\ tfa' = [tfa EXCEPT ![c].expired = TRUE]
  /\ UNCHANGED <<tfaIssued, tfaReq, tfaAccepted, tfaWrong, tfaMailed, tfaBroken>>

TfaNext ==
  \/ \E r \in TfaRequest :
       \/ RequestTfa(r) \/ InsertTfa(r) \/ MailTfa(r) \/ RollbackTfa(r)
       \/ \E c \in Tfa, right, mine \in BOOLEAN : VerifyTfa(r, c, right, mine)
       \/ CountTfa(r) \/ MarkTfa(r)
       \/ TfaDie(r)
  \/ \E c \in Tfa : ExpireTfa(c)

TfaSpec == TfaInit /\ [][TfaNext]_tfaVars

-----------------------------------------------------------------------------
(* What the code promises.                                                 *)

LiveTfa == {c \in TfaIssuedCodes : ~tfa[c].used}
TfaAt(stage, c) == {r \in TfaRequest : tfaReq[r].stage = stage /\ tfaReq[r].tfa = c}
Confirming(c) == {r \in TfaAt("mark", c) : tfaReq[r].mine}

\* "Inwaliduj poprzednie": withdrawing the old codes and inserting the new one
\* are two statements, so two requests that overlap both leave a code; there are
\* never more usable codes than requests that can overlap.
LiveCodesAreFew == Cardinality(LiveTfa) <= Cardinality(TfaRequest)

\* No "ghost" code: a usable code that no request is still sending was handed
\* to the mail server, unless a handler died or could not withdraw it.
LiveCodeWasMailed ==
  \A c \in LiveTfa :
    c \in tfaMailed \/ tfaBroken \/ TfaAt("mail", c) \cup TfaAt("rollback", c) # {}

TfaAttemptGate(c) == INSTANCE Gate WITH Client <- TfaRequest, Limit <- TFA_ATTEMPTS,
  count <- tfaWrong[c], through <- TfaAt("count", c)

TfaAcceptGate(c) == INSTANCE Gate WITH Client <- TfaRequest, Limit <- 1,
  count <- tfaAccepted[c], through <- Confirming(c)

\* A code takes five wrong tries and confirms one action; requests that overlap
\* may overrun either limit, by their number and no more.
TfaLimitsHold ==
  /\ \A c \in Tfa : TfaAttemptGate(c)!GateInit /\ TfaAcceptGate(c)!GateInit
  /\ [][UNCHANGED tfaVars \/ \A c \in Tfa :
           TfaAttemptGate(c)!GateStep /\ TfaAcceptGate(c)!GateStep]_tfaVars
=============================================================================
