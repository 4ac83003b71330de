----------------------------- MODULE PortalCode -----------------------------
(***************************************************************************)
(* The one-time codes of the customer portal for one e-mail address: the   *)
(* rows of mp_customer_portal_otps (lib/customer-portal/otp.ts) and the    *)
(* handlers auth/email-otp and auth/verify-otp.  Every statement commits   *)
(* on its own; attempts is incremented by the database.                    *)
(***************************************************************************)
EXTENDS Naturals, FiniteSets

CONSTANTS
  OtpRequest,     \* requests that can be in flight at the same time
  OTP_ATTEMPTS,   \* wrong tries a code survives: 5 in the code
  OTP_LIMIT,      \* codes per window of 15 minutes: 3 in the code
  MaxOtps,        \* bound: codes issued
  OtpFailures     \* a statement may fail, or the process die, at any await

ASSUME OtpAssumption ==
  /\ IsFiniteSet(OtpRequest)
  /\ OTP_ATTEMPTS \in Nat \ {0}
  /\ OTP_LIMIT \in Nat \ {0}
  /\ MaxOtps \in Nat
  /\ OtpFailures \in BOOLEAN

VARIABLES
  otp,           \* otp[c]: the row of the c-th code
  otpIssued,     \* number of rows
  otpReq,        \* otpReq[r]: local state of the handler of request r
  otpAccepted,   \* otpAccepted[c]: verifications of code c that succeeded
  otpWrong       \* otpWrong[c]: wrong tries that were judged by code c

otpVars == <<otp, otpIssued, otpReq, otpAccepted, otpWrong>>

Otp == 1..MaxOtps

\* A code is valid for 10 minutes and counted by the limit for 15.
OtpAge == {"fresh", "expired", "forgotten"}
OtpRow == [attempts : Nat, used : BOOLEAN, age : OtpAge]
NewOtp == [attempts |-> 0, used |-> FALSE, age |-> "fresh"]

OtpStage == {"idle", "insert", "exhaust", "count", "mark"}
OtpRequestState == [stage : OtpStage, otp : 0..MaxOtps]
OtpIdle == [stage |-> "idle", otp |-> 0]

OtpTypeOK ==
  /\ otp \in [Otp -> OtpRow]
  /\ otpIssued \in 0..MaxOtps
  /\ otpReq \in [OtpRequest -> OtpRequestState]
  /\ otpAccepted \in [Otp -> Nat]
  /\ otpWrong \in [Otp -> Nat]

OtpInit ==
  /\ otp = [c \in Otp |-> NewOtp]
  /\ otpIssued = 0
  /\ otpReq = [r \in OtpRequest |-> OtpIdle]
  /\ otpAccepted = [c \in Otp |-> 0]
  /\ otpWrong = [c \in Otp |-> 0]

OtpGoto(r, stage, c) == otpReq' = [otpReq EXCEPT ![r] = [stage |-> stage, otp |-> c]]
OtpRespond(r) == otpReq' = [otpReq EXCEPT ![r] = OtpIdle]

-----------------------------------------------------------------------------
(* POST auth/email-otp: isRateLimited, then issueOtp.  Whether the mail    *)
(* arrives is not reported to anyone.                                      *)

Issued == 1..otpIssued
Recent == {c \in Issued : otp[c].age # "forgotten"}

\* Bound: no more than MaxOtps codes are ever issued.
RoomForOtp == otpIssued + Cardinality({r \in OtpRequest : otpReq[r].stage = "insert"}) < MaxOtps

\* Slip: the limit is looked at only when a code is still valid.
RequestOtpLoosely(r) ==
  /\ otpReq[r] = OtpIdle
  /\ Cardinality({c \in Issued : otp[c].age = "fresh"}) < OTP_LIMIT
  /\ RoomForOtp
  /\ OtpGoto(r, "insert", 0)
  /\ UNCHANGED <<otp, otpIssued, otpAccepted, otpWrong>>

RequestOtp(r) ==
  /\ otpReq[r] = OtpIdle
  /\ Cardinality(Recent) < OTP_LIMIT
  /\ RoomForOtp
  /\ OtpGoto(r, "insert", 0)
  /\ UNCHANGED <<otp, otpIssued, otpAccepted, otpWrong>>

InsertOtp(r) ==
  /\ otpReq[r].stage = "insert"
  /\ otpIssued' = otpIssued + 1
  /\ otp' = [otp EXCEPT ![otpIssued + 1] = NewOtp]
  /\ OtpRespond(r)
  /\ UNCHANGED <<otpAccepted, otpWrong>>

-----------------------------------------------------------------------------
(* POST auth/verify-otp: the newest unused row is judged, whichever code   *)
(* the customer had in mind, and one statement follows.                    *)

Unused == {c \in Issued : ~otp[c].used}
NewestUnused(c) == c \in Unused /\ \A d \in Unused : d <= c

\* What happens to row c when the customer types t.
OtpVerdict(c, t) ==
  CASE otp[c].age # "fresh" -> "idle"
    [] otp[c].age = "fresh" /\ otp[c].attempts >= OTP_ATTEMPTS -> "exhaust"
    [] otp[c].age = "fresh" /\ otp[c].attempts < OTP_ATTEMPTS ->
         IF t = c THEN "mark" ELSE "count"

VerifyOtp(r, c, t) ==
  /\ otpReq[r] = OtpIdle
  /\ NewestUnused(c)
  /\ OtpVerdict(c, t) # "idle"
  /\ OtpGoto(r, OtpVerdict(c, t), c)
  /\ UNCHANGED <<otp, otpIssued, otpAccepted, otpWrong>>

ExhaustOtp(r) ==
  /\ otpReq[r].stage = "exhaust"
  /\ otp' = [otp EXCEPT ![otpReq[r].otp].used = TRUE]
  /\ OtpRespond(r)
  /\ UNCHANGED <<otpIssued, otpAccepted, otpWrong>>

CountOtp(r) ==
  /\ otpReq[r].stage = "count"
  /\ otp' = [otp EXCEPT ![otpReq[r].otp].attempts = @ + 1]
  /\ otpWrong' = [otpWrong EXCEPT ![otpReq[r].otp] = @ + 1]
  /\ OtpRespond(r)
  /\ UNCHANGED <<otpIssued, otpAccepted>>

\* Slip: the code is accepted and stays usable.
MarkOtpKeeping(r) ==
  /\ otpReq[r].stage = "mark"
  /\ otpAccepted' = [otpAccepted EXCEPT ![otpReq[r].otp] = @ + 1]
  /\ OtpRespond(r)
  /\ UNCHANGED <<otp, otpIssued, otpWrong>>

\* The mark does not look whether the row has been used since it was read.
MarkOtp(r) ==
  /\ otpReq[r].stage = "mark"
  /\ otp' = [otp EXCEPT ![otpReq[r].otp].used = TRUE]
  /\ otpAccepted' = [otpAccepted EXCEPT ![otpReq[r].otp] = @ + 1]
  /\ OtpRespond(r)
  /\ UNCHANGED <<otpIssued, otpWrong>>

-----------------------------------------------------------------------------
(* The environment of the handlers.                                        *)

OtpDie(r) ==
  /\ OtpFailures
  /\ otpReq[r].stage # "idle"
  /\ OtpRespond(r)
  /\ UNCHANGED <<otp, otpIssued, otpAccepted, otpWrong>>

\* Codes age in the order they were issued in.
Older == [fresh |-> "expired", expired |-> "forgotten", forgotten |-> "forgotten"]

AgeOtp(c) ==
  /\ c \in Issued
  /\ otp[c].age # "forgotten"
  /\ \A d \in 1..(c - 1) : otp[d].age # otp[c].age
  /\ otp' = [otp EXCEPT ![c].age = Older[@]]
  /\ UNCHANGED <<otpIssued, otpReq, otpAccepted, otpWrong>>

OtpNext ==
  \/ \E r \in OtpRequest :
       \/ RequestOtp(r) \/ InsertOtp(r)
       \/ \E c \in Issued, t \in 0..otpIssued : VerifyOtp(r, c, t)
       \/ ExhaustOtp(r) \/ CountOtp(r) \/ MarkOtp(r)
       \/ OtpDie(r)
  \/ \E c \in Otp : AgeOtp(c)

OtpSpec == OtpInit /\ [][OtpNext]_otpVars

-----------------------------------------------------------------------------
(* The three limits of the portal are gates: the code checks them in one   *)
(* statement and consumes them in another, so each may be overrun by the   *)
(* other requests in flight, and by nothing else.                          *)

In(stage, c) == {r \in OtpRequest : otpReq[r].stage = stage /\ otpReq[r].otp = c}

WindowGate == INSTANCE Gate WITH Client <- OtpRequest, Limit <- OTP_LIMIT,
  count <- Cardinality(Recent), through <- In("insert", 0)

AttemptGate(c) == INSTANCE Gate WITH Client <- OtpRequest, Limit <- OTP_ATTEMPTS,
  count <- otpWrong[c], through <- In("count", c)

AcceptGate(c) == INSTANCE Gate WITH Client <- OtpRequest, Limit <- 1,
  count <- otpAccepted[c], through <- In("mark", c)

\* Three codes per window and address.
IssuesAreLimited ==
  /\ WindowGate!GateInit
  /\ [][UNCHANGED otpVars \/ WindowGate!GateStep]_otpVars

\* Five wrong tries per code: none is lost and none is forgiven.  "Single-use":
\* a code that was accepted is accepted again only for a request that had read it
\* before.
OtpLimitsHold ==
  /\ \A c \in Otp : AttemptGate(c)!GateInit /\ AcceptGate(c)!GateInit
  /\ [][UNCHANGED otpVars \/ \A c \in Otp :
           AttemptGate(c)!GateStep /\ AcceptGate(c)!GateStep]_otpVars
=============================================================================
