---------------------------- MODULE LimitProofs ----------------------------
(***************************************************************************)
(* Proofs about Gate, and that the limits of PortalCode and TwoFactor are  *)
(* gates, for any number of overlapping requests and any limit.            *)
(***************************************************************************)
EXTENDS Gate, PortalCode, TwoFactor, FiniteSetTheorems, TLAPS

-----------------------------------------------------------------------------
(* The gate.                                                               *)

\* What is taken and what may still be taken stay below the limit plus the
\* number of clients: only below the limit does anyone enter.
GateInv ==
  /\ through \subseteq Client
  /\ count \in Nat
  /\ count + Cardinality(through) < Limit + Cardinality(Client)

\* A step of a gate, whatever its count and its clients are made of: below what
\* the clients can add, the count and those who are through stay below it.
LEMMA GateStepKeeps ==
  ASSUME NEW C, IsFiniteSet(C), NEW L \in Nat \ {0},
         NEW n \in Nat, NEW m, NEW S \in SUBSET C, NEW T,
         n + Cardinality(S) < L + Cardinality(C),
         \/ m = n /\ T = S
         \/ \E c \in C : \/ n < L /\ m = n /\ T = S \cup {c}
                         \/ c \in S /\ m = n + 1 /\ T = S \ {c}
                         \/ c \in S /\ m = n /\ T = S \ {c}
         \/ m \in 0..n /\ T = S
  PROVE  T \subseteq C /\ m \in Nat /\ m + Cardinality(T) < L + Cardinality(C)
<1>1. Cardinality(C) \in Nat
  BY FS_CardinalityType
<1>2. \A U \in SUBSET C :
        IsFiniteSet(U) /\ Cardinality(U) \in Nat /\ Cardinality(U) <= Cardinality(C)
  BY FS_Subset, FS_CardinalityType
<1>3. \A c \in S : Cardinality(S \ {c}) = Cardinality(S) - 1
  BY <1>2, FS_RemoveElement
<1>4. CASE m \in 0..n /\ T = S
  BY <1>1, <1>2, <1>4
<1>5. ASSUME NEW c \in C, n < L, m = n, T = S \cup {c}
      PROVE  T \subseteq C /\ m \in Nat /\ m + Cardinality(T) < L + Cardinality(C)
  <2>1. T \in SUBSET C
    BY <1>5
  <2>2. QED
    BY <1>1, <1>2, <1>5, <2>1
<1>6. ASSUME NEW c \in S, m \in {n, n + 1}, T = S \ {c}
      PROVE  T \subseteq C /\ m \in Nat /\ m + Cardinality(T) < L + Cardinality(C)
  BY <1>1, <1>2, <1>3, <1>6
<1>7. QED
  BY <1>4, <1>5, <1>6

\* A limit that is checked in one statement and consumed in a later one is
\* overrun by less than the number of clients, whatever they do.
THEOREM GateIsOverrunByClients ==
  ASSUME IsFiniteSet(Client), Limit \in Nat \ {0}
  PROVE  GateSpec => []GateHolds
<1>1. Cardinality(Client) \in Nat
  BY FS_CardinalityType
<1>2. GateInit => GateInv
  BY <1>1, FS_EmptySet DEF GateInit, GateInv
<1>3. GateInv /\ [GateNext]_<<count, through>> => GateInv'
  BY GateStepKeeps DEF GateInv, GateNext, Enter, Take, Leave, Forget
<1>4. GateInv => GateHolds
  <2>1. ASSUME GateInv PROVE Cardinality(through) \in Nat
    BY <2>1, FS_Subset, FS_CardinalityType DEF GateInv
  <2>2. QED
    BY <1>1, <2>1 DEF GateInv, GateHolds
<1>5. QED
  BY <1>2, <1>3, <1>4, PTL DEF GateSpec

-----------------------------------------------------------------------------
(* Sets of requests.                                                       *)

\* One request more, or one less, of a finite set of requests.
LEMMA OneMore ==
  ASSUME NEW S, IsFiniteSet(S), NEW x
  PROVE  /\ Cardinality(S) \in Nat
         /\ x \notin S => Cardinality(S \cup {x}) = Cardinality(S) + 1
         /\ x \in S => Cardinality(S \ {x}) = Cardinality(S) - 1
         /\ \A T : T \subseteq S => IsFiniteSet(T) /\ Cardinality(T) \in 0..Cardinality(S)
<1>1. Cardinality(S) \in Nat
  BY FS_CardinalityType
<1>2. x \notin S => Cardinality(S \cup {x}) = Cardinality(S) + 1
  BY FS_AddElement
<1>3. x \in S => Cardinality(S \ {x}) = Cardinality(S) - 1
  BY FS_RemoveElement
<1>4. \A T : T \subseteq S => IsFiniteSet(T) /\ Cardinality(T) \in 0..Cardinality(S)
  <2>1. ASSUME NEW T, T \subseteq S
        PROVE  /\ IsFiniteSet(T) /\ Cardinality(T) \in Nat
               /\ Cardinality(T) <= Cardinality(S)
    BY <2>1, FS_Subset, FS_CardinalityType
  <2>2. QED
    BY <1>1, <2>1
<1>5. QED
  BY <1>1, <1>2, <1>3, <1>4

-----------------------------------------------------------------------------
(* The codes of the portal.                                                *)

Inserting == {r \in OtpRequest : otpReq[r].stage = "insert"}

\* A request works on a code that was issued, and a request that will issue one
\* has its place below the bound.
OtpRequests ==
  /\ otpIssued + Cardinality(Inserting) <= MaxOtps
  /\ \A r \in OtpRequest :
       /\ otpReq[r].stage = "insert" => otpReq[r].otp = 0
       /\ otpReq[r].stage \in {"exhaust", "count", "mark"} => otpReq[r].otp \in Issued

\* The row remembers every wrong try, and the use of every accepted code.
OtpRows ==
  \A c \in Otp :
    /\ otp[c].attempts = otpWrong[c]
    /\ otpAccepted[c] > 0 => otp[c].used
    /\ c > otpIssued => otpWrong[c] = 0 /\ otpAccepted[c] = 0

OtpInv == OtpTypeOK /\ OtpRequests /\ OtpRows

\* The two writes of a row.
LEMMA OtpRowWrites ==
  ASSUME NEW row \in OtpRow
  PROVE  /\ [row EXCEPT !.used = TRUE] \in OtpRow
         /\ [row EXCEPT !.used = TRUE].used
         /\ [row EXCEPT !.used = TRUE].attempts = row.attempts
         /\ [row EXCEPT !.attempts = row.attempts + 1] \in OtpRow
         /\ [row EXCEPT !.attempts = row.attempts + 1].used = row.used
         /\ [row EXCEPT !.attempts = row.attempts + 1].attempts = row.attempts + 1
<1>1. [row EXCEPT !.used = TRUE] \in OtpRow
  BY DEF OtpRow
<1>2. [row EXCEPT !.used = TRUE].used
  BY DEF OtpRow
<1>3. [row EXCEPT !.used = TRUE].attempts = row.attempts
  BY DEF OtpRow
<1>4. [row EXCEPT !.attempts = row.attempts + 1] \in OtpRow
  BY DEF OtpRow
<1>5. [row EXCEPT !.attempts = row.attempts + 1].used = row.used
  BY DEF OtpRow
<1>6. [row EXCEPT !.attempts = row.attempts + 1].attempts = row.attempts + 1
  BY DEF OtpRow
<1>7. QED
  BY <1>1, <1>2, <1>3, <1>4, <1>5, <1>6

LEMMA OtpGotoEffect ==
  ASSUME NEW r \in OtpRequest, otpReq \in [OtpRequest -> OtpRequestState],
         NEW stage \in OtpStage, NEW c \in 0..MaxOtps,
         OtpGoto(r, stage, c) \/ (OtpRespond(r) /\ stage = "idle" /\ c = 0)
  PROVE  /\ otpReq' \in [OtpRequest -> OtpRequestState]
         /\ otpReq'[r].stage = stage /\ otpReq'[r].otp = c
         /\ \A q \in OtpRequest \ {r} : otpReq'[q] = otpReq[q]
BY DEF OtpGoto, OtpRespond, OtpIdle, OtpRequestState

LEMMA InsertingIsFinite == Inserting \in SUBSET OtpRequest /\ IsFiniteSet(Inserting)
<1>1. Inserting \subseteq OtpRequest
  BY DEF Inserting
<1>2. QED
  BY <1>1, OtpAssumption, FS_Subset

LEMMA OtpInvAlways == OtpSpec => []OtpInv
<1> USE OtpAssumption
<1>1. OtpInit => OtpInv
  <2> SUFFICES ASSUME OtpInit PROVE OtpInv
    OBVIOUS
  <2>1. Inserting = {}
    BY DEF OtpInit, Inserting, OtpIdle
  <2>2. Cardinality(Inserting) = 0
    BY <2>1, FS_EmptySet
  <2>3. OtpTypeOK
    BY DEF OtpInit, OtpTypeOK, OtpRow, NewOtp, OtpAge, OtpIdle, OtpRequestState, OtpStage
  <2>4. QED
    BY <2>2, <2>3 DEF OtpInit, OtpInv, OtpRequests, OtpRows, OtpIdle, NewOtp
<1>2. OtpInv /\ [OtpNext]_otpVars => OtpInv'
  <2> SUFFICES ASSUME OtpInv, [OtpNext]_otpVars PROVE OtpInv'
    OBVIOUS
  <2> USE DEF OtpInv, OtpTypeOK
  <2>a. Cardinality(Inserting) \in Nat
    BY InsertingIsFinite, FS_CardinalityType
  <2>1. CASE UNCHANGED otpVars
    BY <2>1 DEF otpVars, OtpRequests, OtpRows, Inserting, Issued
  \* A request that ends leaves the others as they were.
  <2>2. ASSUME NEW r \in OtpRequest, OtpRespond(r), otpIssued' = otpIssued
        PROVE  otpReq' \in [OtpRequest -> OtpRequestState] /\ OtpRequests'
    <3>1. /\ otpReq' \in [OtpRequest -> OtpRequestState]
          /\ otpReq'[r].stage = "idle"
          /\ \A q \in OtpRequest \ {r} : otpReq'[q] = otpReq[q]
      BY <2>2, OtpGotoEffect, "idle" \in OtpStage, 0 \in 0..MaxOtps DEF OtpStage
    <3>2. Inserting' \subseteq Inserting
      BY <3>1 DEF Inserting
    <3>3. Cardinality(Inserting') \in 0..Cardinality(Inserting)
      BY <3>2, InsertingIsFinite, OneMore
    <3>4. QED
      BY <2>2, <2>a, <3>1, <3>3 DEF OtpRequests, Issued
  <2>3. ASSUME NEW r \in OtpRequest, RequestOtp(r) PROVE OtpInv'
    <3>1. /\ otpReq' \in [OtpRequest -> OtpRequestState]
          /\ otpReq'[r].stage = "insert" /\ otpReq'[r].otp = 0
          /\ \A q \in OtpRequest \ {r} : otpReq'[q] = otpReq[q]
      BY <2>3, OtpGotoEffect, "insert" \in OtpStage, 0 \in 0..MaxOtps DEF RequestOtp, OtpStage
    <3>2. Inserting' = Inserting \cup {r} /\ r \notin Inserting
      BY <2>3, <3>1 DEF Inserting, RequestOtp, OtpIdle
    <3>3. Cardinality(Inserting') = Cardinality(Inserting) + 1
      BY <3>2, InsertingIsFinite, OneMore
    <3>4. otpIssued + Cardinality(Inserting) < MaxOtps
      BY <2>3 DEF RequestOtp, RoomForOtp, Inserting
    <3>5. OtpRequests'
      BY <2>3, <2>a, <3>1, <3>3, <3>4 DEF RequestOtp, OtpRequests, Issued
    <3>6. QED
      BY <2>3, <3>1, <3>5 DEF RequestOtp, OtpRows
  <2>4. ASSUME NEW r \in OtpRequest, InsertOtp(r) PROVE OtpInv'
    <3>1. /\ otpReq' \in [OtpRequest -> OtpRequestState]
          /\ otpReq'[r].stage = "idle"
          /\ \A q \in OtpRequest \ {r} : otpReq'[q] = otpReq[q]
      BY <2>4, OtpGotoEffect, "idle" \in OtpStage, 0 \in 0..MaxOtps DEF InsertOtp, OtpStage
    <3>2. Inserting' = Inserting \ {r} /\ r \in Inserting
      BY <2>4, <3>1 DEF Inserting, InsertOtp
    <3>3. Cardinality(Inserting') = Cardinality(Inserting) - 1 /\ Cardinality(Inserting') \in Nat
      BY <3>2, InsertingIsFinite, OneMore
    <3>4. otpIssued' = otpIssued + 1 /\ otpIssued + 1 \in Otp
      BY <2>4, <2>a, <3>3 DEF InsertOtp, OtpRequests, Otp
    <3>5. OtpRequests'
      BY <2>a, <3>1, <3>3, <3>4 DEF OtpRequests, Issued
    <3>6. otp' \in [Otp -> OtpRow]
      BY <2>4, <3>4 DEF InsertOtp, NewOtp, OtpRow, OtpAge
    <3>7. OtpRows'
      BY <2>4, <3>4 DEF InsertOtp, OtpRows, NewOtp, Otp
    <3>8. QED
      BY <2>4, <3>1, <3>4, <3>5, <3>6, <3>7 DEF InsertOtp, Otp
  <2>5. ASSUME NEW r \in OtpRequest, NEW c \in Issued, NEW t \in 0..otpIssued, VerifyOtp(r, c, t)
        PROVE  OtpInv'
    <3> DEFINE stage == OtpVerdict(c, t)
    <3>1. c \in 0..MaxOtps /\ stage \in {"exhaust", "mark", "count"}
      BY <2>5 DEF VerifyOtp, OtpVerdict, Issued, OtpRow, Otp
    <3>2. stage \in OtpStage /\ OtpGoto(r, stage, c)
      BY <2>5, <3>1 DEF VerifyOtp, OtpStage
    <3> HIDE DEF stage
    <3>3. /\ otpReq' \in [OtpRequest -> OtpRequestState]
          /\ otpReq'[r].stage = stage /\ otpReq'[r].otp = c
          /\ \A q \in OtpRequest \ {r} : otpReq'[q] = otpReq[q]
      BY <3>1, <3>2, OtpGotoEffect
    <3>4. Inserting' = Inserting
      BY <2>5, <3>1, <3>3 DEF Inserting, VerifyOtp, OtpIdle
    <3>5. OtpRequests'
      BY <2>5, <3>1, <3>3, <3>4 DEF VerifyOtp, OtpRequests, Issued
    <3>6. QED
      BY <2>5, <3>3, <3>5 DEF VerifyOtp, OtpRows
  <2>6. ASSUME NEW r \in OtpRequest, ExhaustOtp(r) \/ CountOtp(r) \/ MarkOtp(r) PROVE OtpInv'
    <3>1. otpReq[r].otp \in Otp /\ otpReq[r].otp <= otpIssued
      BY <2>6 DEF ExhaustOtp, CountOtp, MarkOtp, OtpRequests, Issued, Otp
    <3> DEFINE k == otpReq[r].otp
               marked == [otp[k] EXCEPT !.used = TRUE]
               counted == [otp[k] EXCEPT !.attempts = otp[k].attempts + 1]
    <3>a. otp[k] \in OtpRow
      BY <3>1
    <3>2. /\ marked \in OtpRow /\ marked.used /\ marked.attempts = otp[k].attempts
          /\ counted \in OtpRow /\ counted.used = otp[k].used
          /\ counted.attempts = otp[k].attempts + 1
      BY <3>a, OtpRowWrites
    <3> HIDE DEF k, marked, counted
    <3>3. CASE ExhaustOtp(r) \/ MarkOtp(r)
      <4>1. otp' = [otp EXCEPT ![k] = marked] /\ UNCHANGED <<otpWrong, otpIssued>>
        BY <3>3 DEF ExhaustOtp, MarkOtp, k, marked
      <4>2. otp' \in [Otp -> OtpRow]
        BY <3>2, <4>1
      <4>3. otpAccepted' \in [Otp -> Nat] /\ \A c \in Otp \ {k} : otpAccepted'[c] = otpAccepted[c]
        BY <3>1, <3>3 DEF ExhaustOtp, MarkOtp, k
      <4>4. OtpRows'
        <5> SUFFICES ASSUME NEW c \in Otp
                     PROVE  /\ otp'[c].attempts = otpWrong'[c]
                            /\ otpAccepted'[c] > 0 => otp'[c].used
                            /\ c > otpIssued' => otpWrong'[c] = 0 /\ otpAccepted'[c] = 0
          BY DEF OtpRows
        <5>a. /\ otp[c].attempts = otpWrong[c]
              /\ otpAccepted[c] > 0 => otp[c].used
              /\ c > otpIssued => otpWrong[c] = 0 /\ otpAccepted[c] = 0
          BY DEF OtpRows
        <5>b. k \in Otp /\ k <= otpIssued
          BY <3>1 DEF k
        <5>1. CASE c = k
          BY <3>2, <4>1, <5>1, <5>a, <5>b DEF Otp
        <5>2. CASE c # k
          BY <4>1, <4>3, <5>2 DEF OtpRows
        <5>3. QED
          BY <5>1, <5>2
      <4>5. QED
        BY <2>2, <3>3, <4>1, <4>2, <4>3, <4>4 DEF ExhaustOtp, MarkOtp
    <3>4. CASE CountOtp(r)
      <4>1. /\ otp' = [otp EXCEPT ![k] = counted]
            /\ otpWrong' = [otpWrong EXCEPT ![k] = otpWrong[k] + 1]
            /\ UNCHANGED <<otpAccepted, otpIssued>>
        BY <3>4 DEF CountOtp, k, counted
      <4>2. otp' \in [Otp -> OtpRow] /\ otpWrong' \in [Otp -> Nat]
        BY <3>1, <3>2, <4>1 DEF k
      <4>3. OtpRows'
        <5> SUFFICES ASSUME NEW c \in Otp
                     PROVE  /\ otp'[c].attempts = otpWrong'[c]
                            /\ otpAccepted'[c] > 0 => otp'[c].used
                            /\ c > otpIssued' => otpWrong'[c] = 0 /\ otpAccepted'[c] = 0
          BY DEF OtpRows
        <5>a. /\ otp[c].attempts = otpWrong[c]
              /\ otpAccepted[c] > 0 => otp[c].used
              /\ c > otpIssued => otpWrong[c] = 0 /\ otpAccepted[c] = 0
          BY DEF OtpRows
        <5>b. k \in Otp /\ k <= otpIssued
          BY <3>1 DEF k
        <5>1. CASE c = k
          BY <3>2, <4>1, <5>1, <5>a, <5>b DEF Otp
        <5>2. CASE c # k
          BY <4>1, <5>2 DEF OtpRows
        <5>3. QED
          BY <5>1, <5>2
      <4>4. QED
        BY <2>2, <3>4, <4>1, <4>2, <4>3 DEF CountOtp
    <3>5. QED
      BY <2>6, <3>3, <3>4
  <2>7. ASSUME NEW r \in OtpRequest, OtpDie(r) PROVE OtpInv'
    BY <2>2, <2>7 DEF OtpDie, OtpRows
  <2>8. ASSUME NEW c \in Otp, AgeOtp(c) PROVE OtpInv'
    <3>1. Older[otp[c].age] \in OtpAge
      BY <2>8 DEF Older, OtpAge, OtpRow
    <3>2. /\ otp' = [otp EXCEPT ![c].age = Older[otp[c].age]]
          /\ UNCHANGED <<otpIssued, otpReq, otpAccepted, otpWrong>>
      BY <2>8 DEF AgeOtp
    <3>3. otp' \in [Otp -> OtpRow]
      BY <3>1, <3>2 DEF OtpRow
    <3>4. OtpRows'
      BY <3>2 DEF OtpRows, OtpRow
    <3>5. OtpRequests'
      BY <3>2 DEF OtpRequests, Inserting, Issued
    <3>6. QED
      BY <3>2, <3>3, <3>4, <3>5
  <2>9. QED
    BY <2>1, <2>3, <2>4, <2>5, <2>6, <2>7, <2>8 DEF OtpNext
<1>3. QED
  BY <1>1, <1>2, PTL DEF OtpSpec

\* The variables of the portal keep the types of the model.
THEOREM OtpTypeCorrect == OtpSpec => []OtpTypeOK
BY OtpInvAlways, PTL DEF OtpInv

\* Three codes per window and address: the portal implements the gate whose
\* count is the codes of the window and whose clients are the requests between
\* the check and the insertion.
THEOREM IssuesPassTheGate == OtpSpec => IssuesAreLimited
<1> USE OtpAssumption
<1>1. OtpInit => WindowGate!GateInit
  <2> SUFFICES ASSUME OtpInit PROVE WindowGate!GateInit
    OBVIOUS
  <2>1. Recent = {} /\ In("insert", 0) = {}
    BY DEF OtpInit, Recent, Issued, In, OtpIdle
  <2>2. QED
    BY <2>1, FS_EmptySet DEF WindowGate!GateInit
<1>2. OtpInv => otpIssued \in 0..MaxOtps
  BY DEF OtpInv, OtpTypeOK
<1>3. OtpInv /\ (otpIssued \in 0..MaxOtps)' /\ [OtpNext]_otpVars
        => [UNCHANGED otpVars \/ WindowGate!GateStep]_otpVars
  <2> SUFFICES ASSUME OtpInv, otpIssued' \in 0..MaxOtps, OtpNext PROVE WindowGate!GateStep
    OBVIOUS
  <2> USE DEF OtpInv, OtpTypeOK
  <2>a. IsFiniteSet(Recent) /\ Cardinality(Recent) \in Nat
    <3>1. otpIssued \in Int
      OBVIOUS
    <3>2. IsFiniteSet(1..otpIssued)
      BY <3>1, FS_Interval
    <3>3. Recent \subseteq 1..otpIssued
      BY DEF Recent, Issued
    <3>4. QED
      BY <3>2, <3>3, FS_Subset, FS_CardinalityType
  <2>1. ASSUME NEW r \in OtpRequest, RequestOtp(r) PROVE WindowGate!GateStep
    <3>1. Recent' = Recent
      BY <2>1 DEF RequestOtp, Recent, Issued
    <3>2. In("insert", 0)' = In("insert", 0) \cup {r}
      BY <2>1 DEF RequestOtp, OtpGoto, In
    <3>3. WindowGate!Enter(r)
      BY <2>1, <3>1, <3>2 DEF RequestOtp, WindowGate!Enter
    <3>4. QED
      BY <3>3 DEF WindowGate!GateStep, WindowGate!GateNext
  <2>2. ASSUME NEW r \in OtpRequest, InsertOtp(r) PROVE WindowGate!GateStep
    <3>1. r \in In("insert", 0) /\ In("insert", 0)' = In("insert", 0) \ {r}
      BY <2>2 DEF InsertOtp, OtpRespond, OtpIdle, In, OtpRequests
    <3>2. otpIssued' = otpIssued + 1 /\ otpIssued + 1 \in Otp
      BY <2>2 DEF InsertOtp, Otp
    <3>3. Recent' = Recent \cup {otpIssued + 1} /\ otpIssued + 1 \notin Recent
      <4>1. \A c \in Issued : otp'[c] = otp[c]
        BY <2>2, <3>2 DEF InsertOtp, Issued, Otp
      <4>2. otp'[otpIssued + 1].age = "fresh"
        BY <2>2, <3>2 DEF InsertOtp, NewOtp
      <4>3. Issued' = Issued \cup {otpIssued + 1} /\ otpIssued + 1 \notin Issued
        BY <3>2 DEF Issued
      <4>4. QED
        BY <4>1, <4>2, <4>3 DEF Recent
    <3>4. Cardinality(Recent') = Cardinality(Recent) + 1
      BY <3>3, <2>a, FS_AddElement
    <3>5. WindowGate!Take(r)
      BY <3>1, <3>4 DEF WindowGate!Take
    <3>6. QED
      BY <3>5 DEF WindowGate!GateStep, WindowGate!GateNext
  <2>3. ASSUME NEW r \in OtpRequest, otpReq[r].stage # "insert", otpReq'[r].stage # "insert",
               \A q \in OtpRequest \ {r} : otpReq'[q] = otpReq[q],
               otpIssued' = otpIssued, \A c \in Otp : otp'[c].age = otp[c].age
        PROVE  WindowGate!GateStep
    <3>1. Recent' = Recent /\ In("insert", 0)' = In("insert", 0)
      BY <2>3 DEF Recent, Issued, Otp, In
    <3>2. QED
      BY <3>1 DEF WindowGate!GateStep
  <2>4. ASSUME NEW r \in OtpRequest,
               \/ \E c \in Issued, t \in 0..otpIssued : VerifyOtp(r, c, t)
               \/ ExhaustOtp(r) \/ CountOtp(r) \/ MarkOtp(r)
        PROVE  WindowGate!GateStep
    <3>1. otpIssued' = otpIssued /\ \A c \in Otp : otp'[c].age = otp[c].age
      BY <2>4 DEF VerifyOtp, ExhaustOtp, CountOtp, MarkOtp, OtpRow
    <3>2. otpReq[r].stage # "insert" /\ otpReq'[r].stage # "insert"
      <4>1. CASE ExhaustOtp(r) \/ CountOtp(r) \/ MarkOtp(r)
        BY <4>1 DEF ExhaustOtp, CountOtp, MarkOtp, OtpRespond, OtpIdle
      <4>2. ASSUME NEW c \in Issued, NEW t \in 0..otpIssued, VerifyOtp(r, c, t)
            PROVE  otpReq[r].stage # "insert" /\ otpReq'[r].stage # "insert"
        <5>1. OtpVerdict(c, t) # "insert"
          BY <4>2 DEF OtpVerdict, VerifyOtp, Issued, Otp, OtpRow
        <5>2. otpReq'[r].stage = OtpVerdict(c, t)
          BY <4>2 DEF VerifyOtp, OtpGoto
        <5>3. QED
          BY <4>2, <5>1, <5>2 DEF VerifyOtp, OtpIdle
      <4>3. QED
        BY <2>4, <4>1, <4>2
    <3>3. \A q \in OtpRequest \ {r} : otpReq'[q] = otpReq[q]
      BY <2>4 DEF VerifyOtp, ExhaustOtp, CountOtp, MarkOtp, OtpGoto, OtpRespond
    <3>4. QED
      BY <2>3, <3>1, <3>2, <3>3
  <2>5. ASSUME NEW r \in OtpRequest, OtpDie(r) PROVE WindowGate!GateStep
    <3>1. Recent' = Recent
      BY <2>5 DEF OtpDie, Recent, Issued
    <3>2. In("insert", 0)' = In("insert", 0) \ {r}
      BY <2>5 DEF OtpDie, OtpRespond, OtpIdle, In
    <3>3. WindowGate!Leave(r) \/ UNCHANGED <<Cardinality(Recent), In("insert", 0)>>
      BY <3>1, <3>2 DEF WindowGate!Leave
    <3>4. QED
      BY <3>3 DEF WindowGate!GateStep, WindowGate!GateNext
  <2>6. ASSUME NEW c \in Otp, AgeOtp(c) PROVE WindowGate!GateStep
    <3>1. In("insert", 0)' = In("insert", 0) /\ Issued' = Issued
      BY <2>6 DEF AgeOtp, In, Issued
    <3>2. Recent' \subseteq Recent
      <4>1. \A d \in Otp \ {c} : otp'[d] = otp[d]
        BY <2>6 DEF AgeOtp
      <4>2. c \in Recent
        BY <2>6 DEF AgeOtp, Recent
      <4>3. Issued \subseteq Otp
        BY DEF Issued, Otp
      <4>4. QED
        BY <3>1, <4>1, <4>2, <4>3 DEF Recent
    <3>3. Cardinality(Recent') \in 0..Cardinality(Recent)
      BY <3>2, <2>a, OneMore
    <3>4. WindowGate!Forget
      BY <3>1, <3>3 DEF WindowGate!Forget
    <3>5. QED
      BY <3>4 DEF WindowGate!GateStep, WindowGate!GateNext
  <2>7. QED
    BY <2>1, <2>2, <2>4, <2>5, <2>6 DEF OtpNext
<1>4. QED
  BY <1>1, <1>2, <1>3, OtpInvAlways, PTL DEF OtpSpec, IssuesAreLimited

\* Five wrong tries and one acceptance per code: the portal implements two gates
\* for every code, whose clients are the requests between reading the row and
\* writing it.
THEOREM OtpLimitsAreGates == OtpSpec => OtpLimitsHold
<1> USE OtpAssumption
<1>1. OtpInit => \A c \in Otp : AttemptGate(c)!GateInit /\ AcceptGate(c)!GateInit
  BY DEF OtpInit, In, OtpIdle, AttemptGate!GateInit, AcceptGate!GateInit
<1>2. OtpInv /\ [OtpNext]_otpVars
        => [UNCHANGED otpVars \/ \A c \in Otp :
              AttemptGate(c)!GateStep /\ AcceptGate(c)!GateStep]_otpVars
  <2> SUFFICES ASSUME OtpInv, OtpNext, NEW c \in Otp
               PROVE  AttemptGate(c)!GateStep /\ AcceptGate(c)!GateStep
    OBVIOUS
  <2> USE DEF OtpInv, OtpTypeOK
  <2>a. otpWrong[c] \in Nat /\ otpAccepted[c] \in Nat
    OBVIOUS
  \* The request moves neither into the gates of code c nor out of them.
  <2>1. ASSUME NEW r \in OtpRequest,
               otpReq[r].stage \notin {"count", "mark"} \/ otpReq[r].otp # c,
               otpReq'[r].stage \notin {"count", "mark"} \/ otpReq'[r].otp # c,
               \A q \in OtpRequest \ {r} : otpReq'[q] = otpReq[q],
               otpWrong'[c] = otpWrong[c], otpAccepted'[c] = otpAccepted[c]
        PROVE  AttemptGate(c)!GateStep /\ AcceptGate(c)!GateStep
    <3>1. In("count", c)' = In("count", c) /\ In("mark", c)' = In("mark", c)
      BY <2>1 DEF In
    <3>2. QED
      BY <2>1, <3>1 DEF AttemptGate!GateStep, AcceptGate!GateStep
  \* The request gives up: it leaves the gates it is in.
  <2>2. ASSUME NEW r \in OtpRequest, otpReq'[r].stage = "idle",
               \A q \in OtpRequest \ {r} : otpReq'[q] = otpReq[q]
        PROVE  /\ In("count", c)' = In("count", c) \ {r}
               /\ In("mark", c)' = In("mark", c) \ {r}
    BY <2>2 DEF In
  <2>3. ASSUME NEW r \in OtpRequest, OtpRespond(r)
        PROVE  otpReq'[r].stage = "idle" /\ \A q \in OtpRequest \ {r} : otpReq'[q] = otpReq[q]
    BY <2>3 DEF OtpRespond, OtpIdle
  <2>4. ASSUME NEW r \in OtpRequest, RequestOtp(r)
        PROVE  AttemptGate(c)!GateStep /\ AcceptGate(c)!GateStep
    <3>1. otpReq[r].stage = "idle" /\ otpReq'[r].stage = "insert"
      BY <2>4 DEF RequestOtp, OtpGoto, OtpIdle
    <3>2. \A q \in OtpRequest \ {r} : otpReq'[q] = otpReq[q]
      BY <2>4 DEF RequestOtp, OtpGoto
    <3>3. QED
      BY <2>1, <2>4, <3>1, <3>2 DEF RequestOtp
  <2>5. ASSUME NEW r \in OtpRequest, InsertOtp(r) \/ ExhaustOtp(r)
        PROVE  AttemptGate(c)!GateStep /\ AcceptGate(c)!GateStep
    <3>1. otpReq[r].stage \in {"insert", "exhaust"} /\ OtpRespond(r)
          /\ UNCHANGED <<otpWrong, otpAccepted>>
      BY <2>5 DEF InsertOtp, ExhaustOtp
    <3>2. QED
      BY <2>1, <2>3, <3>1
  <2>6. ASSUME NEW r \in OtpRequest, NEW d \in Issued, NEW t \in 0..otpIssued, VerifyOtp(r, d, t)
        PROVE  AttemptGate(c)!GateStep /\ AcceptGate(c)!GateStep
    <3>1. otpReq[r].stage = "idle"
      BY <2>6 DEF VerifyOtp, OtpIdle
    <3>2. otpReq'[r].stage = OtpVerdict(d, t) /\ otpReq'[r].otp = d
          /\ \A q \in OtpRequest \ {r} : otpReq'[q] = otpReq[q]
      BY <2>6 DEF VerifyOtp, OtpGoto
    <3>3. UNCHANGED <<otpWrong, otpAccepted>>
      BY <2>6 DEF VerifyOtp
    <3>4. CASE d = c /\ OtpVerdict(d, t) = "count"
      <4>1. otp[c].attempts < OTP_ATTEMPTS
        BY <2>6, <3>4 DEF OtpVerdict, OtpRow
      <4>2. In("count", c)' = In("count", c) \cup {r} /\ In("mark", c)' = In("mark", c)
        BY <3>1, <3>2, <3>4 DEF In
      <4>3. AttemptGate(c)!Enter(r)
        BY <3>3, <4>1, <4>2 DEF AttemptGate!Enter, OtpRows
      <4>4. AcceptGate(c)!GateStep
        BY <3>3, <4>2 DEF AcceptGate!GateStep
      <4>5. QED
        BY <4>3, <4>4 DEF AttemptGate!GateStep, AttemptGate!GateNext
    <3>5. CASE d = c /\ OtpVerdict(d, t) = "mark"
      <4>1. ~otp[c].used
        BY <2>6, <3>5 DEF VerifyOtp, NewestUnused, Unused
      <4>2. otpAccepted[c] < 1
        BY <2>a, <4>1 DEF OtpRows
      <4>3. In("mark", c)' = In("mark", c) \cup {r} /\ In("count", c)' = In("count", c)
        BY <3>1, <3>2, <3>5 DEF In
      <4>4. AcceptGate(c)!Enter(r)
        BY <3>3, <4>2, <4>3 DEF AcceptGate!Enter
      <4>5. AttemptGate(c)!GateStep
        BY <3>3, <4>3 DEF AttemptGate!GateStep
      <4>6. QED
        BY <4>4, <4>5 DEF AcceptGate!GateStep, AcceptGate!GateNext
    <3>6. CASE d # c \/ OtpVerdict(d, t) \notin {"count", "mark"}
      BY <2>1, <3>1, <3>2, <3>3, <3>6
    <3>7. QED
      BY <3>4, <3>5, <3>6
  <2>7. ASSUME NEW r \in OtpRequest, CountOtp(r)
        PROVE  AttemptGate(c)!GateStep /\ AcceptGate(c)!GateStep
    <3>1. otpReq[r].stage = "count" /\ OtpRespond(r) /\ UNCHANGED otpAccepted
          /\ otpWrong' = [otpWrong EXCEPT ![otpReq[r].otp] = @ + 1]
      BY <2>7 DEF CountOtp
    <3>2. CASE otpReq[r].otp = c
      <4>1. r \in In("count", c) /\ r \notin In("mark", c)
        BY <3>1, <3>2 DEF In
      <4>2. otpWrong'[c] = otpWrong[c] + 1
        BY <3>1, <3>2
      <4>3. AttemptGate(c)!Take(r)
        BY <2>2, <2>3, <3>1, <4>1, <4>2 DEF AttemptGate!Take
      <4>a. In("mark", c)' = In("mark", c) \ {r}
        BY <2>2, <2>3, <3>1
      <4>b. In("mark", c)' = In("mark", c)
        BY <4>1, <4>a
      <4>4. AcceptGate(c)!GateStep
        BY <3>1, <4>b DEF AcceptGate!GateStep
      <4>5. QED
        BY <4>3, <4>4 DEF AttemptGate!GateStep, AttemptGate!GateNext
    <3>3. CASE otpReq[r].otp # c
      <4>1. otpWrong'[c] = otpWrong[c]
        BY <3>1, <3>3
      <4>2. QED
        BY <2>1, <2>3, <3>1, <3>3, <4>1
    <3>4. QED
      BY <3>2, <3>3
  <2>8. ASSUME NEW r \in OtpRequest, MarkOtp(r)
        PROVE  AttemptGate(c)!GateStep /\ AcceptGate(c)!GateStep
    <3>1. otpReq[r].stage = "mark" /\ OtpRespond(r) /\ UNCHANGED otpWrong
          /\ otpAccepted' = [otpAccepted EXCEPT ![otpReq[r].otp] = @ + 1]
      BY <2>8 DEF MarkOtp
    <3>2. CASE otpReq[r].otp = c
      <4>1. r \in In("mark", c) /\ r \notin In("count", c)
        BY <3>1, <3>2 DEF In
      <4>2. otpAccepted'[c] = otpAccepted[c] + 1
        BY <3>1, <3>2
      <4>3. AcceptGate(c)!Take(r)
        BY <2>2, <2>3, <3>1, <4>1, <4>2 DEF AcceptGate!Take
      <4>a. In("count", c)' = In("count", c) \ {r}
        BY <2>2, <2>3, <3>1
      <4>b. In("count", c)' = In("count", c)
        BY <4>1, <4>a
      <4>4. AttemptGate(c)!GateStep
        BY <3>1, <4>b DEF AttemptGate!GateStep
      <4>5. QED
        BY <4>3, <4>4 DEF AcceptGate!GateStep, AcceptGate!GateNext
    <3>3. CASE otpReq[r].otp # c
      <4>1. otpAccepted'[c] = otpAccepted[c]
        BY <3>1, <3>3
      <4>2. QED
        BY <2>1, <2>3, <3>1, <3>3, <4>1
    <3>4. QED
      BY <3>2, <3>3
  <2>9. ASSUME NEW r \in OtpRequest, OtpDie(r)
        PROVE  AttemptGate(c)!GateStep /\ AcceptGate(c)!GateStep
    <3>1. OtpRespond(r) /\ UNCHANGED <<otpWrong, otpAccepted>>
      BY <2>9 DEF OtpDie
    <3>2. /\ In("count", c)' = In("count", c) \ {r}
          /\ In("mark", c)' = In("mark", c) \ {r}
      BY <2>2, <2>3, <3>1
    <3>3. AttemptGate(c)!GateStep
      BY <3>1, <3>2
      DEF AttemptGate!GateStep, AttemptGate!GateNext, AttemptGate!Leave
    <3>4. AcceptGate(c)!GateStep
      BY <3>1, <3>2
      DEF AcceptGate!GateStep, AcceptGate!GateNext, AcceptGate!Leave
    <3>5. QED
      BY <3>3, <3>4
  <2>10. ASSUME NEW d \in Otp, AgeOtp(d)
         PROVE  AttemptGate(c)!GateStep /\ AcceptGate(c)!GateStep
    <3>1. In("count", c)' = In("count", c) /\ In("mark", c)' = In("mark", c)
          /\ UNCHANGED <<otpWrong, otpAccepted>>
      BY <2>10 DEF AgeOtp, In
    <3>2. QED
      BY <3>1 DEF AttemptGate!GateStep, AcceptGate!GateStep
  <2>11. QED
    BY <2>4, <2>5, <2>6, <2>7, <2>8, <2>9, <2>10 DEF OtpNext
<1>3. QED
  BY <1>1, <1>2, OtpInvAlways, PTL DEF OtpSpec, OtpLimitsHold

-----------------------------------------------------------------------------
(* The codes of the second factor.                                         *)

TfaInserting == {r \in TfaRequest : tfaReq[r].stage = "insert"}

\* As in the portal.
TfaRequests ==
  /\ tfaIssued + Cardinality(TfaInserting) <= MaxTfa
  /\ \A r \in TfaRequest :
       tfaReq[r].stage \in {"mail", "rollback", "count", "mark"}
         => tfaReq[r].tfa \in TfaIssuedCodes

TfaRows ==
  \A c \in Tfa :
    /\ tfa[c].attempts = tfaWrong[c]
    /\ tfaAccepted[c] > 0 => tfa[c].used
    /\ c > tfaIssued => tfaWrong[c] = 0 /\ tfaAccepted[c] = 0

TfaInv == TfaTypeOK /\ TfaRequests /\ TfaRows

\* The three writes of a row.
LEMMA TfaRowWrites ==
  ASSUME NEW row \in TfaRow
  PROVE  /\ [row EXCEPT !.used = TRUE] \in TfaRow
         /\ [row EXCEPT !.used = TRUE].used
         /\ [row EXCEPT !.used = TRUE].attempts = row.attempts
         /\ [row EXCEPT !.attempts = row.attempts + 1] \in TfaRow
         /\ [row EXCEPT !.attempts = row.attempts + 1].used = row.used
         /\ [row EXCEPT !.attempts = row.attempts + 1].attempts = row.attempts + 1
         /\ [row EXCEPT !.expired = TRUE] \in TfaRow
         /\ [row EXCEPT !.expired = TRUE].used = row.used
         /\ [row EXCEPT !.expired = TRUE].attempts = row.attempts
<1>1. [row EXCEPT !.used = TRUE] \in TfaRow /\ [row EXCEPT !.expired = TRUE] \in TfaRow
  BY DEF TfaRow
<1>2. [row EXCEPT !.used = TRUE].used
  BY DEF TfaRow
<1>3. /\ [row EXCEPT !.used = TRUE].attempts = row.attempts
      /\ [row EXCEPT !.expired = TRUE].attempts = row.attempts
  BY DEF TfaRow
<1>4. [row EXCEPT !.attempts = row.attempts + 1] \in TfaRow
  BY DEF TfaRow
<1>5. [row EXCEPT !.attempts = row.attempts + 1].used = row.used
  BY DEF TfaRow
<1>6. [row EXCEPT !.expired = TRUE].used = row.used
  BY DEF TfaRow
<1>7. [row EXCEPT !.attempts = row.attempts + 1].attempts = row.attempts + 1
  BY DEF TfaRow
<1>8. QED
  BY <1>1, <1>2, <1>3, <1>4, <1>5, <1>6, <1>7

LEMMA TfaGotoEffect ==
  ASSUME NEW r \in TfaRequest, tfaReq \in [TfaRequest -> TfaRequestState],
         NEW stage \in TfaStage, NEW c \in 0..MaxTfa,
         TfaGoto(r, stage, c) \/ (TfaRespond(r) /\ stage = "idle" /\ c = 0)
  PROVE  /\ tfaReq' \in [TfaRequest -> TfaRequestState]
         /\ tfaReq'[r].stage = stage /\ tfaReq'[r].tfa = c
         /\ \A q \in TfaRequest \ {r} : tfaReq'[q] = tfaReq[q]
<1>1. CASE TfaGoto(r, stage, c)
  BY <1>1 DEF TfaGoto, TfaRequestState
<1>2. CASE TfaRespond(r) /\ stage = "idle" /\ c = 0
  BY <1>2 DEF TfaRespond, TfaIdle, TfaRequestState
<1>3. QED
  BY <1>1, <1>2

LEMMA TfaInsertingIsFinite == IsFiniteSet(TfaInserting) /\ Cardinality(TfaInserting) \in Nat
<1>1. TfaInserting \subseteq TfaRequest
  BY DEF TfaInserting
<1>2. QED
  BY <1>1, TfaAssumption, FS_Subset, FS_CardinalityType

LEMMA TfaInvAlways == TfaSpec => []TfaInv
<1> USE TfaAssumption
<1>1. TfaInit => TfaInv
  <2> SUFFICES ASSUME TfaInit PROVE TfaInv
    OBVIOUS
  <2>1. TfaInserting = {}
    BY DEF TfaInit, TfaInserting, TfaIdle
  <2>2. Cardinality(TfaInserting) = 0
    BY <2>1, FS_EmptySet
  <2>a. NewTfa \in TfaRow
    BY DEF NewTfa, TfaRow
  <2>b. TfaIdle \in TfaRequestState
    BY DEF TfaIdle, TfaRequestState, TfaStage
  <2>3. TfaTypeOK
    <3>1. tfa \in [Tfa -> TfaRow] /\ tfaReq \in [TfaRequest -> TfaRequestState]
      BY <2>a, <2>b DEF TfaInit
    <3>2. tfaBroken \in BOOLEAN
      BY DEF TfaInit
    <3>3. QED
      BY <3>1, <3>2 DEF TfaInit, TfaTypeOK
  <2>4. QED
    BY <2>2, <2>3 DEF TfaInit, TfaInv, TfaRequests, TfaRows, TfaIdle, NewTfa
<1>2. TfaInv /\ [TfaNext]_tfaVars => TfaInv'
  <2> SUFFICES ASSUME TfaInv, [TfaNext]_tfaVars PROVE TfaInv'
    OBVIOUS
  <2> USE DEF TfaInv, TfaTypeOK
  <2>a. Cardinality(TfaInserting) \in Nat /\ tfaIssued \in Nat /\ 0 \in 0..MaxTfa
    BY TfaInsertingIsFinite
  <2>1. CASE UNCHANGED tfaVars
    BY <2>1 DEF tfaVars, TfaRequests, TfaRows, TfaInserting, TfaIssuedCodes
  \* A request that moves on without inserting.
  <2>2. ASSUME NEW r \in TfaRequest, NEW stage \in TfaStage \ {"insert"}, NEW c \in 0..MaxTfa,
               tfaReq' \in [TfaRequest -> TfaRequestState],
               tfaReq'[r].stage = stage, tfaReq'[r].tfa = c,
               \A q \in TfaRequest \ {r} : tfaReq'[q] = tfaReq[q],
               stage = "idle" \/ c \in TfaIssuedCodes, tfaIssued' = tfaIssued
        PROVE  TfaRequests'
    <3>1. TfaInserting' \subseteq TfaInserting
      BY <2>2 DEF TfaInserting
    <3>2. Cardinality(TfaInserting') \in 0..Cardinality(TfaInserting)
      BY <3>1, TfaInsertingIsFinite, OneMore
    <3>3. QED
      BY <2>2, <2>a, <3>2 DEF TfaRequests, TfaIssuedCodes
  <2>3. ASSUME NEW r \in TfaRequest, TfaRespond(r), tfaIssued' = tfaIssued
        PROVE  tfaReq' \in [TfaRequest -> TfaRequestState] /\ TfaRequests'
    <3>1. "idle" \in TfaStage \ {"insert"}
      BY DEF TfaStage
    <3>2. /\ tfaReq' \in [TfaRequest -> TfaRequestState]
          /\ tfaReq'[r].stage = "idle" /\ tfaReq'[r].tfa = 0
          /\ \A q \in TfaRequest \ {r} : tfaReq'[q] = tfaReq[q]
      BY <2>3, <2>a, <3>1, TfaGotoEffect
    <3>3. QED
      BY <2>2, <2>3, <2>a, <3>1, <3>2
  \* A write of one row that keeps its count.
  <2>4. ASSUME NEW k \in Tfa, NEW row \in TfaRow, tfa' = [tfa EXCEPT ![k] = row],
               row.attempts = tfa[k].attempts, tfa[k].used => row.used,
               UNCHANGED <<tfaWrong, tfaAccepted, tfaIssued>>
        PROVE  tfa' \in [Tfa -> TfaRow] /\ TfaRows'
    BY <2>4 DEF TfaRows
  <2>5. ASSUME NEW r \in TfaRequest, RequestTfa(r) PROVE TfaInv'
    <3>1. /\ tfaReq' \in [TfaRequest -> TfaRequestState]
          /\ tfaReq'[r].stage = "insert"
          /\ \A q \in TfaRequest \ {r} : tfaReq'[q] = tfaReq[q]
      BY <2>5, <2>a, TfaGotoEffect, "insert" \in TfaStage DEF RequestTfa, TfaStage
    <3>2. TfaInserting' = TfaInserting \cup {r} /\ r \notin TfaInserting
      BY <2>5, <3>1 DEF TfaInserting, RequestTfa, TfaIdle
    <3>3. Cardinality(TfaInserting') = Cardinality(TfaInserting) + 1
      BY <3>2, TfaInsertingIsFinite, OneMore
    <3>4. tfaIssued + Cardinality(TfaInserting) < MaxTfa
      BY <2>5 DEF RequestTfa, RoomForTfa, TfaInserting
    <3>5. TfaRequests'
      BY <2>5, <2>a, <3>1, <3>3, <3>4 DEF RequestTfa, TfaRequests, TfaIssuedCodes
    <3>6. \A c \in Tfa : /\ tfa'[c] = [tfa[c] EXCEPT !.used = tfa[c].used \/ c \in TfaIssuedCodes]
                         /\ tfa[c] \in TfaRow
      BY <2>5 DEF RequestTfa
    <3>7. ASSUME NEW c \in Tfa
          PROVE  /\ tfa'[c] \in TfaRow /\ tfa'[c].attempts = tfa[c].attempts
                 /\ tfa[c].used => tfa'[c].used
      <4> DEFINE b == tfa[c].used \/ c \in TfaIssuedCodes
      <4>1. tfa'[c] = [tfa[c] EXCEPT !.used = b] /\ tfa[c] \in TfaRow
        BY <3>6
      <4>2. b \in BOOLEAN /\ (tfa[c].used => b)
        OBVIOUS
      <4> HIDE DEF b
      <4>3. tfa'[c] \in TfaRow
        BY <4>1, <4>2 DEF TfaRow
      <4>4. tfa'[c].attempts = tfa[c].attempts
        BY <4>1 DEF TfaRow
      <4>5. tfa'[c].used = b
        BY <4>1 DEF TfaRow
      <4>6. QED
        BY <4>2, <4>3, <4>4, <4>5
    <3>8. tfa' \in [Tfa -> TfaRow]
      BY <2>5, <3>7 DEF RequestTfa
    <3>9. TfaRows'
      BY <2>5, <3>7 DEF RequestTfa, TfaRows
    <3>10. QED
      BY <2>5, <3>1, <3>5, <3>8, <3>9 DEF RequestTfa
  <2>6. ASSUME NEW r \in TfaRequest, InsertTfa(r) PROVE TfaInv'
    <3>1. r \in TfaInserting
      BY <2>6 DEF InsertTfa, TfaInserting
    <3>2. /\ Cardinality(TfaInserting \ {r}) = Cardinality(TfaInserting) - 1
          /\ Cardinality(TfaInserting \ {r}) \in Nat
      BY <3>1, TfaInsertingIsFinite, OneMore
    <3>3. tfaIssued' = tfaIssued + 1 /\ tfaIssued + 1 \in Tfa /\ tfaIssued + 1 \in 0..MaxTfa
      BY <2>6, <2>a, <3>2 DEF InsertTfa, TfaRequests, Tfa
    <3>4. /\ tfaReq' \in [TfaRequest -> TfaRequestState]
          /\ tfaReq'[r].stage = "mail" /\ tfaReq'[r].tfa = tfaIssued + 1
          /\ \A q \in TfaRequest \ {r} : tfaReq'[q] = tfaReq[q]
      BY <2>6, <3>3, TfaGotoEffect, "mail" \in TfaStage DEF InsertTfa, TfaStage
    <3>5. TfaInserting' = TfaInserting \ {r}
      BY <3>4 DEF TfaInserting
    <3>6. TfaRequests'
      BY <2>a, <3>2, <3>3, <3>4, <3>5 DEF TfaRequests, TfaIssuedCodes
    <3>7. tfa' \in [Tfa -> TfaRow]
      BY <2>6, <3>3 DEF InsertTfa, NewTfa, TfaRow
    <3>8. TfaRows'
      BY <2>6, <3>3 DEF InsertTfa, TfaRows, NewTfa, Tfa
    <3>9. QED
      BY <2>6, <3>3, <3>4, <3>6, <3>7, <3>8 DEF InsertTfa
  <2>7. ASSUME NEW r \in TfaRequest, MailTfa(r) PROVE TfaInv'
    <3>1. tfaReq[r].tfa \in TfaIssuedCodes /\ tfaReq[r].tfa \in Tfa
      BY <2>7 DEF MailTfa, TfaRequests, TfaIssuedCodes, Tfa
    <3>2. tfaMailed' \subseteq Tfa
      BY <2>7, <3>1 DEF MailTfa
    <3>3. TfaRows'
      BY <2>7 DEF MailTfa, TfaRows
    <3>4. CASE TfaRespond(r)
      BY <2>3, <2>7, <3>2, <3>3, <3>4 DEF MailTfa
    <3>5. CASE TfaGoto(r, "rollback", tfaReq[r].tfa)
      <4>1. "rollback" \in TfaStage \ {"insert"} /\ tfaReq[r].tfa \in 0..MaxTfa
        BY <3>1 DEF TfaStage, Tfa
      <4>2. /\ tfaReq' \in [TfaRequest -> TfaRequestState]
            /\ tfaReq'[r].stage = "rollback" /\ tfaReq'[r].tfa = tfaReq[r].tfa
            /\ \A q \in TfaRequest \ {r} : tfaReq'[q] = tfaReq[q]
        BY <3>5, <4>1, TfaGotoEffect
      <4>3. TfaRequests'
        BY <2>2, <2>7, <3>1, <4>1, <4>2 DEF MailTfa
      <4>4. QED
        BY <2>7, <3>2, <3>3, <4>2, <4>3 DEF MailTfa
    <3>6. QED
      BY <2>7, <3>4, <3>5 DEF MailTfa
  <2>8. ASSUME NEW r \in TfaRequest, RollbackTfa(r) PROVE TfaInv'
    <3> DEFINE k == tfaReq[r].tfa
               row == [tfa[k] EXCEPT !.used = TRUE]
    <3>1. k \in Tfa /\ tfa[k] \in TfaRow
      BY <2>8 DEF RollbackTfa, TfaRequests, TfaIssuedCodes, Tfa
    <3>2. row \in TfaRow /\ row.attempts = tfa[k].attempts /\ row.used
      BY <3>1, TfaRowWrites
    <3>3. tfa' = [tfa EXCEPT ![k] = row] \/ tfa' = tfa
      BY <2>8 DEF RollbackTfa
    <3>4. UNCHANGED <<tfaWrong, tfaAccepted, tfaIssued, tfaMailed>> /\ tfaBroken' \in BOOLEAN
          /\ TfaRespond(r)
      BY <2>8 DEF RollbackTfa
    <3> HIDE DEF k, row
    <3>5. tfa' \in [Tfa -> TfaRow] /\ TfaRows'
      <4>1. CASE tfa' = [tfa EXCEPT ![k] = row]
        BY <2>4, <3>1, <3>2, <3>4, <4>1
      <4>2. CASE tfa' = tfa
        BY <3>4, <4>2 DEF TfaRows
      <4>3. QED
        BY <3>3, <4>1, <4>2
    <3>6. QED
      BY <2>3, <3>4, <3>5
  <2>9. ASSUME NEW r \in TfaRequest, NEW c \in Tfa, NEW right \in BOOLEAN, NEW mine \in BOOLEAN,
               VerifyTfa(r, c, right, mine)
        PROVE  TfaInv'
    <3> DEFINE stage == IF right THEN "mark" ELSE "count"
               state == [stage |-> stage, tfa |-> c, mine |-> mine]
    <3>1. stage \in TfaStage \ {"insert"} /\ c \in 0..MaxTfa
      BY DEF TfaStage, Tfa
    <3>2. state \in TfaRequestState /\ state.stage = stage /\ state.tfa = c
      BY <3>1 DEF TfaRequestState
    <3>3. tfaReq' = [tfaReq EXCEPT ![r] = state] /\ c \in TfaIssuedCodes
          /\ UNCHANGED <<tfa, tfaIssued, tfaAccepted, tfaWrong, tfaMailed, tfaBroken>>
      BY <2>9 DEF VerifyTfa
    <3> HIDE DEF stage, state
    <3>4. TfaRequests'
      BY <2>2, <3>1, <3>2, <3>3
    <3>5. QED
      BY <3>2, <3>3, <3>4 DEF TfaRows
  <2>10. ASSUME NEW r \in TfaRequest, CountTfa(r) PROVE TfaInv'
    <3> DEFINE k == tfaReq[r].tfa
               row == [tfa[k] EXCEPT !.attempts = tfa[k].attempts + 1]
    <3>1. k \in Tfa /\ k <= tfaIssued /\ tfa[k] \in TfaRow
      BY <2>10 DEF CountTfa, TfaRequests, TfaIssuedCodes, Tfa
    <3>2. row \in TfaRow /\ row.attempts = tfa[k].attempts + 1 /\ row.used = tfa[k].used
      BY <3>1, TfaRowWrites
    <3>3. /\ tfa' = [tfa EXCEPT ![k] = row] /\ tfaWrong' = [tfaWrong EXCEPT ![k] = tfaWrong[k] + 1]
          /\ TfaRespond(r) /\ UNCHANGED <<tfaIssued, tfaAccepted, tfaMailed, tfaBroken>>
      BY <2>10 DEF CountTfa
    <3> HIDE DEF k, row
    <3>4. tfa' \in [Tfa -> TfaRow] /\ tfaWrong' \in [Tfa -> Nat]
      BY <3>1, <3>2, <3>3
    <3>5. TfaRows'
      <4> SUFFICES ASSUME NEW c \in Tfa
                   PROVE  /\ tfa'[c].attempts = tfaWrong'[c]
                          /\ tfaAccepted'[c] > 0 => tfa'[c].used
                          /\ c > tfaIssued' => tfaWrong'[c] = 0 /\ tfaAccepted'[c] = 0
        BY DEF TfaRows
      <4>1. /\ tfa[c].attempts = tfaWrong[c]
            /\ tfaAccepted[c] > 0 => tfa[c].used
            /\ c > tfaIssued => tfaWrong[c] = 0 /\ tfaAccepted[c] = 0
        BY DEF TfaRows
      <4>2. CASE c = k
        BY <3>1, <3>2, <3>3, <4>1, <4>2 DEF Tfa
      <4>3. CASE c # k
        BY <3>3, <4>1, <4>3
      <4>4. QED
        BY <4>2, <4>3
    <3>6. QED
      BY <2>3, <3>3, <3>4, <3>5
  <2>11. ASSUME NEW r \in TfaRequest, MarkTfa(r) PROVE TfaInv'
    <3> DEFINE k == tfaReq[r].tfa
               row == [tfa[k] EXCEPT !.used = TRUE]
    <3>1. k \in Tfa /\ k <= tfaIssued /\ tfa[k] \in TfaRow
      BY <2>11 DEF MarkTfa, TfaRequests, TfaIssuedCodes, Tfa
    <3>2. row \in TfaRow /\ row.attempts = tfa[k].attempts /\ row.used
      BY <3>1, TfaRowWrites
    <3>3. /\ tfa' = [tfa EXCEPT ![k] = row]
          /\ tfaAccepted' = [tfaAccepted EXCEPT ![k] = tfaAccepted[k] + 1] \/ UNCHANGED tfaAccepted
          /\ TfaRespond(r) /\ UNCHANGED <<tfaIssued, tfaWrong, tfaMailed, tfaBroken>>
      BY <2>11 DEF MarkTfa
    <3> HIDE DEF k, row
    <3>4. tfa' \in [Tfa -> TfaRow] /\ tfaAccepted' \in [Tfa -> Nat]
      BY <3>1, <3>2, <3>3
    <3>5. \A c \in Tfa \ {k} : tfa'[c] = tfa[c] /\ tfaAccepted'[c] = tfaAccepted[c]
      BY <3>3
    <3>6. TfaRows'
      <4> SUFFICES ASSUME NEW c \in Tfa
                   PROVE  /\ tfa'[c].attempts = tfaWrong'[c]
                          /\ tfaAccepted'[c] > 0 => tfa'[c].used
                          /\ c > tfaIssued' => tfaWrong'[c] = 0 /\ tfaAccepted'[c] = 0
        BY DEF TfaRows
      <4>1. /\ tfa[c].attempts = tfaWrong[c]
            /\ tfaAccepted[c] > 0 => tfa[c].used
            /\ c > tfaIssued => tfaWrong[c] = 0 /\ tfaAccepted[c] = 0
        BY DEF TfaRows
      <4>2. CASE c = k
        BY <3>1, <3>2, <3>3, <4>1, <4>2 DEF Tfa
      <4>3. CASE c # k
        BY <3>3, <3>5, <4>1, <4>3
      <4>4. QED
        BY <4>2, <4>3
    <3>7. QED
      BY <2>3, <3>3, <3>4, <3>6
  <2>12. ASSUME NEW r \in TfaRequest, TfaDie(r) PROVE TfaInv'
    BY <2>3, <2>12 DEF TfaDie, TfaRows
  <2>13. ASSUME NEW c \in Tfa, ExpireTfa(c) PROVE TfaInv'
    <3> DEFINE row == [tfa[c] EXCEPT !.expired = TRUE]
    <3>1. row \in TfaRow /\ row.attempts = tfa[c].attempts /\ row.used = tfa[c].used
      BY TfaRowWrites
    <3>2. /\ tfa' = [tfa EXCEPT ![c] = row]
          /\ UNCHANGED <<tfaIssued, tfaReq, tfaAccepted, tfaWrong, tfaMailed, tfaBroken>>
      BY <2>13 DEF ExpireTfa
    <3> HIDE DEF row
    <3>3. tfa' \in [Tfa -> TfaRow] /\ TfaRows'
      BY <2>4, <3>1, <3>2
    <3>4. TfaRequests'
      BY <3>2 DEF TfaRequests, TfaInserting, TfaIssuedCodes
    <3>5. QED
      BY <3>2, <3>3, <3>4
  <2>14. QED
    BY <2>1, <2>5, <2>6, <2>7, <2>8, <2>9, <2>10, <2>11, <2>12, <2>13 DEF TfaNext
<1>3. QED
  BY <1>1, <1>2, PTL DEF TfaSpec

\* The variables of the second factor keep the types of the model.
THEOREM TfaTypeCorrect == TfaSpec => []TfaTypeOK
BY TfaInvAlways, PTL DEF TfaInv

\* A request that moves leaves the others where they are.
LEMMA TfaMoves ==
  ASSUME tfaReq \in [TfaRequest -> TfaRequestState], NEW r \in TfaRequest,
         NEW stage, NEW c, TfaGoto(r, stage, c) \/ TfaRespond(r)
  PROVE  /\ \A q \in TfaRequest \ {r} : tfaReq'[q] = tfaReq[q]
         /\ TfaGoto(r, stage, c) => tfaReq'[r].stage = stage /\ tfaReq'[r].tfa = c
         /\ TfaRespond(r) => tfaReq'[r].stage = "idle"
<1>1. CASE TfaGoto(r, stage, c)
  <2>1. \A q \in TfaRequest \ {r} : tfaReq'[q] = tfaReq[q]
    BY <1>1 DEF TfaGoto
  <2>2. tfaReq'[r] = [tfaReq[r] EXCEPT !.stage = stage, !.tfa = c]
    BY <1>1 DEF TfaGoto
  <2>3. tfaReq'[r].stage = stage /\ tfaReq'[r].tfa = c
    BY <2>2 DEF TfaRequestState
  <2>4. TfaRespond(r) => tfaReq'[r].stage = "idle"
    BY DEF TfaRespond, TfaIdle
  <2>5. QED
    BY <2>1, <2>3, <2>4
<1>2. CASE TfaRespond(r) /\ ~TfaGoto(r, stage, c)
  BY <1>2 DEF TfaRespond, TfaIdle
<1>3. QED
  BY <1>1, <1>2

LEMMA IssuedTfaAreTfa == ASSUME TfaTypeOK PROVE TfaIssuedCodes \subseteq Tfa
<1>1. tfaIssued <= MaxTfa /\ tfaIssued \in Nat /\ MaxTfa \in Nat
  BY TfaAssumption DEF TfaTypeOK
<1>2. QED
  BY <1>1 DEF TfaIssuedCodes, Tfa

\* A request withdraws every code there is.
LEMMA RequestWithdraws ==
  ASSUME TfaTypeOK, NEW r \in TfaRequest, RequestTfa(r)
  PROVE  LiveTfa' = {}
<1>1. ASSUME NEW c \in TfaIssuedCodes PROVE tfa'[c].used
  <2>1. c \in Tfa /\ tfa[c] \in TfaRow
    BY IssuedTfaAreTfa DEF TfaTypeOK
  <2> DEFINE b == tfa[c].used \/ c \in TfaIssuedCodes
  <2>2. tfa'[c] = [tfa[c] EXCEPT !.used = b]
    BY <2>1 DEF RequestTfa
  <2>3. b
    OBVIOUS
  <2> HIDE DEF b
  <2>4. tfa'[c].used = b
    BY <2>1, <2>2 DEF TfaRow
  <2>5. QED
    BY <2>3, <2>4
<1>2. TfaIssuedCodes' = TfaIssuedCodes
  BY DEF RequestTfa, TfaIssuedCodes
<1>3. QED
  BY <1>1, <1>2 DEF LiveTfa

\* An insertion adds one code.
LEMMA InsertionAdds ==
  ASSUME TfaTypeOK, NEW r \in TfaRequest, InsertTfa(r)
  PROVE  LiveTfa' \subseteq LiveTfa \cup {tfaIssued + 1}
<1>1. tfaIssued' = tfaIssued + 1 /\ tfa' = [tfa EXCEPT ![tfaIssued + 1] = NewTfa]
      /\ tfaIssued \in Nat
  BY DEF InsertTfa, TfaTypeOK
<1>2. \A c \in TfaIssuedCodes : c \in Tfa /\ c # tfaIssued + 1
  BY <1>1, IssuedTfaAreTfa DEF TfaIssuedCodes
<1>3. \A c \in TfaIssuedCodes : tfa'[c] = tfa[c]
  BY <1>1, <1>2 DEF TfaTypeOK
<1>4. TfaIssuedCodes' = TfaIssuedCodes \cup {tfaIssued + 1}
  BY <1>1 DEF TfaIssuedCodes
<1>5. QED
  BY <1>3, <1>4 DEF LiveTfa

\* Only a request and an insertion touch the set of the codes that can be used
\* other than by taking codes out of it.
LEMMA QuietTfaSteps ==
  ASSUME TfaInv,
         \/ \E r \in TfaRequest :
              \/ MailTfa(r) \/ RollbackTfa(r)
              \/ \E c \in Tfa, right, mine \in BOOLEAN : VerifyTfa(r, c, right, mine)
              \/ CountTfa(r) \/ MarkTfa(r) \/ TfaDie(r)
         \/ \E c \in Tfa : ExpireTfa(c)
         \/ UNCHANGED tfaVars
  PROVE  LiveTfa' \subseteq LiveTfa /\ TfaInserting' \subseteq TfaInserting
<1> USE DEF TfaInv, TfaTypeOK
<1>1. ASSUME tfaIssued' = tfaIssued, \A c \in Tfa : tfa[c].used => tfa'[c].used
      PROVE  LiveTfa' \subseteq LiveTfa
  <2>1. TfaIssuedCodes' = TfaIssuedCodes /\ TfaIssuedCodes \subseteq Tfa
    BY <1>1, IssuedTfaAreTfa DEF TfaIssuedCodes
  <2>2. QED
    BY <1>1, <2>1 DEF LiveTfa
<1>2. ASSUME NEW r \in TfaRequest, tfaReq'[r].stage # "insert",
             \A q \in TfaRequest \ {r} : tfaReq'[q] = tfaReq[q]
      PROVE  TfaInserting' \subseteq TfaInserting
  BY <1>2 DEF TfaInserting
<1>3. ASSUME NEW r \in TfaRequest, TfaRespond(r) \/ TfaGoto(r, "rollback", tfaReq[r].tfa)
      PROVE  TfaInserting' \subseteq TfaInserting
  BY <1>2, <1>3, TfaMoves
<1>4. ASSUME NEW r \in TfaRequest,
             MailTfa(r) \/ RollbackTfa(r) \/ CountTfa(r) \/ MarkTfa(r) \/ TfaDie(r)
      PROVE  LiveTfa' \subseteq LiveTfa /\ TfaInserting' \subseteq TfaInserting
  <2>1. \A c \in Tfa : tfa[c].used => tfa'[c].used
    <3>1. CASE tfa' = tfa
      BY <3>1
    <3>2. CASE tfa' = [tfa EXCEPT ![tfaReq[r].tfa].used = TRUE]
      BY <3>2 DEF TfaRow
    <3>3. CASE tfa' = [tfa EXCEPT ![tfaReq[r].tfa].attempts = @ + 1]
      BY <3>3 DEF TfaRow
    <3>4. QED
      BY <1>4, <3>1, <3>2, <3>3 DEF MailTfa, RollbackTfa, CountTfa, MarkTfa, TfaDie
  <2>2. tfaIssued' = tfaIssued
    BY <1>4 DEF MailTfa, RollbackTfa, CountTfa, MarkTfa, TfaDie
  <2>3. TfaRespond(r) \/ TfaGoto(r, "rollback", tfaReq[r].tfa)
    BY <1>4 DEF MailTfa, RollbackTfa, CountTfa, MarkTfa, TfaDie
  <2>4. QED
    BY <1>1, <1>3, <2>1, <2>2, <2>3
<1>5. ASSUME NEW r \in TfaRequest, NEW c \in Tfa, NEW right \in BOOLEAN, NEW mine \in BOOLEAN,
             VerifyTfa(r, c, right, mine)
      PROVE  LiveTfa' \subseteq LiveTfa /\ TfaInserting' \subseteq TfaInserting
  <2>1. tfaReq'[r].stage # "insert" /\ \A q \in TfaRequest \ {r} : tfaReq'[q] = tfaReq[q]
    BY <1>5 DEF VerifyTfa
  <2>2. tfa' = tfa /\ tfaIssued' = tfaIssued
    BY <1>5 DEF VerifyTfa
  <2>3. QED
    BY <1>1, <1>2, <2>1, <2>2
<1>6. ASSUME NEW c \in Tfa, ExpireTfa(c)
      PROVE  LiveTfa' \subseteq LiveTfa /\ TfaInserting' \subseteq TfaInserting
  <2>1. \A d \in Tfa : tfa[d].used => tfa'[d].used
    BY <1>6 DEF ExpireTfa, TfaRow
  <2>2. QED
    BY <1>1, <1>6, <2>1 DEF ExpireTfa, TfaInserting
<1>7. CASE UNCHANGED tfaVars
  BY <1>1, <1>7 DEF tfaVars, TfaInserting
<1>8. QED
  BY <1>4, <1>5, <1>6, <1>7

\* The codes that can be used and those about to be inserted belong to different
\* requests.
LiveAndComing ==
  Cardinality(LiveTfa) + Cardinality(TfaInserting) <= Cardinality(TfaRequest)

\* There are never more usable codes than requests that can overlap.
THEOREM LiveCodesStayFew == TfaSpec => []LiveCodesAreFew
<1> USE TfaAssumption
<1>1. TfaInit => LiveAndComing
  <2> SUFFICES ASSUME TfaInit PROVE LiveAndComing
    OBVIOUS
  <2>1. LiveTfa = {} /\ TfaInserting = {}
    BY DEF TfaInit, LiveTfa, TfaIssuedCodes, TfaInserting, TfaIdle
  <2>2. QED
    BY <2>1, FS_EmptySet, FS_CardinalityType DEF LiveAndComing
<1>2. LiveAndComing /\ TfaInv /\ TfaTypeOK' /\ [TfaNext]_tfaVars => LiveAndComing'
  <2> SUFFICES ASSUME LiveAndComing, TfaInv, TfaTypeOK', [TfaNext]_tfaVars PROVE LiveAndComing'
    OBVIOUS
  <2>a. IsFiniteSet(LiveTfa) /\ Cardinality(LiveTfa) \in Nat /\ tfaIssued \in Nat
    <3>1. tfaIssued \in Int /\ tfaIssued \in Nat
      BY DEF TfaInv, TfaTypeOK
    <3>2. IsFiniteSet(1..tfaIssued) /\ LiveTfa \subseteq 1..tfaIssued
      BY <3>1, FS_Interval DEF LiveTfa, TfaIssuedCodes
    <3>3. QED
      BY <3>1, <3>2, FS_Subset, FS_CardinalityType
  <2>b. Cardinality(TfaInserting) \in Nat /\ Cardinality(TfaRequest) \in Nat
        /\ IsFiniteSet(TfaInserting)
    BY TfaInsertingIsFinite, FS_CardinalityType
  <2>1. ASSUME NEW r \in TfaRequest, RequestTfa(r) PROVE LiveAndComing'
    <3>1. LiveTfa' = {}
      BY <2>1, RequestWithdraws DEF TfaInv
    <3>2. TfaInserting' \subseteq TfaRequest
      BY DEF TfaInserting
    <3>3. Cardinality(TfaInserting') \in 0..Cardinality(TfaRequest)
      BY <3>2, OneMore
    <3>4. Cardinality(LiveTfa') = 0
      BY <3>1, FS_EmptySet
    <3>5. QED
      BY <2>b, <3>3, <3>4 DEF LiveAndComing
  <2>2. ASSUME NEW r \in TfaRequest, InsertTfa(r) PROVE LiveAndComing'
    <3>1. r \in TfaInserting /\ TfaInserting' = TfaInserting \ {r}
      BY <2>2 DEF InsertTfa, TfaGoto, TfaInserting, TfaInv, TfaTypeOK, TfaRequestState
    <3>2. Cardinality(TfaInserting') = Cardinality(TfaInserting) - 1
      BY <2>b, <3>1, OneMore
    <3>3. LiveTfa' \subseteq LiveTfa \cup {tfaIssued + 1}
      BY <2>2, InsertionAdds DEF TfaInv
    <3>4. tfaIssued + 1 \notin LiveTfa
      BY <2>a DEF LiveTfa, TfaIssuedCodes
    <3>5. /\ IsFiniteSet(LiveTfa \cup {tfaIssued + 1})
          /\ Cardinality(LiveTfa \cup {tfaIssued + 1}) = Cardinality(LiveTfa) + 1
      BY <2>a, <3>4, FS_AddElement
    <3>6. Cardinality(LiveTfa') \in 0..(Cardinality(LiveTfa) + 1)
      BY <3>3, <3>5, OneMore
    <3>7. QED
      BY <2>a, <2>b, <3>2, <3>6 DEF LiveAndComing
  <2>3. ASSUME LiveTfa' \subseteq LiveTfa, TfaInserting' \subseteq TfaInserting
        PROVE  LiveAndComing'
    <3>1. /\ Cardinality(LiveTfa') \in 0..Cardinality(LiveTfa)
          /\ Cardinality(TfaInserting') \in 0..Cardinality(TfaInserting)
      BY <2>3, <2>a, <2>b, OneMore
    <3>2. QED
      BY <2>a, <2>b, <3>1 DEF LiveAndComing
  <2>4. QED
    BY <2>1, <2>2, <2>3, QuietTfaSteps DEF TfaNext
<1>3. TfaInv => TfaTypeOK
  BY DEF TfaInv
<1>4. LiveAndComing /\ TfaInv => LiveCodesAreFew
  <2> SUFFICES ASSUME LiveAndComing, TfaInv PROVE LiveCodesAreFew
    OBVIOUS
  <2>1. tfaIssued \in Int
    BY DEF TfaInv, TfaTypeOK
  <2>2. IsFiniteSet(1..tfaIssued) /\ LiveTfa \subseteq 1..tfaIssued
    BY <2>1, FS_Interval DEF LiveTfa, TfaIssuedCodes
  <2>3. Cardinality(LiveTfa) \in Nat /\ Cardinality(TfaInserting) \in Nat
        /\ Cardinality(TfaRequest) \in Nat
    BY <2>2, FS_Subset, FS_CardinalityType, TfaInsertingIsFinite
  <2>4. QED
    BY <2>3 DEF LiveAndComing, LiveCodesAreFew
<1>5. QED
  BY <1>1, <1>2, <1>3, <1>4, TfaInvAlways, PTL DEF TfaSpec

\* No "ghost" code: a usable code that no request is still sending was handed to
\* the mail server, unless a handler died or could not withdraw it.
THEOREM LiveCodesWereMailed == TfaSpec => []LiveCodeWasMailed
<1>1. TfaInit => LiveCodeWasMailed
  BY DEF TfaInit, LiveCodeWasMailed, LiveTfa, TfaIssuedCodes
<1>2. LiveCodeWasMailed /\ TfaInv /\ TfaTypeOK' /\ [TfaNext]_tfaVars => LiveCodeWasMailed'
  <2> SUFFICES ASSUME LiveCodeWasMailed, TfaInv, TfaTypeOK', [TfaNext]_tfaVars
               PROVE  LiveCodeWasMailed'
    OBVIOUS
  <2> DEFINE Sending(c) == TfaAt("mail", c) \cup TfaAt("rollback", c)
  <2>a. tfaReq \in [TfaRequest -> TfaRequestState]
    BY DEF TfaInv, TfaTypeOK
  \* Whoever is not sending a code leaves those who are alone.
  <2>b. ASSUME NEW r \in TfaRequest, tfaReq[r].stage \notin {"mail", "rollback"},
               \A q \in TfaRequest \ {r} : tfaReq'[q] = tfaReq[q]
        PROVE  \A c : Sending(c) # {} => Sending(c)' # {}
    <3>1. \A c, q : q \in Sending(c) => q \in Sending(c)'
      BY <2>b DEF TfaAt
    <3>2. QED
      BY <3>1
  <2>1. ASSUME NEW r \in TfaRequest, RequestTfa(r) PROVE LiveCodeWasMailed'
    <3>1. LiveTfa' = {}
      BY <2>1, RequestWithdraws DEF TfaInv
    <3>2. QED
      BY <3>1 DEF LiveCodeWasMailed
  <2>2. ASSUME NEW r \in TfaRequest, InsertTfa(r) PROVE LiveCodeWasMailed'
    <3>a. PICK new : new = tfaIssued + 1
      OBVIOUS
    <3>1. tfaReq'[r].stage = "mail" /\ tfaReq'[r].tfa = new
      BY <2>2, <2>a, <3>a, TfaMoves DEF InsertTfa
    <3>2. Sending(new)' # {}
      <4>1. r \in TfaAt("mail", new)'
        BY <3>1 DEF TfaAt
      <4>2. QED
        BY <4>1
    <3>3. LiveTfa' \subseteq LiveTfa \cup {new}
      BY <2>2, <3>a, InsertionAdds DEF TfaInv
    <3>4. \A c : Sending(c) # {} => Sending(c)' # {}
      <4>1. tfaReq[r].stage \notin {"mail", "rollback"}
        BY <2>2 DEF InsertTfa
      <4>2. \A q \in TfaRequest \ {r} : tfaReq'[q] = tfaReq[q]
        BY <2>2, <2>a, TfaMoves DEF InsertTfa
      <4>3. QED
        BY <2>b, <4>1, <4>2
    <3>5. UNCHANGED <<tfaMailed, tfaBroken>>
      BY <2>2 DEF InsertTfa
    <3> HIDE DEF Sending
    <3>6. QED
      BY <3>2, <3>3, <3>4, <3>5 DEF LiveCodeWasMailed, Sending
  <2>3. ASSUME LiveTfa' \subseteq LiveTfa, tfaMailed \subseteq tfaMailed',
               tfaBroken => tfaBroken',
               \A c \in LiveTfa' :
                 Sending(c) # {} => Sending(c)' # {} \/ c \in tfaMailed' \/ tfaBroken'
        PROVE  LiveCodeWasMailed'
    BY <2>3 DEF LiveCodeWasMailed
  <2>4. ASSUME NEW r \in TfaRequest, MailTfa(r) PROVE LiveCodeWasMailed'
    <3>1. LiveTfa' \subseteq LiveTfa
      BY <2>4, QuietTfaSteps
    <3>2. \A q \in TfaRequest \ {r} : tfaReq'[q] = tfaReq[q]
      BY <2>4, <2>a, TfaMoves DEF MailTfa
    <3>3. \/ tfaReq[r].tfa \in tfaMailed'
          \/ tfaReq'[r].stage = "rollback" /\ tfaReq'[r].tfa = tfaReq[r].tfa
      BY <2>4, <2>a, TfaMoves DEF MailTfa
    <3>4. tfaMailed \subseteq tfaMailed' /\ tfaBroken' = tfaBroken
      BY <2>4 DEF MailTfa
    <3>5. ASSUME NEW c, Sending(c) # {} PROVE Sending(c)' # {} \/ c \in tfaMailed'
      <4>1. PICK q \in TfaRequest : q \in Sending(c)
        BY <3>5 DEF TfaAt
      <4>2. CASE q = r
        BY <3>3, <4>1, <4>2 DEF TfaAt
      <4>3. CASE q # r
        <5>1. q \in Sending(c)'
          BY <3>2, <4>1, <4>3 DEF TfaAt
        <5>2. QED
          BY <5>1
      <4>4. QED
        BY <4>2, <4>3
    <3> HIDE DEF Sending
    <3>6. QED
      BY <2>3, <3>1, <3>4, <3>5
  <2>5. ASSUME NEW r \in TfaRequest, RollbackTfa(r) PROVE LiveCodeWasMailed'
    <3>1. LiveTfa' \subseteq LiveTfa
      BY <2>5, QuietTfaSteps
    <3>2. \A q \in TfaRequest \ {r} : tfaReq'[q] = tfaReq[q]
      BY <2>5, <2>a, TfaMoves DEF RollbackTfa
    <3>3. tfaReq[r].tfa \notin LiveTfa' \/ tfaBroken'
      <4>1. tfaReq[r].tfa \in Tfa /\ tfa[tfaReq[r].tfa] \in TfaRow
        BY <2>5, IssuedTfaAreTfa DEF RollbackTfa, TfaInv, TfaTypeOK, TfaRequests
      <4>2. CASE tfa' = [tfa EXCEPT ![tfaReq[r].tfa].used = TRUE]
        <5>1. tfa'[tfaReq[r].tfa] = [tfa[tfaReq[r].tfa] EXCEPT !.used = TRUE]
          BY <4>1, <4>2 DEF TfaInv, TfaTypeOK
        <5>2. [tfa[tfaReq[r].tfa] EXCEPT !.used = TRUE].used
          BY <4>1, TfaRowWrites
        <5>3. QED
          BY <5>1, <5>2 DEF LiveTfa
      <4>3. QED
        BY <2>5, <4>2 DEF RollbackTfa
    <3>4. tfaMailed' = tfaMailed /\ (tfaBroken => tfaBroken')
      BY <2>5 DEF RollbackTfa
    <3>5. ASSUME NEW c \in LiveTfa', Sending(c) # {} PROVE Sending(c)' # {} \/ tfaBroken'
      <4>1. PICK q \in TfaRequest : q \in Sending(c)
        BY <3>5 DEF TfaAt
      <4>2. CASE q = r
        BY <3>3, <4>1, <4>2 DEF TfaAt
      <4>3. CASE q # r
        <5>1. q \in Sending(c)'
          BY <3>2, <4>1, <4>3 DEF TfaAt
        <5>2. QED
          BY <5>1
      <4>4. QED
        BY <4>2, <4>3
    <3> HIDE DEF Sending
    <3>6. QED
      BY <2>3, <3>1, <3>4, <3>5
  <2>6. ASSUME NEW r \in TfaRequest,
               \/ CountTfa(r) \/ MarkTfa(r)
               \/ \E c \in Tfa, right, mine \in BOOLEAN : VerifyTfa(r, c, right, mine)
        PROVE  LiveCodeWasMailed'
    <3>1. LiveTfa' \subseteq LiveTfa
      BY <2>6, QuietTfaSteps
    <3>2. \A q \in TfaRequest \ {r} : tfaReq'[q] = tfaReq[q]
      <4>1. CASE TfaRespond(r)
        BY <2>a, <4>1, TfaMoves
      <4>2. ASSUME NEW c \in Tfa, NEW right \in BOOLEAN, NEW mine \in BOOLEAN,
                   VerifyTfa(r, c, right, mine)
            PROVE  \A q \in TfaRequest \ {r} : tfaReq'[q] = tfaReq[q]
        BY <2>a, <4>2 DEF VerifyTfa
      <4>3. QED
        BY <2>6, <4>1, <4>2 DEF CountTfa, MarkTfa
    <3>3. tfaReq[r].stage \notin {"mail", "rollback"}
      BY <2>6 DEF CountTfa, MarkTfa, VerifyTfa, TfaIdle
    <3>4. \A c : Sending(c) # {} => Sending(c)' # {}
      BY <2>b, <3>2, <3>3
    <3>5. UNCHANGED <<tfaMailed, tfaBroken>>
      BY <2>6 DEF CountTfa, MarkTfa, VerifyTfa
    <3> HIDE DEF Sending
    <3>6. QED
      BY <2>3, <3>1, <3>4, <3>5
  <2>7. ASSUME NEW r \in TfaRequest, TfaDie(r) PROVE LiveCodeWasMailed'
    BY <2>7 DEF TfaDie, LiveCodeWasMailed
  <2>8. ASSUME NEW c \in Tfa, ExpireTfa(c) PROVE LiveCodeWasMailed'
    <3>1. LiveTfa' \subseteq LiveTfa
      BY <2>8, QuietTfaSteps
    <3>2. UNCHANGED <<tfaReq, tfaMailed, tfaBroken>>
      BY <2>8 DEF ExpireTfa
    <3>3. QED
      BY <3>1, <3>2 DEF LiveCodeWasMailed, TfaAt
  <2>9. CASE UNCHANGED tfaVars
    BY <2>9 DEF tfaVars, LiveCodeWasMailed, LiveTfa, TfaIssuedCodes, TfaAt
  <2>10. QED
    BY <2>1, <2>2, <2>4, <2>5, <2>6, <2>7, <2>8, <2>9 DEF TfaNext
<1>3. TfaInv => TfaTypeOK
  BY DEF TfaInv
<1>4. QED
  BY <1>1, <1>2, <1>3, TfaInvAlways, PTL DEF TfaSpec

\* A code takes five wrong tries and confirms one action: the second factor
\* implements two gates for every code, as the portal does.
THEOREM TfaLimitsAreGates == TfaSpec => TfaLimitsHold
<1> USE TfaAssumption
<1> USE DEF Confirming
<1>1. TfaInit => \A c \in Tfa : TfaAttemptGate(c)!GateInit /\ TfaAcceptGate(c)!GateInit
  BY DEF TfaInit, TfaAt, TfaIdle, TfaAttemptGate!GateInit, TfaAcceptGate!GateInit
<1>2. TfaInv /\ [TfaNext]_tfaVars
        => [UNCHANGED tfaVars \/ \A c \in Tfa :
              TfaAttemptGate(c)!GateStep /\ TfaAcceptGate(c)!GateStep]_tfaVars
  <2> SUFFICES ASSUME TfaInv, TfaNext, NEW c \in Tfa
               PROVE  TfaAttemptGate(c)!GateStep /\ TfaAcceptGate(c)!GateStep
    OBVIOUS
  <2> USE DEF TfaInv, TfaTypeOK
  <2>a. tfaWrong[c] \in Nat /\ tfaAccepted[c] \in Nat
    OBVIOUS
  \* The request moves neither into the gates of code c nor out of them.
  <2>1. ASSUME NEW r \in TfaRequest,
               tfaReq[r].stage \notin {"count", "mark"} \/ tfaReq[r].tfa # c,
               tfaReq'[r].stage \notin {"count", "mark"} \/ tfaReq'[r].tfa # c,
               \A q \in TfaRequest \ {r} : tfaReq'[q] = tfaReq[q],
               tfaWrong'[c] = tfaWrong[c], tfaAccepted'[c] = tfaAccepted[c]
        PROVE  TfaAttemptGate(c)!GateStep /\ TfaAcceptGate(c)!GateStep
    <3>1. TfaAt("count", c)' = TfaAt("count", c) /\ Confirming(c)' = Confirming(c)
      BY <2>1 DEF TfaAt
    <3>2. QED
      BY <2>1, <3>1 DEF TfaAttemptGate!GateStep, TfaAcceptGate!GateStep
  \* The request is done: it leaves the gates it is in.
  <2>2. ASSUME NEW r \in TfaRequest, TfaRespond(r)
        PROVE  /\ tfaReq'[r].stage = "idle"
               /\ \A q \in TfaRequest \ {r} : tfaReq'[q] = tfaReq[q]
               /\ TfaAt("count", c)' = TfaAt("count", c) \ {r}
               /\ Confirming(c)' = Confirming(c) \ {r}
    <3>1. tfaReq'[r].stage = "idle" /\ \A q \in TfaRequest \ {r} : tfaReq'[q] = tfaReq[q]
      BY <2>2, TfaMoves
    <3>2. QED
      BY <3>1 DEF TfaAt
  <2>3. ASSUME NEW r \in TfaRequest, RequestTfa(r) \/ InsertTfa(r)
        PROVE  TfaAttemptGate(c)!GateStep /\ TfaAcceptGate(c)!GateStep
    <3>1. /\ tfaReq[r].stage \in {"idle", "insert"} /\ tfaReq'[r].stage \in {"insert", "mail"}
          /\ \A q \in TfaRequest \ {r} : tfaReq'[q] = tfaReq[q]
      BY <2>3, TfaMoves DEF RequestTfa, InsertTfa, TfaIdle
    <3>2. QED
      BY <2>1, <2>3, <3>1 DEF RequestTfa, InsertTfa
  <2>4. ASSUME NEW r \in TfaRequest, MailTfa(r) \/ RollbackTfa(r)
        PROVE  TfaAttemptGate(c)!GateStep /\ TfaAcceptGate(c)!GateStep
    <3>1. /\ tfaReq[r].stage \in {"mail", "rollback"} /\ tfaReq'[r].stage \in {"idle", "rollback"}
          /\ \A q \in TfaRequest \ {r} : tfaReq'[q] = tfaReq[q]
      BY <2>4, TfaMoves DEF MailTfa, RollbackTfa
    <3>2. QED
      BY <2>1, <2>4, <3>1 DEF MailTfa, RollbackTfa
  <2>5. ASSUME NEW r \in TfaRequest, NEW d \in Tfa, NEW right \in BOOLEAN, NEW mine \in BOOLEAN,
               VerifyTfa(r, d, right, mine)
        PROVE  TfaAttemptGate(c)!GateStep /\ TfaAcceptGate(c)!GateStep
    <3> DEFINE state == [stage |-> IF right THEN "mark" ELSE "count", tfa |-> d, mine |-> mine]
    <3>1. /\ state.stage = (IF right THEN "mark" ELSE "count") /\ state.tfa = d
          /\ state.mine = mine
      OBVIOUS
    <3>2. /\ tfaReq' = [tfaReq EXCEPT ![r] = state] /\ tfaReq[r].stage = "idle"
          /\ Judgeable(d) /\ UNCHANGED <<tfaWrong, tfaAccepted>>
      BY <2>5 DEF VerifyTfa, TfaIdle
    <3> HIDE DEF state
    <3>3. /\ tfaReq'[r] = state /\ \A q \in TfaRequest \ {r} : tfaReq'[q] = tfaReq[q]
      BY <3>2
    <3>4. CASE d = c /\ ~right
      <4>1. TfaAt("count", c)' = TfaAt("count", c) \cup {r} /\ Confirming(c)' = Confirming(c)
        BY <3>1, <3>2, <3>3, <3>4 DEF TfaAt
      <4>2. tfaWrong[c] < TFA_ATTEMPTS
        BY <3>2, <3>4 DEF Judgeable, TfaRows
      <4>3. TfaAttemptGate(c)!Enter(r)
        BY <3>2, <4>1, <4>2 DEF TfaAttemptGate!Enter
      <4>4. TfaAcceptGate(c)!GateStep
        BY <3>2, <4>1 DEF TfaAcceptGate!GateStep
      <4>5. QED
        BY <4>3, <4>4 DEF TfaAttemptGate!GateStep, TfaAttemptGate!GateNext
    <3>5. CASE d = c /\ right
      <4>1. TfaAt("count", c)' = TfaAt("count", c)
        BY <3>1, <3>2, <3>3, <3>5 DEF TfaAt
      <4>2. Confirming(c)' = IF mine THEN Confirming(c) \cup {r} ELSE Confirming(c)
        BY <3>1, <3>2, <3>3, <3>5 DEF TfaAt
      <4>3. tfaAccepted[c] < 1
        <5>1. ~tfa[c].used
          BY <3>2, <3>5 DEF Judgeable
        <5>2. QED
          BY <2>a, <5>1 DEF TfaRows
      <4>4. TfaAcceptGate(c)!GateStep
        <5>1. CASE mine
          <6>1. TfaAcceptGate(c)!Enter(r)
            BY <3>2, <4>2, <4>3, <5>1 DEF TfaAcceptGate!Enter
          <6>2. QED
            BY <6>1 DEF TfaAcceptGate!GateStep, TfaAcceptGate!GateNext
        <5>2. CASE ~mine
          BY <3>2, <4>2, <5>2 DEF TfaAcceptGate!GateStep
        <5>3. QED
          BY <5>1, <5>2
      <4>5. TfaAttemptGate(c)!GateStep
        BY <3>2, <4>1 DEF TfaAttemptGate!GateStep
      <4>6. QED
        BY <4>4, <4>5
    <3>6. CASE d # c
      BY <2>1, <3>1, <3>2, <3>3, <3>6
    <3>7. QED
      BY <3>4, <3>5, <3>6
  <2>6. ASSUME NEW r \in TfaRequest, CountTfa(r)
        PROVE  TfaAttemptGate(c)!GateStep /\ TfaAcceptGate(c)!GateStep
    <3>1. tfaReq[r].stage = "count" /\ TfaRespond(r) /\ UNCHANGED tfaAccepted
          /\ tfaWrong' = [tfaWrong EXCEPT ![tfaReq[r].tfa] = @ + 1]
      BY <2>6 DEF CountTfa
    <3>2. CASE tfaReq[r].tfa = c
      <4>1. r \in TfaAt("count", c) /\ r \notin Confirming(c)
        BY <3>1, <3>2 DEF TfaAt
      <4>2. /\ TfaAt("count", c)' = TfaAt("count", c) \ {r}
            /\ Confirming(c)' = Confirming(c) \ {r}
        BY <2>2, <3>1
      <4>3. Confirming(c)' = Confirming(c) /\ tfaWrong'[c] = tfaWrong[c] + 1
        BY <3>1, <3>2, <4>1, <4>2
      <4>4. TfaAttemptGate(c)!Take(r)
        BY <4>1, <4>2, <4>3 DEF TfaAttemptGate!Take
      <4>5. TfaAcceptGate(c)!GateStep
        BY <3>1, <4>3 DEF TfaAcceptGate!GateStep
      <4>6. QED
        BY <4>4, <4>5 DEF TfaAttemptGate!GateStep, TfaAttemptGate!GateNext
    <3>3. CASE tfaReq[r].tfa # c
      <4>1. tfaWrong'[c] = tfaWrong[c]
        BY <3>1, <3>3
      <4>2. QED
        BY <2>1, <2>2, <3>1, <3>3, <4>1
    <3>4. QED
      BY <3>2, <3>3
  <2>7. ASSUME NEW r \in TfaRequest, MarkTfa(r)
        PROVE  TfaAttemptGate(c)!GateStep /\ TfaAcceptGate(c)!GateStep
    <3>1. tfaReq[r].stage = "mark" /\ TfaRespond(r) /\ UNCHANGED tfaWrong
          /\ tfaAccepted' = IF tfaReq[r].mine
                              THEN [tfaAccepted EXCEPT ![tfaReq[r].tfa] = @ + 1]
                              ELSE tfaAccepted
      BY <2>7 DEF MarkTfa
    <3>2. CASE tfaReq[r].tfa = c
      <4>1. r \notin TfaAt("count", c) /\ (r \in Confirming(c) <=> tfaReq[r].mine)
        BY <3>1, <3>2 DEF TfaAt
      <4>2. /\ TfaAt("count", c)' = TfaAt("count", c) \ {r}
            /\ Confirming(c)' = Confirming(c) \ {r}
        BY <2>2, <3>1
      <4>3. TfaAt("count", c)' = TfaAt("count", c)
        BY <4>1, <4>2
      <4>4. TfaAcceptGate(c)!GateStep
        <5>1. CASE tfaReq[r].mine
          <6>1. tfaAccepted'[c] = tfaAccepted[c] + 1
            BY <3>1, <3>2, <5>1
          <6>2. TfaAcceptGate(c)!Take(r)
            BY <4>1, <4>2, <5>1, <6>1 DEF TfaAcceptGate!Take
          <6>3. QED
            BY <6>2 DEF TfaAcceptGate!GateStep, TfaAcceptGate!GateNext
        <5>2. CASE ~tfaReq[r].mine
          <6>1. Confirming(c)' = Confirming(c) /\ tfaAccepted'[c] = tfaAccepted[c]
            BY <3>1, <4>1, <4>2, <5>2
          <6>2. QED
            BY <6>1 DEF TfaAcceptGate!GateStep
        <5>3. QED
          BY <5>1, <5>2
      <4>5. TfaAttemptGate(c)!GateStep
        BY <3>1, <4>3 DEF TfaAttemptGate!GateStep
      <4>6. QED
        BY <4>4, <4>5
    <3>3. CASE tfaReq[r].tfa # c
      <4>1. tfaAccepted'[c] = tfaAccepted[c]
        BY <3>1, <3>3
      <4>2. QED
        BY <2>1, <2>2, <3>1, <3>3, <4>1
    <3>4. QED
      BY <3>2, <3>3
  <2>8. ASSUME NEW r \in TfaRequest, TfaDie(r)
        PROVE  TfaAttemptGate(c)!GateStep /\ TfaAcceptGate(c)!GateStep
    <3>1. TfaRespond(r) /\ UNCHANGED <<tfaWrong, tfaAccepted>>
      BY <2>8 DEF TfaDie
    <3>2. /\ TfaAt("count", c)' = TfaAt("count", c) \ {r}
          /\ Confirming(c)' = Confirming(c) \ {r}
      BY <2>2, <3>1
    <3>3. TfaAttemptGate(c)!GateStep
      BY <3>1, <3>2
      DEF TfaAttemptGate!GateStep, TfaAttemptGate!GateNext, TfaAttemptGate!Leave
    <3>4. TfaAcceptGate(c)!GateStep
      BY <3>1, <3>2
      DEF TfaAcceptGate!GateStep, TfaAcceptGate!GateNext, TfaAcceptGate!Leave
    <3>5. QED
      BY <3>3, <3>4
  <2>9. ASSUME NEW d \in Tfa, ExpireTfa(d)
        PROVE  TfaAttemptGate(c)!GateStep /\ TfaAcceptGate(c)!GateStep
    <3>1. TfaAt("count", c)' = TfaAt("count", c) /\ Confirming(c)' = Confirming(c)
          /\ UNCHANGED <<tfaWrong, tfaAccepted>>
      BY <2>9 DEF ExpireTfa, TfaAt
    <3>2. QED
      BY <3>1 DEF TfaAttemptGate!GateStep, TfaAcceptGate!GateStep
  <2>10. QED
    BY <2>3, <2>4, <2>5, <2>6, <2>7, <2>8, <2>9 DEF TfaNext
<1>3. QED
  BY <1>1, <1>2, TfaInvAlways, PTL DEF TfaSpec, TfaLimitsHold


-----------------------------------------------------------------------------
(* What the gates are worth in numbers: the bound of a gate, for each of   *)
(* the limits that are one.                                                *)

\* Below the limit plus the requests, with those in flight counted in.
FewIssues ==
  /\ Cardinality(Recent) \in Nat /\ In("insert", 0) \subseteq OtpRequest
  /\ Cardinality(Recent) + Cardinality(In("insert", 0)) < OTP_LIMIT + Cardinality(OtpRequest)

FewOtpTries ==
  \A c \in Otp :
    /\ otpWrong[c] \in Nat /\ In("count", c) \subseteq OtpRequest
    /\ otpWrong[c] + Cardinality(In("count", c)) < OTP_ATTEMPTS + Cardinality(OtpRequest)
    /\ otpAccepted[c] \in Nat /\ In("mark", c) \subseteq OtpRequest
    /\ otpAccepted[c] + Cardinality(In("mark", c)) < 1 + Cardinality(OtpRequest)

\* Whatever overlaps and whatever fails, the portal counts fewer codes of the last
\* fifteen minutes than OTP_LIMIT and the requests together, judges fewer wrong
\* tries of a code than OTP_ATTEMPTS and the requests together, and accepts a code
\* no more often than there are requests.
THEOREM OtpOverrunIsBounded ==
  OtpSpec => [](/\ Cardinality(Recent) < OTP_LIMIT + Cardinality(OtpRequest)
                /\ \A c \in Otp : /\ otpWrong[c] < OTP_ATTEMPTS + Cardinality(OtpRequest)
                                  /\ otpAccepted[c] < 1 + Cardinality(OtpRequest))
<1> USE OtpAssumption
<1>a. Cardinality(OtpRequest) \in Nat
  BY FS_CardinalityType
<1>b. \A S \in SUBSET OtpRequest : Cardinality(S) \in Nat
  BY FS_Subset, FS_CardinalityType
<1>1. WindowGate!GateInit => FewIssues
  BY <1>a, FS_EmptySet DEF WindowGate!GateInit, FewIssues
<1>2. FewIssues /\ [UNCHANGED otpVars \/ WindowGate!GateStep]_otpVars => FewIssues'
  <2> SUFFICES ASSUME FewIssues, [UNCHANGED otpVars \/ WindowGate!GateStep]_otpVars
               PROVE  FewIssues'
    OBVIOUS
  <2>1. CASE UNCHANGED otpVars
    BY <2>1 DEF FewIssues, otpVars, Recent, Issued, In
  <2>2. CASE WindowGate!GateStep
    BY <2>2, GateStepKeeps
       DEF FewIssues, WindowGate!GateStep, WindowGate!GateNext, WindowGate!Enter,
           WindowGate!Take, WindowGate!Leave, WindowGate!Forget
  <2>3. QED
    BY <2>1, <2>2
<1>3. FewIssues => Cardinality(Recent) < OTP_LIMIT + Cardinality(OtpRequest)
  BY <1>a, <1>b DEF FewIssues
<1>4. (\A c \in Otp : AttemptGate(c)!GateInit /\ AcceptGate(c)!GateInit) => FewOtpTries
  BY <1>a, FS_EmptySet DEF AttemptGate!GateInit, AcceptGate!GateInit, FewOtpTries
<1>5. FewOtpTries /\ [UNCHANGED otpVars \/ \A c \in Otp :
          AttemptGate(c)!GateStep /\ AcceptGate(c)!GateStep]_otpVars => FewOtpTries'
  <2> SUFFICES ASSUME FewOtpTries,
                      [UNCHANGED otpVars \/ \A c \in Otp :
                         AttemptGate(c)!GateStep /\ AcceptGate(c)!GateStep]_otpVars
               PROVE  FewOtpTries'
    OBVIOUS
  <2>1. CASE UNCHANGED otpVars
    BY <2>1 DEF FewOtpTries, otpVars, In
  <2>2. ASSUME NEW c \in Otp, AttemptGate(c)!GateStep
        PROVE  /\ otpWrong'[c] \in Nat /\ In("count", c)' \subseteq OtpRequest
               /\ otpWrong'[c] + Cardinality(In("count", c)') < OTP_ATTEMPTS + Cardinality(OtpRequest)
    <3> DEFINE n == otpWrong[c]
               m == otpWrong'[c]
               S == In("count", c)
               T == In("count", c)'
    <3>1. n \in Nat /\ S \in SUBSET OtpRequest
          /\ n + Cardinality(S) < OTP_ATTEMPTS + Cardinality(OtpRequest)
      BY DEF FewOtpTries
    <3>2. \/ m = n /\ T = S
          \/ \E r \in OtpRequest : \/ n < OTP_ATTEMPTS /\ m = n /\ T = S \cup {r}
                                   \/ r \in S /\ m = n + 1 /\ T = S \ {r}
                                   \/ r \in S /\ m = n /\ T = S \ {r}
          \/ m \in 0..n /\ T = S
      BY <2>2 DEF AttemptGate!GateStep, AttemptGate!GateNext, AttemptGate!Enter,
                  AttemptGate!Take, AttemptGate!Leave, AttemptGate!Forget
    <3> HIDE DEF n, m, S, T
    <3>3. T \subseteq OtpRequest /\ m \in Nat
          /\ m + Cardinality(T) < OTP_ATTEMPTS + Cardinality(OtpRequest)
      BY <3>1, <3>2, GateStepKeeps
    <3>4. QED
      BY <3>3 DEF n, m, S, T
  <2>3. ASSUME NEW c \in Otp, AcceptGate(c)!GateStep
        PROVE  /\ otpAccepted'[c] \in Nat /\ In("mark", c)' \subseteq OtpRequest
               /\ otpAccepted'[c] + Cardinality(In("mark", c)') < 1 + Cardinality(OtpRequest)
    <3> DEFINE n == otpAccepted[c]
               m == otpAccepted'[c]
               S == In("mark", c)
               T == In("mark", c)'
    <3>1. n \in Nat /\ S \in SUBSET OtpRequest
          /\ n + Cardinality(S) < 1 + Cardinality(OtpRequest)
      BY DEF FewOtpTries
    <3>2. \/ m = n /\ T = S
          \/ \E r \in OtpRequest : \/ n < 1 /\ m = n /\ T = S \cup {r}
                                   \/ r \in S /\ m = n + 1 /\ T = S \ {r}
                                   \/ r \in S /\ m = n /\ T = S \ {r}
          \/ m \in 0..n /\ T = S
      BY <2>3 DEF AcceptGate!GateStep, AcceptGate!GateNext, AcceptGate!Enter, AcceptGate!Take,
                  AcceptGate!Leave, AcceptGate!Forget
    <3> HIDE DEF n, m, S, T
    <3>3. T \subseteq OtpRequest /\ m \in Nat /\ m + Cardinality(T) < 1 + Cardinality(OtpRequest)
      BY <3>1, <3>2, GateStepKeeps
    <3>4. QED
      BY <3>3 DEF n, m, S, T
  <2>4. CASE \A c \in Otp : AttemptGate(c)!GateStep /\ AcceptGate(c)!GateStep
    BY <2>2, <2>3, <2>4 DEF FewOtpTries
  <2>5. QED
    BY <2>1, <2>4
<1>6. FewOtpTries => \A c \in Otp : /\ otpWrong[c] < OTP_ATTEMPTS + Cardinality(OtpRequest)
                                    /\ otpAccepted[c] < 1 + Cardinality(OtpRequest)
  BY <1>a, <1>b DEF FewOtpTries
<1>7. QED
  BY <1>1, <1>2, <1>3, <1>4, <1>5, <1>6, IssuesPassTheGate, OtpLimitsAreGates, PTL
     DEF IssuesAreLimited, OtpLimitsHold


FewTfaTries ==
  \A c \in Tfa :
    /\ tfaWrong[c] \in Nat /\ TfaAt("count", c) \subseteq TfaRequest
    /\ tfaWrong[c] + Cardinality(TfaAt("count", c)) < TFA_ATTEMPTS + Cardinality(TfaRequest)
    /\ tfaAccepted[c] \in Nat /\ Confirming(c) \subseteq TfaRequest
    /\ tfaAccepted[c] + Cardinality(Confirming(c)) < 1 + Cardinality(TfaRequest)

\* The same of the second factor: fewer wrong tries of a code are judged than
\* TFA_ATTEMPTS and the requests together, and a code confirms no more actions
\* than there are requests.
THEOREM TfaOverrunIsBounded ==
  TfaSpec => [](\A c \in Tfa : /\ tfaWrong[c] < TFA_ATTEMPTS + Cardinality(TfaRequest)
                               /\ tfaAccepted[c] < 1 + Cardinality(TfaRequest))
<1> USE TfaAssumption
<1>a. Cardinality(TfaRequest) \in Nat
  BY FS_CardinalityType
<1>b. \A S \in SUBSET TfaRequest : Cardinality(S) \in Nat
  BY FS_Subset, FS_CardinalityType
<1>c. Cardinality({}) = 0 /\ 1 \in Nat \ {0}
  BY FS_EmptySet
<1>1. (\A c \in Tfa : TfaAttemptGate(c)!GateInit /\ TfaAcceptGate(c)!GateInit) => FewTfaTries
  <2>1. ASSUME NEW c \in Tfa, TfaAttemptGate(c)!GateInit
        PROVE  /\ tfaWrong[c] \in Nat /\ TfaAt("count", c) \subseteq TfaRequest
               /\ tfaWrong[c] + Cardinality(TfaAt("count", c)) < TFA_ATTEMPTS + Cardinality(TfaRequest)
    <3>1. tfaWrong[c] = 0 /\ TfaAt("count", c) = {}
      BY <2>1 DEF TfaAttemptGate!GateInit
    <3>2. QED
      BY <1>a, <1>c, <3>1
  <2>2. ASSUME NEW c \in Tfa, TfaAcceptGate(c)!GateInit
        PROVE  /\ tfaAccepted[c] \in Nat /\ Confirming(c) \subseteq TfaRequest
               /\ tfaAccepted[c] + Cardinality(Confirming(c)) < 1 + Cardinality(TfaRequest)
    <3>1. tfaAccepted[c] = 0 /\ Confirming(c) = {}
      BY <2>2 DEF TfaAcceptGate!GateInit
    <3>2. QED
      BY <1>a, <1>c, <3>1
  <2>3. QED
    BY <2>1, <2>2 DEF FewTfaTries
<1>2. FewTfaTries /\ [UNCHANGED tfaVars \/ \A c \in Tfa :
          TfaAttemptGate(c)!GateStep /\ TfaAcceptGate(c)!GateStep]_tfaVars => FewTfaTries'
  <2> SUFFICES ASSUME FewTfaTries,
                      [UNCHANGED tfaVars \/ \A c \in Tfa :
                         TfaAttemptGate(c)!GateStep /\ TfaAcceptGate(c)!GateStep]_tfaVars
               PROVE  FewTfaTries'
    OBVIOUS
  <2>1. CASE UNCHANGED tfaVars
    BY <2>1 DEF FewTfaTries, tfaVars, TfaAt, Confirming
  <2>2. ASSUME NEW c \in Tfa, TfaAttemptGate(c)!GateStep
        PROVE  /\ tfaWrong'[c] \in Nat /\ TfaAt("count", c)' \subseteq TfaRequest
               /\ tfaWrong'[c] + Cardinality(TfaAt("count", c)') < TFA_ATTEMPTS + Cardinality(TfaRequest)
    BY <2>2, GateStepKeeps
       DEF FewTfaTries, TfaAttemptGate!GateStep, TfaAttemptGate!GateNext, TfaAttemptGate!Enter,
           TfaAttemptGate!Take, TfaAttemptGate!Leave, TfaAttemptGate!Forget
  <2>3. ASSUME NEW c \in Tfa, TfaAcceptGate(c)!GateStep
        PROVE  /\ tfaAccepted'[c] \in Nat /\ Confirming(c)' \subseteq TfaRequest
               /\ tfaAccepted'[c] + Cardinality(Confirming(c)') < 1 + Cardinality(TfaRequest)
    <3> DEFINE n == tfaAccepted[c]
               m == tfaAccepted'[c]
               S == Confirming(c)
               T == Confirming(c)'
    <3>1. n \in Nat /\ S \in SUBSET TfaRequest
          /\ n + Cardinality(S) < 1 + Cardinality(TfaRequest)
      BY DEF FewTfaTries
    <3>2. \/ m = n /\ T = S
          \/ \E r \in TfaRequest : \/ n < 1 /\ m = n /\ T = S \cup {r}
                                   \/ r \in S /\ m = n + 1 /\ T = S \ {r}
                                   \/ r \in S /\ m = n /\ T = S \ {r}
          \/ m \in 0..n /\ T = S
      BY <2>3 DEF TfaAcceptGate!GateStep, TfaAcceptGate!GateNext, TfaAcceptGate!Enter,
                  TfaAcceptGate!Take, TfaAcceptGate!Leave, TfaAcceptGate!Forget
    <3> HIDE DEF n, m, S, T
    <3>3. T \subseteq TfaRequest /\ m \in Nat /\ m + Cardinality(T) < 1 + Cardinality(TfaRequest)
      BY <1>c, <3>1, <3>2, GateStepKeeps
    <3>4. QED
      BY <3>3 DEF n, m, S, T
  <2>4. CASE \A c \in Tfa : TfaAttemptGate(c)!GateStep /\ TfaAcceptGate(c)!GateStep
    BY <2>2, <2>3, <2>4 DEF FewTfaTries
  <2>5. QED
    BY <2>1, <2>4
<1>3. FewTfaTries => \A c \in Tfa : /\ tfaWrong[c] < TFA_ATTEMPTS + Cardinality(TfaRequest)
                                    /\ tfaAccepted[c] < 1 + Cardinality(TfaRequest)
  BY <1>a, <1>b DEF FewTfaTries
<1>4. QED
  BY <1>1, <1>2, <1>3, TfaLimitsAreGates, PTL DEF TfaLimitsHold

=============================================================================
