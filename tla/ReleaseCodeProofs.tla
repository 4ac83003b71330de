------------------------- MODULE ReleaseCodeProofs -------------------------
(***************************************************************************)
(* Proofs about ReleaseCode, for any number of overlapping requests and    *)
(* whatever fails.                                                         *)
(***************************************************************************)
EXTENDS ReleaseCode, TLAPS

-----------------------------------------------------------------------------
(* Types.                                                                  *)

LEMMA IdleCodeTypes == NoRow \in Row /\ CodeIdle \in CodeRequest
BY ReleaseAssumption DEF NoRow, Row, CodeIdle, CodeRequest, CodeStage

LEMMA RequestFields ==
  \A q \in CodeRequest :
    /\ q.stage \in CodeStage /\ q.code \in 0..MaxCodes
    /\ q.seen \in Row /\ q.via \in {"mail", "paper"}
BY DEF CodeRequest

LEMMA RowFields ==
  \A row \in Row : row.code \in 0..MaxCodes /\ row.attempts \in Nat
BY DEF Row

\* The three writes of a row that exists.
LEMMA RowWrites ==
  ASSUME NEW row \in Row, NEW n \in Nat, NEW b \in BOOLEAN, NEW v \in {"none", "mail", "paper"}
  PROVE  /\ [row EXCEPT !.attempts = n, !.locked = b] \in Row
         /\ [row EXCEPT !.used = TRUE, !.attempts = 0, !.locked = FALSE] \in Row
         /\ [row EXCEPT !.sentVia = v] \in Row
         /\ [row EXCEPT !.locked = b] \in Row
BY DEF Row

\* What the two moves of a handler do to the local states.
LEMMA CodeGotoEffect ==
  ASSUME NEW r \in ReleaseRequest, NEW stage \in CodeStage,
         codeReq \in [ReleaseRequest -> CodeRequest], CodeGoto(r, stage)
  PROVE  /\ codeReq' \in [ReleaseRequest -> CodeRequest]
         /\ \A q \in ReleaseRequest :
              /\ codeReq'[q].stage = IF q = r THEN stage ELSE codeReq[q].stage
              /\ codeReq'[q].code = codeReq[q].code
              /\ codeReq'[q].seen = codeReq[q].seen
              /\ codeReq'[q].via = codeReq[q].via
BY DEF CodeGoto, CodeRequest

LEMMA RespondEffect ==
  ASSUME NEW r \in ReleaseRequest,
         codeReq \in [ReleaseRequest -> CodeRequest], CodeRespond(r)
  PROVE  /\ codeReq' \in [ReleaseRequest -> CodeRequest]
         /\ codeReq'[r].stage = "idle"
         /\ \A q \in ReleaseRequest \ {r} : codeReq'[q] = codeReq[q]
<1>1. codeReq' \in [ReleaseRequest -> CodeRequest]
  BY IdleCodeTypes DEF CodeRespond
<1>2. codeReq'[r].stage = "idle"
  BY DEF CodeRespond, CodeIdle
<1>3. QED
  BY <1>1, <1>2 DEF CodeRespond

LEMMA JudgedTypes == \A row \in Row : Judged(row) \in Row
BY DEF Judged, Row

\* What a write blames itself for is on the list.
LEMMA BlameTypes ==
  ASSUME NEW r \in ReleaseRequest, trouble \subseteq Trouble, Blame(r)
  PROVE  trouble' \subseteq Trouble
BY DEF Blame, Trouble

\* The stages of a request that issues a code: its code is one of those drawn.
IssueStage == {"find", "create", "replace", "notify", "sent"}

Drawn ==
  \A r \in ReleaseRequest : codeReq[r].stage \in IssueStage => codeReq[r].code \in 1..issued

TypedAndDrawn == ReleaseTypeOK /\ Drawn

LEMMA TypedAndDrawnAlways == ReleaseSpec => []TypedAndDrawn
<1>1. ReleaseInit => TypedAndDrawn
  BY IdleCodeTypes, ReleaseAssumption
  DEF ReleaseInit, TypedAndDrawn, ReleaseTypeOK, Status, Drawn, IssueStage, CodeIdle
<1>2. TypedAndDrawn /\ [ReleaseNext]_codeVars => TypedAndDrawn'
  <2> SUFFICES ASSUME TypedAndDrawn, [ReleaseNext]_codeVars PROVE TypedAndDrawn'
    OBVIOUS
  <2> USE DEF TypedAndDrawn, ReleaseTypeOK
  <2>a. "closed" \in Status
    BY DEF Status
  <2>b. MAX_ATTEMPTS \in Nat /\ MaxCodes \in Nat /\ MaxCalls \in Nat /\ ReleaseTarget \subseteq Status
    BY ReleaseAssumption
  <2>1. CASE UNCHANGED codeVars
    BY <2>1 DEF codeVars, Drawn
  <2>2. ASSUME NEW r \in ReleaseRequest, NEW via \in {"mail", "paper"}, Issue(r, via)
        PROVE  TypedAndDrawn'
    <3> DEFINE new == [CodeIdle EXCEPT !.stage = "find", !.code = issued + 1, !.via = via]
    <3>1. issued + 1 \in 0..MaxCodes
      BY <2>2, <2>b DEF Issue
    <3>2. new \in CodeRequest /\ new.code = issued + 1
      BY <3>1, IdleCodeTypes DEF CodeRequest, CodeStage
    <3> HIDE DEF new
    <3>3. issued' = issued + 1 /\ codeReq' = [codeReq EXCEPT ![r] = new]
      BY <2>2 DEF Issue, new
    <3>4. ReleaseTypeOK'
      BY <2>2, <3>1, <3>2, <3>3 DEF Issue
    <3>5. Drawn'
      BY <2>b, <3>2, <3>3 DEF Drawn
    <3>6. QED
      BY <3>4, <3>5
  <2>3. ASSUME NEW r \in ReleaseRequest, NEW c \in 0..MaxCodes, Release(r, c)
        PROVE  TypedAndDrawn'
    <3> DEFINE new == [CodeIdle EXCEPT !.stage = "verify", !.code = c]
    <3>1. new \in CodeRequest /\ new.stage = "verify"
      BY IdleCodeTypes DEF CodeRequest, CodeStage
    <3> HIDE DEF new
    <3>2. codeReq' = [codeReq EXCEPT ![r] = new]
      BY <2>3 DEF Release, new
    <3>3. QED
      BY <2>3, <3>1, <3>2, <2>b DEF Release, Drawn, IssueStage
  <2>4. ASSUME NEW r \in ReleaseRequest, FindRow(r) PROVE TypedAndDrawn'
    <3>1. CodeGoto(r, "replace") \/ CodeGoto(r, "create")
      BY <2>4 DEF FindRow
    <3>2. QED
      BY <2>4, <3>1, CodeGotoEffect DEF FindRow, CodeStage, Drawn, IssueStage
  <2>5. ASSUME NEW r \in ReleaseRequest, ReplaceRow(r) PROVE TypedAndDrawn'
    <3>1. NewRow(codeReq[r].code) \in Row
      BY IdleCodeTypes DEF NewRow, Row, CodeRequest
    <3>2. QED
      BY <2>5, <3>1, CodeGotoEffect DEF ReplaceRow, CodeStage, Drawn, IssueStage
  <2>6. ASSUME NEW r \in ReleaseRequest, CreateRow(r) PROVE TypedAndDrawn'
    <3>1. NewRow(codeReq[r].code) \in Row
      BY IdleCodeTypes DEF NewRow, Row, CodeRequest
    <3>2. CASE CodeGoto(r, "notify")
      BY <2>6, <3>1, <3>2, CodeGotoEffect DEF CreateRow, CodeStage, Drawn, IssueStage
    <3>3. CASE CodeRespond(r)
      BY <2>6, <3>1, <3>3, RespondEffect DEF CreateRow, Drawn, IssueStage
    <3>4. QED
      BY <2>6, <3>2, <3>3 DEF CreateRow
  <2>7. ASSUME NEW r \in ReleaseRequest, Notify(r) PROVE TypedAndDrawn'
    <3>1. codeReq[r].code \in Code
      BY <2>7, <2>b, RequestFields DEF Notify, Drawn, IssueStage, Code
    <3>2. CASE CodeGoto(r, "sent")
      BY <2>7, <3>1, <3>2, CodeGotoEffect DEF Notify, CodeStage, Drawn, IssueStage
    <3>3. CASE CodeRespond(r)
      BY <2>7, <3>1, <3>3, RespondEffect DEF Notify, Drawn, IssueStage
    <3>4. QED
      BY <2>7, <3>2, <3>3 DEF Notify
  <2>8. ASSUME NEW r \in ReleaseRequest, MarkSent(r) PROVE TypedAndDrawn'
    <3>1. [codeRow EXCEPT !.sentVia = codeReq[r].via] \in Row
      BY RequestFields, RowWrites, 0 \in Nat, TRUE \in BOOLEAN
    <3>2. QED
      BY <2>8, <3>1, RespondEffect DEF MarkSent, Trouble, Drawn, IssueStage
  <2>9. ASSUME NEW r \in ReleaseRequest, ReadCode(r) PROVE TypedAndDrawn'
    <3>1. CASE CodeRespond(r)
      BY <2>9, <3>1, RespondEffect DEF ReadCode, Drawn, IssueStage
    <3>2. CASE ~CodeRespond(r)
      <4> DEFINE stage == IF codeReq[r].code = codeRow.code THEN "mark" ELSE "count"
                 judged == [codeReq[r] EXCEPT !.stage = stage, !.seen = Judged(codeRow)]
      <4>1. stage \in {"mark", "count"} /\ Judged(codeRow) \in Row
        BY JudgedTypes
      <4>2. judged \in CodeRequest /\ judged.stage \in {"mark", "count"}
        BY <4>1 DEF CodeRequest, CodeStage
      <4>3. codeReq' = [codeReq EXCEPT ![r] = judged]
        BY <2>9, <3>2 DEF ReadCode
      <4> HIDE DEF judged
      <4>4. QED
        BY <2>9, <4>2, <4>3 DEF ReadCode, Drawn, IssueStage
    <3>3. QED
      BY <3>1, <3>2
  <2>10. ASSUME NEW r \in ReleaseRequest, MarkUsed(r) PROVE TypedAndDrawn'
    <3>1. [codeRow EXCEPT !.used = TRUE, !.attempts = 0, !.locked = FALSE] \in Row
      BY RowWrites, 0 \in Nat, TRUE \in BOOLEAN, "none" \in {"none", "mail", "paper"}
    <3>2. accepted' \in [Code -> Nat]
      <4>1. CASE codeReq[r].code \in Code
        BY <2>10, <4>1 DEF MarkUsed
      <4>2. CASE codeReq[r].code \notin Code
        BY <2>10, <4>2 DEF MarkUsed
      <4>3. QED
        BY <4>1, <4>2
    <3>3. trouble' \subseteq Trouble
      BY <2>10, BlameTypes DEF MarkUsed, Trouble
    <3>4. QED
      BY <2>10, <3>1, <3>2, <3>3, CodeGotoEffect DEF MarkUsed, CodeStage, Drawn, IssueStage
  <2>11. ASSUME NEW r \in ReleaseRequest, CountWrong(r) PROVE TypedAndDrawn'
    <3> DEFINE n == codeReq[r].seen.attempts + 1
               b == codeRow.locked \/ n >= MAX_ATTEMPTS
    <3>1. n \in Nat /\ b \in BOOLEAN
      BY RequestFields, RowFields
    <3>2. codeRow' = [codeRow EXCEPT !.attempts = n, !.locked = b] \/ codeRow' = codeRow
      BY <2>11 DEF CountWrong
    <3> HIDE DEF n, b
    <3>3. codeRow' \in Row
      BY <3>1, <3>2 DEF Row
    <3>4. trouble' \subseteq Trouble
      BY <2>11, BlameTypes DEF CountWrong, Trouble
    <3>5. QED
      BY <2>11, <3>3, <3>4, RespondEffect DEF CountWrong, Drawn, IssueStage
  <2>12. ASSUME NEW r \in ReleaseRequest, CheckClose(r) \/ CloseOrder(r) PROVE TypedAndDrawn'
    <3>1. CASE CloseOrder(r)
      BY <3>1, <2>a, RespondEffect DEF CloseOrder, Trouble, Drawn, IssueStage
    <3>2. CASE CheckClose(r) /\ CodeGoto(r, "closing") /\ UNCHANGED trouble
      BY <3>2, CodeGotoEffect DEF CheckClose, CodeStage, Drawn, IssueStage
    <3>3. CASE CheckClose(r) /\ CodeRespond(r) /\ trouble' = trouble \cup {"close"}
      BY <3>3, RespondEffect DEF CheckClose, Trouble, Drawn, IssueStage
    <3>4. QED
      BY <2>12, <3>1, <3>2, <3>3 DEF CheckClose
  <2>13. ASSUME NEW r \in ReleaseRequest, CodeDie(r) PROVE TypedAndDrawn'
    BY <2>13, RespondEffect DEF CodeDie, Trouble, Drawn, IssueStage
  <2>14. ASSUME LockEnds PROVE TypedAndDrawn'
    BY <2>14 DEF LockEnds, Row, Drawn
  <2>15. ASSUME NEW to \in ReleaseTarget, CheckMove(to) \/ MoveOrder(to) PROVE TypedAndDrawn'
    BY <2>15, <2>b DEF CheckMove, MoveOrder, Trouble, Drawn
  <2>16. QED
    BY <2>1, <2>2, <2>3, <2>4, <2>5, <2>6, <2>7, <2>8, <2>9, <2>10, <2>11, <2>12, <2>13,
       <2>14, <2>15 DEF ReleaseNext
<1>3. QED
  BY <1>1, <1>2, PTL DEF ReleaseSpec

\* The variables keep the types of the model.
THEOREM ReleaseTypeCorrect == ReleaseSpec => []ReleaseTypeOK
BY TypedAndDrawnAlways, PTL DEF TypedAndDrawn

-----------------------------------------------------------------------------
(* Codes: a code is new until its row is written, and is judged only by     *)
(* requests that saw it unused and unlocked.                                *)

Pending == {"find", "create", "replace"}

\* The row holds a code that was drawn, and no handler works on a missing row.
RowIsDrawn ==
  /\ codeRow.code <= issued
  /\ codeRow.code = 0 => codeRow = NoRow
  /\ \A r \in ReleaseRequest :
       codeReq[r].stage \in {"replace", "notify", "sent", "mark", "count", "close"}
         => codeRow.code # 0

\* A code that is not written yet is nobody else's: it was not accepted, is not
\* in the row, and no other request issues it or has judged it.
PendingIsNew ==
  \A r \in ReleaseRequest : codeReq[r].stage \in Pending =>
    /\ accepted[codeReq[r].code] = 0
    /\ codeReq[r].code # codeRow.code
    /\ \A q \in ReleaseRequest \ {r} :
         codeReq[q].stage \in Pending \cup {"mark"} => codeReq[q].code # codeReq[r].code

AcceptedWasDrawn == \A c \in Code : accepted[c] > 0 => c <= issued

\* What a request remembers of the row it judged.
JudgedOpen ==
  \A r \in ReleaseRequest :
    /\ codeReq[r].stage \in {"mark", "count"}
         => ~codeReq[r].seen.used /\ ~codeReq[r].seen.locked
    /\ codeReq[r].stage = "mark"
         => codeReq[r].seen.code = codeReq[r].code /\ codeReq[r].code \in 1..issued

CodesInv == TypedAndDrawn /\ RowIsDrawn /\ PendingIsNew /\ AcceptedWasDrawn /\ JudgedOpen

LEMMA CodesInvAlways == ReleaseSpec => []CodesInv
<1>1. ReleaseInit /\ TypedAndDrawn => CodesInv
  BY ReleaseAssumption
  DEF ReleaseInit, CodesInv, RowIsDrawn, PendingIsNew, AcceptedWasDrawn, JudgedOpen, CodeIdle,
      NoRow, Pending, Code
<1>2. CodesInv /\ TypedAndDrawn' /\ [ReleaseNext]_codeVars => CodesInv'
  <2> SUFFICES ASSUME CodesInv, TypedAndDrawn', [ReleaseNext]_codeVars
               PROVE  RowIsDrawn' /\ PendingIsNew' /\ AcceptedWasDrawn' /\ JudgedOpen'
    BY DEF CodesInv
  <2> USE DEF CodesInv, TypedAndDrawn, ReleaseTypeOK
  <2>a. MAX_ATTEMPTS \in Nat /\ MaxCodes \in Nat /\ issued \in Nat
    BY ReleaseAssumption
  <2>b. \A r \in ReleaseRequest : codeReq[r] \in CodeRequest
    OBVIOUS
  <2>1. CASE UNCHANGED codeVars
    BY <2>1 DEF codeVars, RowIsDrawn, PendingIsNew, AcceptedWasDrawn, JudgedOpen
  <2>2. ASSUME NEW r \in ReleaseRequest, NEW via \in {"mail", "paper"}, Issue(r, via)
        PROVE  RowIsDrawn' /\ PendingIsNew' /\ AcceptedWasDrawn' /\ JudgedOpen'
    <3> DEFINE new == [CodeIdle EXCEPT !.stage = "find", !.code = issued + 1, !.via = via]
    <3>1. issued' = issued + 1 /\ codeReq' = [codeReq EXCEPT ![r] = new] /\ issued + 1 \in Code
      BY <2>2, <2>a DEF Issue, Code
    <3>2. new.stage = "find" /\ new.code = issued + 1
      BY DEF CodeIdle
    <3> HIDE DEF new
    <3>3. RowIsDrawn' /\ AcceptedWasDrawn' /\ JudgedOpen'
      BY <2>2, <2>a, <2>b, <3>1, <3>2, RequestFields, RowFields
      DEF Issue, RowIsDrawn, AcceptedWasDrawn, JudgedOpen, Code
    <3>4. PendingIsNew'
      <4>1. accepted[issued + 1] = 0 /\ codeRow.code # issued + 1
        BY <2>a, <3>1, RowFields DEF AcceptedWasDrawn, RowIsDrawn
      <4>2. \A q \in ReleaseRequest :
              codeReq[q].stage \in Pending \cup {"mark"} => codeReq[q].code # issued + 1
        BY <2>a, <2>b, RequestFields DEF Drawn, IssueStage, Pending, JudgedOpen
      <4>3. QED
        BY <2>2, <3>1, <3>2, <4>1, <4>2 DEF Issue, PendingIsNew, Pending
    <3>5. QED
      BY <3>3, <3>4
  <2>3. ASSUME NEW r \in ReleaseRequest, NEW c \in 0..MaxCodes, Release(r, c)
        PROVE  RowIsDrawn' /\ PendingIsNew' /\ AcceptedWasDrawn' /\ JudgedOpen'
    <3> DEFINE new == [CodeIdle EXCEPT !.stage = "verify", !.code = c]
    <3>1. codeReq' = [codeReq EXCEPT ![r] = new] /\ new.stage = "verify"
      BY <2>3 DEF Release, CodeIdle
    <3> HIDE DEF new
    <3>2. QED
      BY <2>3, <3>1
      DEF Release, RowIsDrawn, PendingIsNew, AcceptedWasDrawn, JudgedOpen, Pending
  <2>4. ASSUME NEW r \in ReleaseRequest, FindRow(r)
        PROVE  RowIsDrawn' /\ PendingIsNew' /\ AcceptedWasDrawn' /\ JudgedOpen'
    <3>1. CASE CodeGoto(r, "replace") /\ codeRow # NoRow
      BY <2>4, <3>1, CodeGotoEffect
      DEF FindRow, CodeStage, RowIsDrawn, PendingIsNew, AcceptedWasDrawn, JudgedOpen, Pending
    <3>2. CASE CodeGoto(r, "create")
      BY <2>4, <3>2, CodeGotoEffect
      DEF FindRow, CodeStage, RowIsDrawn, PendingIsNew, AcceptedWasDrawn, JudgedOpen, Pending
    <3>3. QED
      BY <2>4, <3>1, <3>2 DEF FindRow
  <2>5. ASSUME NEW r \in ReleaseRequest, codeReq[r].stage \in {"replace", "create"},
               codeRow' = NewRow(codeReq[r].code), CodeGoto(r, "notify"),
               UNCHANGED <<issued, accepted>>
        PROVE  RowIsDrawn' /\ PendingIsNew' /\ AcceptedWasDrawn' /\ JudgedOpen'
    <3>1. codeRow'.code = codeReq[r].code /\ codeReq[r].code \in 1..issued
      BY <2>5 DEF NewRow, NoRow, Drawn, IssueStage
    <3>2. QED
      BY <2>5, <2>a, <3>1, CodeGotoEffect
      DEF CodeStage, RowIsDrawn, PendingIsNew, AcceptedWasDrawn, JudgedOpen, Pending
  <2>6. ASSUME NEW r \in ReleaseRequest, CodeRespond(r), codeRow'.code = codeRow.code,
               codeRow = NoRow => codeRow' = NoRow, UNCHANGED <<issued, accepted>>
        PROVE  RowIsDrawn' /\ PendingIsNew' /\ AcceptedWasDrawn' /\ JudgedOpen'
    BY <2>6, RespondEffect
    DEF RowIsDrawn, PendingIsNew, AcceptedWasDrawn, JudgedOpen, Pending
  <2>7. ASSUME NEW r \in ReleaseRequest, Notify(r)
        PROVE  RowIsDrawn' /\ PendingIsNew' /\ AcceptedWasDrawn' /\ JudgedOpen'
    <3>1. CASE CodeGoto(r, "sent")
      BY <2>7, <3>1, CodeGotoEffect
      DEF Notify, CodeStage, RowIsDrawn, PendingIsNew, AcceptedWasDrawn, JudgedOpen, Pending
    <3>2. QED
      BY <2>7, <2>6, <3>1 DEF Notify
  <2>8. ASSUME NEW r \in ReleaseRequest, MarkSent(r)
        PROVE  RowIsDrawn' /\ PendingIsNew' /\ AcceptedWasDrawn' /\ JudgedOpen'
    <3>1. codeRow # NoRow /\ codeRow'.code = codeRow.code
      BY <2>8 DEF MarkSent, RowIsDrawn, Row, NoRow
    <3>2. QED
      BY <2>8, <2>6, <3>1 DEF MarkSent
  <2>9. ASSUME NEW r \in ReleaseRequest, ReadCode(r)
        PROVE  RowIsDrawn' /\ PendingIsNew' /\ AcceptedWasDrawn' /\ JudgedOpen'
    <3>1. CASE CodeRespond(r)
      BY <2>9, <2>6, <3>1 DEF ReadCode
    <3>2. CASE ~CodeRespond(r)
      <4> DEFINE stage == IF codeReq[r].code = codeRow.code THEN "mark" ELSE "count"
                 judged == [codeReq[r] EXCEPT !.stage = stage, !.seen = Judged(codeRow)]
      <4>1. codeReq' = [codeReq EXCEPT ![r] = judged] /\ ~Refused(codeRow)
        BY <2>9, <3>2 DEF ReadCode
      <4>2. /\ judged.code = codeReq[r].code /\ judged.seen = Judged(codeRow)
            /\ judged.stage \in {"mark", "count"}
            /\ judged.stage = "mark" => codeReq[r].code = codeRow.code
        BY <2>b DEF CodeRequest
      <4>3. /\ judged.seen.code = codeRow.code
            /\ judged.seen.used = codeRow.used /\ judged.seen.locked = codeRow.locked
        BY <4>2 DEF Judged, Row
      <4>4. ~codeRow.used /\ ~codeRow.locked /\ codeRow.code \in 1..issued
        BY <2>a, <4>1, RowFields DEF Refused, RowIsDrawn
      <4> HIDE DEF judged
      <4>5. RowIsDrawn' /\ AcceptedWasDrawn'
        BY <2>9, <4>1, <4>2, <4>4, <2>a DEF ReadCode, RowIsDrawn, AcceptedWasDrawn
      <4>6. PendingIsNew'
        BY <2>9, <4>1, <4>2 DEF ReadCode, PendingIsNew, Pending
      <4>7. JudgedOpen'
        BY <2>9, <4>1, <4>2, <4>3, <4>4 DEF ReadCode, JudgedOpen
      <4>8. QED
        BY <4>5, <4>6, <4>7
    <3>3. QED
      BY <3>1, <3>2
  <2>10. ASSUME NEW r \in ReleaseRequest, MarkUsed(r)
         PROVE  RowIsDrawn' /\ PendingIsNew' /\ AcceptedWasDrawn' /\ JudgedOpen'
    <3>1. codeReq[r].code \in 1..issued /\ codeReq[r].code \in Code
      BY <2>10, <2>a, <2>b, RequestFields DEF MarkUsed, JudgedOpen, Code
    <3>2. codeRow'.code = codeRow.code /\ codeRow.code # 0
      BY <2>10 DEF MarkUsed, RowIsDrawn, Row
    <3>3. RowIsDrawn' /\ JudgedOpen'
      BY <2>10, <3>2, CodeGotoEffect DEF MarkUsed, CodeStage, RowIsDrawn, JudgedOpen
    <3>4. AcceptedWasDrawn'
      BY <2>10, <2>a, <3>1 DEF MarkUsed, AcceptedWasDrawn, Code
    <3>5. PendingIsNew'
      <4>1. \A q \in ReleaseRequest :
              codeReq[q].stage \in Pending => codeReq[q].code # codeReq[r].code /\ q # r
        BY <2>10 DEF MarkUsed, PendingIsNew, Pending
      <4>2. \A c \in Code : c # codeReq[r].code => accepted'[c] = accepted[c]
        BY <2>10 DEF MarkUsed
      <4>3. \A q \in ReleaseRequest : codeReq[q].stage \in Pending => codeReq[q].code \in Code
        BY <2>a, <2>b, RequestFields DEF Drawn, IssueStage, Pending, Code
      <4>4. QED
        BY <2>10, <3>2, <4>1, <4>2, <4>3, CodeGotoEffect
        DEF MarkUsed, CodeStage, PendingIsNew, Pending
    <3>6. QED
      BY <3>3, <3>4, <3>5
  <2>11. ASSUME NEW r \in ReleaseRequest, CountWrong(r)
         PROVE  RowIsDrawn' /\ PendingIsNew' /\ AcceptedWasDrawn' /\ JudgedOpen'
    <3> DEFINE n == codeReq[r].seen.attempts + 1
               b == codeRow.locked \/ n >= MAX_ATTEMPTS
    <3>a. codeRow' = [codeRow EXCEPT !.attempts = n, !.locked = b] \/ codeRow' = codeRow
      BY <2>11 DEF CountWrong
    <3>b. codeRow # NoRow
      BY <2>11 DEF CountWrong, RowIsDrawn, NoRow
    <3> HIDE DEF n, b
    <3>1. codeRow'.code = codeRow.code /\ codeRow # NoRow
      BY <3>a, <3>b DEF Row
    <3>2. QED
      BY <2>11, <2>6, <3>1 DEF CountWrong
  <2>12. ASSUME LockEnds
         PROVE  RowIsDrawn' /\ PendingIsNew' /\ AcceptedWasDrawn' /\ JudgedOpen'
    <3>1. codeRow'.code = codeRow.code /\ codeRow # NoRow
      BY <2>12 DEF LockEnds, Row, NoRow
    <3>2. QED
      BY <2>12, <3>1 DEF LockEnds, RowIsDrawn, PendingIsNew, AcceptedWasDrawn, JudgedOpen
  <2>13. ASSUME NEW to \in ReleaseTarget, CheckMove(to) \/ MoveOrder(to)
         PROVE  RowIsDrawn' /\ PendingIsNew' /\ AcceptedWasDrawn' /\ JudgedOpen'
    BY <2>13 DEF CheckMove, MoveOrder, RowIsDrawn, PendingIsNew, AcceptedWasDrawn, JudgedOpen
  <2>14. ASSUME NEW r \in ReleaseRequest,
                ReplaceRow(r) \/ CreateRow(r) \/ CheckClose(r) \/ CloseOrder(r) \/ CodeDie(r)
         PROVE  RowIsDrawn' /\ PendingIsNew' /\ AcceptedWasDrawn' /\ JudgedOpen'
    <3>1. CASE CheckClose(r) /\ CodeGoto(r, "closing")
      BY <3>1, CodeGotoEffect
      DEF CheckClose, CodeStage, RowIsDrawn, PendingIsNew, AcceptedWasDrawn, JudgedOpen, Pending
    <3>2. QED
      BY <2>14, <2>5, <2>6, <3>1 DEF ReplaceRow, CreateRow, CheckClose, CloseOrder, CodeDie
  <2>15. QED
    BY <2>1, <2>2, <2>3, <2>4, <2>7, <2>8, <2>9, <2>10, <2>11, <2>12, <2>13, <2>14
    DEF ReleaseNext
<1>3. QED
  <2>1. ReleaseSpec => []TypedAndDrawn
    BY TypedAndDrawnAlways
  <2>2. QED
    BY <1>1, <1>2, <2>1, PTL DEF ReleaseSpec

-----------------------------------------------------------------------------
(* What a verification writes.                                             *)

\* No write was computed from a row that had changed, and none was lost.
Clean == trouble \cap {"stale", "lost"} = {}

\* A write that does not blame itself finds the row as it was judged.
LEMMA BlamelessWrite ==
  ASSUME NEW r \in ReleaseRequest, codeRow \in Row, Blame(r), "stale" \notin trouble'
  PROVE  /\ trouble' = trouble
         /\ codeRow.code = codeReq[r].seen.code /\ codeRow.attempts = codeReq[r].seen.attempts
         /\ codeRow.locked = codeReq[r].seen.locked /\ codeRow.used = codeReq[r].seen.used
<1>1. trouble' = trouble /\ codeReq[r].seen = Judged(codeRow)
  BY DEF Blame
<1>2. QED
  BY <1>1 DEF Judged, Row

\* A mark of use that is neither lost nor blamed is put on the accepted code.
LEMMA MarkUsedRow ==
  ASSUME CodesInv, NEW r \in ReleaseRequest, MarkUsed(r)
  PROVE  /\ codeReq[r].code \in Code
         /\ codeRow'.code = codeRow.code /\ codeRow'.sentVia = codeRow.sentVia
         /\ "stale" \notin trouble' =>
              \/ UNCHANGED codeRow
              \/ codeRow'.used /\ codeRow.code = codeReq[r].code
         /\ "stale" \notin trouble' => "stale" \notin trouble
         /\ Clean' => /\ Clean /\ codeRow.code = codeReq[r].code
                      /\ ~codeRow.used /\ ~codeRow.locked /\ codeRow'.used
<1> USE DEF CodesInv, TypedAndDrawn, ReleaseTypeOK
<1>1. /\ codeReq[r].code = codeReq[r].seen.code /\ codeReq[r].code \in 1..issued
      /\ ~codeReq[r].seen.used /\ ~codeReq[r].seen.locked
  BY DEF MarkUsed, JudgedOpen
<1>2. codeReq[r].code \in Code
  BY <1>1, ReleaseAssumption DEF Code
<1>3. CASE codeRow' = [codeRow EXCEPT !.used = TRUE, !.attempts = 0, !.locked = FALSE] /\ Blame(r)
  <2>1. /\ codeRow'.code = codeRow.code /\ codeRow'.sentVia = codeRow.sentVia
        /\ codeRow'.used
    BY <1>3 DEF Row
  <2>2. "stale" \notin trouble' => codeRow.code = codeReq[r].code /\ ~codeRow.used /\ ~codeRow.locked
                                   /\ trouble' = trouble
    BY <1>1, <1>3, BlamelessWrite
  <2>3. QED
    BY <1>2, <2>1, <2>2 DEF Clean
<1>4. CASE trouble' = trouble \cup {"lost"} /\ UNCHANGED codeRow
  BY <1>2, <1>4 DEF Clean
<1>5. QED
  BY <1>3, <1>4 DEF MarkUsed

\* A wrong try that is neither lost nor blamed is counted.
LEMMA CountWrongRow ==
  ASSUME CodesInv, NEW r \in ReleaseRequest, CountWrong(r)
  PROVE  /\ codeRow'.code = codeRow.code /\ codeRow'.used = codeRow.used
         /\ codeRow'.sentVia = codeRow.sentVia
         /\ "stale" \notin trouble' => "stale" \notin trouble
         /\ Clean' => /\ Clean /\ ~codeRow.used /\ ~codeRow.locked
                      /\ codeRow'.attempts = codeRow.attempts + 1
                      /\ codeRow.attempts + 1 >= MAX_ATTEMPTS => codeRow'.locked
<1> USE DEF CodesInv, TypedAndDrawn, ReleaseTypeOK
<1>1. ~codeReq[r].seen.used /\ ~codeReq[r].seen.locked
  BY DEF CountWrong, JudgedOpen
<1> DEFINE n == codeReq[r].seen.attempts + 1
           b == codeRow.locked \/ n >= MAX_ATTEMPTS
<1>2. CASE codeRow' = [codeRow EXCEPT !.attempts = n, !.locked = b] /\ Blame(r)
  <2>1. n >= MAX_ATTEMPTS => b
    OBVIOUS
  <2>2. "stale" \notin trouble' => /\ ~codeRow.used /\ ~codeRow.locked
                                   /\ trouble' = trouble /\ n = codeRow.attempts + 1
    BY <1>1, <1>2, BlamelessWrite
  <2> HIDE DEF n, b
  <2>3. /\ codeRow'.code = codeRow.code /\ codeRow'.used = codeRow.used
        /\ codeRow'.sentVia = codeRow.sentVia /\ codeRow'.attempts = n /\ codeRow'.locked = b
    BY <1>2 DEF Row
  <2>4. QED
    BY <2>1, <2>2, <2>3 DEF Clean
<1>3. CASE trouble' = trouble \cup {"lost"} /\ UNCHANGED codeRow
  BY <1>3 DEF Clean
<1>4. QED
  BY <1>2, <1>3 DEF CountWrong

-----------------------------------------------------------------------------
(* One opening per code, and use only by an acceptance.                    *)

\* A code that was accepted is marked as used for as long as the row holds it.
OpensOnce ==
  Clean => \A c \in Code :
    /\ accepted[c] <= 1
    /\ accepted[c] > 0 /\ codeRow.code = c => codeRow.used

OpensInv == OpensOnce /\ UsedCodeWasAccepted

LEMMA OpensInvAlways == ReleaseSpec => []OpensInv
<1>1. ReleaseInit => OpensInv
  BY DEF ReleaseInit, OpensInv, OpensOnce, UsedCodeWasAccepted, NoRow, Code
<1>2. OpensInv /\ CodesInv /\ [ReleaseNext]_codeVars => OpensInv'
  <2> SUFFICES ASSUME OpensInv, CodesInv, [ReleaseNext]_codeVars PROVE OpensInv'
    OBVIOUS
  <2>a. /\ codeRow \in Row /\ accepted \in [Code -> Nat]
        /\ \A r \in ReleaseRequest : codeReq[r] \in CodeRequest
    BY DEF CodesInv, TypedAndDrawn, ReleaseTypeOK
  <2>1. ASSUME codeRow'.code = codeRow.code, codeRow'.used = codeRow.used,
               Clean' => Clean, "stale" \notin trouble' => "stale" \notin trouble,
               UNCHANGED accepted
        PROVE  OpensInv'
    BY <2>1 DEF OpensInv, OpensOnce, UsedCodeWasAccepted
  <2>2. ASSUME NEW r \in ReleaseRequest, codeReq[r].stage \in Pending,
               codeRow' = NewRow(codeReq[r].code), UNCHANGED <<accepted, trouble>>
        PROVE  OpensInv'
    <3>1. codeRow'.code = codeReq[r].code /\ ~codeRow'.used /\ accepted[codeReq[r].code] = 0
      BY <2>2 DEF NewRow, NoRow, CodesInv, PendingIsNew
    <3>2. QED
      BY <2>2, <3>1 DEF OpensInv, OpensOnce, UsedCodeWasAccepted, Clean
  <2>3. ASSUME NEW r \in ReleaseRequest, MarkUsed(r) PROVE OpensInv'
    <3> DEFINE k == codeReq[r].code
    <3>1. /\ k \in Code /\ accepted'[k] = accepted[k] + 1 /\ accepted[k] \in Nat
          /\ \A c \in Code \ {k} : accepted'[c] = accepted[c]
      BY <2>3, <2>a, MarkUsedRow DEF MarkUsed
    <3>2. OpensOnce'
      BY <2>3, <3>1, MarkUsedRow DEF OpensInv, OpensOnce
    <3>3. UsedCodeWasAccepted'
      <4>1. CASE UNCHANGED codeRow
        <5>1. codeRow.used /\ "stale" \notin trouble' => accepted[codeRow.code] > 0
          BY <2>3, <4>1, MarkUsedRow DEF OpensInv, UsedCodeWasAccepted
        <5>2. codeRow.code \in Code => accepted'[codeRow.code] >= accepted[codeRow.code]
          BY <2>a, <3>1
        <5>3. codeRow.code \in Code
          BY <2>3, <2>a, RowFields, ReleaseAssumption DEF MarkUsed, CodesInv, RowIsDrawn, Code
        <5>4. QED
          BY <2>a, <4>1, <5>1, <5>2, <5>3, <3>1 DEF UsedCodeWasAccepted
      <4>2. CASE codeRow.code = k
        BY <2>3, <3>1, <4>2, MarkUsedRow DEF UsedCodeWasAccepted
      <4>3. QED
        BY <2>3, <4>1, <4>2, MarkUsedRow DEF UsedCodeWasAccepted
    <3>4. QED
      BY <3>2, <3>3 DEF OpensInv
  <2>4. ASSUME NEW r \in ReleaseRequest, CountWrong(r) PROVE OpensInv'
    BY <2>4, <2>1, CountWrongRow DEF CountWrong
  <2>5. ASSUME NEW r \in ReleaseRequest, MarkSent(r) PROVE OpensInv'
    <3>1. codeRow'.code = codeRow.code /\ codeRow'.used = codeRow.used
      BY <2>5, <2>a DEF MarkSent, Row
    <3>2. QED
      BY <2>5, <2>1, <3>1 DEF MarkSent, Clean
  <2>6. ASSUME LockEnds PROVE OpensInv'
    <3>1. codeRow'.code = codeRow.code /\ codeRow'.used = codeRow.used
      BY <2>6, <2>a DEF LockEnds, Row
    <3>2. QED
      BY <2>6, <2>1, <3>1 DEF LockEnds, Clean
  <2>7. ASSUME NEW r \in ReleaseRequest, ReplaceRow(r) \/ CreateRow(r) PROVE OpensInv'
    BY <2>7, <2>1, <2>2 DEF ReplaceRow, CreateRow, Pending, Clean
  <2>8. ASSUME NEW r \in ReleaseRequest,
               \/ \E via \in {"mail", "paper"} : Issue(r, via)
               \/ \E c \in 0..MaxCodes : Release(r, c)
               \/ FindRow(r) \/ Notify(r) \/ ReadCode(r) \/ CheckClose(r) \/ CloseOrder(r) \/ CodeDie(r)
        PROVE  OpensInv'
    BY <2>8, <2>1 DEF Issue, Release, FindRow, Notify, ReadCode, CheckClose, CloseOrder, CodeDie, Clean
  <2>9. ASSUME NEW to \in ReleaseTarget, CheckMove(to) \/ MoveOrder(to) PROVE OpensInv'
    BY <2>9, <2>1 DEF CheckMove, MoveOrder, Clean
  <2>10. CASE UNCHANGED codeVars
    BY <2>10, <2>1 DEF codeVars, Clean
  <2>11. QED
    BY <2>3, <2>4, <2>5, <2>6, <2>7, <2>8, <2>9, <2>10 DEF ReleaseNext
<1>3. QED
  <2>1. ReleaseSpec => []CodesInv
    BY CodesInvAlways
  <2>2. QED
    BY <1>1, <1>2, <2>1, PTL DEF ReleaseSpec

\* "Kod jednorazowy": no code lets two verifications through, unless a write
\* was computed from a row that had changed or the mark of its use was lost.
THEOREM OneCodeOpensOnce == ReleaseSpec => []CodeOpensOnce
<1>1. OpensInv /\ ReleaseTypeOK => CodeOpensOnce
  BY DEF OpensInv, OpensOnce, Clean, CodeOpensOnce, ReleaseTypeOK
<1>2. QED
  BY <1>1, OpensInvAlways, ReleaseTypeCorrect, PTL

\* A freshly issued code is not dead on arrival, unless a verification of the
\* previous one wrote over it.
THEOREM UseIsAcceptance == ReleaseSpec => []UsedCodeWasAccepted
<1>1. OpensInv => UsedCodeWasAccepted
  BY DEF OpensInv
<1>2. QED
  BY <1>1, OpensInvAlways, PTL

-----------------------------------------------------------------------------
(* The lock.                                                               *)

\* The wrong tries never outnumber the attempts on record, and a record that is
\* full is locked; a used code has forgotten its attempts and is never judged.
CountedInv ==
  Clean =>
    /\ tries <= MAX_ATTEMPTS
    /\ ~codeRow.used =>
         /\ tries <= codeRow.attempts
         /\ tries > 0 /\ codeRow.attempts >= MAX_ATTEMPTS => codeRow.locked
    /\ codeRow.used => tries < MAX_ATTEMPTS

\* No more than MAX_ATTEMPTS wrong tries between two ends of a lock, and the
\* last finds the code locked, unless an attempt was lost or written over.
THEOREM WrongTriesAreLocked == ReleaseSpec => []WrongTriesLock
<1> USE ReleaseAssumption
<1>1. ReleaseInit => CountedInv
  BY DEF ReleaseInit, CountedInv, NoRow
<1>2. CountedInv /\ CodesInv /\ [ReleaseNext]_codeVars => CountedInv'
  <2> SUFFICES ASSUME CountedInv, CodesInv, [ReleaseNext]_codeVars PROVE CountedInv'
    OBVIOUS
  <2>a. codeRow \in Row /\ tries \in Nat
    BY DEF CodesInv, TypedAndDrawn, ReleaseTypeOK
  <2>1. ASSUME UNCHANGED <<tries, trouble>>, codeRow'.used = codeRow.used,
               codeRow'.attempts = codeRow.attempts, codeRow'.locked = codeRow.locked
        PROVE  CountedInv'
    BY <2>1 DEF CountedInv, Clean
  <2>2. ASSUME NEW r \in ReleaseRequest, ReplaceRow(r) \/ CreateRow(r) PROVE CountedInv'
    <3>1. CASE codeRow' = NewRow(codeReq[r].code) /\ tries' = 0
      BY <3>1 DEF NewRow, NoRow, CountedInv
    <3>2. QED
      BY <2>1, <2>2, <3>1 DEF ReplaceRow, CreateRow
  <2>3. ASSUME NEW r \in ReleaseRequest, MarkUsed(r) PROVE CountedInv'
    <3>1. tries' = tries
      BY <2>3 DEF MarkUsed
    <3>2. QED
      BY <2>3, <2>a, <3>1, RowFields, MarkUsedRow DEF CountedInv
  <2>4. ASSUME NEW r \in ReleaseRequest, CountWrong(r) PROVE CountedInv'
    <3>1. tries' = tries + 1
      BY <2>4 DEF CountWrong
    <3>2. codeRow.attempts \in Nat /\ MAX_ATTEMPTS \in Nat \ {0}
      BY <2>a, RowFields
    <3>3. Clean' => /\ Clean /\ ~codeRow.used /\ ~codeRow.locked /\ codeRow'.used = codeRow.used
                    /\ codeRow'.attempts = codeRow.attempts + 1
                    /\ codeRow.attempts + 1 >= MAX_ATTEMPTS => codeRow'.locked
      BY <2>4, CountWrongRow
    <3>4. QED
      BY <2>a, <3>1, <3>2, <3>3 DEF CountedInv
  <2>5. ASSUME NEW r \in ReleaseRequest, MarkSent(r) PROVE CountedInv'
    <3>1. /\ codeRow'.used = codeRow.used /\ codeRow'.attempts = codeRow.attempts
          /\ codeRow'.locked = codeRow.locked
      BY <2>5, <2>a DEF MarkSent, Row
    <3>2. tries' = tries /\ (Clean' => Clean)
      BY <2>5 DEF MarkSent, Clean
    <3>3. QED
      BY <3>1, <3>2 DEF CountedInv
  <2>6. ASSUME LockEnds PROVE CountedInv'
    <3>1. codeRow'.attempts = codeRow.attempts /\ tries' = 0
      BY <2>6, <2>a DEF LockEnds, Row
    <3>2. QED
      BY <2>a, <3>1, RowFields DEF CountedInv
  <2>7. ASSUME NEW r \in ReleaseRequest, CheckClose(r) \/ CloseOrder(r) \/ CodeDie(r)
        PROVE  CountedInv'
    <3>1. UNCHANGED <<codeRow, tries>> /\ (Clean' => Clean)
      BY <2>7 DEF CheckClose, CloseOrder, CodeDie, Clean
    <3>2. QED
      BY <3>1 DEF CountedInv
  <2>8. ASSUME NEW r \in ReleaseRequest,
               \/ \E via \in {"mail", "paper"} : Issue(r, via)
               \/ \E c \in 0..MaxCodes : Release(r, c)
               \/ FindRow(r) \/ Notify(r) \/ ReadCode(r)
        PROVE  CountedInv'
    BY <2>8, <2>1 DEF Issue, Release, FindRow, Notify, ReadCode
  <2>9. ASSUME NEW to \in ReleaseTarget, CheckMove(to) \/ MoveOrder(to) PROVE CountedInv'
    <3>1. UNCHANGED <<codeRow, tries>> /\ (Clean' => Clean)
      BY <2>9 DEF CheckMove, MoveOrder, Clean
    <3>2. QED
      BY <3>1 DEF CountedInv
  <2>10. CASE UNCHANGED codeVars
    BY <2>10, <2>1 DEF codeVars
  <2>11. QED
    BY <2>2, <2>3, <2>4, <2>5, <2>6, <2>7, <2>8, <2>9, <2>10 DEF ReleaseNext
<1>3. CountedInv /\ ReleaseTypeOK => WrongTriesLock
  BY RowFields DEF CountedInv, Clean, WrongTriesLock, ReleaseTypeOK
<1>4. QED
  <2>1. ReleaseSpec => []CodesInv
    BY CodesInvAlways
  <2>2. QED
    BY <1>1, <1>2, <1>3, <2>1, ReleaseTypeCorrect, PTL DEF ReleaseSpec

-----------------------------------------------------------------------------
(* The record of the mailing.                                              *)

\* Only the sender of a message records it, and only after sending it.
MailedInv ==
  /\ SentCodeWasMailed
  /\ \A r \in ReleaseRequest :
       codeReq[r].stage = "sent" /\ codeReq[r].via = "mail" => codeReq[r].code \in inbox

\* What the panel shows as mailed is the code the row holds, unless another code
\* was issued before the mailing was recorded.
THEOREM MailedIsSent == ReleaseSpec => []SentCodeWasMailed
<1>1. ReleaseInit => MailedInv
  BY DEF ReleaseInit, MailedInv, SentCodeWasMailed, NoRow, CodeIdle
<1>2. MailedInv /\ CodesInv /\ [ReleaseNext]_codeVars => MailedInv'
  <2> SUFFICES ASSUME MailedInv, CodesInv, [ReleaseNext]_codeVars PROVE MailedInv'
    OBVIOUS
  <2>a. codeRow \in Row /\ codeReq \in [ReleaseRequest -> CodeRequest]
    BY DEF CodesInv, TypedAndDrawn, ReleaseTypeOK
  <2> DEFINE SentIsMailed ==
        \A r \in ReleaseRequest :
          codeReq[r].stage = "sent" /\ codeReq[r].via = "mail" => codeReq[r].code \in inbox
  <2>1. ASSUME codeRow'.code = codeRow.code, codeRow'.sentVia = codeRow.sentVia,
               inbox \subseteq inbox', "stale" \notin trouble' => "stale" \notin trouble
        PROVE  SentCodeWasMailed'
    BY <2>1 DEF MailedInv, SentCodeWasMailed
  <2>2. ASSUME NEW r \in ReleaseRequest, NEW stage \in CodeStage \ {"sent"},
               CodeGoto(r, stage) \/ CodeRespond(r), UNCHANGED inbox
        PROVE  SentIsMailed'
    BY <2>2, <2>a, CodeGotoEffect, RespondEffect DEF MailedInv
  <2>3. ASSUME NEW r \in ReleaseRequest, NEW q, q.stage # "sent",
               codeReq' = [codeReq EXCEPT ![r] = q], UNCHANGED inbox
        PROVE  SentIsMailed'
    BY <2>3, <2>a DEF MailedInv
  <2>4. ASSUME NEW r \in ReleaseRequest, NEW via \in {"mail", "paper"}, Issue(r, via)
        PROVE  MailedInv'
    <3> DEFINE q == [CodeIdle EXCEPT !.stage = "find", !.code = issued + 1, !.via = via]
    <3>1. q.stage # "sent"
      BY DEF CodeIdle
    <3> HIDE DEF q
    <3>2. codeReq' = [codeReq EXCEPT ![r] = q]
      BY <2>4 DEF Issue, q
    <3>3. QED
      BY <2>1, <2>3, <2>4, <3>1, <3>2 DEF Issue, MailedInv
  <2>5. ASSUME NEW r \in ReleaseRequest, NEW c \in 0..MaxCodes, Release(r, c) PROVE MailedInv'
    <3> DEFINE q == [CodeIdle EXCEPT !.stage = "verify", !.code = c]
    <3>1. q.stage # "sent"
      BY DEF CodeIdle
    <3> HIDE DEF q
    <3>2. codeReq' = [codeReq EXCEPT ![r] = q]
      BY <2>5 DEF Release, q
    <3>3. QED
      BY <2>1, <2>3, <2>5, <3>1, <3>2 DEF Release, MailedInv
  <2>6. ASSUME NEW r \in ReleaseRequest, ReplaceRow(r) \/ CreateRow(r) PROVE MailedInv'
    <3>1. SentCodeWasMailed'
      <4>1. CASE codeRow' = NewRow(codeReq[r].code)
        BY <4>1 DEF NewRow, NoRow, SentCodeWasMailed
      <4>2. QED
        BY <2>1, <2>6, <4>1 DEF ReplaceRow, CreateRow
    <3>2. SentIsMailed'
      BY <2>2, <2>6 DEF ReplaceRow, CreateRow, CodeStage
    <3>3. QED
      BY <3>1, <3>2 DEF MailedInv
  <2>7. ASSUME NEW r \in ReleaseRequest, Notify(r) PROVE MailedInv'
    <3>1. SentCodeWasMailed'
      BY <2>1, <2>7 DEF Notify
    <3>2. CASE /\ CodeGoto(r, "sent")
               /\ inbox' = IF codeReq[r].via = "mail" THEN inbox \cup {codeReq[r].code} ELSE inbox
      BY <2>a, <3>1, <3>2, CodeGotoEffect DEF CodeStage, MailedInv
    <3>3. CASE CodeRespond(r) /\ UNCHANGED inbox
      BY <2>2, <3>1, <3>3 DEF CodeStage, MailedInv
    <3>4. QED
      BY <2>7, <3>2, <3>3 DEF Notify
  <2>8. ASSUME NEW r \in ReleaseRequest, MarkSent(r) PROVE MailedInv'
    <3>1. codeRow'.code = codeRow.code /\ codeRow'.sentVia = codeReq[r].via
      BY <2>8, <2>a DEF MarkSent, Row
    <3>a. codeReq[r].stage = "sent" /\ inbox' = inbox
          /\ ("stale" \notin trouble' => codeRow.code = codeReq[r].code)
      BY <2>8 DEF MarkSent
    <3>2. SentCodeWasMailed'
      BY <3>1, <3>a DEF MailedInv, SentCodeWasMailed
    <3>3. QED
      BY <2>2, <2>8, <3>2 DEF MarkSent, CodeStage, MailedInv
  <2>9. ASSUME NEW r \in ReleaseRequest, ReadCode(r) PROVE MailedInv'
    <3>1. SentCodeWasMailed'
      BY <2>1, <2>9 DEF ReadCode
    <3>2. SentIsMailed'
      <4> DEFINE stage == IF codeReq[r].code = codeRow.code THEN "mark" ELSE "count"
                 q == [codeReq[r] EXCEPT !.stage = stage, !.seen = Judged(codeRow)]
      <4>1. q.stage # "sent"
        BY <2>a DEF CodeRequest
      <4>2. CodeRespond(r) \/ codeReq' = [codeReq EXCEPT ![r] = q]
        BY <2>9 DEF ReadCode
      <4> HIDE DEF q
      <4>3. QED
        BY <2>2, <2>3, <2>9, <4>1, <4>2 DEF ReadCode, CodeStage
    <3>3. QED
      BY <3>1, <3>2 DEF MailedInv
  <2>10. ASSUME NEW r \in ReleaseRequest, MarkUsed(r) PROVE MailedInv'
    BY <2>1, <2>2, <2>10, MarkUsedRow DEF MarkUsed, CodeStage, MailedInv
  <2>11. ASSUME NEW r \in ReleaseRequest, CountWrong(r) PROVE MailedInv'
    BY <2>1, <2>2, <2>11, CountWrongRow DEF CountWrong, CodeStage, MailedInv
  <2>12. ASSUME NEW r \in ReleaseRequest, FindRow(r) \/ CheckClose(r) \/ CloseOrder(r) \/ CodeDie(r)
         PROVE  MailedInv'
    <3>1. SentCodeWasMailed'
      BY <2>1, <2>12 DEF FindRow, CheckClose, CloseOrder, CodeDie
    <3>2. QED
      BY <2>2, <2>12, <3>1 DEF FindRow, CheckClose, CloseOrder, CodeDie, CodeStage, MailedInv
  <2>13. ASSUME LockEnds PROVE MailedInv'
    <3>1. codeRow'.code = codeRow.code /\ codeRow'.sentVia = codeRow.sentVia
      BY <2>13, <2>a DEF LockEnds, Row
    <3>2. QED
      BY <2>1, <2>13, <3>1 DEF LockEnds, MailedInv
  <2>14. ASSUME NEW to \in ReleaseTarget, CheckMove(to) \/ MoveOrder(to) PROVE MailedInv'
    BY <2>1, <2>14 DEF CheckMove, MoveOrder, MailedInv
  <2>15. CASE UNCHANGED codeVars
    BY <2>1, <2>15 DEF codeVars, MailedInv
  <2>16. QED
    BY <2>4, <2>5, <2>6, <2>7, <2>8, <2>9, <2>10, <2>11, <2>12, <2>13, <2>14, <2>15
    DEF ReleaseNext
<1>3. MailedInv => SentCodeWasMailed
  BY DEF MailedInv
<1>4. QED
  <2>1. ReleaseSpec => []CodesInv
    BY CodesInvAlways
  <2>2. QED
    BY <1>1, <1>2, <1>3, <2>1, PTL DEF ReleaseSpec

-----------------------------------------------------------------------------
(* The hand-over.                                                          *)

\* Whoever uses up a code is about to close the order, has closed it, or has
\* failed to; no arrow leads out of a closed order.
HandedOver ==
  codeRow.used /\ trouble \cap {"close", "overtaken"} = {} =>
    \/ device \in {"closed", "archived"}
    \/ \E r \in ReleaseRequest : codeReq[r].stage \in {"close", "closing"}

\* A code is used up for nothing, with the order waiting to be handed over and
\* nobody about to close it, only when closing it failed, the handler died before
\* it, or another request reopened it with a status that it had validated before.
THEOREM UseHandsOver == ReleaseSpec => []UsedUpOnlyByFailure
<1>1. ReleaseInit => HandedOver
  BY DEF ReleaseInit, HandedOver, NoRow
<1>2. HandedOver /\ CodesInv /\ [ReleaseNext]_codeVars => HandedOver'
  <2> SUFFICES ASSUME HandedOver, CodesInv, [ReleaseNext]_codeVars PROVE HandedOver'
    OBVIOUS
  <2>a. codeRow \in Row /\ codeReq \in [ReleaseRequest -> CodeRequest]
    BY DEF CodesInv, TypedAndDrawn, ReleaseTypeOK
  <2>1. ASSUME NEW r \in ReleaseRequest, codeReq[r].stage \notin {"close", "closing"},
               \A q \in ReleaseRequest \ {r} : codeReq'[q] = codeReq[q],
               codeRow'.used = codeRow.used, UNCHANGED device, trouble \subseteq trouble'
        PROVE  HandedOver'
    BY <2>1 DEF HandedOver
  <2>2. \A r \in ReleaseRequest, stage \in CodeStage :
          CodeGoto(r, stage) \/ CodeRespond(r) =>
            \A q \in ReleaseRequest \ {r} : codeReq'[q] = codeReq[q]
    BY <2>a DEF CodeGoto, CodeRespond
  <2>3. ASSUME NEW r \in ReleaseRequest,
               \/ \E via \in {"mail", "paper"} : Issue(r, via)
               \/ \E c \in 0..MaxCodes : Release(r, c)
        PROVE  HandedOver'
    <3>a. codeReq[r] = CodeIdle /\ UNCHANGED <<codeRow, device, trouble>>
      BY <2>3 DEF Issue, Release
    <3>1. codeReq[r].stage \notin {"close", "closing"} /\ UNCHANGED <<codeRow, device, trouble>>
      BY <3>a DEF CodeIdle
    <3>2. \A q \in ReleaseRequest \ {r} : codeReq'[q] = codeReq[q]
      BY <2>3, <2>a DEF Issue, Release
    <3>3. QED
      BY <2>1, <3>1, <3>2
  <2>4. ASSUME NEW r \in ReleaseRequest, ReplaceRow(r) \/ CreateRow(r) PROVE HandedOver'
    <3>1. CASE codeRow' = NewRow(codeReq[r].code)
      BY <3>1 DEF NewRow, NoRow, HandedOver
    <3>2. CASE CodeRespond(r) /\ UNCHANGED codeRow
      BY <2>1, <2>2, <2>4, <3>2 DEF ReplaceRow, CreateRow, CodeStage
    <3>3. QED
      BY <2>4, <3>1, <3>2 DEF ReplaceRow, CreateRow
  <2>5. ASSUME NEW r \in ReleaseRequest, FindRow(r) \/ Notify(r) PROVE HandedOver'
    BY <2>1, <2>2, <2>5 DEF FindRow, Notify, CodeStage
  <2>6. ASSUME NEW r \in ReleaseRequest, ReadCode(r) PROVE HandedOver'
    <3>1. \A q \in ReleaseRequest \ {r} : codeReq'[q] = codeReq[q]
      BY <2>2, <2>6, <2>a DEF ReadCode, CodeStage
    <3>2. QED
      BY <2>1, <2>6, <3>1 DEF ReadCode
  <2>7. ASSUME NEW r \in ReleaseRequest, MarkSent(r) PROVE HandedOver'
    <3>1. codeRow'.used = codeRow.used
      BY <2>7, <2>a DEF MarkSent, Row
    <3>2. QED
      BY <2>1, <2>2, <2>7, <3>1 DEF MarkSent, CodeStage
  <2>8. ASSUME NEW r \in ReleaseRequest, CountWrong(r) PROVE HandedOver'
    <3>1. trouble \subseteq trouble'
      BY <2>8 DEF CountWrong, Blame
    <3>2. QED
      BY <2>1, <2>2, <2>8, <3>1, CountWrongRow DEF CountWrong, CodeStage
  <2>9. ASSUME NEW r \in ReleaseRequest, MarkUsed(r) PROVE HandedOver'
    <3>1. codeReq'[r].stage = "close"
      BY <2>9, <2>a, CodeGotoEffect DEF MarkUsed, CodeStage
    <3>2. QED
      BY <3>1 DEF HandedOver
  <2>10. ASSUME NEW r \in ReleaseRequest, CheckClose(r) \/ CloseOrder(r) PROVE HandedOver'
    <3>1. CASE "close" \in trouble' \/ device' = "closed"
      BY <3>1 DEF HandedOver
    <3>2. CASE CheckClose(r) /\ CodeGoto(r, "closing")
      <4>1. codeReq'[r].stage = "closing"
        BY <2>a, <3>2, CodeGotoEffect DEF CodeStage
      <4>2. QED
        BY <4>1 DEF HandedOver
    <3>3. QED
      BY <2>10, <3>1, <3>2 DEF CheckClose, CloseOrder
  <2>11. ASSUME NEW r \in ReleaseRequest, CodeDie(r) PROVE HandedOver'
    <3>1. CASE codeReq[r].stage \in {"close", "closing"}
      BY <2>11, <3>1 DEF CodeDie, HandedOver
    <3>2. QED
      BY <2>1, <2>2, <2>11, <3>1 DEF CodeDie, CodeStage
  <2>12. ASSUME LockEnds PROVE HandedOver'
    <3>1. codeRow'.used = codeRow.used
      BY <2>12, <2>a DEF LockEnds, Row
    <3>2. QED
      BY <2>12, <3>1 DEF LockEnds, HandedOver
  <2>13. ASSUME NEW to \in ReleaseTarget, CheckMove(to) \/ MoveOrder(to) PROVE HandedOver'
    <3>1. CASE CheckMove(to) \/ "overtaken" \in trouble'
      BY <2>13, <3>1 DEF CheckMove, MoveOrder, HandedOver
    <3>2. CASE MoveOrder(to) /\ isAllowedTransition(device, to)
      <4>1. device \in {"closed", "archived"} => to = device
        BY <3>2 DEF isAllowedTransition, canTransition, STATUS_TRANSITIONS, Status
      <4>2. QED
        BY <3>2, <4>1 DEF MoveOrder, HandedOver
    <3>3. QED
      BY <2>13, <3>1, <3>2 DEF MoveOrder
  <2>14. CASE UNCHANGED codeVars
    BY <2>14 DEF codeVars, HandedOver
  <2>15. QED
    BY <2>3, <2>4, <2>5, <2>6, <2>7, <2>8, <2>9, <2>10, <2>11, <2>12, <2>13, <2>14
    DEF ReleaseNext
<1>3. HandedOver => UsedUpOnlyByFailure
  BY DEF HandedOver, UsedUpOnlyByFailure, RELEASABLE
<1>4. QED
  <2>1. ReleaseSpec => []CodesInv
    BY CodesInvAlways
  <2>2. QED
    BY <1>1, <1>2, <1>3, <2>1, PTL DEF ReleaseSpec
=============================================================================
