-------------------------- MODULE AnnexQuoteProofs --------------------------
(***************************************************************************)
(* Proofs about AnnexQuote, for any number of overlapping requests and     *)
(* annexes and any prices, whatever dies on the way.                       *)
(***************************************************************************)
EXTENDS AnnexQuote, FiniteSetTheorems, TLAPS

-----------------------------------------------------------------------------
(* Types.                                                                  *)

\* A handler that works on an annex has one.
Handler ==
  {q \in RequestState :
     q.stage \in {"autosign", "check", "status", "service"} => q.annex \in Annex}

TypeInv ==
  /\ amount \in Int
  /\ annex \in [Annex -> AnnexRow]
  /\ history \in Seq(Entry)
  /\ suggestion \in Change
  /\ req \in [Request -> Handler]

LEMMA IdleTypes == Idle \in Handler
BY DEF Idle, Handler, RequestState, Stage, Final

LEMMA BeginTypes ==
  ASSUME NEW r \in Request, NEW op, NEW stage \in Stage, NEW a \in Annex \cup {NoAnnex},
         NEW to \in Final, NEW old \in Int, NEW new \in Int,
         req \in [Request -> Handler], Begin(r, op, stage, a, to, old, new),
         stage \in {"autosign", "check", "status", "service"} => a \in Annex
  PROVE  req' \in [Request -> Handler]
<1> DEFINE q == [op |-> op, stage |-> stage, annex |-> a,
                 to |-> to, old |-> old, new |-> new, todo |-> {}]
<1>1. q \in Handler
  BY DEF Begin, Handler, RequestState
<1>2. req' = [req EXCEPT ![r] = q]
  BY DEF Begin
<1> QED
  BY <1>1, <1>2

LEMMA GotoTypes ==
  ASSUME NEW r \in Request, NEW stage \in Stage,
         req \in [Request -> Handler], Goto(r, stage),
         stage \in {"autosign", "check", "status", "service"} => req[r].annex \in Annex
  PROVE  req' \in [Request -> Handler]
<1>1. [req[r] EXCEPT !.stage = stage] \in Handler
  BY DEF Handler, RequestState
<1>2. req' = [req EXCEPT ![r] = [req[r] EXCEPT !.stage = stage]]
  BY DEF Goto
<1> QED
  BY <1>1, <1>2

LEMMA RespondTypes ==
  ASSUME NEW r \in Request, req \in [Request -> Handler], Respond(r)
  PROVE  req' \in [Request -> Handler]
BY IdleTypes DEF Respond

LEMMA ExpireNextTypes ==
  ASSUME NEW r \in Request, NEW todo \in SUBSET Annex,
         req \in [Request -> Handler], suggestion \in Change, ExpireNext(r, todo)
  PROVE  req' \in [Request -> Handler] /\ suggestion' \in Change
<1>1. CASE todo = {}
  <2>1. req' \in [Request -> Handler]
    BY <1>1, RespondTypes DEF ExpireNext
  <2>2. req[r].old \in Int /\ req[r].new \in Int
    BY DEF Handler, RequestState
  <2> QED
    BY <1>1, <2>1, <2>2 DEF ExpireNext, Change
<1>2. CASE todo # {}
  <2>1. PICK a \in todo : req' = [req EXCEPT ![r].stage = "check", ![r].annex = a,
                                             ![r].todo = todo \ {a}]
    BY <1>2 DEF ExpireNext
  <2> DEFINE q == [req[r] EXCEPT !.stage = "check", !.annex = a, !.todo = todo \ {a}]
  <2>2. q \in Handler
    BY DEF Handler, RequestState, Stage
  <2>3. req' = [req EXCEPT ![r] = q]
    BY <2>1
  <2> QED
    BY <1>2, <2>2, <2>3 DEF ExpireNext
<1> QED
  BY <1>1, <1>2

\* What the handlers and Documenso make of a row.
LEMMA DocTypes ==
  ASSUME annex \in [Annex -> AnnexRow], NEW a \in Annex,
         NEW d \in {"none", "open", "half", "completed", "declined"}
  PROVE  [annex EXCEPT ![a].doc = d] \in [Annex -> AnnexRow]
BY DEF AnnexRow

LEMMA StatusWriteTypes ==
  ASSUME annex \in [Annex -> AnnexRow], NEW a \in Annex, NEW s \in Final
  PROVE  [annex EXCEPT ![a].status = s] \in [Annex -> AnnexRow]
BY DEF AnnexRow, AnnexAcceptanceStatus

LEMMA NewRowTypes ==
  ASSUME NEW row \in AnnexRow, NEW delta \in Int, NEW quoted \in Int
  PROVE  [row EXCEPT !.status = "pending", !.delta = delta, !.quoted = quoted] \in AnnexRow
BY DEF AnnexRow, AnnexAcceptanceStatus

LEMMA NewPrice ==
  ASSUME annex \in [Annex -> AnnexRow], amount \in Int, NEW a \in Annex
  PROVE  amount + annex[a].delta \in Int
<1>1. annex[a].delta \in Int
  BY DEF AnnexRow
<1> QED
  BY <1>1

LEMMA StartTypes ==
  ASSUME TypeInv, NEW r \in Request, Start(r)
  PROVE  TypeInv'
<1> USE ConstantsAssumption DEF TypeInv
<1>1. /\ {"document", "row", "list", "check", "amount"} \subseteq Stage
      /\ NoAnnex \in Annex \cup {NoAnnex}
      /\ "accepted" \in Final /\ "rejected" \in Final /\ "expired" \in Final
      /\ 0 \in Int /\ \A n \in Amount : n \in Int
      /\ suggestion.old \in Int /\ suggestion.new \in Int
  BY DEF Stage, Final, Change
<1>2. ASSUME NEW n \in Amount, QuoteUpdate(r, n)
      PROVE  TypeInv'
  <2>1. Begin(r, "quote", "amount", NoAnnex, "expired", amount, n)
    BY <1>2 DEF QuoteUpdate
  <2>3. req' \in [Request -> Handler]
    BY <1>1, <2>1, BeginTypes
  <2> QED
    BY <1>2, <2>3 DEF QuoteUpdate, NoSuggestion, Change
<1>3. ASSUME NEW n \in Amount, QuoteUpdateLegacy(r, n)
      PROVE  TypeInv'
  <2>1. Begin(r, "legacy", "row", NoAnnex, "accepted", amount, n)
    BY <1>3 DEF QuoteUpdateLegacy
  <2>3. req' \in [Request -> Handler]
    BY <1>1, <2>1, BeginTypes
  <2> QED
    BY <1>3, <2>3 DEF QuoteUpdateLegacy
<1>4. ASSUME NEW stage \in {"document", "row"}, CreateAnnex(r, stage)
      PROVE  TypeInv'
  <2>1. Begin(r, "annex", stage, NoAnnex, "accepted", suggestion.old, suggestion.new)
    BY <1>4 DEF CreateAnnex
  <2>2. stage \in Stage /\ stage \notin {"autosign", "check", "status", "service"}
    BY <1>1
  <2>3. req' \in [Request -> Handler]
    BY <1>1, <2>1, <2>2, BeginTypes
  <2> QED
    BY <1>4, <2>3 DEF CreateAnnex
<1>5. ASSUME NEW a \in Annex, AcceptAnnex(r, a)
      PROVE  TypeInv'
  <2>1. Begin(r, "accept", "check", a, "accepted", amount, amount + annex[a].delta)
    BY <1>5 DEF AcceptAnnex
  <2>2. amount + annex[a].delta \in Int
    BY NewPrice
  <2>3. req' \in [Request -> Handler]
    BY <1>1, <2>1, <2>2, BeginTypes
  <2> QED
    BY <1>5, <2>3 DEF AcceptAnnex
<1>6. ASSUME NEW a \in Annex, NEW to \in {"accepted", "rejected"}, Webhook(r, a, to)
      PROVE  TypeInv'
  <2>1. Begin(r, "webhook", "check", a, to, 0, 0)
    BY <1>6 DEF Webhook
  <2>2. to \in Final
    BY DEF Final
  <2>3. req' \in [Request -> Handler]
    BY <1>1, <2>1, <2>2, BeginTypes
  <2> QED
    BY <1>6, <2>3 DEF Webhook
<1>7. ASSUME ChangeEmail(r)
      PROVE  TypeInv'
  <2>1. Begin(r, "email", "list", NoAnnex, "expired", 0, 0)
    BY <1>7 DEF ChangeEmail
  <2>3. req' \in [Request -> Handler]
    BY <1>1, <2>1, BeginTypes
  <2> QED
    BY <1>7, <2>3 DEF ChangeEmail
<1>8. ASSUME NEW n \in Amount, PatchAmount(r, n)
      PROVE  TypeInv'
  <2>1. Begin(r, "patch", "amount", NoAnnex, "expired", 0, n)
    BY <1>8 DEF PatchAmount
  <2>3. req' \in [Request -> Handler]
    BY <1>1, <2>1, BeginTypes
  <2> QED
    BY <1>8, <2>3 DEF PatchAmount
<1> QED
  BY <1>2, <1>3, <1>4, <1>5, <1>6, <1>7, <1>8 DEF Start

LEMMA CreationTypes ==
  ASSUME TypeInv, NEW r \in Request,
         CreateDocument(r) \/ AutoSign(r) \/ CreateRow(r)
  PROVE  TypeInv'
<1> USE DEF TypeInv
<1>1. CASE CreateDocument(r)
  <2>1. CASE Respond(r) /\ UNCHANGED annex
    BY <1>1, <2>1, RespondTypes DEF CreateDocument
  <2>2. ASSUME NEW a \in Annex, annex' = [annex EXCEPT ![a].doc = "open"],
               req' = [req EXCEPT ![r].stage = "autosign", ![r].annex = a]
        PROVE  TypeInv'
    <3> DEFINE q == [req[r] EXCEPT !.stage = "autosign", !.annex = a]
    <3>1. q \in Handler
      BY DEF Handler, RequestState, Stage
    <3>2. req' = [req EXCEPT ![r] = q]
      BY <2>2
    <3> HIDE DEF q
    <3>3. req' \in [Request -> Handler]
      BY <3>1, <3>2
    <3>4. annex' \in [Annex -> AnnexRow]
      BY <2>2, DocTypes
    <3>5. UNCHANGED <<amount, history, suggestion>>
      BY <1>1 DEF CreateDocument
    <3> QED
      BY <3>3, <3>4, <3>5
  <2> QED
    BY <1>1, <2>1, <2>2 DEF CreateDocument
<1>2. CASE AutoSign(r)
  <2>1. req[r].annex \in Annex
    BY <1>2 DEF AutoSign, Handler
  <2>2. req' \in [Request -> Handler]
    BY <1>2, GotoTypes DEF AutoSign, Stage
  <2>3. PICK signed \in {annex[req[r].annex].doc, "half"} :
          annex' = [annex EXCEPT ![req[r].annex].doc = signed]
    BY <1>2 DEF AutoSign
  <2>4. signed \in {"none", "open", "half", "completed", "declined"}
    BY <2>1 DEF AnnexRow
  <2>5. annex' \in [Annex -> AnnexRow]
    BY <2>1, <2>3, <2>4, DocTypes
  <2> QED
    BY <1>2, <2>2, <2>5 DEF AutoSign
<1>3. CASE CreateRow(r)
  <2>1. PICK a \in Annex :
          /\ annex' = [annex EXCEPT ![a].status = "pending",
                                    ![a].delta = req[r].new - req[r].old,
                                    ![a].quoted = req[r].new]
          /\ \/ suggestion' = NoSuggestion /\ Respond(r)
             \/ /\ req' = [req EXCEPT ![r].stage = "entry", ![r].annex = a]
                /\ UNCHANGED suggestion
    BY <1>3 DEF CreateRow
  <2>2. req[r].new \in Int /\ req[r].old \in Int
    BY DEF Handler, RequestState
  <2>3. annex' \in [Annex -> AnnexRow]
    <3> DEFINE row == [annex[a] EXCEPT !.status = "pending",
                                       !.delta = req[r].new - req[r].old,
                                       !.quoted = req[r].new]
    <3> HIDE DEF row
    <3>0. req[r].new - req[r].old \in Int
      BY <2>2
    <3>1. row \in AnnexRow
      BY <2>2, <3>0, NewRowTypes DEF row
    <3>2. annex' = [annex EXCEPT ![a] = row]
      BY <2>1 DEF row
    <3> QED
      BY <3>1, <3>2
  <2>4. suggestion' \in Change
    BY <2>1 DEF NoSuggestion, Change
  <2>5. req' \in [Request -> Handler]
    <3>1. CASE Respond(r)
      BY <3>1, RespondTypes
    <3>2. CASE req' = [req EXCEPT ![r].stage = "entry", ![r].annex = a]
      <4> DEFINE q == [req[r] EXCEPT !.stage = "entry", !.annex = a]
      <4>1. q \in Handler
        BY DEF Handler, RequestState, Stage
      <4>2. req' = [req EXCEPT ![r] = q]
        BY <3>2
      <4> QED
        BY <4>1, <4>2
    <3> QED
      BY <2>1, <3>1, <3>2
  <2> QED
    BY <1>3, <2>3, <2>4, <2>5 DEF CreateRow
<1> QED
  BY <1>1, <1>2, <1>3

LEMMA StatusTypes ==
  ASSUME TypeInv, NEW r \in Request,
         ListPending(r) \/ CheckStatus(r) \/ WriteStatus(r)
  PROVE  TypeInv'
<1> USE DEF TypeInv
<1>1. req[r].todo \in SUBSET Annex /\ req[r].to \in Final
  BY DEF Handler, RequestState
<1>2. CASE ListPending(r)
  <2>1. PICK todo \in SUBSET Annex : ExpireNext(r, todo)
    BY <1>2 DEF ListPending
  <2> QED
    BY <1>2, <2>1, ExpireNextTypes DEF ListPending
<1>3. CASE CheckStatus(r)
  <2>1. CASE Goto(r, "status") /\ UNCHANGED suggestion
    <3>1. req[r].annex \in Annex
      BY <1>3 DEF CheckStatus, Handler
    <3> QED
      BY <1>3, <2>1, <3>1, GotoTypes DEF CheckStatus, Stage
  <2>2. CASE ExpireNext(r, req[r].todo)
    BY <1>1, <1>3, <2>2, ExpireNextTypes DEF CheckStatus
  <2>3. CASE Respond(r) /\ UNCHANGED suggestion
    BY <1>3, <2>3, RespondTypes DEF CheckStatus
  <2> QED
    BY <1>3, <2>1, <2>2, <2>3 DEF CheckStatus
<1>4. CASE WriteStatus(r)
  <2>1. req[r].annex \in Annex
    BY <1>4 DEF WriteStatus, Handler
  <2>2. annex' \in [Annex -> AnnexRow]
    <3>1. CASE annex' = [annex EXCEPT ![req[r].annex].status = req[r].to]
      BY <1>1, <2>1, <3>1, StatusWriteTypes
    <3>2. CASE UNCHANGED annex
      BY <3>2
    <3> QED
      BY <1>4, <3>1, <3>2 DEF WriteStatus
  <2>3. req' \in [Request -> Handler] /\ suggestion' \in Change
    <3>1. CASE ExpireNext(r, req[r].todo)
      BY <1>1, <3>1, ExpireNextTypes
    <3>2. CASE Respond(r) /\ UNCHANGED suggestion
      BY <3>2, RespondTypes
    <3>3. CASE Goto(r, IF req[r].op = "webhook" THEN "service" ELSE "amount")
               /\ UNCHANGED suggestion
      BY <2>1, <3>3, GotoTypes DEF Stage
    <3> QED
      BY <1>4, <3>1, <3>2, <3>3 DEF WriteStatus
  <2> QED
    BY <1>4, <2>2, <2>3 DEF WriteStatus
<1> QED
  BY <1>2, <1>3, <1>4

LEMMA PriceTypes ==
  ASSUME TypeInv, NEW r \in Request,
         ReadService(r) \/ WriteAmount(r) \/ WriteEntry(r)
  PROVE  TypeInv'
<1> USE DEF TypeInv
<1>1. /\ req[r].old \in Int /\ req[r].new \in Int
      /\ req[r].annex \in Annex \cup {NoAnnex}
  BY DEF Handler, RequestState
<1>2. CASE ReadService(r)
  <2>1. req[r].annex \in Annex
    BY <1>2 DEF ReadService, Handler
  <2>2. CASE req' = [req EXCEPT ![r].stage = "amount", ![r].old = amount,
                                ![r].new = amount + annex[req[r].annex].delta]
    <3> DEFINE q == [req[r] EXCEPT !.stage = "amount", !.old = amount,
                                   !.new = amount + annex[req[r].annex].delta]
    <3>1. amount + annex[req[r].annex].delta \in Int
      BY <2>1, NewPrice
    <3>2. q \in Handler
      BY <3>1 DEF Handler, RequestState, Stage
    <3>3. req' = [req EXCEPT ![r] = q]
      BY <2>2
    <3> QED
      BY <1>2, <3>2, <3>3 DEF ReadService
  <2>3. CASE Respond(r)
    BY <1>2, <2>3, RespondTypes DEF ReadService
  <2> QED
    BY <1>2, <2>2, <2>3 DEF ReadService
<1>3. CASE WriteAmount(r)
  <2>1. req' \in [Request -> Handler]
    BY <1>3, GotoTypes, RespondTypes DEF WriteAmount, Stage
  <2> QED
    BY <1>1, <1>3, <2>1 DEF WriteAmount
<1>4. CASE WriteEntry(r)
  <2>1. req' \in [Request -> Handler]
    BY <1>4, GotoTypes, RespondTypes DEF WriteEntry, Stage
  <2>2. [annex |-> req[r].annex, old |-> req[r].old, new |-> req[r].new] \in Entry
    BY <1>1 DEF Entry
  <2>3. history' \in Seq(Entry)
    BY <1>4, <2>2 DEF WriteEntry
  <2> QED
    BY <1>4, <2>1, <2>3 DEF WriteEntry
<1> QED
  BY <1>2, <1>3, <1>4

\* The types of AnnexQuote: every status written to a row is one of the four the
\* table knows, and every handler past the creation of an annex has its id.
THEOREM TypeCorrect == Spec => []TypeInv
<1>1. Init => TypeInv
  BY ConstantsAssumption, IdleTypes
  DEF Init, TypeInv, NoRow, AnnexRow, NoSuggestion, Change
<1>2. TypeInv /\ [Next]_vars => TypeInv'
  <2> SUFFICES ASSUME TypeInv, [Next]_vars PROVE TypeInv'
    OBVIOUS
  <2>1. ASSUME NEW a \in Annex, EmployeeSigns(a) PROVE TypeInv'
    BY <2>1, DocTypes DEF EmployeeSigns, TypeInv
  <2>2. ASSUME NEW a \in Annex, NEW answer \in {"completed", "declined"},
               ClientAnswers(a, answer)
        PROVE  TypeInv'
    BY <2>2, DocTypes DEF ClientAnswers, TypeInv
  <2>3. ASSUME NEW r \in Request, Abort(r) PROVE TypeInv'
    BY <2>3, RespondTypes DEF Abort, TypeInv
  <2>4. CASE UNCHANGED vars
    BY <2>4 DEF vars, TypeInv
  <2> QED
    BY <2>1, <2>2, <2>3, <2>4, StartTypes, CreationTypes, StatusTypes, PriceTypes
    DEF Next, Environment, Continue
<1> QED
  BY <1>1, <1>2, PTL DEF Spec

\* The type invariant the runs check.
THEOREM TypesOK == Spec => []TypeOK
<1>1. TypeInv => TypeOK
  BY DEF TypeInv, TypeOK, Handler
<1> QED
  BY <1>1, TypeCorrect, PTL

-----------------------------------------------------------------------------
(* The status of an annex is final.                                        *)

\* What one request may become without unsettling annex a.
Harmless(a, q) ==
  /\ q.annex = a => q.stage = "check" /\ q.to # annex[a].status
  /\ a \notin q.todo

Stays(a) ==
  /\ Settled(a)'
  /\ annex[a].status' = annex[a].status
  /\ Charges(a)' = Charges(a)

LEMMA SettledParts ==
  ASSUME NEW a \in Annex, Settled(a)
  PROVE  /\ annex[a].status \in Final
         /\ \A r \in Request : Harmless(a, req[r])
BY DEF Settled, Harmless

\* A step that changes one request, keeps the status and adds no charge.
LEMMA StaysByRequest ==
  ASSUME NEW a \in Annex, NEW r \in Request, NEW q, Settled(a),
         DOMAIN req = Request, req' = [req EXCEPT ![r] = q], Harmless(a, q),
         annex'[a].status = annex[a].status, Charges(a)' = Charges(a)
  PROVE  Stays(a)
BY DEF Settled, Stays, Harmless

LEMMA IdleIsHarmless ==
  ASSUME NEW a \in Annex
  PROVE  Harmless(a, Idle)
BY ConstantsAssumption DEF Harmless, Idle

LEMMA ChargesUnchanged ==
  ASSUME NEW a \in Annex, history' = history
  PROVE  Charges(a)' = Charges(a)
BY DEF Charges

\* An entry of another annex, or of none, charges nothing to this one.
LEMMA ChargesAppend ==
  ASSUME NEW a \in Annex, history \in Seq(Entry), NEW e \in Entry, e.annex # a,
         history' = Append(history, e)
  PROVE  Charges(a)' = Charges(a)
<1>1. /\ Len(history) \in Nat /\ DOMAIN history = 1..Len(history)
      /\ DOMAIN history' = 1..(Len(history) + 1)
      /\ \A i \in 1..Len(history) : history'[i] = history[i]
      /\ history'[Len(history) + 1] = e
  OBVIOUS
<1> QED
  BY <1>1 DEF Charges

\* A handler that begins is harmless when it begins on another annex, or when
\* it only looks at this one and means another status.
LEMMA StaysByBegin ==
  ASSUME NEW a \in Annex, NEW r \in Request, Settled(a), TypeInv,
         NEW op, NEW stage, NEW b, NEW to, NEW old, NEW new,
         Begin(r, op, stage, b, to, old, new),
         b = a => stage = "check" /\ to # annex[a].status,
         UNCHANGED <<annex, history>>
  PROVE  Stays(a)
<1> DEFINE q == [op |-> op, stage |-> stage, annex |-> b,
                 to |-> to, old |-> old, new |-> new, todo |-> {}]
<1>1. Harmless(a, q)
  BY DEF Harmless
<1>2. req' = [req EXCEPT ![r] = q]
  BY DEF Begin
<1> QED
  BY <1>1, <1>2, ChargesUnchanged, StaysByRequest DEF TypeInv

LEMMA StaysByRespond ==
  ASSUME NEW a \in Annex, NEW r \in Request, Settled(a), TypeInv, Respond(r),
         annex'[a].status = annex[a].status, Charges(a)' = Charges(a)
  PROVE  Stays(a)
BY IdleIsHarmless, StaysByRequest DEF TypeInv, Respond

\* A request that does not hold annex a may go to any stage.
LEMMA StaysByGoto ==
  ASSUME NEW a \in Annex, NEW r \in Request, NEW stage, Settled(a), TypeInv,
         Goto(r, stage), req[r].annex # a,
         annex'[a].status = annex[a].status, Charges(a)' = Charges(a)
  PROVE  Stays(a)
<1> DEFINE q == [req[r] EXCEPT !.stage = stage]
<1>1. q.annex = req[r].annex /\ q.todo = req[r].todo
  BY DEF TypeInv, Handler, RequestState
<1>2. Harmless(a, q)
  BY <1>1, SettledParts DEF Harmless
<1>3. req' = [req EXCEPT ![r] = q]
  BY DEF Goto
<1> QED
  BY <1>2, <1>3, StaysByRequest DEF TypeInv

LEMMA StaysByExpireNext ==
  ASSUME NEW a \in Annex, NEW r \in Request, NEW todo, a \notin todo,
         Settled(a), TypeInv, ExpireNext(r, todo),
         annex'[a].status = annex[a].status, Charges(a)' = Charges(a)
  PROVE  Stays(a)
<1>1. CASE Respond(r)
  BY <1>1, StaysByRespond
<1>2. ASSUME NEW b \in todo,
             req' = [req EXCEPT ![r].stage = "check", ![r].annex = b, ![r].todo = todo \ {b}]
      PROVE  Stays(a)
  <2> DEFINE q == [req[r] EXCEPT !.stage = "check", !.annex = b, !.todo = todo \ {b}]
  <2>1. q.annex = b /\ q.todo = todo \ {b}
    BY DEF TypeInv, Handler, RequestState
  <2>2. Harmless(a, q)
    BY <2>1 DEF Harmless
  <2>3. req' = [req EXCEPT ![r] = q]
    BY <1>2
  <2> QED
    BY <2>2, <2>3, StaysByRequest DEF TypeInv
<1> QED
  BY <1>1, <1>2 DEF ExpireNext

LEMMA StartSettled ==
  ASSUME NEW a \in Annex, NEW r \in Request, Settled(a), TypeInv, Start(r)
  PROVE  Stays(a)
<1>1. NoAnnex # a /\ annex[a].status \in Final
  BY ConstantsAssumption, SettledParts
<1>2. ASSUME NEW n \in Amount, QuoteUpdate(r, n) \/ QuoteUpdateLegacy(r, n) \/ PatchAmount(r, n)
      PROVE  Stays(a)
  BY <1>1, <1>2, StaysByBegin DEF QuoteUpdate, QuoteUpdateLegacy, PatchAmount
<1>3. ASSUME NEW stage \in {"document", "row"}, CreateAnnex(r, stage) PROVE Stays(a)
  BY <1>1, <1>3, StaysByBegin DEF CreateAnnex
<1>4. ASSUME ChangeEmail(r) PROVE Stays(a)
  BY <1>1, <1>4, StaysByBegin DEF ChangeEmail
<1>5. ASSUME NEW b \in Annex, AcceptAnnex(r, b) PROVE Stays(a)
  <2>1. b # a
    BY <1>1, <1>5 DEF AcceptAnnex, Final
  <2> QED
    BY <1>5, <2>1, StaysByBegin DEF AcceptAnnex
<1>6. ASSUME NEW b \in Annex, NEW to \in {"accepted", "rejected"}, Webhook(r, b, to)
      PROVE  Stays(a)
  <2>1. b = a => to # annex[a].status
    BY <1>1, <1>6 DEF Webhook, Final
  <2>2. Begin(r, "webhook", "check", b, to, 0, 0) /\ UNCHANGED <<annex, history>>
    BY <1>6 DEF Webhook
  <2> QED
    BY <2>1, <2>2, StaysByBegin
<1> QED
  BY <1>2, <1>3, <1>4, <1>5, <1>6 DEF Start

LEMMA CreationSettled ==
  ASSUME NEW a \in Annex, NEW r \in Request, Settled(a), TypeInv,
         CreateDocument(r) \/ AutoSign(r) \/ CreateRow(r)
  PROVE  Stays(a)
<1>1. /\ annex[a].status \in Final /\ annex[a] # NoRow
      /\ annex \in [Annex -> AnnexRow]
      /\ req[r].stage # "check" => req[r].annex # a
      /\ NoAnnex # a
  BY ConstantsAssumption, SettledParts DEF Harmless, NoRow, Final, TypeInv
<1>2. Charges(a)' = Charges(a)
  BY ChargesUnchanged DEF CreateDocument, AutoSign, CreateRow
<1>3. CASE CreateDocument(r)
  <2>1. CASE Respond(r) /\ UNCHANGED annex
    BY <1>2, <2>1, StaysByRespond
  <2>2. ASSUME NEW b \in Annex, Unused(b), annex' = [annex EXCEPT ![b].doc = "open"],
               req' = [req EXCEPT ![r].stage = "autosign", ![r].annex = b]
        PROVE  Stays(a)
    <3> DEFINE q == [req[r] EXCEPT !.stage = "autosign", !.annex = b]
    <3>1. b # a
      BY <1>1, <2>2 DEF Unused
    <3>2. q.annex = b /\ q.todo = req[r].todo
      BY DEF TypeInv, Handler, RequestState
    <3>3. Harmless(a, q)
      BY <3>1, <3>2, SettledParts DEF Harmless
    <3>4. req' = [req EXCEPT ![r] = q]
      BY <2>2
    <3>5. annex'[a].status = annex[a].status
      BY <1>1, <2>2, <3>1
    <3> QED
      BY <1>2, <3>3, <3>4, <3>5, StaysByRequest DEF TypeInv
  <2> QED
    BY <1>3, <2>1, <2>2 DEF CreateDocument
<1>4. CASE AutoSign(r)
  <2>1. req[r].annex # a /\ Goto(r, "row")
    BY <1>1, <1>4 DEF AutoSign
  <2>2. annex'[a].status = annex[a].status
    BY <1>1, <1>4, <2>1 DEF AutoSign
  <2> QED
    BY <1>2, <2>1, <2>2, StaysByGoto
<1>5. CASE CreateRow(r)
  <2>1. PICK b \in Annex :
          /\ IF req[r].annex = NoAnnex THEN Unused(b) ELSE b = req[r].annex
          /\ annex' = [annex EXCEPT ![b].status = "pending",
                                    ![b].delta = req[r].new - req[r].old,
                                    ![b].quoted = req[r].new]
          /\ \/ Respond(r)
             \/ req' = [req EXCEPT ![r].stage = "entry", ![r].annex = b]
    BY <1>5 DEF CreateRow
  <2>2. b # a
    BY <1>1, <1>5, <2>1 DEF Unused, CreateRow
  <2>3. annex'[a].status = annex[a].status
    BY <1>1, <2>1, <2>2
  <2>4. CASE req' = [req EXCEPT ![r].stage = "entry", ![r].annex = b]
    <3> DEFINE q == [req[r] EXCEPT !.stage = "entry", !.annex = b]
    <3>1. q.annex = b /\ q.todo = req[r].todo
      BY DEF TypeInv, Handler, RequestState
    <3>2. Harmless(a, q)
      BY <2>2, <3>1, SettledParts DEF Harmless
    <3>3. req' = [req EXCEPT ![r] = q]
      BY <2>4
    <3> QED
      BY <1>2, <2>3, <3>2, <3>3, StaysByRequest DEF TypeInv
  <2> QED
    BY <1>2, <2>1, <2>3, <2>4, StaysByRespond
<1> QED
  BY <1>3, <1>4, <1>5

\* The heart of the matter: a request that has come to the check with another
\* status is refused, because the check reads the row.
LEMMA StatusSettled ==
  ASSUME NEW a \in Annex, NEW r \in Request, Settled(a), TypeInv, ~ReadFailures,
         ListPending(r) \/ CheckStatus(r) \/ WriteStatus(r)
  PROVE  Stays(a)
<1>1. /\ annex[a].status \in Final /\ annex[a].status # "pending"
      /\ annex \in [Annex -> AnnexRow]
      /\ req[r].annex = a => req[r].stage = "check" /\ req[r].to # annex[a].status
      /\ a \notin req[r].todo
  BY SettledParts DEF Harmless, Final, TypeInv
<1>2. Charges(a)' = Charges(a)
  BY ChargesUnchanged DEF ListPending, CheckStatus, WriteStatus
<1>3. CASE ListPending(r)
  <2>1. ExpireNext(r, {b \in Annex : annex[b].status = "pending"}) /\ UNCHANGED annex
    BY <1>3 DEF ListPending
  <2>2. a \notin {b \in Annex : annex[b].status = "pending"}
    BY <1>1
  <2> QED
    BY <1>2, <2>1, <2>2, StaysByExpireNext
<1>4. CASE CheckStatus(r)
  <2>1. UNCHANGED annex
    BY <1>4 DEF CheckStatus
  <2>2. CASE Goto(r, "status")
             /\ isAnnexStatusTransitionAllowed(annex[req[r].annex].status, req[r].to)
    <3>1. req[r].annex # a
      BY <1>1, <2>2 DEF isAnnexStatusTransitionAllowed
    <3> QED
      BY <1>2, <2>1, <2>2, <3>1, StaysByGoto
  <2>3. CASE ExpireNext(r, req[r].todo)
    BY <1>1, <1>2, <2>1, <2>3, StaysByExpireNext
  <2>4. CASE Respond(r)
    BY <1>2, <2>1, <2>4, StaysByRespond
  <2> QED
    BY <1>4, <2>2, <2>3, <2>4 DEF CheckStatus
<1>5. CASE WriteStatus(r)
  <2>1. req[r].annex # a
    BY <1>1, <1>5 DEF WriteStatus
  <2>2. annex'[a].status = annex[a].status
    <3>1. CASE annex' = [annex EXCEPT ![req[r].annex].status = req[r].to]
      BY <1>1, <2>1, <3>1
    <3>2. CASE UNCHANGED annex
      BY <3>2
    <3> QED
      BY <1>5, <3>1, <3>2 DEF WriteStatus
  <2>3. CASE ExpireNext(r, req[r].todo)
    BY <1>1, <1>2, <2>2, <2>3, StaysByExpireNext
  <2>4. CASE Respond(r)
    BY <1>2, <2>2, <2>4, StaysByRespond
  <2>5. CASE Goto(r, IF req[r].op = "webhook" THEN "service" ELSE "amount")
    BY <1>2, <2>1, <2>2, <2>5, StaysByGoto
  <2> QED
    BY <1>5, <2>3, <2>4, <2>5 DEF WriteStatus
<1> QED
  BY <1>3, <1>4, <1>5

LEMMA PriceSettled ==
  ASSUME NEW a \in Annex, NEW r \in Request, Settled(a), TypeInv,
         ReadService(r) \/ WriteAmount(r) \/ WriteEntry(r)
  PROVE  Stays(a)
<1>1. req[r].annex # a /\ UNCHANGED annex
  BY SettledParts DEF Harmless, ReadService, WriteAmount, WriteEntry
<1>2. CASE ReadService(r)
  <2>1. Charges(a)' = Charges(a)
    BY <1>2, ChargesUnchanged DEF ReadService
  <2>2. CASE Respond(r)
    BY <1>1, <2>1, <2>2, StaysByRespond
  <2>3. CASE req' = [req EXCEPT ![r].stage = "amount", ![r].old = amount,
                                ![r].new = amount + annex[req[r].annex].delta]
    <3> DEFINE q == [req[r] EXCEPT !.stage = "amount", !.old = amount,
                                   !.new = amount + annex[req[r].annex].delta]
    <3>1. q.annex = req[r].annex /\ q.todo = req[r].todo
      BY DEF TypeInv, Handler, RequestState
    <3>2. Harmless(a, q)
      BY <1>1, <3>1, SettledParts DEF Harmless
    <3>3. req' = [req EXCEPT ![r] = q]
      BY <2>3
    <3> QED
      BY <1>1, <2>1, <3>2, <3>3, StaysByRequest DEF TypeInv
  <2> QED
    BY <1>2, <2>2, <2>3 DEF ReadService
<1>3. CASE WriteAmount(r)
  <2>1. Charges(a)' = Charges(a)
    BY <1>3, ChargesUnchanged DEF WriteAmount
  <2> QED
    BY <1>1, <1>3, <2>1, StaysByRespond, StaysByGoto DEF WriteAmount
<1>4. CASE WriteEntry(r)
  <2> DEFINE e == [annex |-> req[r].annex, old |-> req[r].old, new |-> req[r].new]
  <2>1. e \in Entry /\ e.annex # a
    BY <1>1 DEF Entry, TypeInv, Handler, RequestState
  <2>2. history' = Append(history, e)
    BY <1>4 DEF WriteEntry
  <2>3. Charges(a)' = Charges(a)
    BY <2>1, <2>2, ChargesAppend DEF TypeInv
  <2> QED
    BY <1>1, <1>4, <2>3, StaysByRespond, StaysByGoto DEF WriteEntry
<1> QED
  BY <1>2, <1>3, <1>4

\* No late webhook, no acceptance and no expiry moves or charges an annex again
\* once the requests that raced for it are done: for any number of requests and
\* annexes, and whatever dies, as long as the read before the write succeeds.
THEOREM AnswerIsFinal ==
  ASSUME ~ReadFailures
  PROVE  Spec => SettledAnnexStays
<1> DEFINE Step == \A a \in Annex : Settled(a) =>
                     /\ Settled(a)'
                     /\ annex[a].status' = annex[a].status
                     /\ Charges(a)' = Charges(a)
<1>1. TypeInv /\ [Next]_vars => [Step]_vars
  <2> SUFFICES ASSUME TypeInv, Next, NEW a \in Annex, Settled(a)
               PROVE  Stays(a)
    BY DEF Stays
  <2>1. ASSUME NEW b \in Annex,
               \/ EmployeeSigns(b)
               \/ \E answer \in {"completed", "declined"} : ClientAnswers(b, answer)
        PROVE  Stays(a)
    <3>0. PICK d : annex' = [annex EXCEPT ![b].doc = d]
      BY <2>1 DEF EmployeeSigns, ClientAnswers
    <3>1. annex'[a].status = annex[a].status /\ req' = req /\ history' = history
      BY <2>1, <3>0 DEF EmployeeSigns, ClientAnswers, TypeInv, AnnexRow
    <3>2. Charges(a)' = Charges(a)
      BY <3>1, ChargesUnchanged
    <3> QED
      BY <3>1, <3>2 DEF Stays, Settled
  <2>2. ASSUME NEW r \in Request, Abort(r) PROVE Stays(a)
    <3>1. Charges(a)' = Charges(a)
      BY <2>2, ChargesUnchanged DEF Abort
    <3> QED
      BY <2>2, <3>1, StaysByRespond DEF Abort
  <2> QED
    BY <2>1, <2>2, StartSettled, CreationSettled, StatusSettled, PriceSettled
    DEF Next, Environment, Continue
<1> QED
  BY <1>1, TypeCorrect, PTL DEF Spec, SettledAnnexStays

-----------------------------------------------------------------------------
(* One request at a time, and no failures: the price and its history.      *)

OneCaller(r) ==
  /\ Request = {r} /\ ~Crashes /\ ~ReadFailures
  /\ "legacy" \notin Op /\ "patch" \notin Op

Charging == {"service", "amount", "entry"}

\* The annex was charged for once, and for its difference.
Charged(a) ==
  \E i \in DOMAIN history : Charges(a) = {i} /\ history[i].new = history[i].old + annex[a].delta

Chained ==
  \A i \in DOMAIN history : i + 1 \in DOMAIN history => history[i].new = history[i + 1].old

EndsAt(n) == history # << >> => history[Len(history)].new = n

\* The books, when q is all that is in flight: what it is about to charge is all
\* that is missing from them.
Books(q) ==
  /\ \A a \in Annex :
       annex[a].status = "accepted" /\ ~(q.annex = a /\ q.stage \in Charging) => Charged(a)
  /\ \A a \in Annex : annex[a].status # "accepted" => Charges(a) = {}
  /\ Chained
  /\ EndsAt(IF q.stage = "entry" THEN q.old ELSE amount)

\* A request that is about to write a status.
KnowsAnnex(q) ==
  /\ q.op \in {"quote", "email", "accept", "webhook"}
  /\ q.to = "expired" <=> q.op \in {"quote", "email"}
  /\ q.to = "accepted" => annex[q.annex].status # "accepted"
  /\ q.to = "expired" => \A a \in Annex : annex[a].status = "pending" => a \in q.todo \cup {q.annex}
  /\ q.op = "accept" => q.old = amount /\ q.new = amount + annex[q.annex].delta
  /\ q.stage = "status" => annex[q.annex].status \in {"pending", q.to}

\* A request that is about to change the price, or has changed it and not yet
\* said so in the history.
KnowsPrice(q) ==
  /\ \/ q.op = "quote" /\ q.annex = NoAnnex /\ q.to = "expired" /\ q.stage # "service"
     \/ /\ q.op \in {"accept", "webhook"} /\ q.annex \in Annex
        /\ annex[q.annex].status = "accepted" /\ Charges(q.annex) = {}
        /\ q.stage # "service" => q.new = q.old + annex[q.annex].delta
  /\ q.stage = "amount" => q.old = amount
  /\ q.stage = "entry" => q.new = amount

Knows(q) ==
  /\ q.stage \in {"autosign", "row"} /\ q.annex \in Annex => annex[q.annex].status = "none"
  /\ q.stage = "list" => q.op \in {"quote", "email"} /\ q.to = "expired"
  /\ q.stage \in {"check", "status"} => KnowsAnnex(q)
  /\ q.stage \in Charging => KnowsPrice(q)

QuoteInv(r) == Books(req[r]) /\ Knows(req[r])

\* Neither the difference of an annex nor the history changes.
LEMMA ChargedStays ==
  ASSUME NEW a \in Annex, history' = history, annex'[a].delta = annex[a].delta
  PROVE  Charged(a)' <=> Charged(a)
BY DEF Charged, Charges

\* A step that leaves the price, the history and all statuses and differences.
LEMMA BooksStay ==
  ASSUME NEW q, NEW r \in Request, UNCHANGED <<amount, history>>,
         \A a \in Annex : annex'[a].status = annex[a].status /\ annex'[a].delta = annex[a].delta,
         Books(req[r]), q = req'[r],
         q.stage = "entry" <=> req[r].stage = "entry",
         q.stage = "entry" => q.old = req[r].old,
         \/ req[r].stage \notin Charging
         \/ q.stage \in Charging /\ q.annex = req[r].annex
  PROVE  Books(req[r])'
<1>1. \A a \in Annex : Charges(a)' = Charges(a) /\ (Charged(a)' <=> Charged(a))
  BY ChargedStays, ChargesUnchanged
<1>2. Chained' /\ (EndsAt(IF q.stage = "entry" THEN q.old ELSE amount))'
  BY DEF Books, Chained, EndsAt
<1>3. QED
  BY <1>1, <1>2 DEF Books

\* A request that is over knows nothing.
LEMMA IdleKnows == ASSUME NEW r \in Request, req'[r] = Idle PROVE Knows(req[r])'
BY DEF Knows, Idle, Charging

LEMMA BeginBooks ==
  ASSUME TypeInv, NEW r \in Request, QuoteInv(r), NEW op, NEW stage \in Stage \ {"entry"}, NEW a,
         NEW to, NEW old, NEW new, Begin(r, op, stage, a, to, old, new),
         UNCHANGED <<amount, history, annex>>
  PROVE  /\ Books(req[r])'
         /\ req'[r].op = op /\ req'[r].stage = stage /\ req'[r].annex = a /\ req'[r].to = to
         /\ req'[r].old = old /\ req'[r].new = new /\ req'[r].todo = {}
<1>1. /\ req'[r].op = op /\ req'[r].stage = stage /\ req'[r].annex = a /\ req'[r].to = to
      /\ req'[r].old = old /\ req'[r].new = new /\ req'[r].todo = {}
  BY DEF Begin, TypeInv
<1>2. req[r].stage = "idle"
  BY DEF Begin, Idle
<1>3. QED
  BY <1>1, <1>2, BooksStay DEF QuoteInv, Charging

LEMMA StartBooks ==
  ASSUME TypeInv, NEW r, OneCaller(r), QuoteInv(r), Start(r)
  PROVE  QuoteInv(r)'
<1>1. r \in Request /\ {"document", "row", "list", "check", "amount"} \subseteq Stage \ {"entry"}
  BY DEF OneCaller, Stage
<1>2. ASSUME NEW n \in Amount, QuoteUpdate(r, n) PROVE QuoteInv(r)'
  <2>1. Begin(r, "quote", "amount", NoAnnex, "expired", amount, n)
        /\ UNCHANGED <<amount, history, annex>>
    BY <1>2 DEF QuoteUpdate
  <2>2. /\ Books(req[r])' /\ req'[r].op = "quote" /\ req'[r].stage = "amount"
        /\ req'[r].annex = NoAnnex /\ req'[r].to = "expired" /\ req'[r].old = amount
    BY <1>1, <2>1, BeginBooks
  <2>3. QED
    BY <2>1, <2>2 DEF QuoteInv, Knows, KnowsPrice, Charging
<1>3. ASSUME NEW n \in Amount, QuoteUpdateLegacy(r, n) \/ PatchAmount(r, n) PROVE FALSE
  BY <1>3 DEF QuoteUpdateLegacy, PatchAmount, Begin, OneCaller
<1>4. ASSUME NEW stage \in {"document", "row"}, CreateAnnex(r, stage) PROVE QuoteInv(r)'
  <2>1. Begin(r, "annex", stage, NoAnnex, "accepted", suggestion.old, suggestion.new)
        /\ UNCHANGED <<amount, history, annex>>
    BY <1>4 DEF CreateAnnex
  <2>2. Books(req[r])' /\ req'[r].stage = stage /\ req'[r].annex = NoAnnex
    <3>1. stage \in Stage \ {"entry"}
      BY <1>1
    <3>2. ASSUME NEW old, NEW new, Begin(r, "annex", stage, NoAnnex, "accepted", old, new)
          PROVE  Books(req[r])' /\ req'[r].stage = stage /\ req'[r].annex = NoAnnex
      BY <1>1, <2>1, <3>1, <3>2, BeginBooks
    <3>3. QED
      BY <2>1, <3>2
  <2>3. QED
    BY <2>2, ConstantsAssumption DEF QuoteInv, Knows, Charging
<1>5. ASSUME NEW a \in Annex, AcceptAnnex(r, a) PROVE QuoteInv(r)'
  <2>1. Begin(r, "accept", "check", a, "accepted", amount, amount + annex[a].delta)
        /\ UNCHANGED <<amount, history, annex>> /\ annex[a].status = "pending"
    BY <1>5 DEF AcceptAnnex
  <2>2. /\ Books(req[r])' /\ req'[r].op = "accept" /\ req'[r].stage = "check"
        /\ req'[r].annex = a /\ req'[r].to = "accepted" /\ req'[r].old = amount
        /\ req'[r].new = amount + annex[a].delta
    <3>1. ASSUME NEW n, n = amount + annex[a].delta
          PROVE  /\ Books(req[r])' /\ req'[r].op = "accept" /\ req'[r].stage = "check"
                 /\ req'[r].annex = a /\ req'[r].to = "accepted" /\ req'[r].old = amount
                 /\ req'[r].new = n
      <4>1. Begin(r, "accept", "check", a, "accepted", amount, n)
        BY <2>1, <3>1
      <4>2. QED
        BY <1>1, <2>1, <4>1, BeginBooks
    <3>2. QED
      BY <3>1
  <2>3. QED
    BY <2>1, <2>2 DEF QuoteInv, Knows, KnowsAnnex, Charging
<1>6. ASSUME NEW a \in Annex, NEW to \in {"accepted", "rejected"}, Webhook(r, a, to)
      PROVE  QuoteInv(r)'
  <2>1. Begin(r, "webhook", "check", a, to, 0, 0) /\ UNCHANGED <<amount, history, annex>>
        /\ (to = "accepted" => annex[a].status # "accepted")
    BY <1>6 DEF Webhook
  <2>2. /\ Books(req[r])' /\ req'[r].op = "webhook" /\ req'[r].stage = "check"
        /\ req'[r].annex = a /\ req'[r].to = to
    BY <1>1, <2>1, BeginBooks
  <2>3. QED
    BY <2>1, <2>2 DEF QuoteInv, Knows, KnowsAnnex, Charging
<1>7. CASE ChangeEmail(r)
  <2>1. Begin(r, "email", "list", NoAnnex, "expired", 0, 0) /\ UNCHANGED <<amount, history, annex>>
    BY <1>7 DEF ChangeEmail
  <2>2. Books(req[r])' /\ req'[r].op = "email" /\ req'[r].stage = "list" /\ req'[r].to = "expired"
    BY <1>1, <2>1, BeginBooks
  <2>3. QED
    BY <2>2 DEF QuoteInv, Knows, Charging
<1>8. QED
  BY <1>2, <1>3, <1>4, <1>5, <1>6, <1>7 DEF Start

\* Documenso and the making of an annex.
LEMMA CreationBooks ==
  ASSUME TypeInv, NEW r, OneCaller(r), QuoteInv(r),
         CreateDocument(r) \/ AutoSign(r) \/ CreateRow(r)
  PROVE  QuoteInv(r)'
<1>1. /\ r \in Request /\ annex \in [Annex -> AnnexRow] /\ req \in [Request -> Handler]
      /\ Books(req[r]) /\ Knows(req[r])
  BY DEF OneCaller, TypeInv, QuoteInv
<1>2. CASE CreateDocument(r)
  <2>1. CASE Respond(r) /\ UNCHANGED annex
    <3>1. req'[r] = Idle /\ UNCHANGED <<amount, history, annex>> /\ req[r].stage = "document"
      BY <1>1, <1>2, <2>1 DEF Respond, CreateDocument
    <3>2. Books(req[r])'
      BY <1>1, <3>1, BooksStay DEF Idle, Charging
    <3>3. QED
      BY <1>1, <3>1, <3>2, IdleKnows DEF QuoteInv
  <2>2. ASSUME NEW a \in Annex, Unused(a), annex' = [annex EXCEPT ![a].doc = "open"],
               req' = [req EXCEPT ![r].stage = "autosign", ![r].annex = a]
        PROVE  QuoteInv(r)'
    <3>1. /\ \A b \in Annex : annex'[b].status = annex[b].status /\ annex'[b].delta = annex[b].delta
          /\ annex[a].status = "none"
      BY <1>1, <2>2 DEF AnnexRow, Unused, NoRow
    <3>2. req'[r].stage = "autosign" /\ req'[r].annex = a
      BY <1>1, <2>2 DEF Handler, RequestState
    <3>3. req[r].stage = "document" /\ UNCHANGED <<amount, history>>
      BY <1>2 DEF CreateDocument
    <3>4. Books(req[r])'
      BY <1>1, <3>1, <3>2, <3>3, BooksStay DEF Charging
    <3>5. Knows(req[r])'
      BY <3>1, <3>2 DEF Knows, Charging
    <3>6. QED
      BY <3>4, <3>5 DEF QuoteInv
  <2>3. QED
    BY <1>2, <2>1, <2>2 DEF CreateDocument
<1>3. CASE AutoSign(r)
  <2>1. PICK d : annex' = [annex EXCEPT ![req[r].annex].doc = d]
    BY <1>3 DEF AutoSign
  <2>2. /\ \A b \in Annex : annex'[b].status = annex[b].status /\ annex'[b].delta = annex[b].delta
        /\ UNCHANGED <<amount, history>> /\ req[r].stage = "autosign"
    BY <1>1, <1>3, <2>1 DEF AnnexRow, AutoSign
  <2>3. req'[r].stage = "row" /\ req'[r].annex = req[r].annex
    BY <1>1, <1>3 DEF AutoSign, Goto, Handler, RequestState
  <2>4. Books(req[r])'
    BY <1>1, <2>2, <2>3, BooksStay DEF Charging
  <2>5. Knows(req[r])'
    BY <1>1, <2>2, <2>3 DEF Knows, Charging
  <2>6. QED
    BY <2>4, <2>5 DEF QuoteInv
<1>4. CASE CreateRow(r)
  <2>1. PICK a \in Annex :
          /\ IF req[r].annex = NoAnnex THEN Unused(a) ELSE a = req[r].annex
          /\ annex' = [annex EXCEPT ![a].status = "pending",
                                    ![a].delta = req[r].new - req[r].old,
                                    ![a].quoted = req[r].new]
    BY <1>4 DEF CreateRow
  <2>2. req[r].op # "legacy" /\ req[r].stage = "row"
    <3>1. req[r].op \in Op \cup {"none"}
      BY <1>1 DEF Handler, RequestState
    <3>2. QED
      BY <1>4, <3>1 DEF CreateRow, OneCaller
  <2>3. req'[r] = Idle /\ UNCHANGED <<amount, history>>
    BY <1>1, <1>4, <2>2 DEF CreateRow, Respond
  <2>4. annex[a].status = "none"
    BY <1>1, <2>1, <2>2 DEF Unused, NoRow, Knows
  <2>5. /\ annex'[a].status = "pending"
        /\ \A b \in Annex \ {a} : annex'[b] = annex[b]
    <3>1. \E row : row.status = "pending" /\ annex' = [annex EXCEPT ![a] = row]
      <4> DEFINE row == [annex[a] EXCEPT !.status = "pending",
                                         !.delta = req[r].new - req[r].old,
                                         !.quoted = req[r].new]
      <4>1. row.status = "pending"
        BY <1>1 DEF AnnexRow
      <4>2. annex' = [annex EXCEPT ![a] = row]
        BY <2>1
      <4> HIDE DEF row
      <4>3. QED
        BY <4>1, <4>2
    <3>2. QED
      BY <1>1, <3>1
  <2>6. Books(req[r])'
    <3>1. Charges(a)' = {} /\ \A b \in Annex : Charges(b)' = Charges(b)
      BY <1>1, <2>3, <2>4, ChargesUnchanged DEF Books
    <3>2. \A b \in Annex \ {a} : Charged(b)' <=> Charged(b)
      BY <2>3, <2>5, ChargedStays
    <3>3. Chained' /\ EndsAt(amount)'
      BY <1>1, <2>2, <2>3 DEF Books, Chained, EndsAt
    <3>4. QED
      BY <1>1, <2>2, <2>3, <2>5, <3>1, <3>2, <3>3 DEF Books, Idle, Charging
  <2>7. QED
    BY <1>1, <2>3, <2>6, IdleKnows DEF QuoteInv
<1>5. QED
  BY <1>2, <1>3, <1>4

\* The loop over the pending annexes.
LEMMA ExpireBooks ==
  ASSUME TypeInv, NEW r, OneCaller(r), NEW todo \in SUBSET Annex, ExpireNext(r, todo),
         req[r].op \in {"quote", "email"}, req[r].to = "expired",
         \A a \in Annex : annex'[a].status = "pending" => a \in todo,
         Books(Idle)'
  PROVE  QuoteInv(r)'
<1>1. r \in Request /\ req \in [Request -> Handler]
  BY DEF OneCaller, TypeInv
<1>2. CASE Respond(r)
  <2>1. req'[r] = Idle
    BY <1>1, <1>2 DEF Respond
  <2>2. QED
    BY <1>1, <2>1, IdleKnows DEF QuoteInv
<1>3. ASSUME NEW a \in todo,
             req' = [req EXCEPT ![r].stage = "check", ![r].annex = a, ![r].todo = todo \ {a}]
      PROVE  QuoteInv(r)'
  <2>1. /\ req'[r].stage = "check" /\ req'[r].annex = a /\ req'[r].todo = todo \ {a}
        /\ req'[r].op = req[r].op /\ req'[r].to = "expired"
    BY <1>1, <1>3 DEF Handler, RequestState
  <2>2. Books(req[r])'
    BY <2>1 DEF Books, Idle, Charging
  <2>3. Knows(req[r])'
    BY <2>1 DEF Knows, KnowsAnnex, Charging
  <2>4. QED
    BY <2>2, <2>3 DEF QuoteInv
<1>4. QED
  BY <1>2, <1>3 DEF ExpireNext

LEMMA StatusBooks ==
  ASSUME TypeInv, NEW r, OneCaller(r), QuoteInv(r),
         ListPending(r) \/ CheckStatus(r) \/ WriteStatus(r)
  PROVE  QuoteInv(r)'
<1>1. /\ r \in Request /\ annex \in [Annex -> AnnexRow] /\ req \in [Request -> Handler]
      /\ Books(req[r]) /\ Knows(req[r]) /\ ~ReadFailures /\ ~Crashes
      /\ UNCHANGED <<amount, history>>
  BY DEF OneCaller, TypeInv, QuoteInv, ListPending, CheckStatus, WriteStatus
<1>2. req[r].stage \notin Charging /\ req[r].todo \in SUBSET Annex /\ req[r].to \in Final
  BY <1>1 DEF ListPending, CheckStatus, WriteStatus, Charging, Handler, RequestState
<1>3. ASSUME UNCHANGED annex PROVE Books(Idle)'
  <2>1. \A a \in Annex : Charges(a)' = Charges(a) /\ (Charged(a)' <=> Charged(a))
    BY <1>1, <1>3, ChargedStays, ChargesUnchanged
  <2>2. Chained' /\ EndsAt(amount)'
    BY <1>1, <1>2 DEF Books, Chained, EndsAt, Charging
  <2>3. QED
    BY <1>1, <1>2, <1>3, <2>1, <2>2 DEF Books, Idle, Charging
<1>4. CASE ListPending(r)
  <2>1. ExpireNext(r, {a \in Annex : annex[a].status = "pending"}) /\ UNCHANGED annex
    BY <1>1, <1>4 DEF ListPending
  <2>2. req[r].op \in {"quote", "email"} /\ req[r].to = "expired"
    BY <1>1, <1>4 DEF ListPending, Knows
  <2>3. ASSUME NEW todo \in SUBSET Annex, todo = {a \in Annex : annex[a].status = "pending"},
               ExpireNext(r, todo)
        PROVE  QuoteInv(r)'
    <3>1. \A a \in Annex : annex'[a].status = "pending" => a \in todo
      BY <2>1, <2>3
    <3>2. QED
      BY <1>3, <2>1, <2>2, <2>3, <3>1, ExpireBooks
  <2>4. QED
    BY <2>1, <2>3
<1>5. CASE CheckStatus(r)
  <2>1. KnowsAnnex(req[r]) /\ UNCHANGED annex /\ req[r].stage = "check"
    BY <1>1, <1>5 DEF CheckStatus, Knows
  <2> DEFINE allowed == isAnnexStatusTransitionAllowed(annex[req[r].annex].status, req[r].to)
  <2>2. CASE allowed /\ Goto(r, "status")
    <3>1. /\ req'[r].stage = "status" /\ req'[r].annex = req[r].annex /\ req'[r].todo = req[r].todo
          /\ req'[r].op = req[r].op /\ req'[r].to = req[r].to
          /\ req'[r].old = req[r].old /\ req'[r].new = req[r].new
      BY <1>1, <2>2 DEF Goto, Handler, RequestState
    <3>2. Books(req[r])'
      BY <1>1, <1>2, <2>1, <3>1, BooksStay DEF Charging
    <3>3. annex[req[r].annex].status \in {"pending", req[r].to}
      BY <2>2 DEF isAnnexStatusTransitionAllowed
    <3>4. KnowsAnnex(req[r])'
      BY <1>1, <2>1, <3>1, <3>3 DEF KnowsAnnex
    <3>5. QED
      BY <3>1, <3>2, <3>4 DEF QuoteInv, Knows, Charging
  <2>3. CASE ~allowed /\ req[r].to = "expired" /\ ExpireNext(r, req[r].todo)
    <3>1. annex[req[r].annex].status # "pending"
      BY <2>3 DEF isAnnexStatusTransitionAllowed
    <3>2. \A a \in Annex : annex'[a].status = "pending" => a \in req[r].todo
      BY <2>1, <2>3, <3>1 DEF KnowsAnnex
    <3>3. QED
      BY <1>2, <1>3, <2>1, <2>3, <3>2, ExpireBooks DEF KnowsAnnex
  <2>4. CASE Respond(r)
    <3>1. req'[r] = Idle
      BY <1>1, <2>4 DEF Respond
    <3>2. QED
      BY <1>1, <1>3, <2>1, <3>1, IdleKnows DEF QuoteInv
  <2>5. QED
    BY <1>1, <1>5, <2>2, <2>3, <2>4 DEF CheckStatus
<1>6. CASE WriteStatus(r)
  <2>1. KnowsAnnex(req[r]) /\ req[r].stage = "status" /\ req[r].annex \in Annex
    BY <1>1, <1>6 DEF WriteStatus, Knows, Handler
  <2>2. annex' = [annex EXCEPT ![req[r].annex].status = req[r].to]
    BY <1>1, <1>6 DEF WriteStatus
  <2>3. /\ annex'[req[r].annex].status = req[r].to
        /\ \A a \in Annex : annex'[a].delta = annex[a].delta
        /\ \A a \in Annex \ {req[r].annex} : annex'[a].status = annex[a].status
    BY <1>1, <2>1, <2>2 DEF AnnexRow
  <2>4. annex[req[r].annex].status # "accepted"
    BY <2>1, <1>2 DEF KnowsAnnex, Final
  <2>5. \A a \in Annex : Charges(a)' = Charges(a) /\ (Charged(a)' <=> Charged(a))
    BY <1>1, <2>3, ChargedStays, ChargesUnchanged
  <2>6. Chained' /\ EndsAt(amount)'
    BY <1>1, <2>1 DEF Books, Chained, EndsAt, Charging
  <2>7. Charges(req[r].annex) = {}
    BY <1>1, <2>1, <2>4 DEF Books
  <2>8. CASE req[r].to # "accepted"
    <3>1. Books(Idle)'
      BY <1>1, <1>2, <2>3, <2>5, <2>6, <2>7, <2>8 DEF Books, Idle, Charging
    <3>2. CASE req[r].to = "expired" /\ ExpireNext(r, req[r].todo)
      <4>1. \A a \in Annex : annex'[a].status = "pending" => a \in req[r].todo
        BY <2>1, <2>3, <3>2 DEF KnowsAnnex
      <4>2. QED
        BY <1>2, <2>1, <3>1, <3>2, <4>1, ExpireBooks DEF KnowsAnnex
    <3>3. CASE Respond(r)
      <4>1. req'[r] = Idle
        BY <1>1, <3>3 DEF Respond
      <4>2. QED
        BY <1>1, <3>1, <4>1, IdleKnows DEF QuoteInv
    <3>4. QED
      BY <1>6, <2>8, <3>2, <3>3 DEF WriteStatus
  <2>9. CASE req[r].to = "accepted"
    <3>1. req[r].op \in {"accept", "webhook"}
      BY <2>1, <2>9 DEF KnowsAnnex
    <3>2. PICK stage \in {"service", "amount"} :
            /\ Goto(r, stage)
            /\ stage = IF req[r].op = "webhook" THEN "service" ELSE "amount"
      BY <1>6, <2>9 DEF WriteStatus
    <3>3. /\ req'[r].stage = stage /\ req'[r].annex = req[r].annex
          /\ req'[r].op = req[r].op /\ req'[r].to = req[r].to
          /\ req'[r].old = req[r].old /\ req'[r].new = req[r].new
      BY <1>1, <3>2 DEF Goto, Handler, RequestState
    <3>4. Books(req[r])'
      BY <1>1, <1>2, <2>3, <2>5, <2>6, <2>9, <3>3 DEF Books, Charging
    <3>5. KnowsPrice(req[r])'
      BY <1>1, <2>1, <2>3, <2>5, <2>7, <2>9, <3>1, <3>2, <3>3 DEF KnowsPrice, KnowsAnnex
    <3>6. QED
      BY <3>3, <3>4, <3>5 DEF QuoteInv, Knows
  <2>10. QED
    BY <2>8, <2>9
<1>7. QED
  BY <1>4, <1>5, <1>6

LEMMA PriceBooks ==
  ASSUME TypeInv, NEW r, OneCaller(r), QuoteInv(r),
         ReadService(r) \/ WriteAmount(r) \/ WriteEntry(r)
  PROVE  QuoteInv(r)'
<1>1. /\ r \in Request /\ annex \in [Annex -> AnnexRow] /\ req \in [Request -> Handler]
      /\ Books(req[r]) /\ KnowsPrice(req[r]) /\ ~ReadFailures /\ history \in Seq(Entry)
      /\ UNCHANGED annex
  BY DEF OneCaller, TypeInv, QuoteInv, Knows, Charging, ReadService, WriteAmount, WriteEntry
<1>2. CASE ReadService(r)
  <2>1. /\ req' = [req EXCEPT ![r].stage = "amount", ![r].old = amount,
                              ![r].new = amount + annex[req[r].annex].delta]
        /\ UNCHANGED <<amount, history>> /\ req[r].stage = "service"
    BY <1>1, <1>2 DEF ReadService
  <2>2. /\ req'[r].stage = "amount" /\ req'[r].old = amount
        /\ req'[r].new = amount + annex[req[r].annex].delta
        /\ req'[r].annex = req[r].annex /\ req'[r].op = req[r].op /\ req'[r].to = req[r].to
    BY <1>1, <2>1 DEF Handler, RequestState
  <2>3. Books(req[r])'
    BY <1>1, <2>1, <2>2, BooksStay DEF Charging
  <2>4. KnowsPrice(req[r])'
    BY <1>1, <2>1, <2>2, ChargesUnchanged DEF KnowsPrice
  <2>5. QED
    BY <2>2, <2>3, <2>4 DEF QuoteInv, Knows
<1>3. CASE WriteAmount(r)
  <2>1. req[r].op # "patch"
    BY <1>1 DEF KnowsPrice
  <2>2. /\ amount' = req[r].new /\ UNCHANGED history /\ req[r].stage = "amount" /\ Goto(r, "entry")
    BY <1>3, <2>1 DEF WriteAmount
  <2>3. /\ req'[r].stage = "entry" /\ req'[r].old = req[r].old /\ req'[r].new = req[r].new
        /\ req'[r].annex = req[r].annex /\ req'[r].op = req[r].op /\ req'[r].to = req[r].to
    BY <1>1, <2>2 DEF Goto, Handler, RequestState
  <2>4. \A a \in Annex : Charges(a)' = Charges(a) /\ (Charged(a)' <=> Charged(a))
    BY <1>1, <2>2, ChargedStays, ChargesUnchanged
  <2>5. EndsAt(req[r].old)' /\ Chained'
    BY <1>1, <2>2, <2>3 DEF Books, KnowsPrice, EndsAt, Chained
  <2>6. Books(req[r])'
    BY <1>1, <2>2, <2>3, <2>4, <2>5 DEF Books, EndsAt, Charging
  <2>7. KnowsPrice(req[r])'
    BY <1>1, <2>2, <2>3, <2>4 DEF KnowsPrice
  <2>8. QED
    BY <2>3, <2>6, <2>7 DEF QuoteInv, Knows
<1>4. CASE WriteEntry(r)
  <2> DEFINE e == [annex |-> req[r].annex, old |-> req[r].old, new |-> req[r].new]
             last == Len(history)
  <2>1. history' = Append(history, e) /\ UNCHANGED amount /\ req[r].stage = "entry"
    BY <1>4 DEF WriteEntry
  <2>2. e \in Entry /\ e.annex = req[r].annex /\ e.old = req[r].old /\ e.new = req[r].new
    BY <1>1 DEF Entry, Handler, RequestState
  <2> HIDE DEF e
  <2>3. /\ last \in Nat /\ DOMAIN history = 1..last /\ DOMAIN history' = 1..(last + 1)
        /\ Len(history') = last + 1 /\ history'[last + 1] = e
        /\ \A i \in 1..last : history'[i] = history[i]
        /\ history # << >> => last \in 1..last
    BY <1>1, <2>1, <2>2
  <2> HIDE DEF last
  <2>4. \A a \in Annex \ {req[r].annex} : Charges(a)' = Charges(a) /\ (Charged(a)' <=> Charged(a))
    <3>1. \A a \in Annex \ {req[r].annex} : Charges(a)' = Charges(a)
      BY <1>1, <2>1, <2>2, ChargesAppend
    <3>2. QED
      BY <1>1, <2>3, <3>1 DEF Charged, Charges
  <2>5. \A a \in Annex : a = req[r].annex => Charged(a)'
    <3>1. SUFFICES ASSUME NEW a \in Annex, a = req[r].annex PROVE Charged(a)'
      OBVIOUS
    <3>2. Charges(a) = {} /\ req[r].new = req[r].old + annex[a].delta
      BY <1>1, <2>1, <3>1, ConstantsAssumption DEF KnowsPrice
    <3>3. Charges(a)' = {last + 1}
      BY <2>2, <2>3, <3>1, <3>2 DEF Charges
    <3>4. history'[last + 1].new = history'[last + 1].old + annex'[a].delta
      BY <1>1, <2>2, <2>3, <3>1, <3>2
    <3>5. QED
      BY <2>3, <3>3, <3>4 DEF Charged
  <2>6. Chained'
    <3>1. history # << >> => history[last].new = e.old
      BY <1>1, <2>1, <2>2 DEF Books, EndsAt, last
    <3>2. QED
      BY <1>1, <2>3, <3>1 DEF Books, Chained
  <2>7. EndsAt(amount)'
    BY <1>1, <2>1, <2>2, <2>3 DEF KnowsPrice, EndsAt
  <2>8. req'[r].stage \notin Charging => Books(req[r])'
    <3>1. SUFFICES ASSUME req'[r].stage \notin Charging PROVE Books(req[r])'
      OBVIOUS
    <3>2. ASSUME NEW a \in Annex, annex[a].status = "accepted" PROVE Charged(a)'
      BY <1>1, <2>1, <2>4, <2>5, <3>2 DEF Books
    <3>3. ASSUME NEW a \in Annex, annex[a].status # "accepted" PROVE Charges(a)' = {}
      <4>1. a # req[r].annex
        BY <1>1, <3>3, ConstantsAssumption DEF KnowsPrice
      <4>2. QED
        BY <1>1, <2>4, <3>3, <4>1 DEF Books
    <3>4. req'[r].stage # "entry"
      BY <3>1 DEF Charging
    <3>5. QED
      BY <1>1, <2>6, <2>7, <3>2, <3>3, <3>4 DEF Books
  <2>9. CASE req[r].op = "quote" /\ Goto(r, "list")
    <3>1. req'[r].stage = "list" /\ req'[r].op = req[r].op /\ req'[r].to = req[r].to
      BY <1>1, <2>9 DEF Goto, Handler, RequestState
    <3>2. Books(req[r])'
      BY <2>8, <3>1 DEF Charging
    <3>3. req[r].to = "expired"
      BY <1>1, <2>9 DEF KnowsPrice
    <3>4. QED
      BY <2>9, <3>1, <3>2, <3>3 DEF QuoteInv, Knows, Charging
  <2>10. CASE Respond(r)
    <3>1. req'[r] = Idle
      BY <1>1, <2>10 DEF Respond
    <3>2. Books(req[r])'
      BY <2>8, <3>1 DEF Idle, Charging
    <3>3. QED
      BY <1>1, <3>1, <3>2, IdleKnows DEF QuoteInv
  <2>11. QED
    BY <1>4, <2>9, <2>10 DEF WriteEntry
<1>5. QED
  BY <1>2, <1>3, <1>4

LEMMA QuoteStep ==
  ASSUME TypeInv, NEW r, OneCaller(r), QuoteInv(r), [Next]_vars
  PROVE  QuoteInv(r)'
<1>1. r \in Request /\ annex \in [Annex -> AnnexRow]
  BY DEF OneCaller, TypeInv
<1>2. CASE UNCHANGED vars
  BY <1>2 DEF vars, QuoteInv, Books, Knows, KnowsAnnex, KnowsPrice, Charged, Charges, Chained, EndsAt
<1>3. CASE Environment
  <2>1. PICK a \in Annex, d \in {"half", "completed", "declined"} : annex' = [annex EXCEPT ![a].doc = d]
    BY <1>3 DEF Environment, EmployeeSigns, ClientAnswers
  <2>2. UNCHANGED <<amount, history, req>>
    BY <1>3 DEF Environment, EmployeeSigns, ClientAnswers
  <2>3. \A b \in Annex : annex'[b].status = annex[b].status /\ annex'[b].delta = annex[b].delta
    BY <1>1, <2>1 DEF AnnexRow
  <2>4. Books(req[r])'
    BY <1>1, <2>2, <2>3, BooksStay DEF QuoteInv
  <2>5. Knows(req[r])'
    <3>1. req[r].stage \in {"check", "status"} => req[r].annex \in Annex
      BY <1>1 DEF TypeInv, Handler
    <3>2. req[r].stage \in {"check", "status"} => KnowsAnnex(req[r])'
      BY <2>2, <2>3, <3>1 DEF QuoteInv, Knows, KnowsAnnex
    <3>3. req[r].stage \in Charging => KnowsPrice(req[r])'
      BY <2>2, <2>3, ChargesUnchanged DEF QuoteInv, Knows, KnowsPrice
    <3>4. QED
      BY <2>2, <2>3, <3>2, <3>3 DEF QuoteInv, Knows
  <2>6. QED
    BY <2>4, <2>5 DEF QuoteInv
<1>4. ASSUME NEW s \in Request, Start(s) \/ Continue(s) \/ Abort(s) PROVE QuoteInv(r)'
  <2>1. s = r /\ ~Abort(s)
    BY DEF OneCaller, Abort
  <2>2. QED
    BY <1>4, <2>1, StartBooks, CreationBooks, StatusBooks, PriceBooks DEF Continue
<1>5. QED
  BY <1>2, <1>3, <1>4 DEF Next

LEMMA QuoteInvariant ==
  ASSUME NEW r, OneCaller(r)
  PROVE  Spec => []QuoteInv(r)
<1>1. Init => QuoteInv(r)
  <2> SUFFICES ASSUME Init PROVE QuoteInv(r)
    OBVIOUS
  <2>1. req[r] = Idle /\ history = << >> /\ \A a \in Annex : annex[a].status = "none"
    BY DEF Init, OneCaller, NoRow
  <2>2. QED
    BY <2>1 DEF QuoteInv, Books, Knows, Charges, Chained, EndsAt, Idle, Charging
<1>2. TypeInv /\ QuoteInv(r) /\ [Next]_vars => QuoteInv(r)'
  BY QuoteStep
<1>3. QED
  BY <1>1, <1>2, TypeCorrect, PTL DEF Spec

\* With one request at a time and no failures, whatever Documenso emits and
\* repeats, an accepted annex was charged for once, for its own difference, and
\* no other annex was charged for (/accept and the webhook).
THEOREM AcceptanceCharges ==
  ASSUME NEW r, OneCaller(r)
  PROVE  Spec => []AcceptedIsCharged
<1>1. TypeInv /\ QuoteInv(r) => AcceptedIsCharged
  <2> SUFFICES ASSUME TypeInv, QuoteInv(r), Quiet, NEW a \in Annex
               PROVE  /\ Cardinality(Charges(a)) = IF annex[a].status = "accepted" THEN 1 ELSE 0
                      /\ \A i \in Charges(a) : history[i].new = history[i].old + annex[a].delta
    BY DEF AcceptedIsCharged
  <2>1. req[r] = Idle
    BY DEF Quiet, OneCaller
  <2>2. /\ annex[a].status = "accepted" => Charged(a)
        /\ annex[a].status # "accepted" => Charges(a) = {}
    BY <2>1 DEF QuoteInv, Books, Idle, Charging
  <2>3. CASE annex[a].status = "accepted"
    <3>1. PICK i \in DOMAIN history :
            Charges(a) = {i} /\ history[i].new = history[i].old + annex[a].delta
      BY <2>2, <2>3 DEF Charged
    <3>2. QED
      BY <2>3, <3>1, FS_Singleton
  <2>4. CASE annex[a].status # "accepted"
    BY <2>2, <2>4, FS_EmptySet
  <2>5. QED
    BY <2>3, <2>4
<1>2. QED
  BY <1>1, QuoteInvariant, TypeCorrect, PTL

\* With one request at a time and no failures the history of the price is a
\* ledger, however many changes and annexes it has (createQuoteHistoryEntry).
THEOREM HistoryBalances ==
  ASSUME NEW r, OneCaller(r)
  PROVE  Spec => []HistoryIsALedger
<1>1. TypeInv /\ QuoteInv(r) => HistoryIsALedger
  <2> SUFFICES ASSUME TypeInv, QuoteInv(r), Quiet, history # << >>
               PROVE  /\ \A i \in 1..(Len(history) - 1) : history[i].new = history[i + 1].old
                      /\ history[Len(history)].new = amount
    BY DEF HistoryIsALedger
  <2>1. req[r].stage = "idle"
    BY DEF Quiet, OneCaller, Idle
  <2>2. Chained /\ EndsAt(amount)
    BY <2>1 DEF QuoteInv, Books
  <2>3. Len(history) \in Nat /\ DOMAIN history = 1..Len(history)
    BY DEF TypeInv
  <2>4. QED
    BY <2>2, <2>3 DEF Chained, EndsAt
<1>2. QED
  BY <1>1, QuoteInvariant, TypeCorrect, PTL

\* With one request at a time and no failures, when the panel is offered an
\* annex for a new price no annex for an older one is pending, however many
\* there were to expire (expirePendingAnnexes in /quote-update).
THEOREM OfferLeavesNothingPending ==
  ASSUME NEW r, OneCaller(r)
  PROVE  Spec => QuoteLeavesNothingPending
<1> DEFINE Step == suggestion' \notin {suggestion, NoSuggestion} =>
                     \A a \in Annex : annex'[a].status # "pending"
<1>1. TypeInv /\ QuoteInv(r) /\ [Next]_vars => [Step]_vars
  <2> SUFFICES ASSUME TypeInv, QuoteInv(r), Next,
                      suggestion' \notin {suggestion, NoSuggestion}, NEW a \in Annex
               PROVE  annex'[a].status # "pending"
    OBVIOUS
  <2>1. r \in Request /\ annex \in [Annex -> AnnexRow] /\ req \in [Request -> Handler]
        /\ ~ReadFailures /\ ~Crashes /\ Knows(req[r])
    BY DEF OneCaller, TypeInv, QuoteInv
  <2>2. ListPending(r) \/ CheckStatus(r) \/ WriteStatus(r)
    <3>1. PICK s \in Request : Start(s) \/ Continue(s) \/ Abort(s)
      BY DEF Next, Environment, EmployeeSigns, ClientAnswers
    <3>2. s = r
      BY <3>1 DEF OneCaller
    <3>3. ~Start(r)
      BY DEF Start, QuoteUpdate, QuoteUpdateLegacy, CreateAnnex, AcceptAnnex, Webhook,
             ChangeEmail, PatchAmount
    <3>4. ~Abort(r)
      BY DEF Abort
    <3>5. QED
      BY <3>1, <3>2, <3>3, <3>4
      DEF Continue, CreateDocument, AutoSign, CreateRow, ReadService, WriteAmount, WriteEntry
  <2>3. CASE ListPending(r)
    <3>1. ExpireNext(r, {b \in Annex : annex[b].status = "pending"}) /\ UNCHANGED annex
      BY <2>1, <2>3 DEF ListPending
    <3>2. {b \in Annex : annex[b].status = "pending"} = {}
      BY <3>1 DEF ExpireNext
    <3>3. QED
      BY <3>1, <3>2
  <2>4. CASE CheckStatus(r)
    <3>1. KnowsAnnex(req[r]) /\ UNCHANGED annex
      BY <2>1, <2>4 DEF Knows, CheckStatus
    <3>2. /\ ~isAnnexStatusTransitionAllowed(annex[req[r].annex].status, req[r].to)
          /\ req[r].to = "expired" /\ req[r].todo = {}
      BY <2>1, <2>4 DEF CheckStatus, ExpireNext
    <3>3. annex[req[r].annex].status # "pending"
      BY <3>2 DEF isAnnexStatusTransitionAllowed
    <3>4. QED
      BY <3>1, <3>2, <3>3 DEF KnowsAnnex
  <2>5. CASE WriteStatus(r)
    <3>1. KnowsAnnex(req[r]) /\ req[r].annex \in Annex
      BY <2>1, <2>5 DEF Knows, WriteStatus, Handler
    <3>2. req[r].to = "expired" /\ req[r].todo = {}
      BY <2>5 DEF WriteStatus, ExpireNext
    <3>3. annex' = [annex EXCEPT ![req[r].annex].status = "expired"]
      BY <2>1, <2>5, <3>2 DEF WriteStatus
    <3>4. annex'[req[r].annex].status = "expired"
          /\ \A b \in Annex \ {req[r].annex} : annex'[b] = annex[b]
      BY <2>1, <3>1, <3>3 DEF AnnexRow
    <3>5. QED
      BY <3>1, <3>2, <3>4 DEF KnowsAnnex
  <2>6. QED
    BY <2>2, <2>3, <2>4, <2>5
<1>2. QED
  BY <1>1, QuoteInvariant, TypeCorrect, PTL DEF Spec, QuoteLeavesNothingPending
=============================================================================
