------------------------ MODULE ReceiptSigningProofs ------------------------
(***************************************************************************)
(* Proofs about ReceiptSigning, for any number of documents and whatever   *)
(* order webhooks arrive in.  The first part holds however many requests   *)
(* overlap and whatever fails; the second assumes that requests do not     *)
(* overlap and that reads do not fail.                                     *)
(***************************************************************************)
EXTENDS ReceiptSigning, TLAPS

-----------------------------------------------------------------------------
(* The merge of the JSON column.                                           *)

LEMMA PatchTypes == None \in VisualCondition /\ NoPatch \in VisualPatch
BY DEF None, NoPatch, VisualCondition, VisualPatch

\* Merging by key yields a well-formed column, whatever the base is.
LEMMA MergeTypes ==
  ASSUME NEW base \in VisualCondition, NEW input \in VisualPatch
  PROVE  mergeJsonb(base, input) \in VisualCondition
<1>1. DOMAIN None = {"documenso", "employeeSignature", "paperSigned"}
  BY DEF None
<1>2. mergeJsonb(base, input) =
        [documenso |-> mergeJsonb(base, input).documenso,
         employeeSignature |-> mergeJsonb(base, input).employeeSignature,
         paperSigned |-> mergeJsonb(base, input).paperSigned]
  BY <1>1 DEF mergeJsonb
<1>3. /\ mergeJsonb(base, input).documenso \in Receipt \cup {None.documenso}
      /\ mergeJsonb(base, input).employeeSignature \in {"none", "set"}
      /\ mergeJsonb(base, input).paperSigned \in {"none", "set"}
  BY <1>1 DEF mergeJsonb, VisualCondition, VisualPatch, NoPatch
<1>4. QED
  BY <1>2, <1>3 DEF VisualCondition

LEMMA SpreadTypes ==
  ASSUME NEW v \in VisualCondition
  PROVE  Spread(v) \in VisualPatch
<1>1. DOMAIN None = {"documenso", "employeeSignature", "paperSigned"}
  BY DEF None
<1>2. Spread(v) = [documenso |-> Spread(v).documenso,
                   employeeSignature |-> Spread(v).employeeSignature,
                   paperSigned |-> Spread(v).paperSigned]
  BY <1>1 DEF Spread
<1>3. /\ Spread(v).documenso \in Receipt \cup {None.documenso, NoPatch.documenso}
      /\ Spread(v).employeeSignature \in {"none", "set", "keep"}
      /\ Spread(v).paperSigned \in {"none", "set", "keep"}
  BY <1>1 DEF Spread, VisualCondition, NoPatch
<1>4. QED
  BY <1>2, <1>3 DEF VisualPatch

\* Merging takes the documenso key as a unit: from the patch, or from the base.
LEMMA MergeKeepsReceipt ==
  ASSUME NEW base \in VisualCondition, NEW input \in VisualPatch
  PROVE  mergeJsonb(base, input).documenso \in {base.documenso, input.documenso}
BY DEF mergeJsonb, None

LEMMA SpreadKeepsReceipt ==
  ASSUME NEW v \in VisualCondition
  PROVE  Spread(v).documenso \in {v.documenso, NoPatch.documenso}
BY DEF Spread, None

-----------------------------------------------------------------------------
(* Types.                                                                  *)

\* What the local state of a handler has at the stages that rely on it.
Handler ==
  {q \in RequestState :
     /\ q.stage \in {"autosign", "delete"} => q.docId \in Doc
     /\ q.stage = "fetch" => /\ q.patch.documenso \in Receipt
                             /\ q.patch.documenso.docId = q.docId
     /\ q.op = "edit" => q.content \in Content}

TypeInv ==
  /\ vc \in VisualCondition
  /\ content \in Content
  /\ received \in BOOLEAN
  /\ doc \in [Doc -> Document]
  /\ req \in [Request -> Handler]

LEMMA IdleTypes == Idle \in Handler
BY PatchTypes DEF Idle, Handler, RequestState, Stage

LEMMA BeginTypes ==
  ASSUME NEW r \in Request, NEW op, NEW stage \in Stage, NEW patch \in VisualPatch,
         NEW c \in Content \cup {NoContent}, NEW d \in Doc \cup {NoDoc},
         req \in [Request -> Handler], Begin(r, op, stage, patch, c, d),
         stage \in {"autosign", "delete"} => d \in Doc,
         stage # "fetch",
         op = "edit" => c \in Content
  PROVE  req' \in [Request -> Handler]
BY PatchTypes DEF Begin, Handler, RequestState

\* The same for the handlers that carry no content.
LEMMA BeginMergeTypes ==
  ASSUME NEW r \in Request, NEW op, op # "edit", NEW patch \in VisualPatch,
         NEW d \in Doc \cup {NoDoc},
         req \in [Request -> Handler], Begin(r, op, "merge", patch, NoContent, d)
  PROVE  req' \in [Request -> Handler]
BY PatchTypes DEF Begin, Handler, RequestState, Stage

LEMMA BeginDeleteTypes ==
  ASSUME NEW r \in Request, NEW op, op # "edit", NEW patch \in VisualPatch, NEW d \in Doc,
         req \in [Request -> Handler], Begin(r, op, "delete", patch, NoContent, d)
  PROVE  req' \in [Request -> Handler]
BY PatchTypes DEF Begin, Handler, RequestState, Stage

LEMMA BeginFetchTypes ==
  ASSUME NEW r \in Request, NEW op, op # "edit", NEW patch \in VisualPatch, NEW d \in Doc,
         patch.documenso \in Receipt, patch.documenso.docId = d,
         req \in [Request -> Handler], Begin(r, op, "fetch", patch, NoContent, d)
  PROVE  req' \in [Request -> Handler]
BY PatchTypes DEF Begin, Handler, RequestState, Stage

LEMMA GotoTypes ==
  ASSUME NEW r \in Request, NEW stage \in Stage \ {"autosign", "delete", "fetch"},
         req \in [Request -> Handler], Goto(r, stage)
  PROVE  req' \in [Request -> Handler]
BY DEF Goto, Handler, RequestState

LEMMA RespondTypes ==
  ASSUME NEW r \in Request, req \in [Request -> Handler], Respond(r)
  PROVE  req' \in [Request -> Handler]
BY IdleTypes DEF Respond

\* Replacing one key of a patch by a value of its type gives a patch.
LEMMA PatchUpdates ==
  ASSUME NEW p \in VisualPatch
  PROVE  /\ \A x \in Receipt \cup {None.documenso, NoPatch.documenso} :
              [p EXCEPT !.documenso = x] \in VisualPatch
         /\ \A x \in {"none", "set", "keep"} :
              /\ [p EXCEPT !.employeeSignature = x] \in VisualPatch
              /\ [p EXCEPT !.paperSigned = x] \in VisualPatch
BY DEF VisualPatch

\* A patch that is still without the document of the request.
LEMMA ReceiptTypes ==
  ASSUME NEW v \in VisualCondition
  PROVE  /\ v.documenso.docId \in Doc \cup {NoDoc}
         /\ v.documenso # None.documenso => v.documenso \in Receipt
         /\ \A s \in ReceiptStatus : v.documenso # None.documenso =>
              [v.documenso EXCEPT !.status = s] \in Receipt
         /\ v.documenso.status \in ReceiptStatus => v.documenso # None.documenso
BY DEF VisualCondition, Receipt, None, ReceiptStatus, Paper

\* What signing, deleting and creating a document make of it.
LEMMA DocumentTypes ==
  ASSUME doc \in [Doc -> Document], NEW d \in Doc
  PROVE  /\ \A s \in DocState : [doc EXCEPT ![d].state = s] \in [Doc -> Document]
         /\ \A fate \in Fate : [doc EXCEPT ![d].fate = fate] \in [Doc -> Document]
         /\ doc[d].fate \in Fate
BY DEF Document

LEMMA NewDocumentTypes ==
  ASSUME NEW x \in Document, NEW p \in BOOLEAN, NEW c \in Content \cup {NoContent}
  PROVE  [x EXCEPT !.state = "open", !.paper = p, !.content = c] \in Document
BY DEF Document, DocState

LEMMA TypeStep ==
  ASSUME TypeInv, [Next]_vars
  PROVE  TypeInv'
<1> USE DEF TypeInv
<1>0. /\ \A q \in Handler : q \in RequestState
      /\ Spread(vc) \in VisualPatch
      /\ None \in VisualCondition /\ NoPatch \in VisualPatch
  BY SpreadTypes, PatchTypes DEF Handler
<1>1. CASE UNCHANGED vars
  BY <1>1 DEF vars
<1>2. ASSUME NEW r \in Request, UNCHANGED <<vc, content, received, doc>>,
             req' \in [Request -> Handler]
      PROVE  TypeInv'
  BY <1>2
<1>3. CASE Environment
  <2>1. ASSUME NEW d \in Doc, EmployeeSigns(d) PROVE TypeInv'
    BY <2>1 DEF EmployeeSigns, Document, DocState
  <2>2. ASSUME NEW d \in Doc, NEW answer \in {"completed", "declined"},
               ClientAnswers(d, answer)
        PROVE  TypeInv'
    BY <2>2 DEF ClientAnswers, Document, DocState
  <2>3. ASSUME NEW d \in Doc, NEW fate \in {"alive", "deleted"}, DeletionEnds(d, fate)
        PROVE  TypeInv'
    BY <2>3 DEF DeletionEnds, Document, Fate
  <2>4. CASE StatusMoves
    BY <2>4 DEF StatusMoves
  <2>5. QED
    BY <1>3, <2>1, <2>2, <2>3, <2>4 DEF Environment
<1>4. ASSUME NEW r \in Request, Start(r) PROVE TypeInv'
  <2> DEFINE unsigned == [Spread(vc) EXCEPT !.employeeSignature = "none"]
  <2>1. unsigned \in VisualPatch
    BY <1>0, PatchUpdates
  <2>2. ASSUME NEW force \in BOOLEAN, SendElectronic(r, force) PROVE TypeInv'
    BY <2>1, <2>2, BeginTypes DEF SendElectronic, Stage
  <2>3. CASE SignPaper(r)
    BY <2>1, <2>3, BeginTypes DEF SignPaper, Stage
  <2>4. CASE PaperSigned(r)
    <3> DEFINE x == IF vc.documenso = None.documenso THEN None.documenso
                    ELSE [vc.documenso EXCEPT !.status = "paper_signed"]
               p == [Spread(vc) EXCEPT !.paperSigned = "set", !.documenso = x]
    <3>1. x \in Receipt \cup {None.documenso}
      BY ReceiptTypes DEF ReceiptStatus, Paper
    <3>2. p \in VisualPatch
      BY <1>0, <3>1 DEF VisualPatch
    <3>3. QED
      BY <2>4, <3>2, BeginMergeTypes DEF PaperSigned
  <2>5. CASE Sign(r)
    <3>1. [Spread(vc) EXCEPT !.employeeSignature = "set"] \in VisualPatch
      BY <1>0, PatchUpdates
    <3>2. QED
      BY <2>5, <3>1, BeginMergeTypes DEF Sign
  <2>6. CASE Unsign(r)
    <3>1. [Spread(vc) EXCEPT !.employeeSignature = "keep"] \in VisualPatch
      BY <1>0, PatchUpdates
    <3>2. QED
      BY <2>6, <3>1, BeginMergeTypes DEF Unsign
  <2>7. ASSUME NEW admin \in BOOLEAN, InvalidateElectronic(r, admin) PROVE TypeInv'
    <3>1. [Spread(vc) EXCEPT !.documenso = None.documenso] \in VisualPatch
      BY <1>0, PatchUpdates
    <3>2. vc.documenso.docId \in Doc
      BY <2>7, ReceiptTypes DEF InvalidateElectronic, Receipt
    <3>3. QED
      BY <2>7, <3>1, <3>2, BeginDeleteTypes DEF InvalidateElectronic
  <2>8. ASSUME NEW admin \in BOOLEAN, InvalidatePaper(r, admin) PROVE TypeInv'
    <3>1. [Spread(vc) EXCEPT !.documenso = None.documenso, !.paperSigned = "none"]
            \in VisualPatch
      BY <1>0 DEF VisualPatch
    <3>2. vc.documenso # None.documenso => vc.documenso.docId \in Doc
      BY ReceiptTypes DEF Receipt
    <3>3. CASE vc.documenso = None.documenso
      BY <2>8, <3>1, <3>3, BeginMergeTypes, ReceiptTypes DEF InvalidatePaper
    <3>4. CASE vc.documenso # None.documenso
      BY <2>8, <3>1, <3>2, <3>4, BeginDeleteTypes DEF InvalidatePaper
    <3>5. QED
      BY <3>3, <3>4
  <2>9. ASSUME NEW c \in Content, PatchSignificant(r, c) PROVE TypeInv'
    <3> DEFINE expires == vc.documenso.status \in invalidatableStatuses
               p == [documenso |-> IF expires THEN [vc.documenso EXCEPT !.status = "expired"]
                                   ELSE NoPatch.documenso,
                     employeeSignature |-> "none",
                     paperSigned |-> IF vc.paperSigned = "set" THEN "none" ELSE "keep"]
    <3>1. expires => [vc.documenso EXCEPT !.status = "expired"] \in Receipt
      BY ReceiptTypes DEF invalidatableStatuses, ReceiptStatus
    <3>2. p \in VisualPatch
      BY <3>1 DEF VisualPatch
    <3>3. QED
      BY <2>9, <3>2, BeginTypes, ReceiptTypes DEF PatchSignificant, Stage
  <2>10. ASSUME NEW event \in Event, Webhook(r, event) PROVE TypeInv'
    <3>1. Spread(vc).documenso = vc.documenso /\ vc.documenso \in Receipt
      BY <2>10, ReceiptTypes DEF Webhook, Spread, None
    <3>2. EventStatus(event, vc.documenso.status) \in ReceiptStatus
      BY <3>1 DEF EventStatus, Event, Receipt, ReceiptStatus
    <3>3. [Spread(vc) EXCEPT !.documenso.status = EventStatus(event, vc.documenso.status)]
            \in VisualPatch
      BY <1>0, <3>1, <3>2 DEF VisualPatch, Receipt
    <3>4. QED
      BY <2>10, <3>3, BeginMergeTypes, ReceiptTypes DEF Webhook
  <2>11. CASE Poll(r)
    <3>1. Spread(vc).documenso = vc.documenso /\ vc.documenso \in Receipt
      BY <2>11, ReceiptTypes DEF Poll, Spread, None, ReceiptStatus
    <3>2. QED
      BY <1>0, <2>11, <3>1, BeginFetchTypes DEF Poll, Receipt
  <2>12. QED
    BY <1>4, <2>2, <2>3, <2>4, <2>5, <2>6, <2>7, <2>8, <2>9, <2>10, <2>11 DEF Start
<1>5. ASSUME NEW r \in Request, Continue(r) PROVE TypeInv'
  <2>0. req[r] \in Handler /\ req[r] \in RequestState
    BY DEF Handler
  <2>1. CASE CreateDocument(r)
    <3>1. CASE Respond(r) /\ UNCHANGED doc
      BY <2>1, <3>1, RespondTypes DEF CreateDocument
    <3>2. ASSUME NEW d \in Doc,
                 doc' = [doc EXCEPT ![d].state = "open", ![d].paper = (req[r].op = "paper"),
                                    ![d].content = req[r].content],
                 req' = [req EXCEPT ![r].stage = "autosign", ![r].docId = d]
          PROVE  TypeInv'
      <4>1. [doc[d] EXCEPT !.state = "open", !.paper = (req[r].op = "paper"),
                           !.content = req[r].content] \in Document
        <5>1. req[r].content \in Content \cup {NoContent}
          BY <2>0 DEF RequestState
        <5>2. doc[d] \in Document
          BY <2>0, <3>2
        <5>3. QED
          BY <5>1, <5>2, NewDocumentTypes
      <4>2. [req[r] EXCEPT !.stage = "autosign", !.docId = d] \in Handler
        BY <2>0 DEF Handler, RequestState, Stage
      <4>3. QED
        BY <2>1, <3>2, <4>1, <4>2 DEF CreateDocument
    <3>3. QED
      BY <2>1, <3>1, <3>2 DEF CreateDocument
  <2>2. CASE AutoSign(r)
    <3> DEFINE d == req[r].docId
    <3>1. d \in Doc
      BY <2>0, <2>2 DEF AutoSign, Handler
    <3>2. ASSUME NEW s \in ReceiptStatus,
                 req' = [req EXCEPT ![r].stage = "merge",
                                    ![r].patch.documenso = [docId |-> d, status |-> s]]
          PROVE  req' \in [Request -> Handler]
      <4>1. [req[r].patch EXCEPT !.documenso = [docId |-> d, status |-> s]] \in VisualPatch
        BY <2>0, <3>1, PatchUpdates DEF RequestState, Receipt
      <4>2. QED
        BY <2>0, <3>2, <4>1 DEF Handler, RequestState, Stage
    <3>3. doc' \in [Doc -> Document]
      <4>1. {"half", "completed"} \subseteq DocState
        BY DEF DocState
      <4>2. doc' = doc \/ \E s \in {"half", "completed"} : doc' = [doc EXCEPT ![d].state = s]
        BY <2>2 DEF AutoSign
      <4>3. QED
        BY <3>1, <4>1, <4>2, DocumentTypes
    <3>4. QED
      BY <2>2, <3>2, <3>3, RespondTypes DEF AutoSign, ReceiptStatus, Paper
  <2>3. CASE DeleteDocument(r)
    <3>1. req[r].docId \in Doc
      <4>1. req[r] \in Handler /\ req[r].stage = "delete"
        BY <2>0, <2>3 DEF DeleteDocument, At
      <4>2. QED
        BY <4>1 DEF Handler
    <3>2. PICK fate \in {doc[req[r].docId].fate, "deleted"} :
               doc' = [doc EXCEPT ![req[r].docId].fate = fate]
      BY <2>3 DEF DeleteDocument
    <3>3. doc' \in [Doc -> Document]
      BY <3>1, <3>2, DocumentTypes DEF Fate
    <3>4. QED
      BY <2>3, <3>3, GotoTypes DEF DeleteDocument, Stage
  <2>4. CASE CheckLock(r)
    <3>1. doc' \in [Doc -> Document]
      BY <2>4 DEF CheckLock, Document, Fate
    <3>2. QED
      BY <2>4, <3>1, GotoTypes, RespondTypes DEF CheckLock, Stage
  <2>5. CASE GetDocument(r)
    <3>1. CASE Respond(r)
      BY <2>5, <3>1, RespondTypes DEF GetDocument
    <3>2. ASSUME NEW s \in ReceiptStatus,
                 req' = [req EXCEPT ![r].stage = "merge", ![r].patch.documenso.status = s]
          PROVE  req' \in [Request -> Handler]
      <4>1. req[r].patch \in VisualPatch /\ req[r].patch.documenso \in Receipt
        BY <2>0, <2>5 DEF GetDocument, At, Handler, RequestState
      <4>2. [req[r].patch EXCEPT !.documenso.status = s] \in VisualPatch
        BY <4>1 DEF VisualPatch, Receipt
      <4>3. [req[r] EXCEPT !.stage = "merge", !.patch.documenso.status = s] \in Handler
        BY <2>0, <4>2 DEF Handler, RequestState, Stage
      <4>4. QED
        BY <3>2, <4>3
    <3>3. \A s \in DOMAIN PolledStatus : PolledStatus[s] \in ReceiptStatus
      BY DEF PolledStatus, ReceiptStatus
    <3>4. QED
      BY <2>5, <3>1, <3>2, <3>3 DEF GetDocument
  <2>6. CASE PreFetch(r)
    BY <2>0, <2>6, GotoTypes DEF PreFetch, Handler, RequestState, Stage
  <2>7. CASE UpdateItem(r)
    <3>1. vc' \in VisualCondition
      BY <2>0, <2>7, MergeTypes DEF UpdateItem, RequestState
    <3>2. content' \in Content
      BY <2>0, <2>7 DEF UpdateItem, Handler
    <3>3. QED
      BY <2>7, <3>1, <3>2, RespondTypes DEF UpdateItem
  <2>8. QED
    BY <1>5, <2>1, <2>2, <2>3, <2>4, <2>5, <2>6, <2>7 DEF Continue
<1>6. ASSUME NEW r \in Request, Abort(r) PROVE TypeInv'
  BY <1>2, <1>6, RespondTypes DEF Abort
<1>7. QED
  BY <1>1, <1>3, <1>4, <1>5, <1>6 DEF Next

THEOREM TypeInvariant == Spec => []TypeInv
<1>1. Init => TypeInv
  BY IdleTypes, PatchTypes DEF Init, TypeInv, Document, DocState, Fate
<1>2. TypeInv /\ [Next]_vars => TypeInv'
  BY TypeStep
<1>3. QED
  BY <1>1, <1>2, PTL DEF Spec

\* The variables always have the types of the model: every patch a handler
\* builds and every merge of it into the column is well formed.
THEOREM TypeCorrect == Spec => []TypeOK
<1>1. TypeInv => TypeOK
  BY DEF TypeInv, TypeOK, Handler
<1>2. QED
  BY <1>1, TypeInvariant, PTL

-----------------------------------------------------------------------------
(* Every status is earned.                                                 *)

Key == Receipt \cup {None.documenso, NoPatch.documenso}

\* A document does not vanish, change its flow or take an answer back.
Progress == \A d \in Doc :
  /\ doc[d].state \in {"completed", "declined"} => doc'[d].state = doc[d].state
  /\ doc[d].state # "none" => doc'[d].state # "none" /\ doc'[d].paper = doc[d].paper

LEMMA DocumentsProgress ==
  ASSUME TypeInv, [Next]_vars
  PROVE  Progress
<1> USE DEF TypeInv, Progress
<1>1. Progress
  <2>1. CASE UNCHANGED doc
    BY <2>1
  <2>2. ASSUME NEW d \in Doc, EmployeeSigns(d) PROVE Progress
    BY <2>2 DEF EmployeeSigns, Document
  <2>3. ASSUME NEW d \in Doc, NEW answer \in {"completed", "declined"},
               ClientAnswers(d, answer)
        PROVE  Progress
    BY <2>3 DEF ClientAnswers, Document
  <2>4. ASSUME NEW d \in Doc, NEW fate \in {"alive", "deleted"}, DeletionEnds(d, fate)
        PROVE  Progress
    BY <2>4 DEF DeletionEnds, Document
  <2>5. ASSUME NEW r \in Request, CreateDocument(r) PROVE Progress
    BY <2>5 DEF CreateDocument, Document
  <2>6. ASSUME NEW r \in Request, AutoSign(r) PROVE Progress
    BY <2>6 DEF AutoSign, Document
  <2>7. ASSUME NEW r \in Request, DeleteDocument(r) PROVE Progress
    BY <2>7 DEF DeleteDocument, Document
  <2>8. ASSUME NEW r \in Request, CheckLock(r) PROVE Progress
    BY <2>8 DEF CheckLock, Document
  <2>9. ASSUME NEW r \in Request, Start(r) PROVE UNCHANGED doc
    BY <2>9 DEF Start, SendElectronic, SignPaper, PaperSigned, Sign, Unsign,
       InvalidateElectronic, InvalidatePaper, PatchSignificant, Webhook, Poll
  <2>10. ASSUME NEW r \in Request, GetDocument(r) \/ PreFetch(r) \/ UpdateItem(r) \/ Abort(r)
         PROVE  UNCHANGED doc
    BY <2>10 DEF GetDocument, PreFetch, UpdateItem, Abort
  <2>11. CASE StatusMoves
    BY <2>1, <2>11 DEF StatusMoves
  <2>12. CASE UNCHANGED vars
    BY <2>1, <2>12 DEF vars
  <2>13. QED
    BY <2>1, <2>2, <2>3, <2>4, <2>5, <2>6, <2>7, <2>8, <2>9, <2>10, <2>11, <2>12
       DEF Next, Environment, Continue
<1>2. QED
  BY <1>1

\* So what was earned stays earned.
LEMMA EarnedIsStable ==
  ASSUME TypeInv, [Next]_vars, NEW x \in Key, Earned(doc, x)
  PROVE  Earned(doc', x)
<1>1. x.status \in {"signed", "rejected", "employee_signed", "paper_pending"} => x.docId \in Doc
  BY DEF Key, None, NoPatch, Receipt
<1>2. QED
  BY <1>1, DocumentsProgress DEF Earned, Progress

CarriesEarned(documents, q) ==
  /\ Earned(documents, q.patch.documenso)
  /\ Earned(documents, q.before.documenso)
  /\ q.stage = "autosign" => documents[q.docId].state # "none"

\* What is on the order is earned, and so is everything in flight towards it.
EarnedInv ==
  /\ Earned(doc, vc.documenso)
  /\ \A r \in Request : CarriesEarned(doc, req[r])

\* These statuses claim nothing about Documenso.
LEMMA NothingClaimed ==
  ASSUME NEW documents, NEW x,
         x.status \in {"none", "keep", "sent", "expired", "paper_signed"}
  PROVE  Earned(documents, x)
BY DEF Earned

LEMMA EarnedStep ==
  ASSUME TypeInv, EarnedInv, [Next]_vars
  PROVE  EarnedInv'
<1> USE DEF TypeInv
<1>1. /\ vc.documenso \in Key /\ None.documenso \in Key /\ NoPatch.documenso \in Key
      /\ Spread(vc).documenso \in {vc.documenso, NoPatch.documenso}
      /\ \A r \in Request : /\ req[r].patch.documenso \in Key
                            /\ req[r].before.documenso \in Key
  <2>1. \A r \in Request : req[r].patch \in VisualPatch /\ req[r].before \in VisualCondition
    BY DEF Handler, RequestState
  <2>2. QED
    BY <2>1, SpreadKeepsReceipt DEF Key, VisualCondition, VisualPatch
<1>2. /\ Earned(doc', vc.documenso)
      /\ \A r \in Request : CarriesEarned(doc', req[r])
  <2>1. \A r \in Request : req[r].stage = "autosign" => req[r].docId \in Doc
    BY DEF Handler
  <2>2. QED
    BY <1>1, <2>1, EarnedIsStable, DocumentsProgress DEF EarnedInv, CarriesEarned, Progress
<1>3. /\ Earned(doc', None.documenso) /\ Earned(doc', NoPatch.documenso)
      /\ Earned(doc', Spread(vc).documenso)
  BY <1>1, <1>2, NothingClaimed DEF None, NoPatch
<1>4. CarriesEarned(doc', Idle)
  BY <1>3 DEF CarriesEarned, Idle
<1>5. CASE UNCHANGED <<vc, req>>
  BY <1>2, <1>5 DEF EarnedInv
<1>6. ASSUME NEW r \in Request, UNCHANGED vc, CarriesEarned(doc', req'[r]),
             \A s \in Request \ {r} : req'[s] = req[s]
      PROVE  EarnedInv'
  BY <1>2, <1>6 DEF EarnedInv
<1>7. ASSUME NEW r \in Request, UNCHANGED vc, Respond(r) PROVE EarnedInv'
  BY <1>4, <1>6, <1>7 DEF Respond
<1>8. ASSUME NEW r \in Request, UNCHANGED vc, NEW stage \in Stage \ {"autosign"},
             Goto(r, stage)
      PROVE  EarnedInv'
  <2>1. /\ req'[r].patch = req[r].patch /\ req'[r].before = req[r].before
        /\ req'[r].stage # "autosign"
    BY <1>8 DEF Goto, Handler, RequestState
  <2>2. QED
    BY <1>2, <1>6, <1>8, <2>1 DEF Goto, CarriesEarned
<1>9. ASSUME NEW r \in Request, UNCHANGED vc, NEW op, NEW stage, NEW patch, NEW c, NEW d,
             Begin(r, op, stage, patch, c, d), Earned(doc', patch.documenso),
             stage # "autosign"
      PROVE  EarnedInv'
  <2>1. req'[r].patch = patch /\ req'[r].before = None /\ req'[r].stage # "autosign"
    BY <1>9 DEF Begin
  <2>2. QED
    BY <1>3, <1>6, <1>9, <2>1 DEF Begin, CarriesEarned
<1>10. CASE UNCHANGED vars
  BY <1>5, <1>10 DEF vars
<1>11. CASE Environment
  BY <1>5, <1>11 DEF Environment, EmployeeSigns, ClientAnswers, DeletionEnds, StatusMoves
<1>12. ASSUME NEW r \in Request, Start(r) PROVE EarnedInv'
  <2>0. Spread(vc) \in VisualPatch
    BY SpreadTypes
  <2>1. ASSUME NEW force \in BOOLEAN, SendElectronic(r, force) PROVE EarnedInv'
    BY <1>3, <1>9, <2>0, <2>1 DEF SendElectronic, VisualPatch
  <2>2. CASE SignPaper(r)
    BY <1>3, <1>9, <2>0, <2>2 DEF SignPaper, VisualPatch
  <2>3. CASE PaperSigned(r)
    <3> DEFINE x == IF vc.documenso = None.documenso THEN None.documenso
                    ELSE [vc.documenso EXCEPT !.status = "paper_signed"]
               p == [Spread(vc) EXCEPT !.paperSigned = "set", !.documenso = x]
    <3>1. x.status \in {"none", "paper_signed"}
      BY DEF VisualCondition, Receipt, None
    <3>2. p.documenso = x
      BY <2>0 DEF VisualPatch
    <3>3. Earned(doc', p.documenso)
      BY <3>1, <3>2 DEF Earned
    <3>4. UNCHANGED vc /\ Begin(r, "paper_signed", "merge", p, NoContent, NoDoc)
      BY <2>3 DEF PaperSigned
    <3>5. QED
      BY <1>9, <3>3, <3>4
  <2>4. CASE Sign(r)
    BY <1>3, <1>9, <2>0, <2>4 DEF Sign, VisualPatch
  <2>5. CASE Unsign(r)
    BY <1>3, <1>9, <2>0, <2>5 DEF Unsign, VisualPatch
  <2>6. ASSUME NEW admin \in BOOLEAN, InvalidateElectronic(r, admin) PROVE EarnedInv'
    BY <1>3, <1>9, <2>0, <2>6 DEF InvalidateElectronic, VisualPatch
  <2>7. ASSUME NEW admin \in BOOLEAN, InvalidatePaper(r, admin) PROVE EarnedInv'
    <3>1. [Spread(vc) EXCEPT !.documenso = None.documenso,
                             !.paperSigned = "none"].documenso = None.documenso
      BY <2>0 DEF VisualPatch
    <3>2. QED
      BY <1>3, <1>9, <2>7, <3>1 DEF InvalidatePaper
  <2>8. ASSUME NEW c \in Content, PatchSignificant(r, c) PROVE EarnedInv'
    <3> DEFINE x == IF vc.documenso.status \in invalidatableStatuses
                    THEN [vc.documenso EXCEPT !.status = "expired"] ELSE NoPatch.documenso
           p == [documenso |-> x, employeeSignature |-> "none",
                 paperSigned |-> IF vc.paperSigned = "set" THEN "none" ELSE "keep"]
    <3>1. x.status \in {"expired", "keep"}
      BY DEF VisualCondition, Receipt, None, NoPatch
    <3>2. Earned(doc', p.documenso)
      BY <3>1 DEF Earned
    <3>3. /\ UNCHANGED vc
          /\ Begin(r, "edit", "lock", p, c, IF vc.documenso.status \in invalidatableStatuses
                                            THEN vc.documenso.docId ELSE NoDoc)
      BY <2>8 DEF PatchSignificant
    <3>4. QED
      BY <1>9, <3>2, <3>3
  <2>9. ASSUME NEW event \in Event, Webhook(r, event) PROVE EarnedInv'
    <3> DEFINE cur == vc.documenso
               p == [Spread(vc) EXCEPT !.documenso.status = EventStatus(event, cur.status)]
    <3>1. cur \in Receipt /\ Spread(vc).documenso = cur /\ Emitted(cur.docId, event)
      BY <2>9, ReceiptTypes DEF Webhook, Spread, None
    <3>2. p.documenso = [docId |-> cur.docId, status |-> EventStatus(event, cur.status)]
      BY <2>0, <3>1 DEF VisualPatch, Receipt
    <3>3. Earned(doc', cur) /\ UNCHANGED <<vc, doc>>
      BY <1>2, <2>9 DEF Webhook
    <3>4. Earned(doc', p.documenso)
      <4>1. CASE event = "half"
        BY <3>1, <3>2, <3>3, <4>1 DEF Earned, Emitted, EventStatus
      <4>2. CASE event = "all" /\ cur.status \in Paper
        <5>1. p.documenso = cur
          BY <3>1, <3>2, <4>2 DEF EventStatus, Receipt
        <5>2. QED
          BY <3>3, <5>1
      <4>3. CASE event = "all" /\ cur.status \notin Paper
        BY <3>1, <3>2, <3>3, <4>3 DEF Earned, Emitted, EventStatus
      <4>4. CASE event = "rejected"
        BY <3>1, <3>2, <3>3, <4>4 DEF Earned, Emitted, EventStatus
      <4>5. QED
        BY <4>1, <4>2, <4>3, <4>4 DEF Event
    <3>5. UNCHANGED vc /\ Begin(r, "webhook", "merge", p, NoContent, cur.docId)
      BY <2>9 DEF Webhook
    <3>6. QED
      BY <1>9, <3>4, <3>5
  <2>10. CASE Poll(r)
    BY <1>3, <1>9, <2>10 DEF Poll
  <2>11. QED
    BY <1>12, <2>1, <2>2, <2>3, <2>4, <2>5, <2>6, <2>7, <2>8, <2>9, <2>10 DEF Start
<1>13. ASSUME NEW r \in Request, Continue(r) PROVE EarnedInv'
  <2>0. /\ req[r] \in Handler /\ req[r] \in RequestState
        /\ req[r].patch \in VisualPatch /\ req[r].before \in VisualCondition
    BY DEF Handler, RequestState
  <2>1. CASE CreateDocument(r)
    <3>1. CASE Respond(r)
      BY <1>7, <2>1, <3>1 DEF CreateDocument
    <3>2. ASSUME NEW d \in Doc,
                 doc' = [doc EXCEPT ![d].state = "open", ![d].paper = (req[r].op = "paper"),
                                    ![d].content = req[r].content],
                 req' = [req EXCEPT ![r].stage = "autosign", ![r].docId = d]
          PROVE  EarnedInv'
      <4>1. /\ req'[r].patch = req[r].patch /\ req'[r].before = req[r].before
            /\ req'[r].docId = d /\ doc'[d].state # "none"
        BY <2>0, <3>2 DEF RequestState, Document
      <4>2. QED
        BY <1>2, <1>6, <2>1, <3>2, <4>1 DEF CreateDocument, CarriesEarned
    <3>3. QED
      BY <2>1, <3>1, <3>2 DEF CreateDocument
  <2>2. CASE AutoSign(r)
    <3> DEFINE d == req[r].docId
    <3>1. CASE Respond(r)
      BY <1>7, <2>2, <3>1 DEF AutoSign
    <3>2. ASSUME NEW s, Earned(doc', [docId |-> d, status |-> s]),
                 req' = [req EXCEPT ![r].stage = "merge",
                                    ![r].patch.documenso = [docId |-> d, status |-> s]]
          PROVE  EarnedInv'
      <4>1. /\ req'[r].patch.documenso = [docId |-> d, status |-> s]
            /\ req'[r].before = req[r].before /\ req'[r].stage # "autosign"
        BY <2>0, <3>2 DEF RequestState, VisualPatch
      <4>2. QED
        BY <1>2, <1>6, <2>2, <3>2, <4>1 DEF AutoSign, CarriesEarned
    <3>3. Earned(doc', [docId |-> d, status |-> "sent"])
      BY NothingClaimed
    <3>4. d \in Doc
      BY <2>0, <2>2 DEF AutoSign, Handler
    <3>5. doc'[d].state # "none" /\ doc'[d].paper = doc[d].paper
      BY <2>2, <3>4, DocumentsProgress DEF AutoSign, EarnedInv, CarriesEarned, Progress
    <3>6. Earned(doc', [docId |-> d, status |-> IF doc[d].paper THEN "paper_pending"
                                                ELSE "employee_signed"])
      BY <3>4, <3>5 DEF Earned, Document
    <3>7. QED
      BY <2>2, <3>1, <3>2, <3>3, <3>6 DEF AutoSign
  <2>3. CASE DeleteDocument(r)
    BY <1>8, <2>3 DEF DeleteDocument, Stage
  <2>4. CASE CheckLock(r)
    BY <1>7, <1>8, <2>4 DEF CheckLock, Stage
  <2>5. CASE GetDocument(r)
    <3> DEFINE d == req[r].docId
    <3>1. CASE Respond(r)
      BY <1>7, <2>5, <3>1 DEF GetDocument
    <3>2. CASE /\ doc[d].state \in DOMAIN PolledStatus
               /\ req' = [req EXCEPT ![r].stage = "merge",
                                     ![r].patch.documenso.status = PolledStatus[doc[d].state]]
      <4> DEFINE s == PolledStatus[doc[d].state]
      <4>1. /\ req'[r].patch.documenso = [req[r].patch.documenso EXCEPT !.status = s]
            /\ req'[r].before = req[r].before /\ req'[r].stage # "autosign"
        BY <2>0, <3>2 DEF RequestState, VisualPatch
      <4>2. req[r].patch.documenso \in Receipt /\ req[r].patch.documenso.docId = d
        BY <2>0, <2>5 DEF GetDocument, At, Handler
      <4>3. req'[r].patch.documenso = [docId |-> d, status |-> s]
        BY <4>1, <4>2 DEF Receipt
      <4>4. Earned(doc', [docId |-> d, status |-> s])
        BY <2>5, <3>2 DEF GetDocument, PolledStatus, Earned
      <4>5. QED
        BY <1>2, <1>6, <2>5, <3>2, <4>1, <4>3, <4>4 DEF GetDocument, CarriesEarned
    <3>3. QED
      BY <2>5, <3>1, <3>2 DEF GetDocument
  <2>6. CASE PreFetch(r)
    <3>1. CASE req' = [req EXCEPT ![r].stage = "write", ![r].before = vc]
      <4>1. /\ req'[r].patch = req[r].patch /\ req'[r].before = vc
            /\ req'[r].stage # "autosign"
        BY <2>0, <3>1 DEF RequestState
      <4>2. QED
        BY <1>2, <1>6, <2>6, <3>1, <4>1 DEF PreFetch, CarriesEarned, EarnedInv
    <3>2. QED
      BY <1>8, <2>6, <3>1 DEF PreFetch, Stage
  <2>7. CASE UpdateItem(r)
    <3>1. vc'.documenso \in {req[r].before.documenso, req[r].patch.documenso}
      BY <2>0, <2>7, MergeKeepsReceipt DEF UpdateItem
    <3>2. Earned(doc', vc'.documenso)
      BY <1>2, <3>1 DEF CarriesEarned
    <3>3. QED
      BY <1>2, <1>4, <2>7, <3>2 DEF UpdateItem, Respond, EarnedInv
  <2>8. QED
    BY <1>13, <2>1, <2>2, <2>3, <2>4, <2>5, <2>6, <2>7 DEF Continue
<1>14. ASSUME NEW r \in Request, Abort(r) PROVE EarnedInv'
  BY <1>7, <1>14 DEF Abort
<1>15. QED
  BY <1>10, <1>11, <1>12, <1>13, <1>14 DEF Next

THEOREM EarnedInvariant == Spec => []EarnedInv
<1>1. Init => EarnedInv
  BY NothingClaimed DEF Init, EarnedInv, CarriesEarned, Idle, None, NoPatch
<1>2. TypeInv /\ EarnedInv /\ [Next]_vars => EarnedInv'
  BY EarnedStep
<1>3. QED
  BY <1>1, <1>2, TypeInvariant, PTL DEF Spec

\* The order never shows a signature or a refusal of the customer that its
\* document does not have in Documenso, and never takes a document of one flow
\* for the other, however handlers, webhooks and failures interleave.
THEOREM StatusesAreEarned == Spec => []StatusIsEarned
<1>1. EarnedInv => StatusIsEarned
  BY DEF EarnedInv, StatusIsEarned
<1>2. QED
  BY <1>1, EarnedInvariant, PTL

-----------------------------------------------------------------------------
(* A forgotten document does not come back.                                *)

Carries(q, d) == d \in {q.docId, q.patch.documenso.docId, q.before.documenso.docId}

LEMMA ForgottenStep ==
  ASSUME TypeInv, [Next]_vars, NEW d \in Doc, Forgotten(d)
  PROVE  Forgotten(d)'
<1> USE DEF TypeInv
<1>1. /\ d # NoDoc /\ doc[d].state # "none" /\ vc.documenso.docId # d
      /\ \A r \in Request : ~Carries(req[r], d)
      /\ Spread(vc) \in VisualPatch /\ Spread(vc).documenso.docId # d
  <2>1. Spread(vc).documenso \in {vc.documenso, NoPatch.documenso}
    BY SpreadKeepsReceipt
  <2>2. QED
    BY <2>1, SpreadTypes, ConstantsAssumption DEF Forgotten, Carries, NoPatch
<1>2. ~Carries(Idle, d)
  BY <1>1 DEF Carries, Idle, None, NoPatch
<1>3. ASSUME doc'[d].state # "none", vc'.documenso.docId # d,
             NEW r \in Request, \A s \in Request \ {r} : req'[s] = req[s],
             ~Carries(req'[r], d)
      PROVE  Forgotten(d)'
  BY <1>1, <1>3 DEF Forgotten, Carries
<1>4. CASE UNCHANGED vars
  BY <1>4 DEF vars, Forgotten
<1>5. CASE Environment
  <2>1. UNCHANGED <<vc, req>> /\ doc'[d].state # "none"
    BY <1>1, <1>5 DEF Environment, EmployeeSigns, ClientAnswers, DeletionEnds, StatusMoves,
       Document
  <2>2. QED
    BY <2>1 DEF Forgotten
<1>6. ASSUME NEW r \in Request, UNCHANGED vc, doc'[d].state # "none", Respond(r)
      PROVE  Forgotten(d)'
  BY <1>1, <1>2, <1>3, <1>6 DEF Respond
<1>7. ASSUME NEW r \in Request, UNCHANGED vc, doc'[d].state # "none",
             NEW stage \in Stage, Goto(r, stage)
      PROVE  Forgotten(d)'
  <2>1. /\ req'[r].docId = req[r].docId /\ req'[r].patch = req[r].patch
        /\ req'[r].before = req[r].before
    BY <1>7 DEF Goto, Handler, RequestState
  <2>2. QED
    BY <1>1, <1>3, <1>7, <2>1 DEF Goto, Carries
<1>8. ASSUME NEW r \in Request, UNCHANGED <<vc, doc>>,
             NEW op, NEW stage, NEW patch, NEW c, NEW e,
             Begin(r, op, stage, patch, c, e), patch.documenso.docId # d, e # d
      PROVE  Forgotten(d)'
  <2>1. req'[r].docId = e /\ req'[r].patch = patch /\ req'[r].before = None
    BY <1>8 DEF Begin
  <2>2. ~Carries(req'[r], d)
    BY <1>1, <1>8, <2>1 DEF Carries, None
  <2>3. QED
    BY <1>1, <1>3, <1>8, <2>2 DEF Begin
<1>9. ASSUME NEW r \in Request, Start(r) PROVE Forgotten(d)'
  <2>1. ASSUME NEW force \in BOOLEAN, SendElectronic(r, force) PROVE Forgotten(d)'
    BY <1>1, <1>8, <2>1 DEF SendElectronic, VisualPatch
  <2>2. CASE SignPaper(r)
    BY <1>1, <1>8, <2>2 DEF SignPaper, VisualPatch
  <2>3. CASE PaperSigned(r)
    <3> DEFINE x == IF vc.documenso = None.documenso THEN None.documenso
                    ELSE [vc.documenso EXCEPT !.status = "paper_signed"]
               p == [Spread(vc) EXCEPT !.paperSigned = "set", !.documenso = x]
    <3>1. p.documenso.docId # d
      BY <1>1 DEF VisualPatch, VisualCondition, Receipt, None
    <3>2. UNCHANGED <<vc, doc>> /\ Begin(r, "paper_signed", "merge", p, NoContent, NoDoc)
      BY <2>3 DEF PaperSigned
    <3>3. QED
      BY <1>1, <1>8, <3>1, <3>2
  <2>4. CASE Sign(r)
    BY <1>1, <1>8, <2>4 DEF Sign, VisualPatch
  <2>5. CASE Unsign(r)
    BY <1>1, <1>8, <2>5 DEF Unsign, VisualPatch
  <2>6. ASSUME NEW admin \in BOOLEAN, InvalidateElectronic(r, admin) PROVE Forgotten(d)'
    BY <1>1, <1>8, <2>6 DEF InvalidateElectronic, VisualPatch, None
  <2>7. ASSUME NEW admin \in BOOLEAN, InvalidatePaper(r, admin) PROVE Forgotten(d)'
    <3>1. [Spread(vc) EXCEPT !.documenso = None.documenso,
                             !.paperSigned = "none"].documenso.docId # d
      BY <1>1 DEF VisualPatch, None
    <3>2. QED
      BY <1>1, <1>8, <2>7, <3>1 DEF InvalidatePaper
  <2>8. ASSUME NEW c \in Content, PatchSignificant(r, c) PROVE Forgotten(d)'
    <3> DEFINE expires == vc.documenso.status \in invalidatableStatuses
               p == [documenso |-> IF expires THEN [vc.documenso EXCEPT !.status = "expired"]
                                   ELSE NoPatch.documenso,
                     employeeSignature |-> "none",
                     paperSigned |-> IF vc.paperSigned = "set" THEN "none" ELSE "keep"]
               e == IF expires THEN vc.documenso.docId ELSE NoDoc
    <3>1. p.documenso.docId # d /\ e # d
      BY <1>1 DEF VisualCondition, Receipt, None, NoPatch
    <3>2. UNCHANGED <<vc, doc>> /\ Begin(r, "edit", "lock", p, c, e)
      BY <2>8 DEF PatchSignificant
    <3>3. QED
      BY <1>8, <3>1, <3>2
  <2>9. ASSUME NEW event \in Event, Webhook(r, event) PROVE Forgotten(d)'
    <3> DEFINE cur == vc.documenso
               p == [Spread(vc) EXCEPT !.documenso.status = EventStatus(event, cur.status)]
    <3>1. Spread(vc).documenso = cur /\ cur \in Receipt
      BY <2>9, ReceiptTypes DEF Webhook, Spread, None
    <3>2. p.documenso = [docId |-> cur.docId, status |-> EventStatus(event, cur.status)]
      BY <1>1, <3>1 DEF VisualPatch, Receipt
    <3>3. UNCHANGED <<vc, doc>> /\ Begin(r, "webhook", "merge", p, NoContent, cur.docId)
      BY <2>9 DEF Webhook
    <3>4. p.documenso.docId # d /\ cur.docId # d
      BY <1>1, <3>2
    <3>5. QED
      BY <1>8, <3>3, <3>4
  <2>10. CASE Poll(r)
    BY <1>1, <1>8, <2>10 DEF Poll
  <2>11. QED
    BY <1>9, <2>1, <2>2, <2>3, <2>4, <2>5, <2>6, <2>7, <2>8, <2>9, <2>10 DEF Start
<1>10. ASSUME NEW r \in Request, Continue(r) PROVE Forgotten(d)'
  <2>0. /\ req[r] \in Handler /\ req[r] \in RequestState /\ ~Carries(req[r], d)
        /\ req[r].patch \in VisualPatch /\ req[r].before \in VisualCondition
    BY <1>1 DEF Handler, RequestState
  <2>1. CASE CreateDocument(r)
    <3>1. CASE Respond(r) /\ UNCHANGED doc
      BY <1>1, <1>6, <2>1, <3>1 DEF CreateDocument
    <3>2. ASSUME NEW e \in Doc, doc[e].state = "none",
                 doc' = [doc EXCEPT ![e].state = "open", ![e].paper = (req[r].op = "paper"),
                                    ![e].content = req[r].content],
                 req' = [req EXCEPT ![r].stage = "autosign", ![r].docId = e]
          PROVE  Forgotten(d)'
      <4>1. e # d /\ doc'[d] = doc[d] /\ UNCHANGED vc
        BY <1>1, <2>1, <3>2 DEF CreateDocument
      <4>2. /\ req'[r].docId = e /\ req'[r].patch = req[r].patch
            /\ req'[r].before = req[r].before
        BY <2>0, <3>2 DEF RequestState
      <4>3. QED
        BY <1>1, <1>3, <2>0, <3>2, <4>1, <4>2 DEF Carries
    <3>3. QED
      BY <2>1, <3>1, <3>2 DEF CreateDocument
  <2>2. CASE AutoSign(r)
    <3>1. UNCHANGED vc /\ doc'[d].state # "none"
      BY <1>1, <2>2 DEF AutoSign, Document
    <3>2. CASE Respond(r)
      BY <1>6, <3>1, <3>2
    <3>3. ASSUME NEW s,
                 req' = [req EXCEPT ![r].stage = "merge",
                           ![r].patch.documenso = [docId |-> req[r].docId, status |-> s]]
          PROVE  Forgotten(d)'
      <4>1. /\ req'[r].docId = req[r].docId /\ req'[r].before = req[r].before
            /\ req'[r].patch.documenso = [docId |-> req[r].docId, status |-> s]
        BY <2>0, <3>3 DEF RequestState, VisualPatch
      <4>2. QED
        BY <1>1, <1>3, <2>0, <3>1, <3>3, <4>1 DEF Carries
    <3>4. QED
      BY <2>2, <3>2, <3>3 DEF AutoSign
  <2>3. CASE DeleteDocument(r)
    <3>1. doc'[d].state # "none"
      BY <1>1, <2>3 DEF DeleteDocument, Document
    <3>2. QED
      BY <1>7, <2>3, <3>1 DEF DeleteDocument, Stage
  <2>4. CASE CheckLock(r)
    <3>1. doc'[d].state # "none"
      BY <1>1, <2>4 DEF CheckLock, Document
    <3>2. QED
      BY <1>6, <1>7, <2>4, <3>1 DEF CheckLock, Stage
  <2>5. CASE GetDocument(r)
    <3>1. CASE Respond(r)
      BY <1>1, <1>6, <2>5, <3>1 DEF GetDocument
    <3>2. ASSUME NEW s,
                 req' = [req EXCEPT ![r].stage = "merge", ![r].patch.documenso.status = s]
          PROVE  Forgotten(d)'
      <4>1. /\ req'[r].docId = req[r].docId /\ req'[r].before = req[r].before
            /\ req'[r].patch.documenso = [req[r].patch.documenso EXCEPT !.status = s]
        BY <2>0, <3>2 DEF RequestState, VisualPatch
      <4>2. req[r].patch.documenso \in Receipt
        BY <2>0, <2>5 DEF GetDocument, At, Handler
      <4>3. req'[r].patch.documenso.docId = req[r].patch.documenso.docId
        BY <4>1, <4>2 DEF Receipt
      <4>4. QED
        BY <1>1, <1>3, <2>0, <2>5, <3>2, <4>1, <4>3 DEF GetDocument, Carries
    <3>3. QED
      BY <2>5, <3>1, <3>2 DEF GetDocument
  <2>6. CASE PreFetch(r)
    <3>1. CASE req' = [req EXCEPT ![r].stage = "write", ![r].before = vc]
      <4>1. /\ req'[r].docId = req[r].docId /\ req'[r].patch = req[r].patch
            /\ req'[r].before = vc
        BY <2>0, <3>1 DEF RequestState
      <4>2. QED
        BY <1>1, <1>3, <2>0, <2>6, <3>1, <4>1 DEF PreFetch, Carries
    <3>2. QED
      BY <1>1, <1>7, <2>6, <3>1 DEF PreFetch, Stage
  <2>7. CASE UpdateItem(r)
    <3>1. vc'.documenso \in {req[r].before.documenso, req[r].patch.documenso}
      BY <2>0, <2>7, MergeKeepsReceipt DEF UpdateItem
    <3>2. vc'.documenso.docId # d /\ doc'[d].state # "none"
      BY <1>1, <2>0, <2>7, <3>1 DEF UpdateItem, Carries
    <3>3. QED
      BY <1>2, <1>3, <2>7, <3>2 DEF UpdateItem, Respond
  <2>8. QED
    BY <1>10, <2>1, <2>2, <2>3, <2>4, <2>5, <2>6, <2>7 DEF Continue
<1>11. ASSUME NEW r \in Request, Abort(r) PROVE Forgotten(d)'
  BY <1>1, <1>6, <1>11 DEF Abort
<1>12. QED
  BY <1>4, <1>5, <1>9, <1>10, <1>11 DEF Next

\* Once the order and every request in flight have let go of a document, no
\* webhook, poll, edit or merge brings it back: the order is looked up by the
\* document it holds now, and writers only carry what they have read from it.
THEOREM ForgottenForGood == Spec => ForgottenIsForever
<1>1. TypeInv /\ [Next]_vars => [\A d \in Doc : Forgotten(d) => Forgotten(d)']_vars
  BY ForgottenStep
<1>2. QED
  BY <1>1, TypeInvariant, PTL DEF Spec, ForgottenIsForever

-----------------------------------------------------------------------------
(* One request at a time, and reads that do not fail: the terms a receipt  *)
(* was made for.                                                           *)

OneAtATime == \A r, s \in Request : r = s

\* The document d was made for the terms the order has now.
OnTerms(d) == d \in Doc /\ doc[d].state # "none" /\ doc[d].content = content

\* An edit that is on its way takes every signature with it.
EditExpires(patch) ==
  /\ patch.employeeSignature = "none"
  /\ patch.paperSigned = "none" \/ (patch.paperSigned = "keep" /\ vc.paperSigned = "none")
  /\ \/ patch.documenso.status = "expired"
     \/ patch.documenso = NoPatch.documenso /\ vc.documenso.status \notin invalidatableStatuses

\* What any other handler may make of the receipt x.
WritesReceipt(q, x) ==
  \/ x \in {NoPatch.documenso, None.documenso, vc.documenso}
  \/ x.status = "paper_signed"
  \/ x.status \in {"sent", "employee_signed", "paper_pending"} /\ OnTerms(x.docId)
  \/ /\ q.op = "poll" /\ vc.documenso.status = "sent"
     /\ x.docId = vc.documenso.docId /\ x.status \in {"signed", "rejected"}
  \/ q.op = "webhook" /\ x.status # "sent"

KnowsReceipt(q) ==
  /\ q.stage = "write" => q.before = vc
  /\ q.stage = "create" => q.op # "edit" /\ q.content = content
  /\ q.stage = "autosign" => q.op # "edit" /\ OnTerms(q.docId)
  /\ q.stage = "fetch" => vc.documenso.status = "sent" /\ q.patch.documenso = vc.documenso
  /\ q.op = "edit" => EditExpires(q.patch)
  /\ q.op # "edit" => WritesReceipt(q, q.patch.documenso)

\* A receipt that is out is on the terms of the order.
SentOnTerms == vc.documenso.status = "sent" => OnTerms(vc.documenso.docId)

ReceiptInv == SentOnTerms /\ \A r \in Request : KnowsReceipt(req[r])

LEMMA IdleKnowsReceipt == KnowsReceipt(Idle)
BY DEF KnowsReceipt, WritesReceipt, Idle

\* A document keeps the terms it was made for.
LEMMA TermsStay ==
  ASSUME TypeInv, [Next]_vars, NEW d \in Doc, doc[d].state # "none"
  PROVE  doc'[d].state # "none" /\ doc'[d].content = doc[d].content
<1> DEFINE Kept == doc'[d].state # "none" /\ doc'[d].content = doc[d].content
<1> USE DEF TypeInv
<1>1. CASE UNCHANGED doc
  BY <1>1
<1>2. ASSUME NEW b \in Doc, EmployeeSigns(b) PROVE Kept
  BY <1>2 DEF EmployeeSigns, Document
<1>3. ASSUME NEW b \in Doc, NEW answer \in {"completed", "declined"}, ClientAnswers(b, answer)
      PROVE  Kept
  BY <1>3 DEF ClientAnswers, Document
<1>4. ASSUME NEW b \in Doc, NEW fate \in {"alive", "deleted"}, DeletionEnds(b, fate) PROVE Kept
  BY <1>4 DEF DeletionEnds, Document
<1>5. ASSUME NEW r \in Request, CreateDocument(r) PROVE Kept
  BY <1>5 DEF CreateDocument, Document
<1>6. ASSUME NEW r \in Request, AutoSign(r) PROVE Kept
  BY <1>6 DEF AutoSign, Document
<1>7. ASSUME NEW r \in Request, DeleteDocument(r) PROVE Kept
  BY <1>7 DEF DeleteDocument, Document
<1>8. ASSUME NEW r \in Request, CheckLock(r) PROVE Kept
  BY <1>8 DEF CheckLock, Document
<1>9. ASSUME NEW r \in Request, Start(r) PROVE UNCHANGED doc
  BY <1>9 DEF Start, SendElectronic, SignPaper, PaperSigned, Sign, Unsign,
     InvalidateElectronic, InvalidatePaper, PatchSignificant, Webhook, Poll
<1>10. ASSUME NEW r \in Request, GetDocument(r) \/ PreFetch(r) \/ UpdateItem(r) \/ Abort(r)
       PROVE  UNCHANGED doc
  BY <1>10 DEF GetDocument, PreFetch, UpdateItem, Abort
<1>11. CASE StatusMoves
  BY <1>1, <1>11 DEF StatusMoves
<1>12. CASE UNCHANGED vars
  BY <1>1, <1>12 DEF vars
<1>13. QED
  BY <1>1, <1>2, <1>3, <1>4, <1>5, <1>6, <1>7, <1>8, <1>9, <1>10, <1>11, <1>12
     DEF Next, Environment, Continue

\* Where the order does not change, what was known of the receipt still holds.
LEMMA TermsKnown ==
  ASSUME TypeInv, [Next]_vars, UNCHANGED <<vc, content>>
  PROVE  /\ \A d \in Doc : OnTerms(d) => OnTerms(d)'
         /\ SentOnTerms => SentOnTerms'
<1>1. \A d \in Doc : OnTerms(d) => OnTerms(d)'
  BY TermsStay DEF OnTerms
<1>2. QED
  BY <1>1 DEF SentOnTerms, OnTerms

\* A handler that goes on with the patch it has.
LEMMA PatchGoesOn ==
  ASSUME TypeInv, [Next]_vars, UNCHANGED <<vc, content>>, NEW r \in Request,
         KnowsReceipt(req[r]), req'[r].op = req[r].op, req'[r].patch = req[r].patch,
         req'[r].stage \in {"idle", "delete", "lock", "merge"}
  PROVE  KnowsReceipt(req[r])'
<1>1. req[r].op = "edit" => EditExpires(req[r].patch)'
  BY DEF KnowsReceipt, EditExpires
<1>2. req[r].op # "edit" => WritesReceipt(req[r], req[r].patch.documenso)'
  <2>1. \A d : OnTerms(d) => OnTerms(d)'
    BY TermsKnown DEF OnTerms
  <2>2. QED
    BY <2>1 DEF KnowsReceipt, WritesReceipt
<1>3. QED
  BY <1>1, <1>2 DEF KnowsReceipt

LEMMA StartReceipt ==
  ASSUME TypeInv, [Next]_vars, NEW r \in Request, Start(r)
  PROVE  KnowsReceipt(req[r])' /\ UNCHANGED <<vc, content, received, doc>>
<1> USE DEF TypeInv
<1>1. /\ Spread(vc).documenso \in {vc.documenso, NoPatch.documenso}
      /\ \A x : /\ [Spread(vc) EXCEPT !.employeeSignature = x].documenso = Spread(vc).documenso
                /\ [Spread(vc) EXCEPT !.documenso = x].documenso = x
      /\ \A x, y : /\ [Spread(vc) EXCEPT !.paperSigned = x, !.documenso = y].documenso = y
                   /\ [Spread(vc) EXCEPT !.documenso = y, !.paperSigned = x].documenso = y
  BY SpreadKeepsReceipt, SpreadTypes DEF VisualPatch
\* A handler that begins with what it has just read.
<1>2. ASSUME NEW op, NEW stage \in Stage \ {"write", "autosign", "fetch"}, NEW patch, NEW c, NEW d,
             Begin(r, op, stage, patch, c, d), op # "edit", UNCHANGED <<vc, content, received, doc>>,
             stage = "create" => c = content,
             \/ patch.documenso \in {NoPatch.documenso, None.documenso, vc.documenso}
             \/ patch.documenso.status = "paper_signed"
      PROVE  KnowsReceipt(req[r])'
  <2>1. /\ req'[r].op = op /\ req'[r].stage = stage /\ req'[r].patch = patch
        /\ req'[r].content = c
    BY <1>2 DEF Begin
  <2>2. QED
    BY <1>2, <2>1 DEF KnowsReceipt, WritesReceipt
<1>3. ASSUME NEW force \in BOOLEAN, SendElectronic(r, force) PROVE KnowsReceipt(req[r])'
  <2>1. PICK p : /\ Begin(r, "send", "create", p, content, NoDoc)
                 /\ p.documenso \in {vc.documenso, NoPatch.documenso}
    BY <1>1, <1>3 DEF SendElectronic
  <2>2. UNCHANGED <<vc, content, received, doc>>
    BY <1>3 DEF SendElectronic
  <2>3. QED
    BY <1>2, <2>1, <2>2 DEF Stage
<1>4. CASE SignPaper(r)
  <2>1. PICK p : /\ Begin(r, "paper", "create", p, content, NoDoc)
                 /\ p.documenso \in {vc.documenso, NoPatch.documenso}
    BY <1>1, <1>4 DEF SignPaper
  <2>2. UNCHANGED <<vc, content, received, doc>>
    BY <1>4 DEF SignPaper
  <2>3. QED
    BY <1>2, <2>1, <2>2 DEF Stage
<1>5. CASE PaperSigned(r)
  <2> DEFINE x == IF vc.documenso = None.documenso THEN None.documenso
                  ELSE [vc.documenso EXCEPT !.status = "paper_signed"]
             p == [Spread(vc) EXCEPT !.paperSigned = "set", !.documenso = x]
  <2>1. x = None.documenso \/ x.status = "paper_signed"
    BY ReceiptTypes DEF Receipt
  <2>2. p.documenso = x
    BY <1>1
  <2>3. /\ Begin(r, "paper_signed", "merge", p, NoContent, NoDoc)
        /\ UNCHANGED <<vc, content, received, doc>>
    BY <1>5 DEF PaperSigned
  <2> HIDE DEF x, p
  <2>4. QED
    BY <1>2, <2>1, <2>2, <2>3 DEF Stage
<1>6. CASE Sign(r)
  <2>1. PICK p : /\ Begin(r, "sign", "merge", p, NoContent, NoDoc)
                 /\ p.documenso \in {vc.documenso, NoPatch.documenso}
    BY <1>1, <1>6 DEF Sign
  <2>2. UNCHANGED <<vc, content, received, doc>>
    BY <1>6 DEF Sign
  <2>3. QED
    BY <1>2, <2>1, <2>2 DEF Stage
<1>7. CASE Unsign(r)
  <2>1. PICK p : /\ Begin(r, "unsign", "merge", p, NoContent, NoDoc)
                 /\ p.documenso \in {vc.documenso, NoPatch.documenso}
    BY <1>1, <1>7 DEF Unsign
  <2>2. UNCHANGED <<vc, content, received, doc>>
    BY <1>7 DEF Unsign
  <2>3. QED
    BY <1>2, <2>1, <2>2 DEF Stage
<1>8. ASSUME NEW admin \in BOOLEAN, InvalidateElectronic(r, admin) PROVE KnowsReceipt(req[r])'
  <2>1. PICK p : /\ Begin(r, "invalidate", "delete", p, NoContent, vc.documenso.docId)
                 /\ p.documenso \in {None.documenso}
    BY <1>1, <1>8 DEF InvalidateElectronic
  <2>2. UNCHANGED <<vc, content, received, doc>>
    BY <1>8 DEF InvalidateElectronic
  <2>3. QED
    BY <1>2, <2>1, <2>2 DEF Stage
<1>9. ASSUME NEW admin \in BOOLEAN, InvalidatePaper(r, admin) PROVE KnowsReceipt(req[r])'
  <2> DEFINE p == [Spread(vc) EXCEPT !.documenso = None.documenso, !.paperSigned = "none"]
             stage == IF vc.documenso = None.documenso THEN "merge" ELSE "delete"
  <2>1. p.documenso = None.documenso
    BY <1>1
  <2>2. /\ Begin(r, "invalidate", stage, p, NoContent, vc.documenso.docId)
        /\ UNCHANGED <<vc, content, received, doc>>
    BY <1>9 DEF InvalidatePaper
  <2>3. stage \in {"merge", "delete"}
    OBVIOUS
  <2> HIDE DEF p, stage
  <2>4. QED
    BY <1>2, <2>1, <2>2, <2>3 DEF Stage
<1>10. ASSUME NEW c \in Content, PatchSignificant(r, c) PROVE KnowsReceipt(req[r])'
  <2> DEFINE expires == vc.documenso.status \in invalidatableStatuses
             p == [documenso |-> IF expires THEN [vc.documenso EXCEPT !.status = "expired"]
                                 ELSE NoPatch.documenso,
                   employeeSignature |-> "none",
                   paperSigned |-> IF vc.paperSigned = "set" THEN "none" ELSE "keep"]
  <2>1. expires => p.documenso.status = "expired"
    BY ReceiptTypes DEF Receipt, VisualCondition, None, invalidatableStatuses, Paper
  <2>2. p.paperSigned = "none" \/ (p.paperSigned = "keep" /\ vc.paperSigned = "none")
    BY DEF VisualCondition
  <2>3. EditExpires(p)
    BY <2>1, <2>2 DEF EditExpires
  <2>4. req'[r].op = "edit" /\ req'[r].stage = "lock" /\ req'[r].patch = p /\ UNCHANGED vc
    BY <1>10 DEF PatchSignificant, Begin
  <2> HIDE DEF p
  <2>5. QED
    BY <2>3, <2>4 DEF KnowsReceipt, EditExpires
<1>11. ASSUME NEW event \in Event, Webhook(r, event) PROVE KnowsReceipt(req[r])'
  <2> DEFINE cur == vc.documenso
             p == [Spread(vc) EXCEPT !.documenso.status = EventStatus(event, cur.status)]
  <2>1. EventStatus(event, cur.status) # "sent"
    BY DEF EventStatus, Event, Paper
  <2>2. Spread(vc).documenso \in Receipt
    <3>1. cur # None.documenso
      BY <1>11 DEF Webhook
    <3>2. Spread(vc).documenso = cur
      BY <3>1 DEF Spread, None
    <3>3. QED
      BY <3>1, <3>2, ReceiptTypes
  <2>3. p.documenso.status # "sent"
    BY <2>1, <2>2, SpreadTypes DEF VisualPatch, Receipt
  <2>4. req'[r].op = "webhook" /\ req'[r].stage = "merge" /\ req'[r].patch = p
    BY <1>11 DEF Webhook, Begin
  <2> HIDE DEF p
  <2>5. QED
    BY <2>3, <2>4 DEF KnowsReceipt, WritesReceipt
<1>12. ASSUME Poll(r) PROVE KnowsReceipt(req[r])'
  <2>1. Spread(vc).documenso = vc.documenso
    BY <1>12 DEF Spread, None, Poll
  <2>2. /\ req'[r].op = "poll" /\ req'[r].stage = "fetch"
        /\ req'[r].patch.documenso = vc.documenso
        /\ vc.documenso.status = "sent" /\ UNCHANGED vc
    BY <1>12, <2>1 DEF Poll, Begin
  <2>3. QED
    BY <2>2 DEF KnowsReceipt, WritesReceipt
<1>13. UNCHANGED <<vc, content, received, doc>>
  BY DEF Start, SendElectronic, SignPaper, PaperSigned, Sign, Unsign,
     InvalidateElectronic, InvalidatePaper, PatchSignificant, Webhook, Poll
<1>14. QED
  BY <1>3, <1>4, <1>5, <1>6, <1>7, <1>8, <1>9, <1>10, <1>11, <1>12, <1>13 DEF Start

LEMMA ContinueReceipt ==
  ASSUME OneAtATime, ~ReadFailures, TypeInv, ReceiptInv, [Next]_vars,
         NEW r \in Request, Continue(r)
  PROVE  ReceiptInv'
<1> USE DEF TypeInv
<1>1. KnowsReceipt(req[r]) /\ SentOnTerms
  BY DEF ReceiptInv
<1>2. ASSUME KnowsReceipt(req[r])', UNCHANGED <<vc, content>> PROVE ReceiptInv'
  BY <1>1, <1>2, TermsKnown DEF ReceiptInv, OneAtATime
<1>3. ASSUME Respond(r), UNCHANGED <<vc, content>> PROVE ReceiptInv'
  <2>1. req'[r] = Idle
    BY <1>3 DEF Respond
  <2>2. KnowsReceipt(req[r])'
    BY <2>1 DEF KnowsReceipt, WritesReceipt, Idle
  <2>3. QED
    BY <1>2, <1>3, <2>2
<1>4. ASSUME Goto(r, "merge"), UNCHANGED <<vc, content>> PROVE ReceiptInv'
  <2>1. /\ req'[r].op = req[r].op /\ req'[r].patch = req[r].patch
        /\ req'[r].stage = "merge"
    BY <1>4 DEF Goto, Handler, RequestState, Stage
  <2>2. QED
    BY <1>1, <1>2, <1>4, <2>1, PatchGoesOn
<1>5. CASE CreateDocument(r)
  <2>1. CASE Respond(r)
    BY <1>3, <1>5, <2>1 DEF CreateDocument
  <2>2. ASSUME NEW d \in Doc,
               doc' = [doc EXCEPT ![d].state = "open", ![d].paper = (req[r].op = "paper"),
                                  ![d].content = req[r].content],
               req' = [req EXCEPT ![r].stage = "autosign", ![r].docId = d]
        PROVE  ReceiptInv'
    <3>1. /\ req'[r].stage = "autosign" /\ req'[r].docId = d
          /\ req'[r].op = req[r].op /\ req'[r].patch = req[r].patch
      BY <2>2 DEF Handler, RequestState
    <3>2. req[r].content = content /\ req[r].op # "edit" /\ UNCHANGED <<vc, content>>
      BY <1>1, <1>5 DEF CreateDocument, KnowsReceipt
    <3>3. OnTerms(d)'
      BY <2>2, <3>2 DEF OnTerms, Document
    <3>4. \A b : OnTerms(b) => OnTerms(b)'
      BY <3>2, TermsKnown DEF OnTerms
    <3>5. KnowsReceipt(req[r])'
      BY <1>1, <3>1, <3>2, <3>3, <3>4 DEF KnowsReceipt, EditExpires, WritesReceipt
    <3>6. QED
      BY <1>2, <3>2, <3>5
  <2>3. QED
    BY <1>5, <2>1, <2>2 DEF CreateDocument
<1>6. CASE AutoSign(r)
  <2>1. CASE Respond(r)
    BY <1>3, <1>6, <2>1 DEF AutoSign
  <2>2. ASSUME NEW s \in {"paper_pending", "employee_signed", "sent"},
               req' = [req EXCEPT ![r].stage = "merge",
                                  ![r].patch.documenso = [docId |-> req[r].docId, status |-> s]]
        PROVE  ReceiptInv'
    <3>1. UNCHANGED <<vc, content>> /\ OnTerms(req[r].docId) /\ req[r].op # "edit"
      BY <1>1, <1>6 DEF AutoSign, KnowsReceipt
    <3>2. /\ req'[r].stage = "merge" /\ req'[r].op = req[r].op
          /\ req'[r].patch.documenso = [docId |-> req[r].docId, status |-> s]
      BY <2>2 DEF Handler, RequestState, VisualPatch
    <3>3. OnTerms(req[r].docId) => \E d \in Doc : d = req[r].docId /\ OnTerms(d)'
      BY <3>1, TermsKnown DEF OnTerms
    <3>4. QED
      BY <1>2, <3>1, <3>2, <3>3 DEF KnowsReceipt, WritesReceipt
  <2>3. QED
    BY <1>6, <2>1, <2>2 DEF AutoSign
<1>7. CASE DeleteDocument(r)
  BY <1>4, <1>7 DEF DeleteDocument
<1>8. CASE CheckLock(r)
  BY <1>3, <1>4, <1>8 DEF CheckLock
<1>9. CASE GetDocument(r)
  <2>1. CASE Respond(r)
    BY <1>3, <1>9, <2>1 DEF GetDocument
  <2>2. ASSUME NEW s \in {"signed", "rejected"},
               req' = [req EXCEPT ![r].stage = "merge", ![r].patch.documenso.status = s]
        PROVE  ReceiptInv'
    <3>1. /\ req[r].op = "poll" /\ req[r].stage = "fetch" /\ UNCHANGED <<vc, content>>
          /\ vc.documenso.status = "sent" /\ req[r].patch.documenso = vc.documenso
          /\ vc.documenso \in Receipt
      BY <1>1, <1>9 DEF GetDocument, At, KnowsReceipt, Handler
    <3>2. /\ req'[r].stage = "merge" /\ req'[r].op = req[r].op
          /\ req'[r].patch.documenso.status = s
          /\ req'[r].patch.documenso.docId = vc.documenso.docId
      BY <2>2, <3>1 DEF Handler, RequestState, VisualPatch, Receipt
    <3>3. QED
      BY <1>2, <3>1, <3>2 DEF KnowsReceipt, WritesReceipt
  <2>3. QED
    BY <1>9, <2>1, <2>2 DEF GetDocument, PolledStatus
<1>10. CASE PreFetch(r)
  <2>1. req' = [req EXCEPT ![r].stage = "write", ![r].before = vc] /\ UNCHANGED <<vc, content>>
    BY <1>10 DEF PreFetch
  <2>2. /\ req'[r].stage = "write" /\ req'[r].before = vc
        /\ req'[r].op = req[r].op /\ req'[r].patch = req[r].patch
    BY <2>1 DEF Handler, RequestState
  <2>3. \A d : OnTerms(d) => OnTerms(d)'
    BY <2>1, TermsKnown DEF OnTerms
  <2>4. KnowsReceipt(req[r])'
    BY <1>1, <2>1, <2>2, <2>3 DEF KnowsReceipt, EditExpires, WritesReceipt
  <2>5. QED
    BY <1>2, <2>1, <2>4
<1>11. CASE UpdateItem(r)
  <2>1. req'[r] = Idle
    BY <1>11 DEF UpdateItem, Respond
  <2>2. KnowsReceipt(req[r])'
    BY <2>1 DEF KnowsReceipt, WritesReceipt, Idle
  <2>3. UNCHANGED doc /\ req[r].before = vc
        /\ vc'.documenso = IF req[r].patch.documenso = NoPatch.documenso THEN vc.documenso
                           ELSE req[r].patch.documenso
    BY <1>1, <1>11 DEF UpdateItem, KnowsReceipt, mergeJsonb, None
  <2>4. CASE req[r].op = "edit"
    <3>1. vc'.documenso.status # "sent"
      BY <1>1, <2>3, <2>4 DEF KnowsReceipt, EditExpires, invalidatableStatuses, NoPatch
    <3>2. QED
      BY <2>2, <3>1 DEF ReceiptInv, SentOnTerms, OneAtATime
  <2>5. CASE req[r].op # "edit"
    <3>1. UNCHANGED content
      BY <1>11, <2>5 DEF UpdateItem
    <3>2. \A d : OnTerms(d) => OnTerms(d)'
      BY <2>3, <3>1 DEF OnTerms
    <3>3. WritesReceipt(req[r], req[r].patch.documenso)
      BY <1>1, <2>5 DEF KnowsReceipt
    <3>4. SentOnTerms'
      BY <1>1, <2>3, <3>2, <3>3 DEF WritesReceipt, SentOnTerms, None
    <3>5. QED
      BY <2>2, <3>4 DEF ReceiptInv, OneAtATime
  <2>6. QED
    BY <2>4, <2>5
<1>12. QED
  BY <1>5, <1>6, <1>7, <1>8, <1>9, <1>10, <1>11 DEF Continue

LEMMA ReceiptStep ==
  ASSUME OneAtATime, ~ReadFailures, TypeInv, ReceiptInv, [Next]_vars
  PROVE  ReceiptInv'
<1>1. CASE UNCHANGED <<vc, content, req>>
  <2>1. \A d : OnTerms(d) => OnTerms(d)'
    BY <1>1, TermsKnown DEF OnTerms
  <2>2. QED
    BY <1>1, <2>1 DEF ReceiptInv, SentOnTerms, KnowsReceipt, EditExpires, WritesReceipt
<1>2. ASSUME NEW r \in Request, Start(r) PROVE ReceiptInv'
  <2>1. KnowsReceipt(req[r])' /\ UNCHANGED <<vc, content>>
    BY <1>2, StartReceipt
  <2>2. QED
    BY <2>1, TermsKnown DEF ReceiptInv, OneAtATime
<1>3. ASSUME NEW r \in Request, Continue(r) PROVE ReceiptInv'
  BY <1>3, ContinueReceipt
<1>4. ASSUME NEW r \in Request, Abort(r) PROVE ReceiptInv'
  <2>1. req'[r] = Idle /\ UNCHANGED <<vc, content>>
    BY <1>4 DEF Abort, Respond, TypeInv
  <2>2. KnowsReceipt(req[r])'
    BY <2>1 DEF KnowsReceipt, WritesReceipt, Idle
  <2>3. QED
    BY <2>1, <2>2, TermsKnown DEF ReceiptInv, OneAtATime
<1>5. QED
  BY <1>1, <1>2, <1>3, <1>4
  DEF Next, Environment, EmployeeSigns, ClientAnswers, DeletionEnds, StatusMoves, vars

LEMMA ReceiptInvariant ==
  ASSUME OneAtATime, ~ReadFailures
  PROVE  Spec => []ReceiptInv
<1>1. Init => ReceiptInv
  BY IdleKnowsReceipt DEF Init, ReceiptInv, SentOnTerms, None
<1>2. TypeInv /\ ReceiptInv /\ [Next]_vars => ReceiptInv'
  BY ReceiptStep
<1>3. QED
  BY <1>1, <1>2, TypeInvariant, PTL DEF Spec

\* The only step that changes the receipt, the signatures or the terms.
LEMMA OnlyUpdateItemSaves ==
  ASSUME [Next]_vars, vc' # vc \/ content' # content
  PROVE  \E r \in Request : UpdateItem(r)
BY DEF Next, Environment, EmployeeSigns, ClientAnswers, DeletionEnds, StatusMoves, vars,
       Start, SendElectronic, SignPaper, PaperSigned, Sign, Unsign, InvalidateElectronic,
       InvalidatePaper, PatchSignificant, Webhook, Poll, Continue, CreateDocument, AutoSign,
       DeleteDocument, CheckLock, GetDocument, PreFetch, Abort

\* With requests one at a time, a change of what the customer signs for takes
\* every signature of the old terms off the order, in all four flows, and
\* whatever the webhooks and the poll have done (PATCH /services/[id]).
THEOREM EditsUnsign ==
  ASSUME OneAtATime, ~ReadFailures
  PROVE  Spec => EditLeavesNothingSigned
<1> DEFINE Step == \A r \in Request :
              At(r, {"edit"}, "write") /\ content' # content
                => /\ vc'.documenso.status \notin invalidatableStatuses
                   /\ vc'.employeeSignature = "none" /\ vc'.paperSigned = "none"
<1>1. TypeInv /\ ReceiptInv /\ [Next]_vars => [Step]_vars
  <2> SUFFICES ASSUME TypeInv, ReceiptInv, [Next]_vars, NEW r \in Request,
                      At(r, {"edit"}, "write"), content' # content
               PROVE  /\ vc'.documenso.status \notin invalidatableStatuses
                      /\ vc'.employeeSignature = "none" /\ vc'.paperSigned = "none"
    OBVIOUS
  <2>1. UpdateItem(r)
    BY OnlyUpdateItemSaves DEF OneAtATime
  <2>2. EditExpires(req[r].patch) /\ req[r].before = vc
    BY DEF ReceiptInv, KnowsReceipt, At
  <2>3. vc' = mergeJsonb(vc, req[r].patch)
    BY <2>1, <2>2 DEF UpdateItem
  <2>4. QED
    BY <2>2, <2>3 DEF EditExpires, mergeJsonb, None, NoPatch, invalidatableStatuses, Paper
<1>2. QED
  BY <1>1, TypeInvariant, ReceiptInvariant, PTL DEF Spec, EditLeavesNothingSigned

\* With requests one at a time, only a webhook can put the customer's signature
\* on terms the order no longer has: a document that is out is on the terms of
\* the order, so what the panel and the poll write of it is too.
THEOREM OldTermsNeedAWebhook ==
  ASSUME OneAtATime, ~ReadFailures
  PROVE  Spec => OnlyWebhooksSignOldTerms
<1> DEFINE Step == SignedTermsAreCurrent /\ (\A r \in Request : ~At(r, {"webhook"}, "write"))
                     => SignedTermsAreCurrent'
<1>1. TypeInv /\ ReceiptInv /\ EarnedInv /\ [Next]_vars => [Step]_vars
  <2> SUFFICES ASSUME TypeInv, ReceiptInv, EarnedInv, [Next]_vars, SignedTermsAreCurrent,
                      \A r \in Request : ~At(r, {"webhook"}, "write"),
                      vc'.documenso.status = "signed"
               PROVE  doc'[vc'.documenso.docId].content = content'
    BY DEF SignedTermsAreCurrent
  <2>1. CASE UNCHANGED <<vc, content>>
    <3>1. doc[vc.documenso.docId].state = "completed"
      BY <2>1 DEF EarnedInv, Earned
    <3>2. vc.documenso.docId \in Doc
      BY <2>1, ReceiptTypes DEF TypeInv, ReceiptStatus, Receipt
    <3>3. QED
      BY <2>1, <3>1, <3>2, TermsStay DEF SignedTermsAreCurrent
  <2>2. CASE vc' # vc \/ content' # content
    <3>1. PICK r \in Request : UpdateItem(r)
      BY <2>2, OnlyUpdateItemSaves
    <3> DEFINE x == req[r].patch.documenso
    <3>2. /\ KnowsReceipt(req[r]) /\ req[r].stage = "write" /\ req[r].op # "webhook" /\ SentOnTerms
          /\ UNCHANGED doc
      BY <3>1 DEF ReceiptInv, UpdateItem, At
    <3>3. vc'.documenso = IF x = NoPatch.documenso THEN vc.documenso ELSE x
      BY <3>1, <3>2 DEF UpdateItem, KnowsReceipt, mergeJsonb, None
    <3>4. CASE req[r].op = "edit"
      BY <3>2, <3>3, <3>4 DEF KnowsReceipt, EditExpires, invalidatableStatuses, NoPatch
    <3>5. CASE req[r].op # "edit"
      <4>1. UNCHANGED content /\ WritesReceipt(req[r], x)
        BY <3>1, <3>2, <3>5 DEF UpdateItem, KnowsReceipt
      <4>2. \/ vc'.documenso = vc.documenso
            \/ vc.documenso.status = "sent" /\ vc'.documenso.docId = vc.documenso.docId
        BY <3>2, <3>3, <4>1 DEF WritesReceipt, None
      <4>3. QED
        BY <3>2, <4>1, <4>2 DEF SignedTermsAreCurrent, SentOnTerms, OnTerms
    <3>6. QED
      BY <3>4, <3>5
  <2>3. QED
    BY <2>1, <2>2
<1>2. QED
  BY <1>1, TypeInvariant, ReceiptInvariant, EarnedInvariant, PTL
     DEF Spec, OnlyWebhooksSignOldTerms

\* With requests one at a time, the document a customer is asked to sign
\* ("sent") was made for the price and the terms the order has at that moment:
\* an edit expires it in the same write that changes them.
THEOREM SentIsOnTerms ==
  ASSUME OneAtATime, ~ReadFailures
  PROVE  Spec => []SentOnTerms
<1>1. ReceiptInv => SentOnTerms
  BY DEF ReceiptInv
<1>2. QED
  BY <1>1, ReceiptInvariant, PTL

\* Where no webhook is delivered at all, the panel and its poll never show the
\* customer's signature on terms the order no longer has.
THEOREM PollSignsCurrentTerms ==
  ASSUME OneAtATime, ~ReadFailures, "webhook" \notin Op
  PROVE  Spec => []SignedTermsAreCurrent
<1> DEFINE NoWebhook == \A r \in Request : ~At(r, {"webhook"}, "write")
<1>1. Init => SignedTermsAreCurrent
  BY DEF Init, SignedTermsAreCurrent, None
<1>2. TypeInv => NoWebhook
  BY DEF TypeInv, RequestState, At, Handler
<1>3. Spec => [][SignedTermsAreCurrent /\ NoWebhook => SignedTermsAreCurrent']_vars
  BY OldTermsNeedAWebhook DEF OnlyWebhooksSignOldTerms
<1>4. UNCHANGED vars => (SignedTermsAreCurrent => SignedTermsAreCurrent')
  BY DEF vars, SignedTermsAreCurrent
<1> HIDE DEF NoWebhook
<1>5. QED
  BY <1>1, <1>2, <1>3, <1>4, TypeInvariant, PTL DEF Spec
=============================================================================
