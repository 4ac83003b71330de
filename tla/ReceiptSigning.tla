--------------------------- MODULE ReceiptSigning ---------------------------
(***************************************************************************)
(* The confirmation of intake that the customer signs, electronically in   *)
(* Documenso or on paper.  What the service knows of it is three keys of   *)
(* the JSON column visual_condition of the order.  Panel handlers,         *)
(* webhooks and the polling of the GET handler all rewrite that column:    *)
(* they spread the copy they have read, change a key or two, and hand it   *)
(* to updateService, which merges it by key over a fresh read and writes   *)
(* the whole column.                                                       *)
(*                                                                         *)
(* Documenso is external.  Its webhooks may be lost, repeated or late.     *)
(***************************************************************************)

CONSTANTS
  Request,      \* requests that can be in flight at the same time
  Doc,          \* documents that can be created in Documenso
  NoDoc,        \* no document
  Content,      \* what the significant columns of the order (price, diagnosis...) can say
  Op,           \* the handlers that are called
  Crashes,      \* a handler may die, or a call to Directus fail, at any await
  ReadFailures  \* a Directus read may fail, which the library turns into null

PanelOp == {"send", "paper", "paper_signed", "invalidate", "sign", "unsign", "edit"}
SyncOp == {"webhook", "poll"}

ASSUME ConstantsAssumption ==
  /\ NoDoc \notin Doc
  /\ Op \subseteq PanelOp \cup SyncOp
  /\ Crashes \in BOOLEAN
  /\ ReadFailures \in BOOLEAN

VARIABLES
  vc,        \* visual_condition: the keys documenso, employeeSignature, paperSigned
  content,   \* the significant columns of the order, as its generic PATCH writes them
  received,  \* the order is still in status "received"
  doc,       \* doc[d]: the document in Documenso
  req        \* req[r]: the local state of the handler that serves request r

vars == <<vc, content, received, doc, req>>

-----------------------------------------------------------------------------
(* visual_condition and mergeJsonb.                                        *)

Paper == {"paper_pending", "paper_signed"}
ReceiptStatus == {"sent", "employee_signed", "signed", "rejected", "expired"} \cup Paper

\* "none": the key is missing (in a patch: null, which deletes it).
\* "keep": the key is not in the patch.
None == [documenso |-> [docId |-> NoDoc, status |-> "none"],
         employeeSignature |-> "none", paperSigned |-> "none"]
NoPatch == [documenso |-> [docId |-> NoDoc, status |-> "keep"],
            employeeSignature |-> "keep", paperSigned |-> "keep"]

Receipt == [docId : Doc, status : ReceiptStatus]
VisualCondition == [documenso : Receipt \cup {None.documenso},
                    employeeSignature : {"none", "set"}, paperSigned : {"none", "set"}]
VisualPatch == [documenso : Receipt \cup {None.documenso, NoPatch.documenso},
                employeeSignature : {"none", "set", "keep"},
                paperSigned : {"none", "set", "keep"}]

\* Slips: the input replaces the column; null does not delete a key.
MergeByReplacing(base, input) == input
MergeIgnoringNull(base, input) ==
  [k \in DOMAIN None |-> IF input[k] \in {NoPatch[k], None[k]} THEN base[k] ELSE input[k]]

mergeJsonb(base, input) ==
  [k \in DOMAIN None |-> IF input[k] = NoPatch[k] THEN base[k] ELSE input[k]]

\* `...(service.visualCondition ?? {})`: a key missing from the copy is not in
\* the patch, so spreading deletes nothing.
Spread(v) == [k \in DOMAIN None |-> IF v[k] = None[k] THEN NoPatch[k] ELSE v[k]]

-----------------------------------------------------------------------------
(* Documenso.  A paper document has the employee as its only recipient; an *)
(* electronic one has the employee first and then the customer.            *)

DocState == {"none", "open", "half", "completed", "declined"}
Fate == {"alive", "condemned", "deleted"}   \* condemned: a deletion is on its way
NoContent == "none"
Document == [state : DocState, paper : BOOLEAN, content : Content \cup {NoContent}, fate : Fate]

Stage == {"idle", "create", "autosign", "delete", "lock", "fetch", "merge", "write"}

RequestState == [op : Op \cup {"none"}, stage : Stage, patch : VisualPatch,
                 before : VisualCondition, content : Content \cup {NoContent},
                 docId : Doc \cup {NoDoc}]

Idle == [op |-> "none", stage |-> "idle", patch |-> NoPatch,
         before |-> None, content |-> NoContent, docId |-> NoDoc]

TypeOK ==
  /\ vc \in VisualCondition
  /\ content \in Content
  /\ received \in BOOLEAN
  /\ doc \in [Doc -> Document]
  /\ req \in [Request -> RequestState]

Begin(r, op, stage, patch, c, d) ==
  /\ op \in Op
  /\ req[r] = Idle
  /\ req' = [req EXCEPT ![r] = [op |-> op, stage |-> stage, patch |-> patch,
                                before |-> None, content |-> c, docId |-> d]]

At(r, ops, stage) == req[r].op \in ops /\ req[r].stage = stage

Goto(r, stage) == req' = [req EXCEPT ![r].stage = stage]

Respond(r) == req' = [req EXCEPT ![r] = Idle]

Init ==
  /\ vc = None
  /\ received = TRUE
  /\ content \in Content
  /\ doc = [d \in Doc |-> [state |-> "none", paper |-> FALSE,
                           content |-> NoContent, fate |-> "alive"]]
  /\ req = [r \in Request |-> Idle]

Readable(d) == doc[d].state # "none" /\ doc[d].fate # "deleted"

\* By the link the panel shows when the automatic signature has failed.
EmployeeSigns(d) ==
  /\ Readable(d) /\ doc[d].state = "open" /\ ~doc[d].paper
  /\ doc' = [doc EXCEPT ![d].state = "half"]
  /\ UNCHANGED <<vc, content, received, req>>

\* The customer is mailed the link when the handler that made it is done.
ClientAnswers(d, answer) ==
  /\ Readable(d) /\ doc[d].state = "half"
  /\ \A r \in Request : ~(req[r].op = "send" /\ req[r].docId = d)
  /\ doc' = [doc EXCEPT ![d].state = answer]
  /\ UNCHANGED <<vc, content, received, req>>

\* A deletion that was not awaited: it is done, or both of its attempts fail.
DeletionEnds(d, fate) ==
  /\ doc[d].fate = "condemned"
  /\ doc' = [doc EXCEPT ![d].fate = fate]
  /\ UNCHANGED <<vc, content, received, req>>

\* The life of the order as the receipt sees it (PATCH /status, a hold...).
StatusMoves ==
  /\ received' = ~received
  /\ UNCHANGED <<vc, content, doc, req>>

-----------------------------------------------------------------------------
(* updateService with a visualCondition in the input.                      *)

PreFetch(r) ==
  /\ req[r].stage = "merge"
  /\ \/ req' = [req EXCEPT ![r].stage = "write", ![r].before = vc]
     \/ ReadFailures /\ Goto(r, "write")        \* `before` is null: the base is {}
  /\ UNCHANGED <<vc, content, received, doc>>

UpdateItem(r) ==
  /\ req[r].stage = "write"
  /\ vc' = mergeJsonb(req[r].before, req[r].patch)
  /\ content' = IF req[r].op = "edit" THEN req[r].content ELSE content
  /\ Respond(r)
  /\ UNCHANGED <<received, doc>>

-----------------------------------------------------------------------------
(* POST /send-electronic and POST /sign-paper.                             *)

\* With force the 409 is skipped.  A forced request for a "sent" document only
\* sends a reminder; it goes on to here when the reminder fails.
SendElectronic(r, force) ==
  /\ force \/ vc.documenso.status \notin {"sent", "signed"}
  /\ Begin(r, "send", "create", [Spread(vc) EXCEPT !.employeeSignature = "none"],
           content, NoDoc)
  /\ UNCHANGED <<vc, content, received, doc>>

SignPaper(r) ==
  /\ vc.documenso = None.documenso
  /\ Begin(r, "paper", "create", [Spread(vc) EXCEPT !.employeeSignature = "none"],
           content, NoDoc)
  /\ UNCHANGED <<vc, content, received, doc>>

CreateDocument(r) ==
  /\ req[r].stage = "create"
  /\ \/ \E d \in Doc :
          /\ doc[d].state = "none"
          /\ doc' = [doc EXCEPT ![d].state = "open", ![d].paper = (req[r].op = "paper"),
                                ![d].content = req[r].content]
          /\ req' = [req EXCEPT ![r].stage = "autosign", ![r].docId = d]
     \/ Respond(r) /\ UNCHANGED doc            \* Documenso refuses: 500
  /\ UNCHANGED <<vc, content, received>>

\* autoSignAsEmployee signs the fields, then asks Documenso to complete the
\* document for the employee.  It reports `signed > 0` when that request is
\* refused or gets no answer, so what it reports (the second conjunct) and what
\* became of the document (the first) are independent.  After a failure the
\* electronic flow goes on without the signature and the paper flow answers 502.
AutoSign(r) ==
  LET d == req[r].docId
      Persist(s) == req' = [req EXCEPT ![r].stage = "merge",
                              ![r].patch.documenso = [docId |-> d, status |-> s]]
  IN /\ req[r].stage = "autosign"
     /\ \/ /\ doc[d].state = "open"
           /\ doc' = [doc EXCEPT ![d].state = IF doc[d].paper THEN "completed" ELSE "half"]
        \/ UNCHANGED doc
     /\ \/ Persist(IF doc[d].paper THEN "paper_pending" ELSE "employee_signed")
        \/ ~doc[d].paper /\ Persist("sent")
        \/ doc[d].paper /\ Respond(r)
     /\ UNCHANGED <<vc, content, received>>

-----------------------------------------------------------------------------
(* POST /paper-signed, POST and DELETE /sign.                              *)

PaperSigned(r) ==
  /\ Begin(r, "paper_signed", "merge",
           [Spread(vc) EXCEPT
              !.paperSigned = "set",
              !.documenso = IF vc.documenso = None.documenso THEN None.documenso
                            ELSE [vc.documenso EXCEPT !.status = "paper_signed"]],
           NoContent, NoDoc)
  /\ UNCHANGED <<vc, content, received, doc>>

Sign(r) ==
  /\ Begin(r, "sign", "merge", [Spread(vc) EXCEPT !.employeeSignature = "set"],
           NoContent, NoDoc)
  /\ UNCHANGED <<vc, content, received, doc>>

\* The handler deletes the key from its copy, and a key that is not in the
\* patch is kept by mergeJsonb.
Unsign(r) ==
  /\ Begin(r, "unsign", "merge", [Spread(vc) EXCEPT !.employeeSignature = "keep"],
           NoContent, NoDoc)
  /\ UNCHANGED <<vc, content, received, doc>>

-----------------------------------------------------------------------------
(* POST /invalidate-electronic and /invalidate-paper; `admin` is a         *)
(* superadmin who asks with force=true.                                    *)

InvalidateElectronic(r, admin) ==
  /\ vc.documenso # None.documenso
  /\ admin \/ (vc.documenso.status # "signed" /\ received)
  /\ Begin(r, "invalidate", "delete", [Spread(vc) EXCEPT !.documenso = None.documenso],
           NoContent, vc.documenso.docId)
  /\ UNCHANGED <<vc, content, received, doc>>

InvalidatePaper(r, admin) ==
  /\ vc.documenso # None.documenso \/ vc.paperSigned = "set"
  /\ admin \/ (vc.paperSigned = "none" /\ received)
  /\ Begin(r, "invalidate", IF vc.documenso = None.documenso THEN "merge" ELSE "delete",
           [Spread(vc) EXCEPT !.documenso = None.documenso, !.paperSigned = "none"],
           NoContent, vc.documenso.docId)
  /\ UNCHANGED <<vc, content, received, doc>>

\* deleteDocument answers false when it fails and the handler goes on.
DeleteDocument(r) ==
  /\ At(r, {"invalidate"}, "delete")
  /\ \E fate \in {doc[req[r].docId].fate, "deleted"} :
       doc' = [doc EXCEPT ![req[r].docId].fate = fate]
  /\ Goto(r, "merge")
  /\ UNCHANGED <<vc, content, received>>

-----------------------------------------------------------------------------
(* PATCH /services/[id] with a change of a significant field.              *)

\* Slip: a document nobody has signed yet is left standing.
InvalidatableOnceSigned == {"employee_signed", "signed"} \cup Paper

invalidatableStatuses == {"sent", "employee_signed", "signed"} \cup Paper

PatchSignificant(r, c) ==
  /\ c # content
  /\ LET expires == vc.documenso.status \in invalidatableStatuses
     IN Begin(r, "edit", "lock",
          [documenso |-> IF expires THEN [vc.documenso EXCEPT !.status = "expired"]
                         ELSE NoPatch.documenso,
           employeeSignature |-> "none",
           paperSigned |-> IF vc.paperSigned = "set" THEN "none" ELSE "keep"],
          c, IF expires THEN vc.documenso.docId ELSE NoDoc)
  /\ UNCHANGED <<vc, content, received, doc>>

\* The device has left with a driver (423), or else the old document is
\* condemned: the deletion is started and not awaited.
CheckLock(r) ==
  /\ At(r, {"edit"}, "lock")
  /\ \/ Respond(r) /\ UNCHANGED doc
     \/ /\ doc' = [d \in Doc |-> IF d = req[r].docId /\ doc[d].fate = "alive"
                                 THEN [doc[d] EXCEPT !.fate = "condemned"] ELSE doc[d]]
        /\ Goto(r, "merge")
  /\ UNCHANGED <<vc, content, received>>

-----------------------------------------------------------------------------
(* POST /api/webhooks/documenso.  Any event Documenso has ever emitted for *)
(* the document of the order may arrive, in any order, any number of       *)
(* times, or never; for any other document the handler finds no order.     *)

Event == {"half", "all", "rejected"}
Emitted(d, event) ==
  CASE event = "half" -> ~doc[d].paper /\ doc[d].state \in {"half", "completed", "declined"}
    [] event = "all" -> doc[d].state = "completed"
    [] event = "rejected" -> doc[d].state = "declined"

\* Slip: the first signature is taken for the last one.
EventStatusTooEarly(event, cur) == IF event = "rejected" THEN "rejected" ELSE "signed"

\* The status each event writes, given the one the order has: the last signature
\* leaves the paper flow alone, the other two are unconditional.
EventStatus(event, cur) ==
  CASE event = "half" -> "employee_signed"
    [] event = "all" -> IF cur \in Paper THEN cur ELSE "signed"
    [] event = "rejected" -> "rejected"

\* Slip: the order is not looked up by the document it holds.
WebhookForAnyDocument(r, event) ==
  \E d \in Doc :
    /\ Emitted(d, event)
    /\ Begin(r, "webhook", "merge",
             [Spread(vc) EXCEPT
                !.documenso = [docId |-> d, status |-> EventStatus(event, vc.documenso.status)]],
             NoContent, d)
    /\ UNCHANGED <<vc, content, received, doc>>

Webhook(r, event) ==
  LET cur == vc.documenso
  IN /\ cur # None.documenso
     /\ Emitted(cur.docId, event)
     /\ Begin(r, "webhook", "merge",
              [Spread(vc) EXCEPT !.documenso.status = EventStatus(event, cur.status)],
              NoContent, cur.docId)
     /\ UNCHANGED <<vc, content, received, doc>>

-----------------------------------------------------------------------------
(* GET /services/[id], which the panel repeats every few seconds: a        *)
(* document that is "sent" is looked up in Documenso.                      *)

\* Slip: only a document that the employee has signed is looked up.
PollTooLate(r) ==
  /\ vc.documenso.status = "employee_signed"
  /\ Begin(r, "poll", "fetch", Spread(vc), NoContent, vc.documenso.docId)
  /\ UNCHANGED <<vc, content, received, doc>>

Poll(r) ==
  /\ vc.documenso.status = "sent"
  /\ Begin(r, "poll", "fetch", Spread(vc), NoContent, vc.documenso.docId)
  /\ UNCHANGED <<vc, content, received, doc>>

PolledStatus == [completed |-> "signed", declined |-> "rejected"]

\* Without an answer from Documenso, or with an unfinished document, the
\* handler leaves the order alone.
GetDocument(r) ==
  /\ At(r, {"poll"}, "fetch")
  /\ LET d == req[r].docId
         answered == Readable(d) /\ doc[d].state \in DOMAIN PolledStatus
     IN \/ /\ answered
           /\ req' = [req EXCEPT ![r].stage = "merge",
                                 ![r].patch.documenso.status = PolledStatus[doc[d].state]]
        \/ ~answered /\ Respond(r)
  /\ UNCHANGED <<vc, content, received, doc>>

-----------------------------------------------------------------------------

Abort(r) ==
  /\ Crashes
  /\ req[r].op # "none"
  /\ Respond(r)
  /\ UNCHANGED <<vc, content, received, doc>>

Start(r) ==
  \/ \E force \in BOOLEAN : SendElectronic(r, force)
  \/ SignPaper(r)
  \/ PaperSigned(r)
  \/ Sign(r)
  \/ Unsign(r)
  \/ \E admin \in BOOLEAN : InvalidateElectronic(r, admin)
  \/ \E admin \in BOOLEAN : InvalidatePaper(r, admin)
  \/ \E c \in Content : PatchSignificant(r, c)
  \/ \E event \in Event : Webhook(r, event)
  \/ Poll(r)

Continue(r) ==
  \/ CreateDocument(r)
  \/ AutoSign(r)
  \/ DeleteDocument(r)
  \/ CheckLock(r)
  \/ GetDocument(r)
  \/ PreFetch(r)
  \/ UpdateItem(r)

Environment ==
  \/ \E d \in Doc : EmployeeSigns(d)
  \/ \E d \in Doc, answer \in {"completed", "declined"} : ClientAnswers(d, answer)
  \/ \E d \in Doc, fate \in {"alive", "deleted"} : DeletionEnds(d, fate)
  \/ StatusMoves

Next == Environment \/ \E r \in Request : Start(r) \/ Continue(r) \/ Abort(r)

Spec == Init /\ [][Next]_vars

\* A handler that has started ends, and the panel keeps polling.  Strong
\* fairness for the poll: the requests in its way are an artefact of the bound
\* on Request, the server takes the next GET whatever else it is serving.
FairSpec ==
  Spec /\ \A r \in Request : WF_vars(Continue(r)) /\ SF_vars(Poll(r))

-----------------------------------------------------------------------------
(* What holds whatever overlaps and whatever fails.                        *)

\* The answer of the customer is never made up: "signed" means that everybody has
\* signed the very document the order points to and "rejected" that it was
\* declined, however old the copies the writers worked from were.  The statuses of
\* the employee promise less: that the document exists and is of that flow.  After
\* a completion that failed it may still wait for the employee's signature.
Earned(documents, receipt) ==
  LET s == receipt.status
      d == receipt.docId
  IN /\ s = "signed" => documents[d].state = "completed"
     /\ s = "rejected" => documents[d].state = "declined"
     /\ s = "employee_signed" => documents[d].state # "none" /\ ~documents[d].paper
     /\ s = "paper_pending" => documents[d].state # "none" /\ documents[d].paper
StatusIsEarned == Earned(doc, vc.documenso)

\* A document the order has let go of (invalidated, replaced, or never saved)
\* and that no request in flight still carries never comes back, whatever
\* webhooks Documenso goes on to send for it.
Forgotten(d) ==
  /\ doc[d].state # "none"
  /\ vc.documenso.docId # d
  /\ \A r \in Request : d \notin {req[r].docId, req[r].patch.documenso.docId,
                                 req[r].before.documenso.docId}
ForgottenIsForever == [][\A d \in Doc : Forgotten(d) => Forgotten(d)']_vars

-----------------------------------------------------------------------------
(* What holds when requests do not overlap and reads do not fail.          *)

\* A significant edit takes every signature of the old terms off the order.
EditLeavesNothingSigned ==
  [][\A r \in Request :
       At(r, {"edit"}, "write") /\ content' # content
         => /\ vc'.documenso.status \notin invalidatableStatuses
            /\ vc'.employeeSignature = "none" /\ vc'.paperSigned = "none"]_vars

\* The customer's electronic signature is on the terms the order has now.
\* A late webhook breaks this; the panel's handlers and the poll never do.
SignedTermsAreCurrent ==
  vc.documenso.status = "signed" => doc[vc.documenso.docId].content = content
OnlyWebhooksSignOldTerms ==
  [][SignedTermsAreCurrent /\ (\A r \in Request : ~At(r, {"webhook"}, "write"))
       => SignedTermsAreCurrent']_vars

\* The panel's poll makes up for a lost webhook, for a document in "sent".
Answered(d, statuses) ==
  /\ vc.documenso.docId = d /\ vc.documenso.status \in statuses
  /\ Readable(d) /\ doc[d].state \in DOMAIN PolledStatus
PollMakesUpForWebhooks == \A d \in Doc : Answered(d, {"sent"}) ~> ~Answered(d, {"sent"})

\* The same for every document that waits for the customer.  It fails: after
\* the automatic signature the status is "employee_signed" and nothing polls.
PollShowsTheRealStatus ==
  \A d \in Doc : Answered(d, {"sent", "employee_signed"})
                 ~> ~Answered(d, {"sent", "employee_signed"})
=============================================================================
