----------------------------- MODULE AnnexQuote -----------------------------
(***************************************************************************)
(* The price of an order, its history, and the annexes by which the        *)
(* customer accepts a change of it.  The panel changes the price           *)
(* (POST /quote-update) and is offered an annex for the difference; the    *)
(* annex (POST /annex) is accepted over the phone or by mail               *)
(* (POST /annexes/[annexId]/accept) or signed in Documenso, whose webhook  *)
(* accepts it.  Acceptance adds the difference to the price.               *)
(*                                                                         *)
(* Documenso is external.  Its webhooks may be lost, repeated or late.     *)
(***************************************************************************)
EXTENDS Integers, Sequences, FiniteSets

CONSTANTS
  Request,      \* requests that can be in flight at the same time
  Annex,        \* annexes that can be created
  NoAnnex,      \* no annex
  Amount,       \* prices a salesperson can enter
  MaxEntries,   \* bound: once the history has so many entries, or the price is
  MaxAmount,    \* bound: further from zero than this, only the e-mail is changed
  Op,           \* the handlers that are called
  Crashes,      \* a handler may die, or a write to Directus fail, at any await
  ReadFailures  \* a Directus read may fail, which the library turns into null or []

ASSUME ConstantsAssumption ==
  /\ NoAnnex \notin Annex
  /\ Amount \subseteq Nat
  /\ MaxEntries \in Nat /\ MaxAmount \in Nat
  /\ Op \subseteq {"quote", "legacy", "annex", "accept", "webhook", "email", "patch"}
  /\ Crashes \in BOOLEAN
  /\ ReadFailures \in BOOLEAN

VARIABLES
  amount,      \* amount_estimate of the order
  annex,       \* annex[a]: the row, and its document in Documenso
  history,     \* the rows of mp_service_quote_history, in the order they were made
  suggestion,  \* the annex the panel has been offered for the last change of price
  req          \* req[r]: the local state of the handler that serves request r

vars == <<amount, annex, history, suggestion, req>>

-----------------------------------------------------------------------------

Final == {"accepted", "rejected", "expired"}
AnnexAcceptanceStatus == {"pending"} \cup Final

\* `quoted` is the new price the panel showed when the annex was made; the row
\* has only the difference.  An annex with no document is accepted by hand.
AnnexRow == [status : AnnexAcceptanceStatus \cup {"none"}, delta : Int, quoted : Int,
             doc : {"none", "open", "half", "completed", "declined"}]
NoRow == [status |-> "none", delta |-> 0, quoted |-> 0, doc |-> "none"]

Entry == [annex : Annex \cup {NoAnnex}, old : Int, new : Int]

Change == [old : Int, new : Int]
NoSuggestion == [old |-> 0, new |-> 0]

Stage == {"idle", "document", "autosign", "row", "list", "check", "status",
          "service", "amount", "entry"}

RequestState == [op : Op \cup {"none"}, stage : Stage, annex : Annex \cup {NoAnnex},
                 to : Final, old : Int, new : Int, todo : SUBSET Annex]

Idle == [op |-> "none", stage |-> "idle", annex |-> NoAnnex,
         to |-> "accepted", old |-> 0, new |-> 0, todo |-> {}]

TypeOK ==
  /\ amount \in Int
  /\ annex \in [Annex -> AnnexRow]
  /\ history \in Seq(Entry)
  /\ suggestion \in Change
  /\ req \in [Request -> RequestState]

Init ==
  /\ amount \in Amount
  /\ annex = [a \in Annex |-> NoRow]
  /\ history = << >>
  /\ suggestion = NoSuggestion
  /\ req = [r \in Request |-> Idle]

Begin(r, op, stage, a, to, old, new) ==
  /\ op \in Op
  /\ req[r] = Idle
  /\ op # "email" => Len(history) < MaxEntries /\ amount \in -MaxAmount..MaxAmount
  /\ req' = [req EXCEPT ![r] = [op |-> op, stage |-> stage, annex |-> a,
                                to |-> to, old |-> old, new |-> new, todo |-> {}]]

\* An annex, and a document, that no request has taken yet.
Unused(a) == annex[a] = NoRow /\ \A r \in Request : req[r].annex # a

Goto(r, stage) == req' = [req EXCEPT ![r].stage = stage]

Respond(r) == req' = [req EXCEPT ![r] = Idle]

-----------------------------------------------------------------------------
(* Documenso: the employee signs first, most often by the automatic        *)
(* signature, and the customer second, by the link that is mailed once the *)
(* row of the annex is there.                                              *)

EmployeeSigns(a) ==
  /\ annex[a].doc = "open"
  /\ annex' = [annex EXCEPT ![a].doc = "half"]
  /\ UNCHANGED <<amount, history, suggestion, req>>

ClientAnswers(a, answer) ==
  /\ annex[a].doc = "half" /\ annex[a].status # "none"
  /\ annex' = [annex EXCEPT ![a].doc = answer]
  /\ UNCHANGED <<amount, history, suggestion, req>>

-----------------------------------------------------------------------------
(* How each handler starts.                                                *)

QuoteUpdate(r, n) ==
  /\ Begin(r, "quote", "amount", NoAnnex, "expired", amount, n)
  /\ suggestion' = NoSuggestion
  /\ UNCHANGED <<amount, annex, history>>

\* requiresAnnex=true, for panels of an older build: the annex and the entry are
\* made and the price is left for the acceptance.
QuoteUpdateLegacy(r, n) ==
  /\ \E a \in Annex : Unused(a)
  /\ Begin(r, "legacy", "row", NoAnnex, "accepted", amount, n)
  /\ UNCHANGED <<amount, annex, history, suggestion>>

\* POST /annex.  The builder takes the difference from the suggestion, refuses
\* one of zero, and sends one request at a time.
CreateAnnex(r, stage) ==
  /\ suggestion.old # suggestion.new
  /\ \A other \in Request : req[other].op # "annex"
  /\ \E a \in Annex : Unused(a)
  /\ Begin(r, "annex", stage, NoAnnex, "accepted", suggestion.old, suggestion.new)
  /\ UNCHANGED <<amount, annex, history, suggestion>>

\* POST /accept, which the builder sends for an annex it has made by hand.  The
\* price is the one the handler reads before anything else.
AcceptAnnex(r, a) ==
  /\ annex[a].status = "pending" /\ annex[a].doc = "none"
  /\ Begin(r, "accept", "check", a, "accepted", amount, amount + annex[a].delta)
  /\ UNCHANGED <<amount, annex, history, suggestion>>

\* Any event Documenso has emitted for the document.  DOCUMENT_SIGNED, which is
\* sent for the employee as well, accepts the annex as DOCUMENT_COMPLETED does.
Emitted(a, to) ==
  CASE to = "accepted" -> annex[a].doc \in {"half", "completed", "declined"}
    [] to = "rejected" -> annex[a].doc = "declined"
    [] to = "expired" -> FALSE

\* Slip: Documenso's word for the answer is written to the row.
WebhookVerbatim(r, a, to) ==
  /\ Emitted(a, to)
  /\ annex[a].status = "pending"
  /\ Begin(r, "webhook", "check", a, annex[a].doc, 0, 0)
  /\ UNCHANGED <<amount, annex, history, suggestion>>

\* Slip: an annex that is already accepted is accepted again.
WebhookTwice(r, a, to) ==
  /\ Emitted(a, to)
  /\ annex[a].status \in IF to = "rejected" THEN {"pending"} ELSE AnnexAcceptanceStatus
  /\ Begin(r, "webhook", "check", a, to, 0, 0)
  /\ UNCHANGED <<amount, annex, history, suggestion>>

Webhook(r, a, to) ==
  /\ Emitted(a, to)
  /\ annex[a].status \in IF to = "rejected" THEN {"pending"}
                         ELSE AnnexAcceptanceStatus \ {"accepted"}
  /\ Begin(r, "webhook", "check", a, to, 0, 0)
  /\ UNCHANGED <<amount, annex, history, suggestion>>

\* PATCH /services/[id] with another contactEmail, once the order is written.
ChangeEmail(r) ==
  /\ Begin(r, "email", "list", NoAnnex, "expired", 0, 0)
  /\ UNCHANGED <<amount, annex, history, suggestion>>

\* PATCH /services/[id] with an amountEstimate.
PatchAmount(r, n) ==
  /\ Begin(r, "patch", "amount", NoAnnex, "expired", 0, n)
  /\ UNCHANGED <<amount, annex, history, suggestion>>

-----------------------------------------------------------------------------
(* The document and the row of a new annex.                                *)

CreateDocument(r) ==
  /\ req[r].stage = "document"
  /\ \/ \E a \in Annex :
          /\ Unused(a)
          /\ annex' = [annex EXCEPT ![a].doc = "open"]
          /\ req' = [req EXCEPT ![r].stage = "autosign", ![r].annex = a]
     \/ Respond(r) /\ UNCHANGED annex          \* Documenso refuses: 500
  /\ UNCHANGED <<amount, history, suggestion>>

\* The handler goes on without the signature when autoSignAsEmployee fails.
AutoSign(r) ==
  /\ req[r].stage = "autosign"
  /\ \E signed \in {annex[req[r].annex].doc, "half"} :
       annex' = [annex EXCEPT ![req[r].annex].doc = signed]
  /\ Goto(r, "row")
  /\ UNCHANGED <<amount, history, suggestion>>

\* createServiceAnnex.  The panel then closes the builder.
CreateRow(r) ==
  /\ req[r].stage = "row"
  /\ \E a \in Annex :
       /\ IF req[r].annex = NoAnnex THEN Unused(a) ELSE a = req[r].annex
       /\ annex' = [annex EXCEPT ![a].status = "pending",
                                 ![a].delta = req[r].new - req[r].old,
                                 ![a].quoted = req[r].new]
       /\ \/ /\ req[r].op = "annex"
             /\ suggestion' = NoSuggestion
             /\ Respond(r)
          \/ /\ req[r].op = "legacy"
             /\ req' = [req EXCEPT ![r].stage = "entry", ![r].annex = a]
             /\ UNCHANGED suggestion
  /\ UNCHANGED <<amount, history>>

-----------------------------------------------------------------------------
(* updateServiceAnnex and expirePendingAnnexes.                            *)

\* Slip: every transition is allowed.
AnyTransition(from, to) == from \in AnnexAcceptanceStatus

isAnnexStatusTransitionAllowed(from, to) == from = to \/ from = "pending"

\* The handler is done with one annex: the loop of expirePendingAnnexes takes
\* the next, and a quote-update that has none left answers with a suggestion.
ExpireNext(r, todo) ==
  \/ /\ todo = {}
     /\ Respond(r)
     /\ suggestion' = IF req[r].op = "quote"
                      THEN [old |-> req[r].old, new |-> req[r].new] ELSE suggestion
  \/ /\ \E a \in todo : req' = [req EXCEPT ![r].stage = "check", ![r].annex = a,
                                           ![r].todo = todo \ {a}]
     /\ UNCHANGED suggestion

\* Slip: only the annexes that were sent to Documenso are expired.
ListDocumenso(r) ==
  /\ req[r].stage = "list"
  /\ ExpireNext(r, {a \in Annex : annex[a].status = "pending" /\ annex[a].doc # "none"})
  /\ UNCHANGED <<amount, annex, history>>

ListPending(r) ==
  /\ req[r].stage = "list"
  /\ \/ ExpireNext(r, {a \in Annex : annex[a].status = "pending"})
     \/ ReadFailures /\ ExpireNext(r, {})
  /\ UNCHANGED <<amount, annex, history>>

\* A refused transition is a 409 of /accept, is logged by the webhook, and is
\* skipped by the loop.  When the read fails nothing is refused.
CheckStatus(r) ==
  /\ req[r].stage = "check"
  /\ LET allowed == isAnnexStatusTransitionAllowed(annex[req[r].annex].status, req[r].to)
     IN \/ (allowed \/ ReadFailures) /\ Goto(r, "status") /\ UNCHANGED suggestion
        \/ ~allowed /\ req[r].to = "expired" /\ ExpireNext(r, req[r].todo)
        \/ ~allowed /\ req[r].to # "expired" /\ Respond(r) /\ UNCHANGED suggestion
  /\ UNCHANGED <<amount, annex, history>>

\* A write that fails is null to the caller, and no caller stops for it.
WriteStatus(r) ==
  /\ req[r].stage = "status"
  /\ \/ annex' = [annex EXCEPT ![req[r].annex].status = req[r].to]
     \/ Crashes /\ UNCHANGED annex
  /\ \/ req[r].to = "expired" /\ ExpireNext(r, req[r].todo)
     \/ req[r].to = "rejected" /\ Respond(r) /\ UNCHANGED suggestion
     \/ /\ req[r].to = "accepted"
        /\ Goto(r, IF req[r].op = "webhook" THEN "service" ELSE "amount")
        /\ UNCHANGED suggestion
  /\ UNCHANGED <<amount, history>>

-----------------------------------------------------------------------------
(* The price and its history.                                              *)

\* The webhook reads the order now; without it the annex stays accepted and
\* uncharged.
ReadService(r) ==
  /\ req[r].stage = "service"
  /\ \/ req' = [req EXCEPT ![r].stage = "amount", ![r].old = amount,
                           ![r].new = amount + annex[req[r].annex].delta]
     \/ ReadFailures /\ Respond(r)
  /\ UNCHANGED <<amount, annex, history, suggestion>>

WriteAmount(r) ==
  /\ req[r].stage = "amount"
  /\ amount' = req[r].new
  /\ IF req[r].op = "patch" THEN Respond(r) ELSE Goto(r, "entry")
  /\ UNCHANGED <<annex, history, suggestion>>

\* Slip: the entry has the two prices the wrong way round.
EntryReversed(r) ==
  /\ req[r].stage = "entry"
  /\ history' = Append(history, [annex |-> req[r].annex, old |-> req[r].new, new |-> req[r].old])
  /\ IF req[r].op = "quote" /\ req[r].old # req[r].new THEN Goto(r, "list") ELSE Respond(r)
  /\ UNCHANGED <<amount, annex, suggestion>>

\* createQuoteHistoryEntry.
WriteEntry(r) ==
  /\ req[r].stage = "entry"
  /\ history' = Append(history, [annex |-> req[r].annex, old |-> req[r].old, new |-> req[r].new])
  /\ IF req[r].op = "quote" /\ req[r].old # req[r].new THEN Goto(r, "list") ELSE Respond(r)
  /\ UNCHANGED <<amount, annex, suggestion>>

-----------------------------------------------------------------------------

Abort(r) ==
  /\ Crashes
  /\ req[r].op # "none"
  /\ Respond(r)
  /\ UNCHANGED <<amount, annex, history, suggestion>>

Start(r) ==
  \/ \E n \in Amount : QuoteUpdate(r, n)
  \/ \E n \in Amount : QuoteUpdateLegacy(r, n)
  \/ \E stage \in {"document", "row"} : CreateAnnex(r, stage)
  \/ \E a \in Annex : AcceptAnnex(r, a)
  \/ \E a \in Annex, to \in {"accepted", "rejected"} : Webhook(r, a, to)
  \/ ChangeEmail(r)
  \/ \E n \in Amount : PatchAmount(r, n)

Continue(r) ==
  \/ CreateDocument(r)
  \/ AutoSign(r)
  \/ CreateRow(r)
  \/ ListPending(r)
  \/ CheckStatus(r)
  \/ WriteStatus(r)
  \/ ReadService(r)
  \/ WriteAmount(r)
  \/ WriteEntry(r)

Environment ==
  \/ \E a \in Annex : EmployeeSigns(a)
  \/ \E a \in Annex, answer \in {"completed", "declined"} : ClientAnswers(a, answer)

Next == Environment \/ \E r \in Request : Start(r) \/ Continue(r) \/ Abort(r)

Spec == Init /\ [][Next]_vars

-----------------------------------------------------------------------------
(* Whatever overlaps and whatever dies, as long as no read fails.          *)

Charges(a) == {i \in DOMAIN history : history[i].annex = a}

\* No request can still write a status it has checked against an older one, or
\* repeat the one the annex has.
Settled(a) ==
  /\ annex[a].status \in Final
  /\ \A r \in Request :
       /\ req[r].annex = a => req[r].stage = "check" /\ req[r].to # annex[a].status
       /\ a \notin req[r].todo

\* The customer's answer, and the expiry of an annex, are final: once the
\* requests that were racing for an annex are done, no late or repeated webhook,
\* no acceptance by hand and no change of the price or of the e-mail moves its
\* status, or charges for it once more (isAnnexStatusTransitionAllowed, called
\* with a fresh read by updateServiceAnnex).
SettledAnnexStays ==
  [][\A a \in Annex : Settled(a) =>
       /\ Settled(a)'
       /\ annex[a].status' = annex[a].status
       /\ Charges(a)' = Charges(a)]_vars

-----------------------------------------------------------------------------
(* One request at a time, and no failures.                                 *)

Quiet == \A r \in Request : req[r] = Idle

\* An annex is accepted exactly when its difference was added to the price, and
\* then it was added once, whichever way it was accepted and however many times
\* Documenso repeats itself (/accept and the webhook).
AcceptedIsCharged ==
  Quiet => \A a \in Annex :
    /\ Cardinality(Charges(a)) = IF annex[a].status = "accepted" THEN 1 ELSE 0
    /\ \A i \in Charges(a) : history[i].new = history[i].old + annex[a].delta

\* The history the Wycena tab shows is a ledger: each entry starts where the
\* one before it ended, and the last one ends at the price of the order.
HistoryIsALedger ==
  Quiet /\ history # << >> =>
    /\ \A i \in 1..(Len(history) - 1) : history[i].new = history[i + 1].old
    /\ history[Len(history)].new = amount

\* When the panel is offered an annex for the new price, no annex for an older
\* price is still waiting for the customer (expirePendingAnnexes in /quote-update).
QuoteLeavesNothingPending ==
  [][suggestion' \notin {suggestion, NoSuggestion} =>
       \A a \in Annex : annex'[a].status # "pending"]_vars

-----------------------------------------------------------------------------
(* What the code says of itself and does not do.                           *)

\* AnnexBuilder shows the new price and POST /annex asks the customer to accept
\* the change to it: an accepted annex ends at that price.
AcceptedAtTheQuotedPrice ==
  Quiet => \A a \in Annex : \A i \in Charges(a) : history[i].new = annex[a].quoted
=============================================================================
