# MyPerformance service: verification of the service orders

The repository is the back office of a chain of phone repair shops: a Next.js application (`app/`, `lib/`)
over Directus (a REST front of a SQL database), with panels for sales, workshop and drivers (`panels/`),
Documenso for signatures, Keycloak for identity, LiveKit for consultations and Postal and Chatwoot for
messages. This project models the part that everything else serves, **the life of a service order** from intake to
handing the device back, with its status, holds, transports, price, annexes, signatures and release code; and,
beside it, the parts where state outlives a request and requests race for it: one-time codes and their limits,
consultation rooms, and the accounts of Keycloak's users in the other applications.

No handler modelled here holds a lock or opens a transaction, and only the tables the application reaches by SQL of its
own (sessions, one-time codes) have writes with a condition or an increment. A handler reads rows, decides, and writes
rows, and every `await` is a point where another handler,
a webhook or the death of the process can come in between. So all the detailed modules have one form: a
**request is a process** that takes one step per read or write of the database, and keeps in `req[r]` only
the local values the handler keeps (what it read, what it is going to write). That is where the difficult
behaviour of this system is, and it is what unit tests of the handlers do not reach.

## Inventory

Paths are under `src/`; `[id]` is `app/api/panel/services/[id]`.

| Component | State | Operations | What is hard, and what makes it correct | Here |
|---|---|---|---|---|
| Status matrix (`lib/services.ts`) | none | `canTransition`, `isAllowedTransition` | two tables for two roles; a hold must have a way back | `StatusMatrix`, `OrderLifecycle` |
| Order: status, hold, release (`[id]/status`, `[id]/route.ts`, `[id]/release`, `updateService`) | `status`, `previous_status`, `hold_reason` of `mp_services` | change status, hold and resume, generic edit, release | several writers, a check on one read and a write after it; every change of status is an arrow of the matrix, a hold can always end | `ServiceOrder` |
| Transport (`[id]/transport`, `app/api/panel/transport-jobs`) | `mp_transport_jobs.status` | request, cancel, reroute, post, the driver's three steps | two rows changed in two writes; at most one active job, a finished job stays finished, the device of an order under way is not edited | `ServiceOrder` |
| Intake confirmation (`[id]/send-electronic`, `sign-paper`, `paper-signed`, `sign`, `invalidate-*`) | three keys of the JSON column `visual_condition`, a document in Documenso | send, print, sign, invalidate, expire by an edit, poll | read-spread-merge-write of one column by everybody, calls to Documenso that take seconds; the status is what Documenso says, and the signature is on the terms the order has | `ReceiptSigning` |
| Documenso webhook (`app/api/webhooks/documenso`) | none of its own | signature, completion, rejection | lost, repeated, late, out of order | `ReceiptSigning`, `AnnexQuote` |
| Quote and annexes (`[id]/quote-update`, `[id]/annex`, `[id]/annexes/[annexId]/accept`, `lib/service-annexes.ts`) | `amount_estimate`, `mp_service_annexes`, `mp_service_quote_history` | change the price, make an annex, accept, reject, expire | three rows written one after the other; an annex is charged exactly when it is accepted, and once; the history adds up | `AnnexQuote` |
| Release codes (`lib/service-release-codes.ts`, `[id]/release`, `[id]/release/resend`) | one row per order: code, attempts, lock, use, channel | issue, resend, mail, verify, close | attempts counted by read and write, a failed mark of use is swallowed, the code is used before the order closes; a code opens once, wrong tries lock | `ReleaseCode` |
| Customer portal login (`lib/customer-portal/otp.ts`, `app/api/customer-portal/auth`) | rows of codes of an address | issue under a limit, verify, exhaust | checks and writes are separate statements; limits overrun by overlapping requests only | `PortalCode`, `Gate` |
| Two-factor codes (`lib/security/two-factor.ts`, `app/api/account/2fa`) | rows of codes of a user and purpose | request, mail with rollback, verify | withdraw and insert are two statements, the rollback may fail; a usable code was mailed | `TwoFactor`, `Gate` |
| LiveKit consultations (`lib/livekit-rooms.ts`, `app/api/livekit`, `app/api/webhooks/livekit`) | `mp_livekit_sessions`, rooms at LiveKit | start, join, end, sweep, webhooks | conditional updates against webhooks in any order, a room without a row, a sweep by age; rows only move forward, an end is logged at most once, the slot of the owner comes back | `ConsultationRoom`, `SessionLifecycle` |
| Provisioning (`lib/permissions/sync.ts`, `queue.ts`, `app/api/admin/users`, the sign-on of Chatwoot and Moodle, `app/api/webhooks/keycloak`) | users and roles in Keycloak, accounts in the applications, jobs in memory | create, delete, assign a role, change a role or open an account past that, retry three times, deprovision, reconcile | jobs lost with the process, about an address that may belong to somebody new, lists read long before they are used; accounts and roles agree with Keycloak once nothing is under way, as far as roles are assigned by the one handler that writes both | `AccountSync` |
| Locks, WebAuthn challenges, brute force, session cookie (`lib/security*`, `lib/customer-portal/session.ts`) | tables of their own, a signed token | | nothing shared with what is modelled | not modelled |
| Cascade deletion (`lib/services.ts`) | all rows of an order | delete | a list of deletions that may stop in the middle | not modelled |
| Live updates, editor presence (`lib/sse-bus.ts`, `lib/editor-presence.ts`) | in-process maps | subscribe, publish, heartbeat, sweep | synchronous; a lost event is made up for by the next read | not modelled |
| Parts, photos, documents, notes | independent rows | create, update, delete | nothing shared with what is modelled | not modelled |
| Rate limiter, upload tokens, front ends, integrations | see `PROJECT.json` | | pure functions of a clock, rendering, thin REST clients | not modelled |

How they interact. The panels call the handlers; the handlers share the row of the order, the rows that
point at it and the documents in Documenso; `updateService` is the one way to write the row, and it writes
the columns of its input after a read that serves the check of the matrix and the merge of JSON columns.
Documenso calls back by webhooks, which find the order by the `docId` in `visual_condition`, or else an
annex by its `documenso_doc_id`. A change of the price withdraws pending annexes, a significant edit
withdraws the receipt, a transport holds the order, and the driver's steps lock its edits. A release code is issued at intake
and its verification closes the order; it reads and writes nothing else of the order. LiveKit reports rooms and Keycloak
reports deletions by webhooks of their own; both find their row by a name, the room's or the user's address.

## Modules

| Module | Models |
|---|---|
| `StatusMatrix` | the statuses, the two tables and the tests on them, as functions of a status |
| `OrderLifecycle` | the abstract promise: a status that starts as "received" and follows arrows |
| `ServiceOrder` | every handler that writes the status, the hold columns or a transport job |
| `ReceiptSigning` | every handler that writes the receipt's keys of `visual_condition`; Documenso as the environment |
| `AnnexQuote` | every handler that writes the price, an annex or the price history; the panel's suggestion; Documenso |
| `ReleaseCode` | the code row of one order, the handlers that issue, mail and verify it, the closing of the order |
| `Gate` | the abstract limit: checked in one step, consumed in another, overrun by the clients in between |
| `PortalCode`, `TwoFactor` | the one-time codes of one address, and of one user and purpose |
| `SessionLifecycle` | the abstract row of a consultation: waiting, active, ended, forward only |
| `ConsultationRoom` | the handlers that start and end rooms, the sweep, the webhook and its detached entry in the history; LiveKit, customers who come and come back, and the clock as the environment |
| `AccountSync` | users of Keycloak, the queue, role assignment and the writes past it, the cascade of a deletion, reconciliation |
| `ServiceOrderProofs`, `ReceiptSigningProofs`, `AnnexQuoteProofs`, `ReleaseCodeProofs`, `LimitProofs`, `ConsultationRoomProofs`, `AccountSyncProofs` | the proofs about each; `PartsProofs`: about the five of `MCParts` together |
| `MCServiceOrder`, `MCReceiptSigning`, `MCAnnexQuote`, `MCParts` | instances for TLC |

`ServiceOrder` and `OrderLifecycle` use `StatusMatrix`; `ServiceOrder` implements `OrderLifecycle` under
`status <- order.status`. `ServiceOrder`, `ReceiptSigning` and `AnnexQuote` model disjoint columns
and rows of one order, and meet in three places, each replaced on the other side by a choice:

* the lock of the generic PATCH (jobs on the road) is computed in `ServiceOrder` and may pass or not in `ReceiptSigning`;
* whether the order is still in "received", which guards the invalidations, moves freely in `ReceiptSigning` (`StatusMoves`);
* `content` of `ReceiptSigning` stands for the significant columns as the generic PATCH writes them. `POST /quote-update`
  and the acceptance of an annex write `amountEstimate` too and leave the signed receipt standing, since the annex is the
  signature of that change; they are in `AnnexQuote`.

`MCParts` checks the five other components side by side. They share no state, so their product says nothing that the parts do not:
a behaviour picks one component when it starts (`part`) and is a behaviour of that one, with the variables of the others where
they began. A property of one component is checked as in a run of its own. The one overlap with `ServiceOrder` is the status of
the order, `device` in `ReleaseCode`: `CheckClose` and `CloseOrder` are the two halves of `updateService` for the release, `CheckMove` and `MoveOrder` those of
any other handler, so that a status validated before the order closes can be written after it.

The refinements. `ServiceOrder` implements `OrderLifecycle` and `ConsultationRoom` implements `SessionLifecycle` (`status <- session`).
The limits of the one-time codes implement `Gate`, five times: with `count` the codes of the last 15 minutes, the wrong tries of a code, or its acceptances,
and `through` the requests that have passed the check and not yet consumed. What a limit is worth when requests overlap is then one theorem about `Gate`.

What the five modules keep of their data. A release code or one-time code is the number of its issue, and what the customer types is
such a number or a wrong one; e-mail and SMS are one channel; the sweep's and the locks' half hours are flags that the clock sets or resets; a user is a number, so that
a second holder of an address is told from the first; one provider serves one area. `trouble`, `excuse`, `tfaBroken`, `givenUp`, `rejoined`, `accepted` and `tries` are
books kept for the properties: they record which failure or overlap has happened, and no action reads them but to count up to a bound.

Conventions. `Begin` is the arrival of a request: everything a handler reads before its first write that can
be told apart by the properties, and the patch it computes from it. `req[r].stage` is the call it is about
to make; `Respond` is any answer. A `Keep` (or "keep") in a patch is `undefined` in the input of `updateService`, which leaves the
column or the JSON key alone; `Null` and `None` delete. `Crashes` lets a handler die, or a write fail, at any await;
`ReadFailures` lets a read fail, which the libraries turn into `null` or `[]` and the callers take for "nothing
there": the check of the matrix and of the annex status is then skipped and the merge starts from `{}`. Definitions under a comment
"Slip:" are not part of the model: they are the bugs against which the properties are tried out.

What is abstracted: authentication and ownership of locations (they only refuse requests), rate limits, texts and
PDFs, notifications, the audit log and revisions (fire and forget, read by nothing here), rounding of
amounts to two decimals (prices are integers; a missing amount is 0, as `?? 0` makes it). The code typed at
the release is taken as right. In `AnnexQuote` an annex made with the legacy flag for Documenso has no document, so
it is one accepted by hand; the builder's retry after an error and the "Pomiń" button are a new request and no request.

## Runs

Every passing run explores its whole state space. "Sequential" means one request in flight, which is what the handlers
were written for and what their guards are checked under; "overlap" asks what remains when two interleave at every await.

| Run | Shows |
|---|---|
| `order_sequential` | With every handler the panels mount, deaths at any step, two jobs, generic edits that leave or clear the memory of a hold: the row implements the abstract life cycle; the remembered status is always one that can be resumed to; never two active jobs; nothing is edited once the device has left; sales only hands over and closes; only the generic PATCH forgets a hold. |
| `order_overlap` | All handlers, two at a time, generic edits that also name a status to remember, deaths and failing reads: a closed or archived order is reopened only by a write validated before it closed, or not validated because its read failed; a delivered or cancelled job moves only by a request that was already past its check. |
| `receipt_sequential` | All handlers and the poll, two documents, webhooks lost, repeated and late, deaths: a significant edit leaves no signature of the old terms in any of the four flows; only a webhook can make the receipt signed on terms that are no longer the order's. |
| `receipt_overlap` | Two at a time, deaths and failing reads: whatever is overwritten, the status is one the document has earned, and a document nobody refers to any more never comes back. |
| `receipt_polling` | Under fairness, a "sent" document that the customer has answered stops being shown as "sent", with every webhook lost. |
| `receipt_lost_webhook` | Violation of the same for "employee_signed": the poll looks at "sent" only. |
| `annex_sequential` | Quotes, annexes by hand and by Documenso, changes of e-mail, webhooks lost, repeated and late: an annex is accepted exactly when it has been charged, and once; the history chains and ends at the price; a new price leaves no older annex pending. |
| `annex_overlap` | All handlers, two at a time, deaths and failing writes: once no request is left that has passed its check, the status of an annex is final and it is not charged again. |
| `parts_overlap` | Each component with two requests, handlers or jobs at a time, failing calls and deaths. Release codes: one opening per code, a use that was earned, a lock after the wrong tries, a "sent" that was sent, a used code with an order left open only after a failed close or a write of the status that was validated before the close. Portal and second factor: every limit is a gate; usable codes are few and were mailed. Rooms: rows only move forward, at most one end in the history and a reason where there is none, a second room of an owner only beside one that was swept, has no row, or was opened again after its end. Accounts: a user Keycloak knows loses an account only to work for an earlier holder of the address or to an outdated list; leftovers are explained by lost work, disagreeing roles also by overlapping assignments or writes past the assignment. |
| `parts_fair` | Rooms and accounts under fairness: the session of a closed room ends unless its webhook was given up, and then with the next sweeps; the accounts of a deleted user go unless the work was lost. Two attempts per job, so that retrying matters. |
| `account_reconcile` | Violation: reconciliation deletes the account of a user Keycloak knows, after a page that failed or a creation behind the read. |
| `annex_quoted_price` | Violation: an accepted annex ends at the quoted price plus the difference once more. |

Bounds, and why they are enough.

* `Request`: one or two. Every race of this code is between a check and the write it guards, and another write; a third request
  adds none of a new kind. The theorems that hold under overlap hold for any number.
* `Job`, `Doc`: two in the sequential runs (a second one after the first is finished or let go of), one under
  overlap, except where the question is about two. `Annex`: two in sequence, so that an annex is expired and replaced; one under overlap.
* `Target`: `MainLine` has every status that a hold, a transport, a release or the archive needs; `ShortLine`
  is the shortest line from intake to closing and reopening that overlapping requests can race along. The matrix itself is always the whole one.
* `Content`: two terms, so that old and new differ. `Amount`: {0, 2, 3} in sequence, with rises and falls of different sizes; {0, 1} under overlap.
* `MaxEntries`, `MaxAmount` bound the history and the price, which grow without limit when acceptances are retried after deaths; they stop new requests
  (not changes of e-mail), never one in flight. Three entries under overlap are a quote, the acceptance, and one charge too many.
* `Body`: what the generic PATCH may carry. In sequence, any status and a memory left alone or cleared; under overlap, a status to remember as well. No screen
  sends the columns of the hold, but the route passes on whatever it gets, and nothing checks a memory: `ResumeIsLegal` is about bodies that name none.
* `MountedOps` leaves out `POST /transport-jobs`, whose only button is in a dialog no panel mounts (`ServiceDetailDialog`); with it two active jobs are trivial. `order_overlap` has it.

* The five parts: two requests or jobs; two rooms of one seller (an owner's second room) in `parts_overlap`, and one room of a seller or an agent in `parts_fair`; limits of two
  (one try short of the limit, at it, and one past it), three one-time codes (one more than the window lets through); two release codes and three calls of release or changes of the
  status (`MaxCalls`: two overlapping right codes and a change validated before they close the order, or a wrong try before two more); one address held by two users in turn.
  `ReleaseTarget`, the statuses the other handlers ask for, is one that can be reached before the release; a change to any other is validated and written in the same two steps.
  `MaxRejoins` = 1: one finished room is opened again, beside one that is not. `MaxJobs` counts assignments and writes past them: two make an overlap, or one behind the other.
  `parts_fair` has one request per component, since its properties are about what is never finished, and two providers, so that one that refuses makes the job visit both again.

Symmetry is used for requests, jobs, documents, annexes and rooms, which are only compared with each other, and only in runs
without liveness. Deadlock is checked in the runs of the order, where some handler can always start; not in the runs of the parts, which stop when the
bounded codes, rooms and users have been used up.

Fairness (`FairSpec`, in the polling runs). Weak fairness of `Continue`: a handler that has started goes on, as the event loop makes it. Strong fairness of
`Poll`: the panel repeats GET every few seconds and the server takes the next one whatever else it serves; the
poll is blocked in the model only because `Request` bounds how many requests are in flight, so its being enabled again and again
is the model's picture of a poll that is always possible. No fairness is assumed of Documenso, of its webhooks or of the customer.

`parts_fair`: weak fairness of a handler that has started and of a job (`StartStep`, `JobStep`), as the event loop runs them and as `await sleep` returns; of a webhook of
LiveKit, delivered until it is acknowledged or given up (`WebhookLost` stays possible at any time, and is what `givenUp` records); of a deletion event of Keycloak, which reaches
a free handler or is lost; and of the clock (`HalfHourPasses`). Nobody is made to start or join a consultation, and failures may go on for ever: `Retry` ends because the attempts do. The components
that are not in play have nothing enabled, so their fairness asks for nothing.

## Proofs

Proved for every value of the constants under `ConstantsAssumption`, so for any number of requests, jobs, documents, annexes and prices:

* **Types.** `TypeOK` of the three detailed modules is not inductive alone. `ReceiptSigning` and `AnnexQuote` need that a handler at a stage that works on
  a document or an annex has one (`Handler`), or a record field is read of nothing.
* **`StaleReopening`** (`ReopenedOnlyByStaleWrite`) and **`WritesValidated`.** A request at "write" with a status carries in `before` what it validated against; the arrow from `before` is in the matrix,
  or a read failed. No arrow leaves a status of `Terminal` (`closed`, `archived`), so a write that reopens the order has a `before` from
  earlier, or none because its read failed.
* **`FinishedJobsStay`** (`FinishedJobsSettle`). A finished job that no request is about to write is settled, and settled is inductive: each handler that could write it refuses it when it reads it.
* **`HoldsCanResume`, `OneTransport`, `HandlersImplementLifecycle`**: with `Request` a singleton (one request at a time) and reads that do not fail;
  `HoldsCanResume` (and `HoldsAreRemembered` below) with generic edits that name no status to remember (`BodiesNameNoMemory`);
  `OneTransport` also without the bare POST of a transport job, which adds one without a look at the others. Between the check and the write of the one handler nothing moves, so what it carries still
  agrees with the row (`OrderInv` and `JobInv` say, per stage, what its patch may hold); the refinement then is: every write is an arrow, every other step a stutter.
* **`EditsStop`** (`EditsStopAtPickup`), **`SalesReleases`** (`SalesOnlyReleases`), **`HoldsAreRemembered`** (`OnlyEditsForgetHold`), under the same two hypotheses. These are about single writes, so `PatchInv` says of each
  handler what it is about to write: an edit past its lock still finds no job on the road, a write in the role of sales goes to "delivered" or "closed", and a patch that begins or ends a hold says so in `previous_status`.
* **`StatusesAreEarned`** (`StatusIsEarned`). A status that says what the customer did is what the document is in; "employee_signed" and "paper_pending" say only that the automatic
  signature was reported, which it also is when a field was signed and the completion failed, so they ask for a document of their flow that exists. The invariant that is needed extends "earned" from the column to every copy of it: the patch and the
  base that each request in flight carries are earned too, and what a document has earned it never loses, since its state in Documenso only advances. A merge picks one of the two for the key.
* **`ForgottenForGood`** (`ForgottenIsForever`). If neither the column nor a request mentions a document, no step introduces it: handlers take the `docId` from the column or create a new one, and webhooks find orders by the column.
* **`EditsUnsign`** (`EditLeavesNothingSigned`), **`OldTermsNeedAWebhook`** (`OnlyWebhooksSignOldTerms`), with one request at a time and reads that do not fail. `ReceiptInv`: a document that is "sent" was made for the
  terms the order has (**`SentIsOnTerms`**), and each handler carries either nothing new, or a document made for these terms, or an edit that expires what it has seen. The poll signs only what is "sent", so only
  a webhook, which looks at no status, can sign what an edit has expired; without webhooks a signature is always on the current terms (**`PollSignsCurrentTerms`**).
* **`AnswerIsFinal`** (`SettledAnnexStays`), when reads do not fail. A settled annex is final and all that is left around it are requests at their check that mean another status; the check reads the row and refuses them.

* **`GateIsOverrunByClients`**: `through` is a set of clients and each consumes once, so `count + |through|` stays below `Limit + |Client|`: whoever enters does so below the limit.
  **`IssuesPassTheGate`, `OtpLimitsAreGates`, `TfaLimitsAreGates`**: every step of the handlers, and time, is a step of the gate or none. They need the types, that `attempts` of a row counts its wrong tries, and
  that a code which was accepted is used: a request enters the gate on what the row says, the gate counts what happened.
  **`OtpOverrunIsBounded`, `TfaOverrunIsBounded`** put the two together: three codes per window, five wrong tries per code and one acceptance are exceeded by less than the number of requests that overlap. The step of a gate is a lemma about
  numbers and sets (`GateStepKeeps`), so that it serves every instance.
* **`LiveCodesStayFew`**: the usable second factors and those about to be inserted together number no more than the requests: a withdrawal leaves none usable, and an insertion turns one of the second kind
  into one of the first. **`LiveCodesWereMailed`**: a code not mailed is in the hands of the request that inserted it.
* **`OneCodeOpensOnce`, `UseIsAcceptance`, `WrongTriesAreLocked`, `MailedIsSent`, `UseHandsOver`** of the release code. As long as no write was stale or lost, what a verification has read is what the row still says when it writes
  (otherwise the write is the stale one); so an accepted code has been marked, the attempts are the tries, and the lock falls with the last of them. `tries` and `attempts` are tied by an
  inequality, because a lock that ends leaves `attempts` where they were. `UseHandsOver` has a used code in the hands of a request that is about to close the order, or the order closed, or `trouble` on
  record: a failed close, or a write of a status (`MoveOrder`) over one that has changed since its check.
* **`SecondRoomsAreLeftovers`, `EndsAreLoggedOnce`, `RowsMoveForward`** of the rooms. The unique index makes open rows of one owner one; a row that is ended without its half hour
  belongs to a room that was finished first (`EndsAreReal`), so that if it is at LiveKit somebody has come back to it (`rejoined`). Each row is in one of the states of its entry (none, due, written, missing) and leaves
  "none" in the step that ends it, which happens once.
* **`AccountsAreKept`, `LeftoversHaveAReason`, `AccountsAgree`** of provisioning. Who a job is about is inductive: the user of a deletion had the address before its holder of now, and drift
  is never in the list that was read. For the other two the proof says once what any step does for one address and one application (`Effect`) and argues from that alone. An account without a
  user is covered by a report Keycloak still owes or by a job that has yet to visit the application (`LeftoversCovered`). An assignment that has been alone knows the roles of its user
  (`Progress`, from `Exclusive`: two assignments in one area are marked, and so is whoever writes Keycloak or the application alone), so the account it writes at its end has the role it left in Keycloak; a user who comes back under an old address either
  has no account or one that is still covered (`Settled`).

* **`AcceptanceCharges`, `HistoryBalances`, `OfferLeavesNothingPending`** of the annexes, with one request at a time (`OneCaller`: no crash, no read that fails, none of the two
  handlers that bypass the history). While a handler runs, what it is about to charge is all that the books lack (`Books`), and what it carries is what the rows still say (`Knows`): the
  status it has checked, the pending annexes it has yet to expire, the price it will start from.

* **`PartsAreComponents`**: no component of `MCParts` writes a variable of another, so each one's specification is implied by the composition's. From it **`PartsTypesOK`** (`PartsTypeOK`),
  **`PartsStaySafe`** and **`PartsMoveSafely`**: what is proved of the components holds of the specification that `parts_overlap` checks, with any components in play.

Assumed everywhere: the named assumptions of the component's module, which only say that bounds are numbers, that requests are finitely many where they are counted, and that
model values are distinct.

Only model-checked: what needs fairness (`PollMakesUpForWebhooks`, `ClosedRoomEndsSession`, `SweepEndsTheRest`, `DeletedUsersAreForgotten`). Liveness and ENABLED, and what a recursive definition computes, are out of the prover's reach; no module here uses recursion.

## What the code does and its comments deny

In `PROJECT.json` with a counterexample each:

1. A lost completion webhook is never made up for once the automatic signature has succeeded, which is the normal case (`[id]/route.ts:72`).
2. A price raised from 100 to 150 with an annex ends at 200: `quote-update` writes 150 and suggests an annex for +50, whose acceptance adds 50 again
   (`[id]/annexes/[annexId]/accept/route.ts:120`, and the webhook). The customer's PDF says 150 to 200.
3. Reconciliation takes the pages of Keycloak it could read for all of them, and the users of that moment for those of now (`lib/permissions/sync.ts:764`): accounts of users who exist are deleted.

Others met on the way, without a run:

* Two overlapping transport requests both pass the 409 (`[id]/transport/route.ts:150`; `OneActiveTransport` holds for one request at a time).
* A late completion signs a receipt that an edit has expired (`app/api/webhooks/documenso/route.ts:382`; `SignedTermsAreCurrent` in `ReceiptSigning` fails).
* The employee's signature, most often the automatic one, accepts the annex when Documenso announces it after the row is there (`app/api/webhooks/documenso/route.ts:461`).
* "room po stronie LiveKit już nie istnieje" (`lib/livekit-rooms.ts:267-271`) holds for a room that stayed empty: a consultation longer than half an hour is ended in the table while people are in it, is missing from the history, and its owner can start another.
* A link to a consultation outlives it: `GET livekit/join-token` asks for no session and LiveKit creates a room on the first join (`lib/livekit.ts:122`), so a finished room can be opened again, by the client too. Its row
  stays ended, it holds no slot, and the owner may start a second room beside it.
* The history of an order may lack the end of a consultation: the entry is a detached write after the row has ended (`app/api/webhooks/livekit/route.ts:192`), made only for a row with an order, its failure is swallowed
  (`lib/service-actions.ts:147`), and a repeated delivery finds the row ended and makes no entry.
* A completion that Documenso refuses counts as an automatic signature once a field is signed (`ok: signed > 0`, `lib/documenso.ts:836-843`): the order then shows "employee_signed" (`send-electronic/route.ts:293`) or
  "paper_pending" (`sign-paper/route.ts:210`) for a document that still waits for the employee.
* A status validated before the release closes the order and written after it reopens the order (`lib/services.ts:895-959`): its code is used up and the device is on the shelf again, with nothing having failed.
* `POST admin/users/[id]/roles` changes the roles of an area in Keycloak and tells no application; `POST admin/users/[id]/chatwoot` and `.../moodle`, and the sign-on of Chatwoot and Moodle, open or change an account and leave
  Keycloak as it is. `RolesAgree` excuses whoever they have touched.
* `lib/permissions/queue.ts`: the key that is to make a job idempotent is compared with nothing, so a deletion in the panel runs twice; "cron reconciliation ... retryuje całość" (177-180) has no such cron. The lookups of the providers (`providers/directus.ts:277` and its like) turn an error
  into "no such account", and the job counts as done.
* A deletion is about an address: retried, or reported late, it deletes the account of a user who has got the address since. Leaving a group revokes nothing in the applications.
* The code on paper: `notifyReleaseCode` does nothing for "paper" and the handler records it as handed over.
* The header of `lib/customer-portal/otp.ts` and its code disagree on the window of the limit; the code counts 15 minutes. `cleanupExpired` of the second factor is called by nobody. A code of another user is used up by naming its id.

* DOCUMENT_SIGNED and DOCUMENT_COMPLETED that arrive together both pass the "no-op" test and the check (accepted to accepted is allowed): the annex is charged twice.
  An acceptance that overlaps an expiry may be charged and end as expired. `/accept` adds to the price read at its start and overwrites a change in between. A write of the status that fails is `null` to callers, which charge all the same.
* The generic PATCH takes `previousStatus` and `holdReason` from its body with no check of them (`[id]/route.ts:281`, `lib/services.ts:914-918`), so a client may have an order resume to whatever it names, if the matrix lets it
  go there at all. It can start or end a hold without writing `previous_status` (the model's `OnlyEditsForgetHold` says only it can), and can change the price without an entry in the history.
* The comment on `updateService` that the merge "zapobiega overwrite races" (`lib/services.ts:887`) does not hold: two merges over the same base lose one, and a stale spread brings keys back. A failed pre-fetch skips the validation.
* `DELETE /sign` deletes nothing: a key missing from the patch is kept by the merge. `POST /send-electronic` on "employee_signed" makes a second document without `force`. A late intermediate webhook takes "signed" back to "employee_signed".
* `invalidate-paper` checks the paper signature only, so it removes a receipt the customer has signed electronically. `paper-signed` accepts a document that has expired. A failed automatic signature of a paper document leaves it in Documenso with nobody pointing to it.
* `POST /transport` creates the job before the hold: from a status that cannot be held the answer is 409 and the job stays queued. Rerouting writes the hold reason of an order that is not on hold.
* The webhook answers 200 when its write has failed, so Documenso does not try again; repeated deliveries are not recognised.
* The lock of the generic PATCH counts delivered jobs, so it never opens again after the first transport.
* A code is used up before the release closes the order, and stays used when closing fails.

## Not modelled

* Provisioning beyond roles: the sign-on of Directus, Documenso, Outline and Postal and the memberships in organisations of Documenso (`admin/users/[id]/documenso`), which have roles of their own; roles that come with a group (`admin/groups/[id]/roles`);
  the propagation of profiles and changes of e-mail; the catalogue of roles (`kc-sync.ts`); the BullMQ backend.
* Cascade deletion, parts, photos, documents and notes: rows written in one call each, with no decision between two calls.
* Locks, WebAuthn challenges and brute-force counters; the session cookie and the upload tokens, which are signed and stateless; the rate limiter, which is synchronous.
* Live updates and editor presence: synchronous maps of one process, read by nothing that is modelled.
* Integrations and front ends: REST clients and rendering, except for the two pieces of the panels that guard a handler.

Most of the repository is of the last kind (forms, detail views, three-dimensional configurators, templates of mails), which is why the map names a small share of its lines.

## Plan

Done: the order, its receipt, its annexes and its release code; one-time codes; consultations; provisioning; their runs and proofs. Left, in this order:

1. An abstract receipt (not sent, out, answered, withdrawn) that `ReceiptSigning` implements when requests do not overlap and webhooks are in time.
2. Profile propagation and changes of e-mail in `AccountSync`, where a job is about two addresses.
3. WebAuthn challenges and locks, as further instances of `Gate`.
