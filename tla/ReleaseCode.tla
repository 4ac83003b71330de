---------------------------- MODULE ReleaseCode ----------------------------
(***************************************************************************)
(* The code a customer gives to collect a device: the row of               *)
(* mp_service_release_codes of one order (lib/service-release-codes.ts)    *)
(* and the handlers that issue it (intake, release/resend) and check it    *)
(* (release).  A row is read, judged and written back in separate calls of *)
(* Directus, and failures of the writes are logged and otherwise ignored.  *)
(***************************************************************************)
EXTENDS StatusMatrix, Naturals, FiniteSets

CONSTANTS
  ReleaseRequest,      \* requests that can be in flight at the same time
  MAX_ATTEMPTS,        \* wrong tries that lock the code: 5 in the code
  MaxCodes,            \* bound: codes issued for the order
  MaxCalls,            \* bound: calls of release
  ReleaseTarget,       \* statuses the other handlers move the order to
  ReleaseFailures      \* a call of Directus or of the mail may fail

ASSUME ReleaseAssumption ==
  /\ MAX_ATTEMPTS \in Nat \ {0}
  /\ MaxCodes \in Nat
  /\ MaxCalls \in Nat
  /\ ReleaseTarget \subseteq Status
  /\ ReleaseFailures \in BOOLEAN

VARIABLES
  codeRow,    \* the row: which code it holds, attempts, lock, use, channel
  device,     \* status of the order
  moving,     \* the status that another request is about to write to the order
  codeReq,    \* codeReq[r]: local state of the handler of request r
  calls,      \* number of calls of release so far
  issued,     \* number of codes drawn so far: code n is the n-th one
  inbox,      \* codes the customer has received
  accepted,   \* accepted[c]: how many verifications of code c succeeded
  tries,      \* wrong tries judged since the code was issued or a lock ended
  trouble     \* what has gone wrong so far

codeVars ==
  <<codeRow, device, moving, codeReq, calls, issued, inbox, accepted, tries, trouble>>

RELEASABLE == {"delivered", "ready", "rejected_by_customer", "returned_no_repair"}

Code == 1..MaxCodes
Wrong == 0   \* six digits that were never issued

\* `code` is 0 while no row exists; `locked`: locked_until lies in the future.
Row == [code : 0..MaxCodes, attempts : Nat, locked : BOOLEAN, used : BOOLEAN,
        sentVia : {"none", "mail", "paper"}]
NoRow == [code |-> 0, attempts |-> 0, locked |-> FALSE, used |-> FALSE, sentVia |-> "none"]

CodeStage == {"idle", "verify", "mark", "count", "close", "closing",
              "find", "create", "replace", "notify", "sent"}

\* `code` is the code typed in or drawn, `seen` the row the handler judges.
CodeRequest == [stage : CodeStage, code : 0..MaxCodes, seen : Row, via : {"mail", "paper"}]
CodeIdle == [stage |-> "idle", code |-> 0, seen |-> NoRow, via |-> "mail"]

\* "stale": a write computed from a row that has changed since; "lost": a write
\* of the row failed; "close": an order was not closed after its code was used;
\* "overtaken": another request has moved the order along no arrow.
Trouble == {"stale", "lost", "close", "overtaken"}

ReleaseTypeOK ==
  /\ codeRow \in Row
  /\ device \in Status
  /\ moving \subseteq ReleaseTarget
  /\ codeReq \in [ReleaseRequest -> CodeRequest]
  /\ calls \in 0..MaxCalls
  /\ issued \in 0..MaxCodes
  /\ inbox \subseteq Code
  /\ accepted \in [Code -> Nat]
  /\ tries \in Nat
  /\ trouble \subseteq Trouble

ReleaseInit ==
  /\ codeRow = NoRow
  /\ device = "received"
  /\ moving = {}
  /\ codeReq = [r \in ReleaseRequest |-> CodeIdle]
  /\ calls = 0
  /\ issued = 0
  /\ inbox = {}
  /\ accepted = [c \in Code |-> 0]
  /\ tries = 0
  /\ trouble = {}

-----------------------------------------------------------------------------
(* Control flow of a handler.                                              *)

CodeGoto(r, stage) == codeReq' = [codeReq EXCEPT ![r].stage = stage]
CodeRespond(r) == codeReq' = [codeReq EXCEPT ![r] = CodeIdle]

\* What a verification judges: everything but the record of the mailing.
Judged(row) == [row EXCEPT !.sentVia = "none"]

\* A write of the row by request r is stale when the row is no longer what the
\* request has judged.
Blame(r) ==
  trouble' = IF codeReq[r].seen = Judged(codeRow) THEN trouble ELSE trouble \cup {"stale"}

-----------------------------------------------------------------------------
(* generateReleaseCode and what follows it in intake and release/resend.   *)

\* Intake issues the first code; resend issues a new one in any status.
Issue(r, via) ==
  /\ codeReq[r] = CodeIdle
  /\ issued < MaxCodes
  /\ issued = 0 \/ via = "mail"              \* only intake may choose paper
  /\ issued' = issued + 1
  /\ codeReq' = [codeReq EXCEPT ![r] = [CodeIdle EXCEPT !.stage = "find", !.code = issued + 1,
                                                        !.via = via]]
  /\ UNCHANGED <<codeRow, device, moving, inbox, accepted, tries, trouble, calls>>

\* fetchByServiceId turns a failure into null, and null means: create.
FindRow(r) ==
  /\ codeReq[r].stage = "find"
  /\ \/ /\ codeRow # NoRow
        /\ CodeGoto(r, "replace")
     \/ /\ codeRow = NoRow \/ ReleaseFailures
        /\ CodeGoto(r, "create")
  /\ UNCHANGED <<codeRow, device, moving, issued, inbox, accepted, tries, trouble, calls>>

NewRow(c) == [NoRow EXCEPT !.code = c]

\* Slip: the new code inherits what happened to the old one.
ReplaceRowKeeping(r) ==
  /\ codeReq[r].stage = "replace"
  /\ codeRow' = [codeRow EXCEPT !.code = codeReq[r].code, !.sentVia = "none"]
  /\ tries' = 0
  /\ CodeGoto(r, "notify")
  /\ UNCHANGED <<device, moving, issued, inbox, accepted, trouble, calls>>

ReplaceRow(r) ==
  /\ codeReq[r].stage = "replace"
  /\ codeRow' = NewRow(codeReq[r].code)
  /\ tries' = 0
  /\ CodeGoto(r, "notify")
  /\ UNCHANGED <<device, moving, issued, inbox, accepted, trouble, calls>>

\* UNIQUE(service_id): the second of two creations fails.
CreateRow(r) ==
  /\ codeReq[r].stage = "create"
  /\ \/ /\ codeRow = NoRow
        /\ codeRow' = NewRow(codeReq[r].code)
        /\ tries' = 0
        /\ CodeGoto(r, "notify")
     \/ /\ codeRow # NoRow
        /\ CodeRespond(r)
        /\ UNCHANGED <<codeRow, tries>>
  /\ UNCHANGED <<device, moving, issued, inbox, accepted, trouble, calls>>

\* Slip: a message that could not be sent is recorded as sent.
NotifyTrusting(r) ==
  /\ codeReq[r].stage = "notify"
  /\ \/ inbox' = inbox \cup {codeReq[r].code}
     \/ ReleaseFailures /\ UNCHANGED inbox
  /\ CodeGoto(r, "sent")
  /\ UNCHANGED <<codeRow, device, moving, issued, accepted, tries, trouble, calls>>

\* A code on paper is recorded as handed over, and printed nowhere yet.
Notify(r) ==
  /\ codeReq[r].stage = "notify"
  /\ \/ /\ inbox' = IF codeReq[r].via = "mail" THEN inbox \cup {codeReq[r].code} ELSE inbox
        /\ CodeGoto(r, "sent")
     \/ /\ ReleaseFailures /\ codeReq[r].via = "mail"
        /\ CodeRespond(r)
        /\ UNCHANGED inbox
  /\ UNCHANGED <<codeRow, device, moving, issued, accepted, tries, trouble, calls>>

\* markReleaseCodeSent reads the row for its id and writes the channel, whatever
\* code the row holds by now.
MarkSent(r) ==
  /\ codeReq[r].stage = "sent"
  /\ codeRow' = [codeRow EXCEPT !.sentVia = codeReq[r].via]
  /\ trouble' = IF codeRow.code = codeReq[r].code THEN trouble ELSE trouble \cup {"stale"}
  /\ CodeRespond(r)
  /\ UNCHANGED <<device, moving, issued, inbox, accepted, tries, calls>>

-----------------------------------------------------------------------------
(* POST /services/[id]/release and verifyReleaseCode.                      *)

\* The handler stops at once unless the order can be handed over.
Release(r, c) ==
  /\ codeReq[r] = CodeIdle
  /\ device \in RELEASABLE
  /\ c \in inbox \cup {Wrong}
  /\ calls < MaxCalls
  /\ calls' = calls + 1
  /\ codeReq' = [codeReq EXCEPT ![r] = [CodeIdle EXCEPT !.stage = "verify", !.code = c]]
  /\ UNCHANGED <<codeRow, device, moving, issued, inbox, accepted, tries, trouble>>

\* Slip: the lock is looked at, the use is not.
RefusedIfLocked(row) == row = NoRow \/ row.locked

Refused(row) == row = NoRow \/ row.locked \/ row.used

ReadCode(r) ==
  /\ codeReq[r].stage = "verify"
  /\ \/ /\ Refused(codeRow) \/ ReleaseFailures
        /\ CodeRespond(r)
     \/ /\ ~Refused(codeRow)
        /\ codeReq' = [codeReq EXCEPT
             ![r].stage = IF codeReq[r].code = codeRow.code THEN "mark" ELSE "count",
             ![r].seen = Judged(codeRow)]
  /\ UNCHANGED <<codeRow, device, moving, issued, inbox, accepted, tries, trouble, calls>>

MarkUsed(r) ==
  /\ codeReq[r].stage = "mark"
  /\ \/ /\ codeRow' = [codeRow EXCEPT !.used = TRUE, !.attempts = 0, !.locked = FALSE]
        /\ Blame(r)
     \/ /\ ReleaseFailures                   \* a warning in the log
        /\ trouble' = trouble \cup {"lost"}
        /\ UNCHANGED codeRow
  /\ accepted' = [accepted EXCEPT ![codeReq[r].code] = @ + 1]
  /\ CodeGoto(r, "close")
  /\ UNCHANGED <<device, moving, issued, inbox, tries, calls>>

\* Slip: the lock starts one try late.
CountWrongLate(r) ==
  /\ codeReq[r].stage = "count"
  /\ LET n == codeReq[r].seen.attempts + 1
     IN codeRow' = [codeRow EXCEPT !.attempts = n, !.locked = @ \/ n > MAX_ATTEMPTS]
  /\ Blame(r)
  /\ tries' = tries + 1
  /\ CodeRespond(r)
  /\ UNCHANGED <<device, moving, issued, inbox, accepted, calls>>

\* attempts is the value read plus one, not an increment of the column.
CountWrong(r) ==
  /\ codeReq[r].stage = "count"
  /\ \/ /\ LET n == codeReq[r].seen.attempts + 1
           IN codeRow' = [codeRow EXCEPT !.attempts = n, !.locked = @ \/ n >= MAX_ATTEMPTS]
        /\ Blame(r)
     \/ /\ ReleaseFailures                   \* a warning in the log
        /\ trouble' = trouble \cup {"lost"}
        /\ UNCHANGED codeRow
  /\ tries' = tries + 1
  /\ CodeRespond(r)
  /\ UNCHANGED <<device, moving, issued, inbox, accepted, calls>>

\* Slip: a failure of the close is taken for a success.
CloseOrderQuietly(r) ==
  /\ codeReq[r].stage = "closing"
  /\ device' \in {device, "closed"}
  /\ CodeRespond(r)
  /\ UNCHANGED <<codeRow, moving, issued, inbox, accepted, tries, trouble, calls>>

\* updateService validates the arrow on a read, and a read that fails skips the
\* validation.  An order already closed may be closed once more.
Validated(to) == isAllowedTransition(device, to) \/ ReleaseFailures

CheckClose(r) ==
  /\ codeReq[r].stage = "close"
  /\ \/ /\ Validated("closed")
        /\ CodeGoto(r, "closing")
        /\ UNCHANGED trouble
     \/ /\ ~isAllowedTransition(device, "closed")          \* the 500
        /\ CodeRespond(r)
        /\ trouble' = trouble \cup {"close"}
  /\ UNCHANGED <<codeRow, device, moving, issued, inbox, accepted, tries, calls>>

\* And writes the status later, whatever it is by then.
CloseOrder(r) ==
  /\ codeReq[r].stage = "closing"
  /\ \/ /\ device' = "closed"
        /\ UNCHANGED trouble
     \/ /\ ReleaseFailures                                 \* the 500
        /\ trouble' = trouble \cup {"close"}
        /\ UNCHANGED device
  /\ CodeRespond(r)
  /\ UNCHANGED <<codeRow, moving, issued, inbox, accepted, tries, calls>>

-----------------------------------------------------------------------------
(* The environment of the handlers.                                        *)

\* A handler dies, or Directus fails where that ends the request.
CodeDie(r) ==
  /\ ReleaseFailures
  /\ codeReq[r].stage # "idle"
  /\ trouble' = IF codeReq[r].stage \in {"close", "closing"}
                THEN trouble \cup {"close"} ELSE trouble
  /\ CodeRespond(r)
  /\ UNCHANGED <<codeRow, device, moving, issued, inbox, accepted, tries, calls>>

\* The half hour is over; attempts keeps its value.
LockEnds ==
  /\ codeRow.locked
  /\ codeRow' = [codeRow EXCEPT !.locked = FALSE]
  /\ tries' = 0
  /\ UNCHANGED <<device, moving, codeReq, issued, inbox, accepted, trouble, calls>>

\* The other handlers of the order (module ServiceOrder): updateService again, which
\* checks the arrow on the status it has read and writes later, or never.  Bound:
\* one such request at a time.
CheckMove(to) ==
  /\ moving = {}
  /\ Validated(to)
  /\ moving' = {to}
  /\ UNCHANGED <<codeRow, device, codeReq, issued, inbox, accepted, tries, trouble, calls>>

MoveOrder(to) ==
  /\ to \in moving
  /\ device' = to
  /\ moving' = {}
  /\ trouble' = IF isAllowedTransition(device, to) THEN trouble ELSE trouble \cup {"overtaken"}
  /\ UNCHANGED <<codeRow, codeReq, issued, inbox, accepted, tries, calls>>

ReleaseNext ==
  \/ \E r \in ReleaseRequest :
       \/ \E via \in {"mail", "paper"} : Issue(r, via)
       \/ \E c \in 0..MaxCodes : Release(r, c)
       \/ FindRow(r) \/ ReplaceRow(r) \/ CreateRow(r) \/ Notify(r) \/ MarkSent(r)
       \/ ReadCode(r) \/ MarkUsed(r) \/ CountWrong(r)
       \/ CheckClose(r) \/ CloseOrder(r) \/ CodeDie(r)
  \/ LockEnds
  \/ \E to \in ReleaseTarget : CheckMove(to) \/ MoveOrder(to)

ReleaseSpec == ReleaseInit /\ [][ReleaseNext]_codeVars

-----------------------------------------------------------------------------
(* What the code promises.                                                 *)

\* "Kod jednorazowy": no code lets two verifications through, unless a write
\* was computed from a row that had changed or the mark of its use was lost.
CodeOpensOnce ==
  \A c \in Code : accepted[c] > 1 => trouble \cap {"stale", "lost"} # {}

\* A row is marked as used only for the code that was accepted: a freshly
\* issued code is not dead on arrival, unless a verification of the previous
\* one wrote over it.
UsedCodeWasAccepted ==
  codeRow.used /\ "stale" \notin trouble => accepted[codeRow.code] > 0

\* A code is used up for nothing, with the order waiting to be handed over and
\* nobody about to close it, only when closing it failed, the handler died before
\* it, or another request reopened the order with a status it had validated before
\* (or, its read failing, not at all).
UsedUpOnlyByFailure ==
  /\ codeRow.used /\ device \in RELEASABLE
  /\ \A r \in ReleaseRequest : codeReq[r].stage \notin {"close", "closing"}
  => trouble \cap {"close", "overtaken"} # {}

\* Between two ends of a lock no more than MAX_ATTEMPTS wrong tries are judged,
\* and the last of them finds the code locked, unless an attempt was lost or
\* written over the count of another.
WrongTriesLock ==
  trouble \cap {"stale", "lost"} = {} =>
    /\ tries <= MAX_ATTEMPTS
    /\ tries = MAX_ATTEMPTS => codeRow.locked

\* "Ostatnio wyslane via email": what the panel shows as mailed is the code the
\* row holds, unless another code was issued before the mailing was recorded.
SentCodeWasMailed ==
  codeRow.sentVia = "mail" /\ "stale" \notin trouble => codeRow.code \in inbox
=============================================================================
