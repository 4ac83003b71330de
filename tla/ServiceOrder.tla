---------------------------- MODULE ServiceOrder ----------------------------
(***************************************************************************)
(* One row of mp_services, the transport jobs that point at it, and the    *)
(* HTTP handlers that move its status: PATCH /status, the generic PATCH,   *)
(* release, and the request, edit and cancellation of a transport.         *)
(*                                                                         *)
(* Directus is reached over REST and no handler locks or compares on       *)
(* write, so every await is a point where another handler may run.  Each   *)
(* request is a process: a step per read or write of the database, and in  *)
(* between only the local values the handler keeps.                        *)
(***************************************************************************)
EXTENDS StatusMatrix

CONSTANTS
  Request,      \* requests that can be in flight at the same time
  Job,          \* transport jobs that can be created for the order
  NoJob,        \* the request concerns no job
  Op,           \* the handlers that are called
  Target,       \* the statuses the bodies of PATCH /status ask for
  Body,         \* the bodies of the generic PATCH
  Crashes,      \* a handler may die, or a Directus write fail, at any await
  ReadFailures  \* a Directus read may fail, which the library turns into null

Null == "null"  \* a null column
Keep == "keep"  \* `undefined` in UpdateServiceInput: the column is not written

OrderOp == {"status", "sales", "edit", "release"}
JobOp == {"transport", "post", "cancel", "reroute", "take", "pickup", "deliver"}
HoldReason == {Null, "manual", "transport"}
JobStatus == {"none", "queued", "assigned", "in_transit", "delivered", "cancelled"}

VARIABLES
  order,  \* the row: status, previous_status, hold_reason
  job,    \* job[j]: status of the transport job, "none" before it exists
  req     \* req[r]: the local state of the handler that serves request r

vars == <<order, job, req>>

Patch == [status : Status \cup {Keep},
          previousStatus : Status \cup {Null, Keep},
          holdReason : HoldReason \cup {Keep}]

NoPatch == [status |-> Keep, previousStatus |-> Keep, holdReason |-> Keep]

ASSUME ConstantsAssumption ==
  /\ NoJob \notin Job
  /\ Op \subseteq OrderOp \cup JobOp
  /\ Target \subseteq Status
  /\ Body \subseteq Patch
  /\ Crashes \in BOOLEAN
  /\ ReadFailures \in BOOLEAN

Stage == {"idle", "lock", "active", "create", "job", "cancel", "drive", "merge", "write"}

\* `before` is the status read by the pre-fetch of updateService.
RequestState == [op : OrderOp \cup JobOp \cup {"none"}, stage : Stage, patch : Patch,
                 before : Status \cup {Null}, job : Job \cup {NoJob}]

Idle == [op |-> "none", stage |-> "idle", patch |-> NoPatch,
         before |-> Null, job |-> NoJob]

TypeOK ==
  /\ order \in [status : Status, previousStatus : Status \cup {Null}, holdReason : HoldReason]
  /\ job \in [Job -> JobStatus]
  /\ req \in [Request -> RequestState]

\* Intake writes status "received"; it creates a queued pickup job when the
\* point of sale needs transport to the workshop.
Init ==
  /\ order = [status |-> "received", previousStatus |-> Null, holdReason |-> Null]
  /\ \E J \in SUBSET Job :
       /\ \A j, k \in J : j = k
       /\ job = [j \in Job |-> IF j \in J THEN "queued" ELSE "none"]
  /\ req = [r \in Request |-> Idle]

-----------------------------------------------------------------------------
(* Control flow of a handler.                                              *)

Begin(r, op, stage, patch, j) ==
  /\ op \in Op
  /\ req[r] = Idle
  /\ req' = [req EXCEPT ![r] = [op |-> op, stage |-> stage, patch |-> patch,
                                before |-> Null, job |-> j]]

At(r, op, stage) == req[r].op \in op /\ req[r].stage = stage

Goto(r, stage) == req' = [req EXCEPT ![r].stage = stage]

Respond(r) == req' = [req EXCEPT ![r] = Idle]

-----------------------------------------------------------------------------
(* updateService: pre-fetch and validate, then one PATCH of the row.       *)

\* Slip: the arrow is not looked at.
PreFetchTrusting(r) ==
  /\ req[r].stage = "merge"
  /\ req' = [req EXCEPT ![r].stage = "write", ![r].before = order.status]
  /\ UNCHANGED <<order, job>>

PreFetch(r) ==
  /\ req[r].stage = "merge"
  /\ \/ /\ isAllowedTransition(order.status, req[r].patch.status)
        /\ req' = [req EXCEPT ![r].stage = "write", ![r].before = order.status]
     \/ /\ ~isAllowedTransition(order.status, req[r].patch.status)
        /\ Respond(r)                           \* StatusTransitionError
     \/ /\ ReadFailures                         \* `before` is null: no validation
        /\ Goto(r, "write")
  /\ UNCHANGED <<order, job>>

\* Slip: columns missing from the input are written as well.
UpdateItemUnfiltered(r) ==
  /\ req[r].stage = "write"
  /\ order' = [c \in DOMAIN order |-> req[r].patch[c]]
  /\ Respond(r)
  /\ UNCHANGED job

\* The PATCH writes the columns of the input and no others.
UpdateItem(r) ==
  /\ req[r].stage = "write"
  /\ order' = [c \in DOMAIN order |->
                 IF req[r].patch[c] = Keep THEN order[c] ELSE req[r].patch[c]]
  /\ Respond(r)
  /\ UNCHANGED job

-----------------------------------------------------------------------------
(* PATCH /services/[id]/status                                             *)

\* Slips: a second hold overwrites the memory; a resume forgets to clear it.
HoldMemoryTwice(from, to, onHold, onResume) == IF to = "on_hold" THEN onHold ELSE onResume
HoldMemoryKept(from, to, onHold, onResume) ==
  IF to = "on_hold" /\ from # "on_hold" THEN onHold ELSE Keep

\* What the route adds to the patch from the status it has read: remember it
\* when a hold starts, clear the memory when a hold ends.
HoldMemory(from, to, onHold, onResume) ==
  CASE from = "on_hold" /\ to # "on_hold" -> onResume
    [] to = "on_hold" /\ from # "on_hold" -> onHold
    [] (to = "on_hold") = (from = "on_hold") -> Keep

PatchStatus(r, role, to) ==
  /\ canTransition(order.status, to, role)
  /\ Begin(r, IF role = "sales" THEN "sales" ELSE "status", "merge",
           [status |-> to,
            previousStatus |-> HoldMemory(order.status, to, order.status, Null),
            holdReason |-> HoldMemory(order.status, to, "manual", Null)],
           NoJob)
  /\ UNCHANGED <<order, job>>

(* PATCH /services/[id]: the body is the patch, columns of the hold        *)
(* included.  An edit that changes nothing skips the lock.                 *)

\* updateService looks at the old status only when the input has a new one.
UpdateStage(patch) == IF patch.status = Keep THEN "write" ELSE "merge"

\* Slip: no change is looked at by the lock.
PatchServiceUnlocked(r, body) ==
  /\ Begin(r, "edit", UpdateStage(body), body, NoJob)
  /\ UNCHANGED <<order, job>>

PatchService(r, body) ==
  /\ LET changes == {c \in DOMAIN order : body[c] \notin {Keep, order[c]}}
     IN Begin(r, "edit", IF changes = {} THEN UpdateStage(body) ELSE "lock", body, NoJob)
  /\ UNCHANGED <<order, job>>

LockStatuses == {"assigned", "in_transit", "delivered"}

CheckLock(r) ==
  /\ At(r, {"edit"}, "lock")
  /\ \/ (\E j \in Job : job[j] \in LockStatuses) /\ Respond(r)
     \/ /\ (\A j \in Job : job[j] \notin LockStatuses)
           \/ ReadFailures                      \* listTransportJobs returned []
        /\ Goto(r, UpdateStage(req[r].patch))
  /\ UNCHANGED <<order, job>>

(* POST /services/[id]/release, after its code has been accepted.          *)

RELEASABLE_STATUSES == {"delivered", "ready", "rejected_by_customer", "returned_no_repair"}

Release(r) ==
  /\ order.status \in RELEASABLE_STATUSES
  /\ Begin(r, "release", "merge", [NoPatch EXCEPT !.status = "closed"], NoJob)
  /\ UNCHANGED <<order, job>>

-----------------------------------------------------------------------------
(* POST /services/[id]/transport: the job is created before the order is   *)
(* held, and the hold is computed from the status read at the start.       *)

RequestTransport(r) ==
  /\ Begin(r, "transport", "active",
           [status |-> "on_hold",
            previousStatus |-> IF order.status = "on_hold" THEN order.previousStatus
                                                           ELSE order.status,
            holdReason |-> "transport"],
           NoJob)
  /\ UNCHANGED <<order, job>>

ActiveStatuses == {"queued", "assigned", "in_transit"}

\* Slip: a job that a driver has taken no longer counts as active.
CheckActiveQueued(r) ==
  /\ At(r, {"transport"}, "active")
  /\ IF \E j \in Job : job[j] = "queued" THEN Respond(r) ELSE Goto(r, "create")
  /\ UNCHANGED <<order, job>>

CheckActive(r) ==
  /\ At(r, {"transport"}, "active")
  /\ \/ (\E j \in Job : job[j] \in ActiveStatuses) /\ Respond(r)
     \/ (\A j \in Job : job[j] \notin ActiveStatuses) /\ Goto(r, "create")
     \/ ReadFailures /\ Goto(r, "create")
  /\ UNCHANGED <<order, job>>

CreateTransportJob(r) ==
  /\ At(r, {"transport"}, "create")
  /\ \E j \in Job :
       /\ job[j] = "none"
       /\ job' = [job EXCEPT ![j] = "queued"]
       /\ req' = [req EXCEPT ![r].stage = "merge", ![r].job = j]
  /\ UNCHANGED order

(* POST /transport-jobs: a job for the order, with no look at the others.  *)

PostTransportJob(j) ==
  /\ "post" \in Op
  /\ job[j] = "none"
  /\ job' = [job EXCEPT ![j] = "queued"]
  /\ UNCHANGED <<order, req>>

(* DELETE /services/[id]/transport/[jobId]: read the order, read the job,  *)
(* cancel the job, give the order back the status it had when it was read. *)

CancelTransport(r, j) ==
  /\ job[j] # "none"
  /\ Begin(r, "cancel", "job",
           IF order.status # "on_hold" THEN NoPatch
           ELSE IF order.previousStatus = Null THEN [NoPatch EXCEPT !.holdReason = Null]
           ELSE [status |-> order.previousStatus, previousStatus |-> Null,
                 holdReason |-> Null],
           j)
  /\ UNCHANGED <<order, job>>

(* PATCH /services/[id]/transport/[jobId]: new destination or reason for a *)
(* queued job, and the reason copied to the order whatever its status is.  *)

RerouteTransport(r, j) ==
  /\ job[j] # "none"
  /\ Begin(r, "reroute", "job", [NoPatch EXCEPT !.holdReason = "transport"], j)
  /\ UNCHANGED <<order, job>>

\* Slip: the status of the job is not looked at.
ReadJobUnchecked(r) ==
  /\ At(r, {"cancel", "reroute"}, "job")
  /\ Goto(r, IF req[r].op = "cancel" THEN "cancel" ELSE "write")
  /\ UNCHANGED <<order, job>>

\* Both handlers read the job after the order and refuse one that has moved on.
ReadJob(r) ==
  /\ At(r, {"cancel", "reroute"}, "job")
  /\ LET s == job[req[r].job]
     IN \/ At(r, {"cancel"}, "job") /\ s \in {"queued", "assigned"} /\ Goto(r, "cancel")
        \/ At(r, {"cancel"}, "job") /\ s \notin {"queued", "assigned"} /\ Respond(r)
        \/ At(r, {"reroute"}, "job") /\ s = "queued" /\ Goto(r, "write")
        \/ At(r, {"reroute"}, "job") /\ s # "queued" /\ Respond(r)
  /\ UNCHANGED <<order, job>>

CancelTransportJob(r) ==
  /\ At(r, {"cancel"}, "cancel")
  /\ job' = [job EXCEPT ![req[r].job] = "cancelled"]
  /\ \/ req[r].patch = NoPatch /\ Respond(r)
     \/ req[r].patch # NoPatch /\ Goto(r, UpdateStage(req[r].patch))
  /\ UNCHANGED order

(* PATCH /transport-jobs/[id]: the driver's app offers the next step of    *)
(* the job it last loaded and the handler writes it unconditionally.       *)

DriverFrom == [take |-> "queued", pickup |-> "assigned", deliver |-> "in_transit"]
DriverTo == [take |-> "assigned", pickup |-> "in_transit", deliver |-> "delivered"]

DriverOpens(r, op, j) ==
  /\ job[j] = DriverFrom[op]
  /\ Begin(r, op, "drive", NoPatch, j)
  /\ UNCHANGED <<order, job>>

UpdateTransportJob(r) ==
  /\ At(r, DOMAIN DriverTo, "drive")
  /\ job' = [job EXCEPT ![req[r].job] = DriverTo[req[r].op]]
  /\ Respond(r)
  /\ UNCHANGED order

-----------------------------------------------------------------------------

\* The process dies, or Directus rejects the pending call: what was already
\* written stays, the rest of the handler never happens.
Abort(r) ==
  /\ Crashes
  /\ req[r] # Idle
  /\ Respond(r)
  /\ UNCHANGED <<order, job>>

Handle(r) ==
  \/ \E role \in Role, to \in Target : PatchStatus(r, role, to)
  \/ \E body \in Body : PatchService(r, body)
  \/ CheckLock(r)
  \/ Release(r)
  \/ RequestTransport(r)
  \/ CheckActive(r)
  \/ CreateTransportJob(r)
  \/ \E j \in Job : CancelTransport(r, j)
  \/ \E j \in Job : RerouteTransport(r, j)
  \/ ReadJob(r)
  \/ CancelTransportJob(r)
  \/ \E op \in DOMAIN DriverTo, j \in Job : DriverOpens(r, op, j)
  \/ UpdateTransportJob(r)
  \/ PreFetch(r)
  \/ UpdateItem(r)
  \/ Abort(r)

Next ==
  \/ \E r \in Request : Handle(r)
  \/ \E j \in Job : PostTransportJob(j)

Spec == Init /\ [][Next]_vars

-----------------------------------------------------------------------------
(* What holds when requests do not overlap (Request is a singleton).       *)

\* The columns of the row refine the abstract life cycle: intake, then only
\* arrows of the workshop matrix, whichever handler writes.
Lifecycle == INSTANCE OrderLifecycle WITH status <- order.status
ImplementsLifecycle == Lifecycle!Spec

\* previous_status, when set, is a status the matrix lets a hold begin from
\* and resume to, so cancelling a transport can always give it back.  (Bodies
\* of the generic PATCH may clear it; nothing checks one that would name it.)
ResumeIsLegal ==
  order.previousStatus # Null =>
    /\ order.previousStatus \in Holdable
    /\ isAllowedTransition("on_hold", order.previousStatus)

\* The 409 of POST /transport: never two active jobs for one order, as long as
\* nobody posts a job past that handler.
OneActiveTransport ==
  \A j, k \in Job : job[j] \in ActiveStatuses /\ job[k] \in ActiveStatuses => j = k

\* The 423 of the generic PATCH: once the device has left with a driver that
\* handler changes nothing.
EditsStopAtPickup ==
  [][\A r \in Request :
       At(r, {"edit"}, "write") /\ order' # order
         => \A j \in Job : job[j] \notin LockStatuses]_vars

\* A request in the role of sales can only hand the device over and close.
SalesOnlyReleases ==
  [][\A r \in Request :
       At(r, {"sales"}, "write") /\ order' # order
         => order'.status \in {"delivered", "closed"}]_vars

\* previous_status is there exactly while the order is on hold.  Only the
\* generic PATCH, which writes the columns its body has, can break this.
HoldIsRemembered == order.status = "on_hold" <=> order.previousStatus # Null
OnlyEditsForgetHold ==
  [][HoldIsRemembered /\ (\A r \in Request : ~At(r, {"edit"}, "write"))
       => HoldIsRemembered']_vars

-----------------------------------------------------------------------------
(* What survives overlapping requests.                                     *)

\* A closed or archived order is reopened only by a write that was validated
\* before it got there (or, with ReadFailures, by one that was not validated):
\* a request that starts afterwards cannot bring it back.
ReopenedOnlyByStaleWrite ==
  [][order.status \in Terminal /\ order'.status \notin Terminal
       => \E r \in Request : req[r].stage = "write" /\ req[r].before \notin Terminal]_vars

\* A transport job that is finished, and that no handler still means to write,
\* is finished for good: the reads of the handlers refuse it from then on.
FinishedStatuses == {"delivered", "cancelled"}
JobSettled(j) ==
  /\ job[j] \in FinishedStatuses
  /\ \A r \in Request : req[r].job = j => req[r].stage \notin {"cancel", "drive"}
FinishedJobsSettle == [][\A j \in Job : JobSettled(j) => JobSettled(j)']_vars
=============================================================================
