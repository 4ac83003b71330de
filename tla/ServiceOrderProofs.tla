------------------------- MODULE ServiceOrderProofs -------------------------
(***************************************************************************)
(* Proofs about ServiceOrder.  The first part holds however many requests  *)
(* overlap and whatever fails; the second assumes that requests do not     *)
(* overlap and that reads do not fail.                                     *)
(***************************************************************************)
EXTENDS ServiceOrder, TLAPS

-----------------------------------------------------------------------------
(* The matrices.                                                           *)

LEMMA MatrixTypes ==
  /\ \A s \in Status : STATUS_TRANSITIONS[s] \subseteq Status
  /\ Terminal = {"closed", "archived"}
  /\ "received" \in Status /\ "on_hold" \in Status /\ "closed" \in Status
  /\ Null \notin Status /\ Keep \notin Status
BY DEF STATUS_TRANSITIONS, Status, Exits, Refusals, Terminal, Null, Keep

\* A hold that the workshop matrix lets begin can be undone by the same matrix.
LEMMA HoldsAreReversible ==
  \A s \in Holdable : s # "on_hold" /\ isAllowedTransition("on_hold", s)
BY DEF Holdable, isAllowedTransition, canTransition, STATUS_TRANSITIONS, Status, Exits, Refusals

\* The counter never puts an order on hold.
LEMMA SalesNeverHold ==
  \A s \in Status : s # "on_hold" => ~canTransition(s, "on_hold", "sales")
BY DEF canTransition, SALES_TRANSITIONS, Status

-----------------------------------------------------------------------------
(* Types.                                                                  *)

LEMMA IdleTypes == Idle \in RequestState /\ NoPatch \in Patch
BY DEF Idle, RequestState, NoPatch, Patch, Stage, HoldReason

\* A handler that begins with a well-formed patch has a well-formed state.
LEMMA BeginTypes ==
  ASSUME NEW r \in Request, NEW op \in OrderOp \cup JobOp, NEW stage \in Stage,
         NEW patch \in Patch, NEW j \in Job \cup {NoJob},
         req \in [Request -> RequestState], Begin(r, op, stage, patch, j)
  PROVE  req' \in [Request -> RequestState]
BY DEF Begin, RequestState

LEMMA GotoTypes ==
  ASSUME NEW r \in Request, NEW stage \in Stage,
         req \in [Request -> RequestState], Goto(r, stage)
  PROVE  req' \in [Request -> RequestState]
BY DEF Goto, RequestState

LEMMA RespondTypes ==
  ASSUME NEW r \in Request, req \in [Request -> RequestState], Respond(r)
  PROVE  req' \in [Request -> RequestState]
BY IdleTypes DEF Respond

\* The variables always have the types of the model: every handler, whatever
\* it interleaves with, writes a status, a memory and a reason the row can hold.
THEOREM TypeCorrect == Spec => []TypeOK
<1>1. Init => TypeOK
  BY IdleTypes, MatrixTypes DEF Init, TypeOK, HoldReason, JobStatus
<1>2. TypeOK /\ [Next]_vars => TypeOK'
  <2> SUFFICES ASSUME TypeOK, [Next]_vars PROVE TypeOK'
    OBVIOUS
  <2> USE DEF TypeOK
  <2>1. CASE UNCHANGED vars
    BY <2>1 DEF vars
  <2>2. ASSUME NEW r \in Request, NEW role \in Role, NEW to \in Target,
               PatchStatus(r, role, to)
        PROVE  TypeOK'
    <3> DEFINE p == [status |-> to,
                     previousStatus |-> HoldMemory(order.status, to, order.status, Null),
                     holdReason |-> HoldMemory(order.status, to, "manual", Null)]
    <3>1. p \in Patch
      BY ConstantsAssumption DEF Patch, HoldMemory, HoldReason
    <3>2. QED
      BY <2>2, <3>1, BeginTypes DEF PatchStatus, OrderOp, Stage
  <2>3. ASSUME NEW r \in Request, NEW body \in Body, PatchService(r, body)
        PROVE  TypeOK'
    <3>1. body \in Patch
      BY ConstantsAssumption
    <3>2. QED
      BY <2>3, <3>1, BeginTypes DEF PatchService, UpdateStage, OrderOp, Stage
  <2>4. ASSUME NEW r \in Request, CheckLock(r) PROVE TypeOK'
    BY <2>4, GotoTypes, RespondTypes DEF CheckLock, UpdateStage, Stage
  <2>5. ASSUME NEW r \in Request, Release(r) PROVE TypeOK'
    <3>1. [NoPatch EXCEPT !.status = "closed"] \in Patch
      BY IdleTypes, MatrixTypes DEF Patch
    <3>2. QED
      BY <2>5, <3>1, BeginTypes DEF Release, OrderOp, Stage
  <2>6. ASSUME NEW r \in Request, RequestTransport(r) PROVE TypeOK'
    <3> DEFINE p == [status |-> "on_hold",
                     previousStatus |-> IF order.status = "on_hold" THEN order.previousStatus
                                                                    ELSE order.status,
                     holdReason |-> "transport"]
    <3>1. p \in Patch
      BY MatrixTypes DEF Patch, HoldReason
    <3>2. QED
      BY <2>6, <3>1, BeginTypes DEF RequestTransport, JobOp, Stage
  <2>7. ASSUME NEW r \in Request, CheckActive(r) PROVE TypeOK'
    BY <2>7, GotoTypes, RespondTypes DEF CheckActive, Stage
  <2>8. ASSUME NEW r \in Request, CreateTransportJob(r) PROVE TypeOK'
    <3>1. PICK j \in Job :
            /\ job' = [job EXCEPT ![j] = "queued"]
            /\ req' = [req EXCEPT ![r].stage = "merge", ![r].job = j]
      BY <2>8 DEF CreateTransportJob
    <3>2. job' \in [Job -> JobStatus]
      BY <3>1 DEF JobStatus
    <3>3. [req[r] EXCEPT !.stage = "merge", !.job = j] \in RequestState
      BY DEF RequestState, Stage
    <3>4. req' \in [Request -> RequestState]
      BY <3>1, <3>3
    <3>5. QED
      BY <2>8, <3>2, <3>4 DEF CreateTransportJob
  <2>9. ASSUME NEW r \in Request, NEW j \in Job, CancelTransport(r, j) PROVE TypeOK'
    <3> DEFINE p == IF order.status # "on_hold" THEN NoPatch
                    ELSE IF order.previousStatus = Null THEN [NoPatch EXCEPT !.holdReason = Null]
                    ELSE [status |-> order.previousStatus, previousStatus |-> Null,
                          holdReason |-> Null]
    <3>1. p \in Patch
      BY IdleTypes DEF Patch, HoldReason
    <3>2. QED
      BY <2>9, <3>1, BeginTypes DEF CancelTransport, JobOp, Stage
  <2>10. ASSUME NEW r \in Request, NEW j \in Job, RerouteTransport(r, j) PROVE TypeOK'
    <3>1. [NoPatch EXCEPT !.holdReason = "transport"] \in Patch
      BY IdleTypes DEF Patch, HoldReason
    <3>2. QED
      BY <2>10, <3>1, BeginTypes DEF RerouteTransport, JobOp, Stage
  <2>11. ASSUME NEW r \in Request, ReadJob(r) PROVE TypeOK'
    BY <2>11, GotoTypes, RespondTypes DEF ReadJob, Stage
  <2>12. ASSUME NEW r \in Request, CancelTransportJob(r) PROVE TypeOK'
    BY <2>12, GotoTypes, RespondTypes DEF CancelTransportJob, UpdateStage, Stage, JobStatus
  <2>13. ASSUME NEW r \in Request, NEW op \in DOMAIN DriverTo, NEW j \in Job,
                DriverOpens(r, op, j)
         PROVE  TypeOK'
    BY <2>13, IdleTypes, BeginTypes DEF DriverOpens, DriverTo, JobOp, Stage
  <2>14. ASSUME NEW r \in Request, UpdateTransportJob(r) PROVE TypeOK'
    <3>1. req[r].op \in DOMAIN DriverTo /\ DriverTo[req[r].op] \in JobStatus
      BY <2>14 DEF UpdateTransportJob, At, DriverTo, JobStatus
    <3>2. QED
      BY <2>14, <3>1, RespondTypes DEF UpdateTransportJob
  <2>15. ASSUME NEW r \in Request, PreFetch(r) PROVE TypeOK'
    BY <2>15, GotoTypes, RespondTypes DEF PreFetch, RequestState, Stage
  <2>16. ASSUME NEW r \in Request, UpdateItem(r) PROVE TypeOK'
    <3>1. req[r].patch \in Patch
      BY DEF RequestState
    <3>2. order' \in [status : Status, previousStatus : Status \cup {Null},
                      holdReason : HoldReason]
      BY <2>16, <3>1 DEF UpdateItem, Patch
    <3>3. QED
      BY <2>16, <3>2, RespondTypes DEF UpdateItem
  <2>17. ASSUME NEW r \in Request, Abort(r) PROVE TypeOK'
    BY <2>17, RespondTypes DEF Abort
  <2>18. ASSUME NEW j \in Job, PostTransportJob(j) PROVE TypeOK'
    BY <2>18 DEF PostTransportJob, JobStatus
  <2>19. QED
    BY <2>1, <2>2, <2>3, <2>4, <2>5, <2>6, <2>7, <2>8, <2>9, <2>10, <2>11, <2>12,
       <2>13, <2>14, <2>15, <2>16, <2>17, <2>18 DEF Next, Handle
<1>3. QED
  BY <1>1, <1>2, PTL DEF Spec

-----------------------------------------------------------------------------
(* However many requests overlap, and whatever fails.                      *)

\* What updateService has checked of a write it is about to make.
Validated(q) ==
  /\ q.stage # "write" => q.before = Null
  /\ q.stage = "write" /\ q.patch.status # Keep =>
       q.before = Null \/ isAllowedTransition(q.before, q.patch.status)
  /\ q.op = "reroute" => q.patch.status = Keep

WritesAreValidated == \A r \in Request : Validated(req[r])

LEMMA ValidatedStep ==
  ASSUME TypeOK, WritesAreValidated, [Next]_vars
  PROVE  WritesAreValidated'
<1> USE DEF TypeOK
<1>0. SUFFICES ASSUME NEW s \in Request PROVE Validated(req'[s])
  BY DEF WritesAreValidated, Validated
<1>1. CASE req'[s] = req[s]
  BY <1>1 DEF WritesAreValidated
<1>2. CASE req'[s] = Idle
  BY <1>2 DEF Validated, Idle
<1>3. ASSUME NEW stage \in Stage \ {"write"}, req[s].stage # "write",
             req' = [req EXCEPT ![s].stage = stage]
      PROVE  Validated(req'[s])
  <2>1. Validated(req[s]) /\ req[s] \in RequestState
    BY DEF WritesAreValidated
  <2>2. /\ req'[s].stage # "write" /\ req'[s].op = req[s].op
        /\ req'[s].patch = req[s].patch /\ req'[s].before = req[s].before
    BY <1>3, <2>1 DEF RequestState
  <2>3. QED
    BY <1>3, <2>1, <2>2 DEF Validated
<1>4. CASE UNCHANGED vars
  BY <1>1, <1>4 DEF vars
<1>5. ASSUME NEW r \in Request, NEW role \in Role, NEW to \in Target,
             PatchStatus(r, role, to)
      PROVE  Validated(req'[s])
  BY <1>5, <1>1 DEF PatchStatus, Begin, Validated
<1>6. ASSUME NEW r \in Request, NEW body \in Body, PatchService(r, body)
      PROVE  Validated(req'[s])
  BY <1>6, <1>1 DEF PatchService, Begin, UpdateStage, Validated
<1>7. ASSUME NEW r \in Request, CheckLock(r) PROVE Validated(req'[s])
  <2>1. CASE Respond(r)
    BY <1>1, <1>2, <2>1 DEF Respond
  <2>2. CASE req[r].patch.status # Keep /\ Goto(r, "merge")
    BY <1>1, <1>3, <1>7, <2>2 DEF Goto, Stage, CheckLock, At
  <2>3. CASE req[r].patch.status = Keep /\ Goto(r, "write")
    BY <1>1, <2>3 DEF Goto, Validated, RequestState
  <2>4. QED
    BY <1>7, <2>1, <2>2, <2>3 DEF CheckLock, UpdateStage
<1>8. ASSUME NEW r \in Request, Release(r) PROVE Validated(req'[s])
  BY <1>8, <1>1 DEF Release, Begin, Validated
<1>9. ASSUME NEW r \in Request, RequestTransport(r) PROVE Validated(req'[s])
  BY <1>9, <1>1 DEF RequestTransport, Begin, Validated
<1>10. ASSUME NEW r \in Request, CheckActive(r) PROVE Validated(req'[s])
  BY <1>10, <1>1, <1>2, <1>3 DEF CheckActive, At, Goto, Respond, Stage
<1>11. ASSUME NEW r \in Request, CreateTransportJob(r) PROVE Validated(req'[s])
  <2>1. PICK j \in Job : req' = [req EXCEPT ![r].stage = "merge", ![r].job = j]
    BY <1>11 DEF CreateTransportJob
  <2>2. /\ req[r] \in RequestState /\ req[r].op = "transport"
        /\ req[r].before = Null
    BY <1>11 DEF CreateTransportJob, At, WritesAreValidated, Validated
  <2>3. QED
    BY <1>1, <2>1, <2>2 DEF RequestState, Validated
<1>12. ASSUME NEW r \in Request, NEW j \in Job, CancelTransport(r, j)
       PROVE  Validated(req'[s])
  BY <1>12, <1>1 DEF CancelTransport, Begin, Validated
<1>13. ASSUME NEW r \in Request, NEW j \in Job, RerouteTransport(r, j)
       PROVE  Validated(req'[s])
  BY <1>13, <1>1 DEF RerouteTransport, Begin, Validated, NoPatch
<1>14. ASSUME NEW r \in Request, ReadJob(r) PROVE Validated(req'[s])
  <2>1. CASE Respond(r)
    BY <1>1, <1>2, <2>1 DEF Respond
  <2>2. CASE Goto(r, "cancel")
    BY <1>1, <1>3, <1>14, <2>2 DEF Goto, Stage, ReadJob, At
  <2>3. CASE req[r].op = "reroute" /\ Goto(r, "write")
    <3>1. req[r].patch.status = Keep
      BY <2>3 DEF WritesAreValidated, Validated
    <3>2. QED
      BY <1>1, <2>3, <3>1 DEF Goto, Validated, RequestState
  <2>4. QED
    BY <1>14, <2>1, <2>2, <2>3 DEF ReadJob, At
<1>15. ASSUME NEW r \in Request, CancelTransportJob(r) PROVE Validated(req'[s])
  <2>1. CASE Respond(r)
    BY <1>1, <1>2, <2>1 DEF Respond
  <2>2. CASE req[r].patch.status # Keep /\ Goto(r, "merge")
    BY <1>1, <1>3, <1>15, <2>2 DEF Goto, Stage, CancelTransportJob, At
  <2>3. CASE req[r].patch.status = Keep /\ Goto(r, "write")
    BY <1>1, <2>3 DEF Goto, Validated, RequestState
  <2>4. QED
    BY <1>15, <2>1, <2>2, <2>3 DEF CancelTransportJob, UpdateStage
<1>16. ASSUME NEW r \in Request, NEW op \in DOMAIN DriverTo, NEW j \in Job,
              DriverOpens(r, op, j)
       PROVE  Validated(req'[s])
  BY <1>16, <1>1 DEF DriverOpens, Begin, Validated, NoPatch, DriverTo
<1>17. ASSUME NEW r \in Request, UpdateTransportJob(r) PROVE Validated(req'[s])
  BY <1>17, <1>1, <1>2 DEF UpdateTransportJob, Respond
<1>18. ASSUME NEW r \in Request, PreFetch(r) PROVE Validated(req'[s])
  <2>1. CASE /\ isAllowedTransition(order.status, req[r].patch.status)
             /\ req' = [req EXCEPT ![r].stage = "write", ![r].before = order.status]
    BY <1>1, <2>1 DEF Validated, RequestState, WritesAreValidated
  <2>2. CASE Respond(r)
    BY <1>1, <1>2, <2>2 DEF Respond
  <2>3. CASE Goto(r, "write")
    <3>1. req[r].before = Null
      BY <1>18 DEF PreFetch, WritesAreValidated, Validated
    <3>2. QED
      BY <1>1, <2>3, <3>1 DEF Goto, Validated, RequestState, WritesAreValidated
  <2>4. QED
    BY <1>18, <2>1, <2>2, <2>3 DEF PreFetch
<1>19. ASSUME NEW r \in Request, UpdateItem(r) PROVE Validated(req'[s])
  BY <1>19, <1>1, <1>2 DEF UpdateItem, Respond
<1>20. ASSUME NEW r \in Request, Abort(r) PROVE Validated(req'[s])
  BY <1>20, <1>1, <1>2 DEF Abort, Respond
<1>21. ASSUME NEW j \in Job, PostTransportJob(j) PROVE Validated(req'[s])
  BY <1>21, <1>1 DEF PostTransportJob
<1>22. QED
  BY <1>4, <1>5, <1>6, <1>7, <1>8, <1>9, <1>10, <1>11, <1>12, <1>13, <1>14, <1>15,
     <1>16, <1>17, <1>18, <1>19, <1>20, <1>21 DEF Next, Handle

\* Every write of a status, whatever it overlapped with, is an arrow of the
\* matrix from the status its own pre-fetch has seen, or was never checked.
THEOREM WritesValidated == Spec => []WritesAreValidated
<1>1. Init => WritesAreValidated
  BY DEF Init, WritesAreValidated, Validated, Idle
<1>2. TypeOK /\ WritesAreValidated /\ [Next]_vars => WritesAreValidated'
  BY ValidatedStep
<1>3. QED
  BY <1>1, <1>2, TypeCorrect, PTL DEF Spec

\* Only UpdateItem writes the row.
LEMMA OnlyUpdateItemWrites ==
  ASSUME [Next]_vars, order' # order
  PROVE  \E r \in Request : UpdateItem(r)
BY DEF Next, Handle, PostTransportJob, vars, PatchStatus, PatchService, CheckLock, Release,
       RequestTransport, CheckActive, CreateTransportJob, CancelTransport, RerouteTransport, ReadJob,
       CancelTransportJob, DriverOpens, UpdateTransportJob, PreFetch, Abort

\* An order that is closed or archived is reopened only by a write whose check
\* is older than the closing, for any number of overlapping requests.
THEOREM StaleReopening == Spec => ReopenedOnlyByStaleWrite
<1>1. ASSUME TypeOK, WritesAreValidated, [Next]_vars,
             order.status \in Terminal, order'.status \notin Terminal
      PROVE  \E r \in Request : req[r].stage = "write" /\ req[r].before \notin Terminal
  <2>1. PICK r \in Request : UpdateItem(r)
    BY <1>1, OnlyUpdateItemWrites
  <2>2. /\ req[r].stage = "write" /\ req[r].patch.status # Keep
        /\ order'.status = req[r].patch.status
    BY <1>1, <2>1 DEF UpdateItem, TypeOK
  <2>3. req[r].before = Null \/ isAllowedTransition(req[r].before, order'.status)
    BY <1>1, <2>2 DEF WritesAreValidated, Validated
  <2>4. Null \notin Terminal /\ \A s \in Terminal : STATUS_TRANSITIONS[s] = {}
    BY MatrixTypes DEF Terminal
  <2>5. QED
    BY <1>1, <2>2, <2>3, <2>4 DEF isAllowedTransition, canTransition
<1>2. QED
  BY <1>1, TypeCorrect, WritesValidated, PTL DEF Spec, ReopenedOnlyByStaleWrite

\* A step of r that leaves the jobs alone and does not carry j on to a stage
\* that writes it keeps j settled.
LEMMA StaysSettled ==
  ASSUME NEW j \in Job, NEW r \in Request, JobSettled(j), UNCHANGED job,
         \A s \in Request \ {r} : req'[s] = req[s],
         req'[r].job = j => req'[r].stage \notin {"cancel", "drive"}
  PROVE  JobSettled(j)'
BY DEF JobSettled

LEMMA SettledStep ==
  ASSUME TypeOK, [Next]_vars, NEW j \in Job, JobSettled(j)
  PROVE  JobSettled(j)'
<1> USE DEF TypeOK
<1>0. /\ job[j] \in FinishedStatuses
      /\ \A r \in Request : req[r].job = j => req[r].stage \notin {"cancel", "drive"}
  BY DEF JobSettled
<1>1. CASE UNCHANGED vars
  BY <1>1 DEF vars, JobSettled
<1>2. ASSUME NEW r \in Request, UNCHANGED job, Respond(r) PROVE JobSettled(j)'
  BY <1>2, StaysSettled DEF Respond, Idle
<1>3. ASSUME NEW r \in Request, NEW stage \in Stage \ {"cancel", "drive"},
             UNCHANGED job, Goto(r, stage)
      PROVE  JobSettled(j)'
  BY <1>3, StaysSettled DEF Goto, RequestState
<1>4. ASSUME NEW r \in Request, NEW op, NEW stage \in Stage \ {"cancel", "drive"},
             NEW patch, NEW k, UNCHANGED job, Begin(r, op, stage, patch, k)
      PROVE  JobSettled(j)'
  BY <1>4, StaysSettled DEF Begin
<1>5. ASSUME NEW r \in Request, NEW role \in Role, NEW to \in Target,
             PatchStatus(r, role, to)
      PROVE  JobSettled(j)'
  BY <1>5, <1>4 DEF PatchStatus, Stage
<1>6. ASSUME NEW r \in Request, NEW body \in Body, PatchService(r, body)
      PROVE  JobSettled(j)'
  BY <1>6, <1>4 DEF PatchService, UpdateStage, Stage
<1>7. ASSUME NEW r \in Request, CheckLock(r) PROVE JobSettled(j)'
  BY <1>7, <1>2, <1>3 DEF CheckLock, UpdateStage, Stage
<1>8. ASSUME NEW r \in Request, Release(r) PROVE JobSettled(j)'
  BY <1>8, <1>4 DEF Release, Stage
<1>9. ASSUME NEW r \in Request, RequestTransport(r) PROVE JobSettled(j)'
  BY <1>9, <1>4 DEF RequestTransport, Stage
<1>10. ASSUME NEW r \in Request, CheckActive(r) PROVE JobSettled(j)'
  BY <1>10, <1>2, <1>3 DEF CheckActive, Stage
<1>11. ASSUME NEW r \in Request, CreateTransportJob(r) PROVE JobSettled(j)'
  <2>1. PICK k \in Job :
          /\ job[k] = "none"
          /\ job' = [job EXCEPT ![k] = "queued"]
          /\ req' = [req EXCEPT ![r].stage = "merge", ![r].job = k]
    BY <1>11 DEF CreateTransportJob
  <2>2. k # j
    BY <1>0, <2>1 DEF FinishedStatuses
  <2>3. QED
    BY <1>0, <2>1, <2>2 DEF JobSettled, RequestState
<1>12. ASSUME NEW r \in Request, NEW k \in Job, CancelTransport(r, k)
       PROVE  JobSettled(j)'
  BY <1>12, <1>4 DEF CancelTransport, Stage
<1>13. ASSUME NEW r \in Request, NEW k \in Job, RerouteTransport(r, k)
       PROVE  JobSettled(j)'
  BY <1>13, <1>4 DEF RerouteTransport, Stage
<1>14. ASSUME NEW r \in Request, ReadJob(r) PROVE JobSettled(j)'
  <2>1. CASE Respond(r)
    BY <1>2, <1>14, <2>1 DEF ReadJob
  <2>2. CASE Goto(r, "write")
    BY <1>3, <1>14, <2>2 DEF ReadJob, Stage
  <2>3. CASE job[req[r].job] \in {"queued", "assigned"} /\ Goto(r, "cancel")
    <3>1. req[r].job # j
      BY <1>0, <2>3 DEF FinishedStatuses
    <3>2. QED
      BY <1>14, <2>3, <3>1, StaysSettled DEF ReadJob, Goto, RequestState
  <2>4. QED
    BY <1>14, <2>1, <2>2, <2>3 DEF ReadJob, At
<1>15. ASSUME NEW r \in Request, CancelTransportJob(r) PROVE JobSettled(j)'
  <2>1. req[r].job # j /\ job' = [job EXCEPT ![req[r].job] = "cancelled"]
    BY <1>0, <1>15 DEF CancelTransportJob, At
  <2>2. req'[r].stage \notin {"cancel", "drive"} /\ \A s \in Request \ {r} : req'[s] = req[s]
    BY <1>15 DEF CancelTransportJob, UpdateStage, Respond, Goto, Idle, RequestState
  <2>3. QED
    BY <1>0, <2>1, <2>2 DEF JobSettled
<1>16. ASSUME NEW r \in Request, NEW op \in DOMAIN DriverTo, NEW k \in Job,
              DriverOpens(r, op, k)
       PROVE  JobSettled(j)'
  <2>1. k # j
    BY <1>0, <1>16 DEF DriverOpens, DriverFrom, DriverTo, FinishedStatuses
  <2>2. QED
    BY <1>16, <2>1, StaysSettled DEF DriverOpens, Begin
<1>17. ASSUME NEW r \in Request, UpdateTransportJob(r) PROVE JobSettled(j)'
  <2>1. req[r].job # j /\ job' = [job EXCEPT ![req[r].job] = DriverTo[req[r].op]]
    BY <1>0, <1>17 DEF UpdateTransportJob, At
  <2>2. QED
    BY <1>0, <1>17, <2>1 DEF UpdateTransportJob, Respond, Idle, JobSettled
<1>18. ASSUME NEW r \in Request, PreFetch(r) PROVE JobSettled(j)'
  <2>1. CASE req' = [req EXCEPT ![r].stage = "write", ![r].before = order.status]
    BY <1>18, <2>1, StaysSettled DEF PreFetch, RequestState
  <2>2. QED
    BY <1>18, <1>2, <1>3, <2>1 DEF PreFetch, Stage
<1>19. ASSUME NEW r \in Request, UpdateItem(r) PROVE JobSettled(j)'
  BY <1>19, <1>2 DEF UpdateItem
<1>20. ASSUME NEW r \in Request, Abort(r) PROVE JobSettled(j)'
  BY <1>20, <1>2 DEF Abort
<1>21. ASSUME NEW k \in Job, PostTransportJob(k) PROVE JobSettled(j)'
  BY <1>0, <1>21 DEF PostTransportJob, FinishedStatuses, JobSettled
<1>22. QED
  BY <1>1, <1>5, <1>6, <1>7, <1>8, <1>9, <1>10, <1>11, <1>12, <1>13, <1>14, <1>15,
     <1>16, <1>17, <1>18, <1>19, <1>20, <1>21 DEF Next, Handle

\* A finished transport job that no handler in flight still means to write is
\* finished for good, for any number of overlapping requests.
THEOREM FinishedJobsStay == Spec => FinishedJobsSettle
<1>1. ASSUME TypeOK, [Next]_vars, NEW j \in Job, JobSettled(j) PROVE JobSettled(j)'
  BY <1>1, SettledStep
<1>2. TypeOK /\ [Next]_vars => \A j \in Job : JobSettled(j) => JobSettled(j)'
  BY <1>1
<1>3. QED
  BY <1>2, TypeCorrect, PTL DEF Spec, FinishedJobsSettle

-----------------------------------------------------------------------------
(* The second part: requests do not overlap and reads do not fail.         *)

OneAtATime == \A r, s \in Request : r = s

\* Bodies of the generic PATCH name no status to remember.
BodiesNameNoMemory == \A body \in Body : body.previousStatus \in {Keep, Null}

\* What a handler knows is still true: nothing has happened since it read.
KnowsTheOrder(q) ==
  /\ q.stage = "write" /\ q.patch.status # Keep =>
       q.before = order.status /\ isAllowedTransition(order.status, q.patch.status)
  /\ BodiesNameNoMemory /\ q.patch.previousStatus \notin {Null, Keep} =>
       /\ q.patch.status = "on_hold"
       /\ \/ q.patch.previousStatus \in Holdable
          \/ order.status # "on_hold" /\ q.patch.previousStatus = order.status

KnowsTheJobs(q) ==
  /\ q.op = "transport" /\ q.stage = "create" => \A j \in Job : job[j] \notin ActiveStatuses
  /\ q.op \in DOMAIN DriverTo /\ q.stage = "drive" => job[q.job] \in ActiveStatuses

OrderInv == (BodiesNameNoMemory => ResumeIsLegal) /\ \A r \in Request : KnowsTheOrder(req[r])
JobInv == OneActiveTransport /\ \A r \in Request : KnowsTheJobs(req[r])

-----------------------------------------------------------------------------
(* The row.                                                                *)

LEMMA OrderStep ==
  ASSUME OneAtATime, ~ReadFailures, TypeOK, WritesAreValidated, OrderInv, [Next]_vars
  PROVE  OrderInv'
<1> USE MatrixTypes DEF TypeOK
<1>1. CASE UNCHANGED vars
  BY <1>1 DEF OrderInv, vars, ResumeIsLegal, KnowsTheOrder
<1>2. ASSUME NEW r \in Request, UNCHANGED order, KnowsTheOrder(req'[r]) PROVE OrderInv'
  BY <1>2 DEF OneAtATime, OrderInv, ResumeIsLegal, KnowsTheOrder
<1>3. ASSUME NEW r \in Request, UNCHANGED order, Respond(r) PROVE OrderInv'
  BY <1>2, <1>3 DEF Respond, Idle, NoPatch, KnowsTheOrder
<1>4. ASSUME NEW r \in Request, UNCHANGED order,
             NEW stage \in Stage, Goto(r, stage),
             stage = "write" => req[r].patch.status = Keep
      PROVE  OrderInv'
  <2>1. /\ req'[r].stage = stage /\ req'[r].patch = req[r].patch
    BY <1>4 DEF Goto, RequestState
  <2>2. QED
    BY <1>2, <1>4, <2>1 DEF OrderInv, KnowsTheOrder
<1>5. ASSUME NEW r \in Request, UNCHANGED order, NEW op, NEW stage \in Stage \ {"write"},
             NEW patch, NEW j, Begin(r, op, stage, patch, j),
             patch.previousStatus \in {Null, Keep}
      PROVE  OrderInv'
  BY <1>2, <1>5 DEF Begin, KnowsTheOrder
<1>6. ASSUME NEW r \in Request, NEW role \in Role, NEW to \in Target,
             PatchStatus(r, role, to)
      PROVE  OrderInv'
  <2> DEFINE memory == HoldMemory(order.status, to, order.status, Null)
  <2>1. memory \notin {Null, Keep} =>
          to = "on_hold" /\ order.status # "on_hold" /\ memory = order.status
    BY DEF HoldMemory
  <2>2. /\ req'[r].stage = "merge" /\ req'[r].patch.status = to
        /\ req'[r].patch.previousStatus = memory
    BY <1>6 DEF PatchStatus, Begin
  <2>3. QED
    BY <1>2, <1>6, <2>1, <2>2 DEF PatchStatus, KnowsTheOrder
<1>7. ASSUME NEW r \in Request, NEW body \in Body, PatchService(r, body) PROVE OrderInv'
  <2>1. /\ req'[r].stage \in {"merge", "lock"} \/ body.status = Keep
        /\ req'[r].patch = body /\ UNCHANGED order
    BY <1>7 DEF PatchService, UpdateStage, Begin
  <2>2. QED
    BY <1>2, <2>1 DEF KnowsTheOrder, BodiesNameNoMemory
<1>8. ASSUME NEW r \in Request, CheckLock(r) PROVE OrderInv'
  BY <1>3, <1>4, <1>8 DEF CheckLock, UpdateStage, Stage
<1>9. ASSUME NEW r \in Request, Release(r) PROVE OrderInv'
  BY <1>5, <1>9 DEF Release, NoPatch, Stage
<1>10. ASSUME NEW r \in Request, RequestTransport(r) PROVE OrderInv'
  <2>1. /\ req'[r].stage = "active" /\ req'[r].patch.status = "on_hold"
        /\ req'[r].patch.previousStatus = IF order.status = "on_hold" THEN order.previousStatus
                                          ELSE order.status
    BY <1>10 DEF RequestTransport, Begin
  <2>2. QED
    BY <1>2, <1>10, <2>1 DEF RequestTransport, KnowsTheOrder, OrderInv, ResumeIsLegal
<1>11. ASSUME NEW r \in Request, CheckActive(r) PROVE OrderInv'
  BY <1>3, <1>4, <1>11 DEF CheckActive, Stage
<1>12. ASSUME NEW r \in Request, CreateTransportJob(r) PROVE OrderInv'
  <2>1. req'[r].stage = "merge" /\ req'[r].patch = req[r].patch
    BY <1>12 DEF CreateTransportJob, RequestState
  <2>2. QED
    BY <1>2, <1>12, <2>1 DEF CreateTransportJob, OrderInv, KnowsTheOrder
<1>13. ASSUME NEW r \in Request, NEW j \in Job, CancelTransport(r, j) PROVE OrderInv'
  BY <1>5, <1>13 DEF CancelTransport, NoPatch, Stage
<1>14. ASSUME NEW r \in Request, NEW j \in Job, RerouteTransport(r, j) PROVE OrderInv'
  BY <1>5, <1>14 DEF RerouteTransport, NoPatch, Stage
<1>15. ASSUME NEW r \in Request, ReadJob(r) PROVE OrderInv'
  <2>1. CASE Respond(r) \/ Goto(r, "cancel")
    BY <1>3, <1>4, <1>15, <2>1 DEF ReadJob, Stage
  <2>2. CASE req[r].op = "reroute" /\ Goto(r, "write")
    BY <1>4, <1>15, <2>2 DEF ReadJob, Stage, WritesAreValidated, Validated
  <2>3. QED
    BY <1>15, <2>1, <2>2 DEF ReadJob, At
<1>16. ASSUME NEW r \in Request, CancelTransportJob(r) PROVE OrderInv'
  BY <1>3, <1>4, <1>16 DEF CancelTransportJob, UpdateStage, Stage
<1>17. ASSUME NEW r \in Request, NEW op \in DOMAIN DriverTo, NEW j \in Job,
              DriverOpens(r, op, j)
       PROVE  OrderInv'
  BY <1>5, <1>17 DEF DriverOpens, NoPatch, Stage
<1>18. ASSUME NEW r \in Request, UpdateTransportJob(r) PROVE OrderInv'
  BY <1>3, <1>18 DEF UpdateTransportJob
<1>19. ASSUME NEW r \in Request, PreFetch(r) PROVE OrderInv'
  <2>1. CASE /\ isAllowedTransition(order.status, req[r].patch.status)
             /\ req' = [req EXCEPT ![r].stage = "write", ![r].before = order.status]
    <3>1. /\ req'[r].stage = "write" /\ req'[r].before = order.status
          /\ req'[r].patch = req[r].patch
      BY <2>1 DEF RequestState
    <3>2. QED
      BY <1>2, <1>19, <2>1, <3>1 DEF PreFetch, OrderInv, KnowsTheOrder
  <2>2. QED
    BY <1>3, <1>19, <2>1 DEF PreFetch
<1>20. ASSUME NEW r \in Request, UpdateItem(r) PROVE OrderInv'
  <2> DEFINE patch == req[r].patch
  <2>1. /\ KnowsTheOrder(req[r]) /\ (BodiesNameNoMemory => ResumeIsLegal)
        /\ patch \in Patch /\ req[r].stage = "write"
    BY <1>20 DEF OrderInv, UpdateItem, RequestState
  <2>2. order'.previousStatus = IF patch.previousStatus = Keep THEN order.previousStatus
                                ELSE patch.previousStatus
    BY <1>20 DEF UpdateItem
  <2>3. BodiesNameNoMemory /\ patch.previousStatus \notin {Null, Keep} =>
          patch.previousStatus \in Holdable
    BY <2>1 DEF KnowsTheOrder, isAllowedTransition, canTransition, Holdable
  <2>4. BodiesNameNoMemory => ResumeIsLegal'
    BY <2>1, <2>2, <2>3, HoldsAreReversible DEF ResumeIsLegal
  <2>5. \A s \in Request : KnowsTheOrder(req[s])'
    BY <1>20 DEF UpdateItem, Respond, Idle, NoPatch, KnowsTheOrder, OneAtATime
  <2>6. QED
    BY <2>4, <2>5 DEF OrderInv
<1>21. ASSUME NEW r \in Request, Abort(r) PROVE OrderInv'
  BY <1>3, <1>21 DEF Abort
<1>22. ASSUME NEW j \in Job, PostTransportJob(j) PROVE OrderInv'
  BY <1>22 DEF PostTransportJob, OrderInv, ResumeIsLegal, KnowsTheOrder
<1>23. QED
  BY <1>1, <1>6, <1>7, <1>8, <1>9, <1>10, <1>11, <1>12, <1>13, <1>14, <1>15,
     <1>16, <1>17, <1>18, <1>19, <1>20, <1>21, <1>22 DEF Next, Handle

\* No handler acts on a status that is no longer the order's; and the status a
\* hold began from can always be given back, unless a body has named another.
THEOREM OrderInvariant ==
  ASSUME OneAtATime, ~ReadFailures
  PROVE  Spec => []OrderInv
<1>1. Init => OrderInv
  BY DEF Init, OrderInv, ResumeIsLegal, KnowsTheOrder, Idle, NoPatch
<1>2. TypeOK /\ WritesAreValidated /\ OrderInv /\ [Next]_vars => OrderInv'
  BY OrderStep
<1>3. QED
  BY <1>1, <1>2, TypeCorrect, WritesValidated, PTL DEF Spec

\* With requests one at a time, previous_status is always a status the matrix
\* lets a hold begin from and resume to.
THEOREM HoldsCanResume ==
  ASSUME OneAtATime, ~ReadFailures, BodiesNameNoMemory
  PROVE  Spec => []ResumeIsLegal
<1>1. OrderInv => ResumeIsLegal
  BY DEF OrderInv
<1>2. QED
  BY <1>1, OrderInvariant, PTL

\* The handlers implement the abstract life cycle: whichever of them writes the
\* row, the status goes along an arrow of the workshop matrix or stays.
THEOREM HandlersImplementLifecycle ==
  ASSUME OneAtATime, ~ReadFailures
  PROVE  Spec => ImplementsLifecycle
<1>1. Init => Lifecycle!Init
  BY DEF Init, Lifecycle!Init
<1>2. ASSUME TypeOK, OrderInv, [Next]_vars PROVE [Lifecycle!Next]_(order.status)
  <2>1. SUFFICES ASSUME order'.status # order.status PROVE Lifecycle!Next
    OBVIOUS
  <2>2. PICK r \in Request : UpdateItem(r)
    BY <1>2, <2>1, OnlyUpdateItemWrites
  <2>3. /\ req[r].stage = "write" /\ req[r].patch.status # Keep
        /\ order'.status = req[r].patch.status
    BY <1>2, <2>1, <2>2 DEF UpdateItem, TypeOK
  <2>4. order.status \in Status /\ isAllowedTransition(order.status, order'.status)
    BY <1>2, <2>3 DEF OrderInv, KnowsTheOrder, TypeOK
  <2>5. order'.status \in STATUS_TRANSITIONS[order.status]
    BY <2>1, <2>4 DEF isAllowedTransition, canTransition
  <2>6. Lifecycle!STATUS_TRANSITIONS = STATUS_TRANSITIONS /\ Lifecycle!Status = Status
    BY DEF Lifecycle!STATUS_TRANSITIONS, Lifecycle!Status, Lifecycle!Exits,
       Lifecycle!Refusals, STATUS_TRANSITIONS, Status, Exits, Refusals
  <2>7. QED
    BY <2>4, <2>5, <2>6, MatrixTypes DEF Lifecycle!Next, Lifecycle!Move
<1>3. QED
  BY <1>1, <1>2, TypeCorrect, OrderInvariant, PTL
     DEF Spec, ImplementsLifecycle, Lifecycle!Spec

-----------------------------------------------------------------------------
(* The transport jobs.                                                     *)

LEMMA JobStep ==
  ASSUME OneAtATime, ~ReadFailures, "post" \notin Op, TypeOK, JobInv, [Next]_vars
  PROVE  JobInv'
<1> USE DEF TypeOK
<1>1. CASE UNCHANGED vars
  BY <1>1 DEF JobInv, vars, OneActiveTransport, KnowsTheJobs
<1>2. ASSUME NEW r \in Request, UNCHANGED job, KnowsTheJobs(req'[r]) PROVE JobInv'
  BY <1>2 DEF OneAtATime, JobInv, OneActiveTransport, KnowsTheJobs
<1>3. ASSUME NEW r \in Request, UNCHANGED job, Respond(r) PROVE JobInv'
  BY <1>2, <1>3 DEF Respond, Idle, KnowsTheJobs, DriverTo
<1>4. ASSUME NEW r \in Request, UNCHANGED job,
             NEW stage \in Stage \ {"create", "drive"}, Goto(r, stage)
      PROVE  JobInv'
  BY <1>2, <1>4 DEF Goto, RequestState, KnowsTheJobs
<1>5. ASSUME NEW r \in Request, UNCHANGED job, NEW op,
             NEW stage \in Stage \ {"create", "drive"},
             NEW patch, NEW j, Begin(r, op, stage, patch, j)
      PROVE  JobInv'
  BY <1>2, <1>5 DEF Begin, KnowsTheJobs
<1>6. ASSUME NEW r \in Request, NEW role \in Role, NEW to \in Target,
             PatchStatus(r, role, to)
      PROVE  JobInv'
  BY <1>5, <1>6 DEF PatchStatus, Stage
<1>7. ASSUME NEW r \in Request, NEW body \in Body, PatchService(r, body) PROVE JobInv'
  BY <1>5, <1>7 DEF PatchService, UpdateStage, Stage
<1>8. ASSUME NEW r \in Request, CheckLock(r) PROVE JobInv'
  BY <1>3, <1>4, <1>8 DEF CheckLock, UpdateStage, Stage
<1>9. ASSUME NEW r \in Request, Release(r) PROVE JobInv'
  BY <1>5, <1>9 DEF Release, Stage
<1>10. ASSUME NEW r \in Request, RequestTransport(r) PROVE JobInv'
  BY <1>5, <1>10 DEF RequestTransport, Stage
<1>11. ASSUME NEW r \in Request, CheckActive(r) PROVE JobInv'
  <2>1. CASE Respond(r)
    BY <1>3, <1>11, <2>1 DEF CheckActive
  <2>2. CASE (\A j \in Job : job[j] \notin ActiveStatuses) /\ Goto(r, "create")
    <3>1. req'[r].stage = "create" /\ req'[r].op = "transport"
      BY <1>11, <2>2 DEF CheckActive, At, Goto, RequestState
    <3>2. QED
      BY <1>2, <1>11, <2>2, <3>1 DEF CheckActive, KnowsTheJobs, DriverTo
  <2>3. QED
    BY <1>11, <2>1, <2>2 DEF CheckActive
<1>12. ASSUME NEW r \in Request, CreateTransportJob(r) PROVE JobInv'
  <2>1. PICK j \in Job :
          /\ job' = [job EXCEPT ![j] = "queued"]
          /\ req' = [req EXCEPT ![r].stage = "merge", ![r].job = j]
    BY <1>12 DEF CreateTransportJob
  <2>2. \A k \in Job : job[k] \notin ActiveStatuses
    BY <1>12 DEF CreateTransportJob, At, JobInv, KnowsTheJobs
  <2>3. OneActiveTransport'
    BY <2>1, <2>2 DEF OneActiveTransport
  <2>4. req'[r].stage = "merge"
    BY <2>1 DEF RequestState
  <2>5. QED
    BY <2>3, <2>4 DEF JobInv, KnowsTheJobs, OneAtATime
<1>13. ASSUME NEW r \in Request, NEW j \in Job, CancelTransport(r, j) PROVE JobInv'
  BY <1>5, <1>13 DEF CancelTransport, Stage
<1>14. ASSUME NEW r \in Request, NEW j \in Job, RerouteTransport(r, j) PROVE JobInv'
  BY <1>5, <1>14 DEF RerouteTransport, Stage
<1>15. ASSUME NEW r \in Request, ReadJob(r) PROVE JobInv'
  BY <1>3, <1>4, <1>15 DEF ReadJob, Stage
<1>16. ASSUME NEW r \in Request, CancelTransportJob(r) PROVE JobInv'
  <2>1. OneActiveTransport'
    BY <1>16 DEF CancelTransportJob, JobInv, OneActiveTransport, ActiveStatuses
  <2>2. req'[r].stage \notin {"create", "drive"}
    BY <1>16 DEF CancelTransportJob, UpdateStage, Respond, Goto, Idle, RequestState
  <2>3. QED
    BY <2>1, <2>2 DEF JobInv, KnowsTheJobs, OneAtATime
<1>17. ASSUME NEW r \in Request, NEW op \in DOMAIN DriverTo, NEW j \in Job,
              DriverOpens(r, op, j)
       PROVE  JobInv'
  <2>1. job[j] \in ActiveStatuses
    BY <1>17 DEF DriverOpens, DriverFrom, DriverTo, ActiveStatuses
  <2>2. req'[r].stage = "drive" /\ req'[r].job = j
    BY <1>17 DEF DriverOpens, Begin
  <2>3. QED
    BY <1>2, <1>17, <2>1, <2>2 DEF DriverOpens, KnowsTheJobs
<1>18. ASSUME NEW r \in Request, UpdateTransportJob(r) PROVE JobInv'
  <2>1. job[req[r].job] \in ActiveStatuses
    BY <1>18 DEF UpdateTransportJob, At, JobInv, KnowsTheJobs
  <2>2. job' = [job EXCEPT ![req[r].job] = DriverTo[req[r].op]]
    BY <1>18 DEF UpdateTransportJob
  <2>3. OneActiveTransport'
    BY <2>1, <2>2 DEF JobInv, OneActiveTransport
  <2>4. QED
    BY <1>18, <2>3 DEF UpdateTransportJob, Respond, Idle, JobInv, KnowsTheJobs, OneAtATime
<1>19. ASSUME NEW r \in Request, PreFetch(r) PROVE JobInv'
  <2>1. CASE req' = [req EXCEPT ![r].stage = "write", ![r].before = order.status]
    BY <1>2, <1>19, <2>1 DEF PreFetch, RequestState, KnowsTheJobs
  <2>2. QED
    BY <1>3, <1>19, <2>1 DEF PreFetch
<1>20. ASSUME NEW r \in Request, UpdateItem(r) PROVE JobInv'
  BY <1>3, <1>20 DEF UpdateItem
<1>21. ASSUME NEW r \in Request, Abort(r) PROVE JobInv'
  BY <1>3, <1>21 DEF Abort
<1>22. ASSUME NEW j \in Job, PostTransportJob(j) PROVE JobInv'
  BY <1>22 DEF PostTransportJob
<1>23. QED
  BY <1>1, <1>6, <1>7, <1>8, <1>9, <1>10, <1>11, <1>12, <1>13, <1>14, <1>15,
     <1>16, <1>17, <1>18, <1>19, <1>20, <1>21, <1>22 DEF Next, Handle

\* With requests one at a time, and none that posts a bare job, an order never
\* has two active transport jobs.
THEOREM OneTransport ==
  ASSUME OneAtATime, ~ReadFailures, "post" \notin Op
  PROVE  Spec => []OneActiveTransport
<1>1. Init => JobInv
  <2>1. ASSUME Init PROVE JobInv
    <3>1. OneActiveTransport
      BY <2>1 DEF Init, OneActiveTransport, ActiveStatuses
    <3>2. QED
      BY <2>1, <3>1 DEF Init, JobInv, KnowsTheJobs, Idle, DriverTo
  <2>2. QED
    BY <2>1
<1>2. TypeOK /\ JobInv /\ [Next]_vars => JobInv'
  BY JobStep
<1>3. JobInv => OneActiveTransport
  BY DEF JobInv
<1>4. QED
  BY <1>1, <1>2, <1>3, TypeCorrect, PTL DEF Spec

-----------------------------------------------------------------------------
(* What a handler is about to write.                                       *)

\* The row as the request q would leave it.
Written(q, c) == IF q.patch[c] = Keep THEN order[c] ELSE q.patch[c]

\* An edit has found nothing locked unless it leaves the row as it is.
EditIsFree(q) ==
  q.op = "edit" /\ q.stage \in {"merge", "write"} =>
    \/ \A c \in DOMAIN order : Written(q, c) = order[c]
    \/ \A j \in Job : job[j] \notin LockStatuses

\* The counter hands over, closes, or repeats the status the order has.
SalesIsNarrow(q) ==
  q.op = "sales" =>
    \/ q.patch.status \in {"delivered", "closed"}
    \/ /\ q.patch.status = order.status
       /\ q.patch.previousStatus = Keep /\ q.patch.holdReason = Keep

\* Whoever is not an edit writes status and memory that fit each other.
HoldFits(q) ==
  BodiesNameNoMemory /\ HoldIsRemembered /\ q.op # "edit" =>
    (Written(q, "status") = "on_hold" <=> Written(q, "previousStatus") # Null)

KnowsItsPatch(q) == EditIsFree(q) /\ SalesIsNarrow(q) /\ HoldFits(q)

PatchInv == \A r \in Request : KnowsItsPatch(req[r])

LEMMA IdleKnowsItsPatch == KnowsItsPatch(Idle)
BY DEF KnowsItsPatch, EditIsFree, SalesIsNarrow, HoldFits, Written, HoldIsRemembered, Idle, NoPatch

LEMMA PatchStep ==
  ASSUME OneAtATime, ~ReadFailures, TypeOK, OrderInv, PatchInv, [Next]_vars
  PROVE  PatchInv'
<1> USE MatrixTypes DEF TypeOK
<1> USE DEF KnowsItsPatch, EditIsFree, SalesIsNarrow, HoldFits, Written, HoldIsRemembered, Null, Keep
<1>1. CASE UNCHANGED vars
  BY <1>1 DEF PatchInv, vars
<1>2. ASSUME NEW r \in Request, KnowsItsPatch(req[r])' PROVE PatchInv'
  BY <1>2 DEF OneAtATime, PatchInv
<1>3. ASSUME NEW r \in Request, Respond(r) PROVE PatchInv'
  <2>1. req'[r] = Idle
    BY <1>3 DEF Respond
  <2>2. KnowsItsPatch(req[r])'
    BY <2>1 DEF Idle, NoPatch
  <2>3. QED
    BY <1>2, <2>2
\* A handler that goes on with the patch it has.
<1>4. ASSUME NEW r \in Request, UNCHANGED order, req'[r].op = req[r].op,
             req'[r].patch = req[r].patch,
             \/ req[r].op # "edit"
             \/ req[r].stage \in {"merge", "write"} /\ UNCHANGED job
             \/ \A j \in Job : job'[j] \notin LockStatuses
      PROVE  PatchInv'
  <2>1. KnowsItsPatch(req[r])
    BY DEF PatchInv
  <2>2. KnowsItsPatch(req[r])'
    BY <1>4, <2>1
  <2>3. QED
    BY <1>2, <2>2
<1>5. ASSUME NEW r \in Request, NEW stage \in Stage, Goto(r, stage)
      PROVE  req'[r].op = req[r].op /\ req'[r].patch = req[r].patch /\ req'[r].stage = stage
  BY <1>5 DEF Goto, RequestState
<1>6. ASSUME NEW r \in Request, NEW role \in Role, NEW to \in Target,
             PatchStatus(r, role, to)
      PROVE  PatchInv'
  <2>1. /\ req'[r].op = IF role = "sales" THEN "sales" ELSE "status"
        /\ req'[r].patch.status = to
        /\ req'[r].patch.previousStatus = HoldMemory(order.status, to, order.status, Null)
        /\ req'[r].patch.holdReason = HoldMemory(order.status, to, "manual", Null)
        /\ canTransition(order.status, to, role) /\ UNCHANGED order
    BY <1>6 DEF PatchStatus, Begin
  <2>2. role = "sales" => to = order.status \/ to \in {"delivered", "closed"}
    BY <2>1 DEF canTransition, SALES_TRANSITIONS
  <2>3. to \in Status
    BY ConstantsAssumption
  <2>4. HoldFits(req[r])'
    <3>1. CASE to = "on_hold" /\ order.status # "on_hold"
      BY <2>1, <2>3, <3>1 DEF HoldMemory
    <3>2. CASE to # "on_hold" /\ order.status = "on_hold"
      BY <2>1, <2>3, <3>2 DEF HoldMemory
    <3>3. CASE (to = "on_hold") = (order.status = "on_hold")
      BY <2>1, <2>3, <3>3 DEF HoldMemory
    <3>4. QED
      BY <3>1, <3>2, <3>3
  <2>5. SalesIsNarrow(req[r])'
    BY <2>1, <2>2 DEF HoldMemory
  <2>6. QED
    BY <1>2, <2>1, <2>4, <2>5
<1>7. ASSUME NEW r \in Request, NEW body \in Body, PatchService(r, body) PROVE PatchInv'
  <2>1. /\ req'[r].op = "edit" /\ UNCHANGED order
        /\ req'[r].patch = body
        /\ req'[r].stage # "lock" => \A c \in DOMAIN order : body[c] \in {Keep, order[c]}
    BY <1>7 DEF PatchService, UpdateStage, Begin
  <2>2. KnowsItsPatch(req[r])'
    BY <2>1
  <2>3. QED
    BY <1>2, <2>2
<1>8. ASSUME NEW r \in Request, CheckLock(r) PROVE PatchInv'
  BY <1>3, <1>4, <1>5, <1>8 DEF CheckLock, UpdateStage, Stage
<1>9. ASSUME NEW r \in Request, Release(r) PROVE PatchInv'
  <2>1. /\ req'[r].op = "release" /\ req'[r].patch = [NoPatch EXCEPT !.status = "closed"]
        /\ order.status # "on_hold" /\ UNCHANGED order
    BY <1>9 DEF Release, Begin, RELEASABLE_STATUSES
  <2>2. KnowsItsPatch(req[r])'
    BY <2>1 DEF NoPatch
  <2>3. QED
    BY <1>2, <2>2
<1>10. ASSUME NEW r \in Request, RequestTransport(r) PROVE PatchInv'
  <2>1. /\ req'[r].op = "transport" /\ req'[r].patch.status = "on_hold"
        /\ req'[r].patch.previousStatus = IF order.status = "on_hold" THEN order.previousStatus
                                          ELSE order.status
        /\ UNCHANGED order
    BY <1>10 DEF RequestTransport, Begin
  <2>2. KnowsItsPatch(req[r])'
    BY <2>1
  <2>3. QED
    BY <1>2, <2>2
<1>11. ASSUME NEW r \in Request, CheckActive(r) PROVE PatchInv'
  BY <1>3, <1>4, <1>5, <1>11 DEF CheckActive, At, Stage
<1>12. ASSUME NEW r \in Request, CreateTransportJob(r) PROVE PatchInv'
  <2>1. /\ req'[r].op = req[r].op /\ req'[r].patch = req[r].patch /\ req[r].op = "transport"
        /\ UNCHANGED order
    BY <1>12 DEF CreateTransportJob, At, RequestState
  <2>2. QED
    BY <1>4, <2>1
<1>13. ASSUME NEW r \in Request, NEW j \in Job, CancelTransport(r, j) PROVE PatchInv'
  <2> DEFINE patch == IF order.status # "on_hold" THEN NoPatch
                      ELSE IF order.previousStatus = Null THEN [NoPatch EXCEPT !.holdReason = Null]
                      ELSE [status |-> order.previousStatus, previousStatus |-> Null,
                            holdReason |-> Null]
  <2>1. req'[r].op = "cancel" /\ req'[r].patch = patch /\ UNCHANGED order
    BY <1>13 DEF CancelTransport, Begin
  <2>2. BodiesNameNoMemory /\ order.previousStatus # Null => order.previousStatus # "on_hold"
    BY HoldsAreReversible DEF OrderInv, ResumeIsLegal
  <2>3. CASE order.status = "on_hold" /\ order.previousStatus # Null
    BY <1>2, <2>1, <2>2, <2>3
  <2>4. CASE order.status # "on_hold" \/ order.previousStatus = Null
    <3>1. req'[r].patch.status = Keep /\ req'[r].patch.previousStatus = Keep
      BY <2>1, <2>4 DEF NoPatch
    <3>2. QED
      BY <1>2, <2>1, <3>1
  <2>5. QED
    BY <2>3, <2>4
<1>14. ASSUME NEW r \in Request, NEW j \in Job, RerouteTransport(r, j) PROVE PatchInv'
  <2>1. /\ req'[r].op = "reroute" /\ req'[r].patch = [NoPatch EXCEPT !.holdReason = "transport"]
        /\ UNCHANGED order
    BY <1>14 DEF RerouteTransport, Begin
  <2>2. KnowsItsPatch(req[r])'
    BY <2>1 DEF NoPatch
  <2>3. QED
    BY <1>2, <2>2
<1>15. ASSUME NEW r \in Request, ReadJob(r) PROVE PatchInv'
  BY <1>3, <1>4, <1>5, <1>15 DEF ReadJob, At, Stage
<1>16. ASSUME NEW r \in Request, CancelTransportJob(r) PROVE PatchInv'
  <2>1. CASE Respond(r)
    BY <1>3, <2>1
  <2>2. CASE Goto(r, "merge") \/ Goto(r, "write")
    <3>1. req'[r].op = req[r].op /\ req'[r].patch = req[r].patch
      BY <1>5, <2>2 DEF Stage
    <3>2. req[r].op = "cancel" /\ UNCHANGED order
      BY <1>16 DEF CancelTransportJob, At
    <3>3. QED
      BY <1>4, <3>1, <3>2
  <2>3. QED
    BY <1>16, <2>1, <2>2 DEF CancelTransportJob, UpdateStage
<1>17. ASSUME NEW r \in Request, NEW op \in DOMAIN DriverTo, NEW j \in Job,
              DriverOpens(r, op, j)
       PROVE  PatchInv'
  <2>1. req'[r].op = op /\ req'[r].patch = NoPatch /\ UNCHANGED order /\ op \notin {"edit", "sales"}
    BY <1>17 DEF DriverOpens, Begin, DriverTo
  <2>2. KnowsItsPatch(req[r])'
    BY <2>1 DEF NoPatch
  <2>3. QED
    BY <1>2, <2>2
<1>18. ASSUME NEW r \in Request, UpdateTransportJob(r) PROVE PatchInv'
  BY <1>3, <1>18 DEF UpdateTransportJob
<1>19. ASSUME NEW r \in Request, PreFetch(r) PROVE PatchInv'
  <2>1. CASE req' = [req EXCEPT ![r].stage = "write", ![r].before = order.status]
    <3>1. req'[r].op = req[r].op /\ req'[r].patch = req[r].patch
      BY <2>1 DEF RequestState
    <3>2. QED
      BY <1>4, <1>19, <3>1 DEF PreFetch
  <2>2. QED
    BY <1>3, <1>19, <2>1 DEF PreFetch
<1>20. ASSUME NEW r \in Request, UpdateItem(r) PROVE PatchInv'
  BY <1>3, <1>20 DEF UpdateItem
<1>21. ASSUME NEW r \in Request, Abort(r) PROVE PatchInv'
  BY <1>3, <1>21 DEF Abort
<1>22. ASSUME NEW j \in Job, PostTransportJob(j) PROVE PatchInv'
  <2>1. UNCHANGED <<order, req>> /\ \A k \in Job : job'[k] \in LockStatuses => job[k] \in LockStatuses
    BY <1>22 DEF PostTransportJob, LockStatuses
  <2>2. QED
    BY <2>1 DEF PatchInv
<1>23. QED
  BY <1>1, <1>6, <1>7, <1>8, <1>9, <1>10, <1>11, <1>12, <1>13, <1>14, <1>15,
     <1>16, <1>17, <1>18, <1>19, <1>20, <1>21, <1>22 DEF Next, Handle

LEMMA PatchInvariant ==
  ASSUME OneAtATime, ~ReadFailures
  PROVE  Spec => []PatchInv
<1>1. Init => PatchInv
  BY IdleKnowsItsPatch DEF Init, PatchInv
<1>2. TypeOK /\ OrderInv /\ PatchInv /\ [Next]_vars => PatchInv'
  BY PatchStep
<1>3. QED
  BY <1>1, <1>2, TypeCorrect, OrderInvariant, PTL DEF Spec

\* The only step that changes the row, and what it leaves there.
LEMMA RowIsWritten ==
  ASSUME TypeOK, [Next]_vars, order' # order
  PROVE  \E r \in Request :
           /\ req[r].stage = "write"
           /\ \A c \in DOMAIN order : order'[c] = Written(req[r], c)
           /\ DOMAIN order = {"status", "previousStatus", "holdReason"}
<1>1. PICK r \in Request : UpdateItem(r)
  BY OnlyUpdateItemWrites
<1>2. QED
  BY <1>1 DEF UpdateItem, Written, TypeOK

\* With requests one at a time, the generic PATCH changes nothing of an order
\* whose device has left with a driver: the 423 of its lock, and nothing to
\* change where the lock is skipped (PATCH /services/[id]).
THEOREM EditsStop ==
  ASSUME OneAtATime, ~ReadFailures
  PROVE  Spec => EditsStopAtPickup
<1> DEFINE Step == \A r \in Request :
                     At(r, {"edit"}, "write") /\ order' # order
                       => \A j \in Job : job[j] \notin LockStatuses
<1>1. TypeOK /\ PatchInv /\ [Next]_vars => [Step]_vars
  <2> SUFFICES ASSUME TypeOK, PatchInv, [Next]_vars, NEW r \in Request,
                      At(r, {"edit"}, "write"), order' # order
               PROVE  \A j \in Job : job[j] \notin LockStatuses
    OBVIOUS
  <2>1. PICK s \in Request :
          /\ req[s].stage = "write"
          /\ \A c \in DOMAIN order : order'[c] = Written(req[s], c)
          /\ DOMAIN order = {"status", "previousStatus", "holdReason"}
    BY RowIsWritten
  <2>2. s = r /\ EditIsFree(req[r])
    BY DEF OneAtATime, PatchInv, KnowsItsPatch
  <2>3. ~ \A c \in DOMAIN order : Written(req[r], c) = order[c]
    <3>1. SUFFICES ASSUME \A c \in DOMAIN order : Written(req[r], c) = order[c] PROVE FALSE
      OBVIOUS
    <3>2. \A c \in DOMAIN order : order'[c] = order[c]
      BY <2>1, <2>2, <3>1
    <3>3. PICK t \in Request : UpdateItem(t)
      BY OnlyUpdateItemWrites
    <3>4. QED
      BY <3>2, <3>3 DEF UpdateItem, TypeOK
  <2>4. QED
    BY <2>2, <2>3 DEF EditIsFree, At
<1>2. QED
  BY <1>1, TypeCorrect, PatchInvariant, PTL DEF Spec, EditsStopAtPickup

\* With requests one at a time, whatever the counter asks for, an order it
\* changes is handed over or closed (SALES_TRANSITIONS; updateService, which
\* validates as the workshop, lets nothing more through).
THEOREM SalesReleases ==
  ASSUME OneAtATime, ~ReadFailures
  PROVE  Spec => SalesOnlyReleases
<1> DEFINE Step == \A r \in Request :
                     At(r, {"sales"}, "write") /\ order' # order
                       => order'.status \in {"delivered", "closed"}
<1>1. TypeOK /\ PatchInv /\ [Next]_vars => [Step]_vars
  <2> SUFFICES ASSUME TypeOK, PatchInv, [Next]_vars, NEW r \in Request,
                      At(r, {"sales"}, "write"), order' # order
               PROVE  order'.status \in {"delivered", "closed"}
    OBVIOUS
  <2>1. PICK s \in Request :
          /\ req[s].stage = "write"
          /\ \A c \in DOMAIN order : order'[c] = Written(req[s], c)
          /\ DOMAIN order = {"status", "previousStatus", "holdReason"}
    BY RowIsWritten
  <2>2. s = r /\ SalesIsNarrow(req[r]) /\ req[r].op = "sales"
    BY DEF OneAtATime, PatchInv, KnowsItsPatch, At
  <2>3. CASE req[r].patch.status \in {"delivered", "closed"}
    BY <2>1, <2>2, <2>3 DEF Written, Keep
  <2>4. CASE /\ req[r].patch.status = order.status
             /\ req[r].patch.previousStatus = Keep /\ req[r].patch.holdReason = Keep
    <3>1. \A c \in DOMAIN order : order'[c] = order[c]
      BY <2>1, <2>2, <2>4 DEF Written
    <3>2. PICK t \in Request : UpdateItem(t)
      BY OnlyUpdateItemWrites
    <3>3. QED
      BY <3>1, <3>2 DEF UpdateItem, TypeOK
  <2>5. QED
    BY <2>2, <2>3, <2>4 DEF SalesIsNarrow
<1>2. QED
  BY <1>1, TypeCorrect, PatchInvariant, PTL DEF Spec, SalesOnlyReleases

\* With requests one at a time, only the generic PATCH can part a hold from the
\* status it remembers: every other handler writes the two together or neither.
THEOREM HoldsAreRemembered ==
  ASSUME OneAtATime, ~ReadFailures, BodiesNameNoMemory
  PROVE  Spec => OnlyEditsForgetHold
<1> DEFINE Step == HoldIsRemembered /\ (\A r \in Request : ~At(r, {"edit"}, "write"))
                     => HoldIsRemembered'
<1>1. TypeOK /\ PatchInv /\ [Next]_vars => [Step]_vars
  <2> SUFFICES ASSUME TypeOK, PatchInv, [Next]_vars, HoldIsRemembered,
                      \A r \in Request : ~At(r, {"edit"}, "write"), order' # order
               PROVE  HoldIsRemembered'
    BY DEF HoldIsRemembered
  <2>1. PICK s \in Request :
          /\ req[s].stage = "write"
          /\ \A c \in DOMAIN order : order'[c] = Written(req[s], c)
          /\ DOMAIN order = {"status", "previousStatus", "holdReason"}
    BY RowIsWritten
  <2>2. HoldFits(req[s]) /\ req[s].op # "edit"
    BY <2>1 DEF PatchInv, KnowsItsPatch, At
  <2>3. QED
    BY <2>1, <2>2 DEF HoldFits, HoldIsRemembered
<1>2. QED
  BY <1>1, TypeCorrect, PatchInvariant, PTL DEF Spec, OnlyEditsForgetHold
=============================================================================
