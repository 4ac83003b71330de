------------------------- MODULE AccountSyncProofs -------------------------
(***************************************************************************)
(* Proofs about AccountSync, for any number of users, applications, jobs   *)
(* and addresses, and whatever fails.                                      *)
(***************************************************************************)
EXTENDS AccountSync, TLAPS

-----------------------------------------------------------------------------
(* The records of jobs and of the reconciliation.                          *)

LEMMA IdleTypes == JobIdle \in Job /\ ReconIdle \in Recon
BY AccountAssumption DEF JobIdle, Job, JobStage, ReconIdle, Recon

LEMMA JobFields ==
  \A j \in Job :
    /\ j.stage \in JobStage /\ j.mail \in Mail \cup {NoMail} /\ j.user \in 0..MaxUsers
    /\ j.left \in Nat /\ j.area \subseteq Provider /\ j.role \in AreaRole \cup {NoRole}
    /\ j.seen \subseteq AreaRole /\ j.todo \subseteq Provider /\ j.failed \in BOOLEAN
BY DEF Job

\* A job at another stage, and what it has read.
LEMMA StageWrites ==
  ASSUME NEW j \in Job, NEW stage \in JobStage, NEW seen \in SUBSET AreaRole
  PROVE  /\ [j EXCEPT !.stage = stage] \in Job
         /\ [j EXCEPT !.stage = stage, !.seen = seen] \in Job
BY DEF Job

\* A provider was visited.
LEMMA VisitWrites ==
  ASSUME NEW j \in Job, NEW todo \in SUBSET Provider
  PROVE  /\ [j EXCEPT !.todo = todo] \in Job
         /\ [j EXCEPT !.todo = todo, !.failed = TRUE] \in Job
BY DEF Job

\* An attempt starts from the beginning.
LEMMA RetryWrites ==
  ASSUME NEW j \in Job, NEW stage \in JobStage, NEW todo \in SUBSET Provider, j.left > 0
  PROVE  [j EXCEPT !.stage = stage, !.left = @ - 1, !.seen = {}, !.todo = todo,
                   !.failed = FALSE] \in Job
<1>1. j.left - 1 \in Nat
  BY DEF Job
<1>2. ASSUME NEW left \in Nat
      PROVE  [j EXCEPT !.stage = stage, !.left = left, !.seen = {}, !.todo = todo,
                       !.failed = FALSE] \in Job
  BY DEF Job
<1>3. QED
  BY <1>1, <1>2

LEMMA NewWrites ==
  ASSUME NEW j \in Job, NEW m \in Mail, NEW u \in User, NEW left \in Nat,
         NEW todo \in SUBSET Provider
  PROVE  [j EXCEPT !.stage = "delete", !.mail = m, !.user = u, !.left = left,
                   !.todo = todo] \in Job
<1>1. u \in 0..MaxUsers /\ m \in Mail \cup {NoMail}
  BY AccountAssumption DEF User
<1>2. "delete" \in JobStage
  BY DEF JobStage
<1>3. QED
  BY <1>1, <1>2 DEF Job

LEMMA NewAssignment ==
  ASSUME NEW m \in Mail, realm[m] \in User, NEW p \in Provider, NEW role \in AreaRole \cup {NoRole},
         NEW left \in Nat, NEW stage \in JobStage
  PROVE  AreaJob(stage, m, p, role, left) \in Job
<1>1. realm[m] \in 0..MaxUsers /\ m \in Mail \cup {NoMail}
  BY AccountAssumption DEF User
<1>2. {p} \in SUBSET Provider /\ {} \in SUBSET Provider /\ {} \in SUBSET AreaRole
  OBVIOUS
<1>3. QED
  BY <1>1, <1>2 DEF Job, AreaJob

LEMMA NewDeletion == ASSUME NEW m \in Mail, NEW u \in User PROVE Deprovision(m, u) \in Job
<1>1. JOB_ATTEMPTS - 1 \in Nat /\ Provider \in SUBSET Provider
  BY AccountAssumption
<1>2. QED
  BY <1>1, IdleTypes, NewWrites DEF Deprovision

LEMMA ReconWrites ==
  ASSUME NEW r \in Recon, NEW todo \in SUBSET Provider, NEW drift \in SUBSET (Provider \X Mail)
  PROVE  /\ [r EXCEPT !.todo = todo, !.drift = drift] \in Recon
         /\ [r EXCEPT !.todo = todo] \in Recon
         /\ [r EXCEPT !.drift = drift] \in Recon
BY DEF Recon

-----------------------------------------------------------------------------
(* What a step does to the jobs.                                           *)

\* Only the job in slot s changes.
OnlyJob(s) == job' \in [JobSlot -> Job] /\ \A t \in JobSlot \ {s} : job'[t] = job[t]

\* It is about the same address, user, area and role.
SameTask(s) ==
  /\ job'[s].mail = job[s].mail /\ job'[s].user = job[s].user
  /\ job'[s].area = job[s].area /\ job'[s].role = job[s].role

LEMMA GotoEffect ==
  ASSUME NEW s \in JobSlot, NEW stage \in JobStage, job \in [JobSlot -> Job], JobGoto(s, stage)
  PROVE  /\ OnlyJob(s) /\ SameTask(s)
         /\ job'[s].stage = stage /\ job'[s].seen = job[s].seen
         /\ job'[s].todo = job[s].todo /\ job'[s].failed = job[s].failed
<1>1. job' = [job EXCEPT ![s] = [job[s] EXCEPT !.stage = stage]]
  BY DEF JobGoto
<1>2. [job[s] EXCEPT !.stage = stage] \in Job
  BY StageWrites
<1>3. OnlyJob(s)
  BY <1>1, <1>2 DEF OnlyJob
<1>4. QED
  BY <1>1, <1>3, JobFields DEF SameTask, Job

LEMMA EndEffect ==
  ASSUME NEW s \in JobSlot, job \in [JobSlot -> Job], JobEnds(s)
  PROVE  OnlyJob(s) /\ job'[s] = JobIdle
BY IdleTypes DEF JobEnds, OnlyJob

LEMMA ReadEffect ==
  ASSUME NEW s \in JobSlot, NEW seen \in SUBSET AreaRole, job \in [JobSlot -> Job],
         job' = [job EXCEPT ![s].stage = "remove", ![s].seen = seen]
  PROVE  /\ OnlyJob(s) /\ SameTask(s)
         /\ job'[s].stage = "remove" /\ job'[s].seen = seen
         /\ job'[s].todo = job[s].todo /\ job'[s].failed = job[s].failed
<1>1. job' = [job EXCEPT ![s] = [job[s] EXCEPT !.stage = "remove", !.seen = seen]]
  OBVIOUS
<1>2. [job[s] EXCEPT !.stage = "remove", !.seen = seen] \in Job
  BY StageWrites DEF JobStage
<1>3. OnlyJob(s)
  BY <1>1, <1>2 DEF OnlyJob
<1>4. QED
  BY <1>1, <1>3, JobFields DEF SameTask, Job

LEMMA VisitEffect ==
  ASSUME NEW s \in JobSlot, NEW p \in Provider, job \in [JobSlot -> Job],
         \/ job' = [job EXCEPT ![s].todo = @ \ {p}]
         \/ job' = [job EXCEPT ![s].todo = @ \ {p}, ![s].failed = TRUE]
  PROVE  /\ OnlyJob(s) /\ SameTask(s)
         /\ job'[s].stage = job[s].stage /\ job'[s].todo = job[s].todo \ {p}
         /\ job[s].failed => job'[s].failed
         /\ job' = [job EXCEPT ![s].todo = @ \ {p}, ![s].failed = TRUE] => job'[s].failed
<1>1. job[s].todo \ {p} \in SUBSET Provider
  BY JobFields
<1>2. CASE job' = [job EXCEPT ![s].todo = @ \ {p}]
  <2>1. job' = [job EXCEPT ![s] = [job[s] EXCEPT !.todo = job[s].todo \ {p}]]
    BY <1>2
  <2>2. OnlyJob(s)
    BY <1>1, <2>1, VisitWrites DEF OnlyJob
  <2>3. QED
    BY <2>1, <2>2, JobFields DEF SameTask, Job
<1>3. CASE job' = [job EXCEPT ![s].todo = @ \ {p}, ![s].failed = TRUE]
  <2>1. job' = [job EXCEPT ![s] = [job[s] EXCEPT !.todo = job[s].todo \ {p}, !.failed = TRUE]]
    BY <1>3
  <2>2. OnlyJob(s)
    BY <1>1, <2>1, VisitWrites DEF OnlyJob
  <2>3. QED
    BY <2>1, <2>2, JobFields DEF SameTask, Job
<1>4. QED
  BY <1>2, <1>3

\* A job tries again from the beginning, or is given up for lost.
LEMMA RetryEffect ==
  ASSUME NEW s \in JobSlot, NEW stage \in JobStage, NEW todo \in SUBSET Provider,
         job \in [JobSlot -> Job], Retry(s, stage, todo)
  PROVE  /\ OnlyJob(s)
         /\ \/ /\ SameTask(s) /\ UNCHANGED excuse
               /\ job'[s].stage = stage /\ job'[s].todo = todo
               /\ job'[s].seen = {} /\ ~job'[s].failed
            \/ job'[s] = JobIdle /\ Excused(job[s].mail, "lost")
<1>1. CASE job[s].left > 0
  <2>1. job' = [job EXCEPT ![s] = [job[s] EXCEPT !.stage = stage, !.left = @ - 1, !.seen = {},
                                                 !.todo = todo, !.failed = FALSE]]
    BY <1>1 DEF Retry
  <2>2. OnlyJob(s)
    BY <1>1, <2>1, RetryWrites DEF OnlyJob
  <2>3. QED
    BY <1>1, <2>1, <2>2, JobFields DEF Retry, SameTask, Job
<1>2. CASE ~(job[s].left > 0)
  BY <1>2, EndEffect DEF Retry
<1>3. QED
  BY <1>1, <1>2

LEMMA DeprovisionEffect ==
  ASSUME NEW s \in JobSlot, NEW m \in Mail, NEW u \in User, job \in [JobSlot -> Job],
         job' = [job EXCEPT ![s] = Deprovision(m, u)]
  PROVE  /\ OnlyJob(s)
         /\ job'[s].stage = "delete" /\ job'[s].mail = m /\ job'[s].user = u
         /\ job'[s].area = {} /\ job'[s].todo = Provider
<1>1. Deprovision(m, u) \in Job
  BY NewDeletion
<1>2. job'[s] = Deprovision(m, u) /\ OnlyJob(s)
  BY <1>1 DEF OnlyJob
<1>3. QED
  BY <1>2 DEF Deprovision, JobIdle

\* The two tables that are written at one address and one application.
LEMMA AccountWrites ==
  ASSUME NEW p \in Provider, NEW m \in Mail, NEW v \in AreaRole \cup {NoRole, NoAccount},
         account \in [Provider -> [Mail -> AreaRole \cup {NoRole, NoAccount}]],
         account' = [account EXCEPT ![p][m] = v]
  PROVE  /\ account' \in [Provider -> [Mail -> AreaRole \cup {NoRole, NoAccount}]]
         /\ account'[p][m] = v
         /\ \A q \in Provider, n \in Mail : q # p \/ n # m => account'[q][n] = account[q][n]
OBVIOUS

LEMMA RoleWrites ==
  ASSUME NEW p \in Provider, NEW m \in Mail, NEW v \in SUBSET AreaRole,
         realmRole \in [Mail -> [Provider -> SUBSET AreaRole]],
         realmRole' = [realmRole EXCEPT ![m][p] = v]
  PROVE  /\ realmRole' \in [Mail -> [Provider -> SUBSET AreaRole]]
         /\ realmRole'[m][p] = v
         /\ \A q \in Provider, n \in Mail : q # p \/ n # m => realmRole'[n][q] = realmRole[n][q]
OBVIOUS

LEMMA ExcuseWrites ==
  ASSUME NEW m \in Mail, NEW why \in Excuse, excuse \in [Mail -> SUBSET Excuse], Excused(m, why)
  PROVE  /\ excuse' \in [Mail -> SUBSET Excuse]
         /\ why \in excuse'[m]
         /\ \A n \in Mail : excuse[n] \subseteq excuse'[n]
         /\ \A n \in Mail \ {m} : excuse'[n] = excuse[n]
BY DEF Excused

-----------------------------------------------------------------------------
(* Types, and whom the work in progress is about.                          *)

Assigning == {"read", "remove", "add", "native"}

\* User u is somebody who had address m before its holder of now.
Past(m, u) == u \in 1..users /\ (realm[m] # 0 => u < realm[m])

AssignShape(s) ==
  /\ job[s].stage \in Assigning
  /\ job[s].mail \in Mail /\ job[s].user \in 1..users
  /\ job[s].todo = {}
  /\ \E p \in Provider : job[s].area = {p}

DeleteShape(s) ==
  /\ job[s].stage = "delete"
  /\ job[s].mail \in Mail /\ Past(job[s].mail, job[s].user)
  /\ job[s].area = {}

JobShape(s) == job[s] = JobIdle \/ AssignShape(s) \/ DeleteShape(s)

RealmShape ==
  \A m \in Mail : realm[m] <= users /\ (realm[m] = 0 => realmRole[m] = NoRoles)

EventsArePast == \A e \in events : Past(e.mail, e.user)

\* A user who is not in a complete list was created after it, and only users who
\* are not in the list are drift.
ReconShape ==
  /\ recon.upTo <= users
  /\ recon.whole => \A m \in Mail \ recon.found : realm[m] = 0 \/ recon.upTo < realm[m]
  /\ \A p \in Provider, m \in Mail : <<p, m>> \in recon.drift => m \notin recon.found

AccountInv ==
  /\ AccountTypeOK
  /\ \A s \in JobSlot : JobShape(s)
  /\ RealmShape /\ EventsArePast /\ ReconShape

LEMMA AreaOf ==
  ASSUME NEW s \in JobSlot, AssignShape(s)
  PROVE  Area(s) \in Provider /\ job[s].area = {Area(s)}
BY DEF AssignShape, Area

\* The stage tells what a job is.
LEMMA StageTells ==
  ASSUME NEW s \in JobSlot, JobShape(s)
  PROVE  /\ job[s].stage \in Assigning => AssignShape(s)
         /\ job[s].stage = "delete" => DeleteShape(s)
         /\ job[s].todo # {} => DeleteShape(s)
         /\ job[s].area # {} => AssignShape(s)
         /\ job[s].stage = "idle" => job[s] = JobIdle
BY DEF JobShape, AssignShape, DeleteShape, JobIdle, Assigning

\* A step of one job that keeps its task.
LEMMA TaskKept ==
  ASSUME AccountInv, NEW s \in JobSlot, OnlyJob(s), UNCHANGED <<realm, users>>,
         \/ job'[s] = JobIdle
         \/ /\ SameTask(s)
            /\ \/ AssignShape(s) /\ job'[s].stage \in Assigning /\ job'[s].todo = {}
               \/ DeleteShape(s) /\ job'[s].stage = "delete"
  PROVE  \A t \in JobSlot : JobShape(t)'
<1> SUFFICES ASSUME NEW t \in JobSlot PROVE JobShape(t)'
  OBVIOUS
<1>1. CASE t # s
  BY <1>1 DEF AccountInv, OnlyJob, JobShape, AssignShape, DeleteShape, Past
<1>2. CASE t = s /\ job'[s] = JobIdle
  BY <1>2 DEF JobShape
<1>3. CASE t = s /\ SameTask(s) /\ AssignShape(s) /\ job'[s].stage \in Assigning /\ job'[s].todo = {}
  BY <1>3 DEF JobShape, AssignShape, SameTask
<1>4. CASE t = s /\ SameTask(s) /\ DeleteShape(s) /\ job'[s].stage = "delete"
  BY <1>4 DEF JobShape, DeleteShape, SameTask, Past
<1>5. QED
  BY <1>1, <1>2, <1>3, <1>4

\* The past stays past when somebody leaves or a user is created.
LEMMA PastStays ==
  ASSUME AccountTypeOK, NEW m \in Mail,
         \/ realm' = [realm EXCEPT ![m] = 0] /\ UNCHANGED users
         \/ realm' = [realm EXCEPT ![m] = users + 1] /\ users' = users + 1
  PROVE  /\ \A n \in Mail, u \in Nat : Past(n, u) => Past(n, u)'
         /\ \A u \in 1..users : u \in 1..users'
<1>1. users \in Nat /\ MaxUsers \in Nat /\ realm \in [Mail -> 0..MaxUsers]
  BY AccountAssumption DEF AccountTypeOK
<1>2. \A u \in 1..users : u \in 1..users'
  BY <1>1
<1>3. SUFFICES ASSUME NEW n \in Mail, NEW u \in Nat, Past(n, u)
               PROVE  Past(n, u)'
  BY <1>2
<1>4. u \in 1..users' /\ u <= users
  BY <1>1, <1>2, <1>3 DEF Past
<1>5. CASE n # m
  <2>1. realm'[n] = realm[n]
    BY <1>1, <1>5
  <2>2. QED
    BY <1>3, <1>4, <2>1 DEF Past
<1>6. CASE n = m
  <2>1. realm'[n] = 0 \/ realm'[n] = users + 1
    BY <1>1, <1>6
  <2>2. u < users + 1
    BY <1>1, <1>4
  <2>3. QED
    BY <1>4, <2>1, <2>2 DEF Past
<1>7. QED
  BY <1>5, <1>6

LEMMA LeavingIsPast ==
  ASSUME AccountInv, NEW m \in Mail, realm[m] # 0, NEW panel \in BOOLEAN, LeavesKeycloak(m, panel),
         UNCHANGED users
  PROVE  /\ RealmShape' /\ EventsArePast' /\ realm[m] \in User
         /\ \A u : u = realm[m] => Past(m, u)'
         /\ realm' \in [Mail -> 0..MaxUsers]
         /\ realmRole' \in [Mail -> [Provider -> SUBSET AreaRole]]
         /\ events' \subseteq Deletion
         /\ recon' = recon => ReconShape'
<1> USE DEF AccountInv, AccountTypeOK
<1>1. realm[m] \in User /\ realm[m] \in 1..users
  <2>1. realm[m] \in 0..MaxUsers /\ users \in Nat /\ MaxUsers \in Nat
    BY AccountAssumption
  <2>2. realm[m] <= users
    BY DEF RealmShape
  <2>3. QED
    BY <2>1, <2>2 DEF User
<1>2. NoRoles \in [Provider -> SUBSET AreaRole]
  BY DEF NoRoles
<1>3. realm'[m] = 0 /\ realm' = [realm EXCEPT ![m] = 0]
  BY DEF LeavesKeycloak
<1>4. \A n \in Mail, u \in Nat : Past(n, u) => Past(n, u)'
  BY <1>3, PastStays
<1>5. \A u : u = realm[m] => Past(m, u)'
  BY <1>1, <1>3 DEF Past
<1>6. RealmShape'
  BY <1>1 DEF LeavesKeycloak, RealmShape, NoRoles
<1>7. [mail |-> m, user |-> realm[m], panel |-> panel] \in Deletion
  BY <1>1 DEF Deletion
<1>8. \A e \in events : e.mail \in Mail /\ e.user \in Nat
  BY AccountAssumption DEF Deletion, User
<1>9. EventsArePast'
  <2>1. SUFFICES ASSUME NEW e \in events' PROVE Past(e.mail, e.user)'
    BY DEF EventsArePast
  <2>2. CASE e \in events
    BY <1>8, <1>4, <2>2 DEF EventsArePast
  <2>3. CASE e = [mail |-> m, user |-> realm[m], panel |-> panel]
    BY <1>5, <2>3
  <2>4. QED
    BY <2>2, <2>3 DEF LeavesKeycloak
<1>10. recon' = recon => ReconShape'
  BY DEF LeavesKeycloak, ReconShape
<1>11. QED
  BY <1>1, <1>2, <1>5, <1>6, <1>7, <1>9, <1>10, AccountAssumption DEF LeavesKeycloak

-----------------------------------------------------------------------------
(* The steps of the jobs.                                                  *)

\* A step that leaves users, roles, events and the reconciliation alone.
LEMMA QuietStep ==
  ASSUME AccountInv, UNCHANGED <<realm, users, realmRole, events, recon>>,
         account' \in [Provider -> [Mail -> AreaRole \cup {NoRole, NoAccount}]],
         job' \in [JobSlot -> Job], jobs' \in 0..MaxJobs, excuse' \in [Mail -> SUBSET Excuse],
         \A t \in JobSlot : JobShape(t)'
  PROVE  AccountInv'
<1>1. AccountTypeOK'
  BY DEF AccountInv, AccountTypeOK
<1>2. RealmShape' /\ EventsArePast' /\ ReconShape'
  BY DEF AccountInv, RealmShape, EventsArePast, ReconShape, Past
<1>3. QED
  BY <1>1, <1>2 DEF AccountInv

\* A step of the roles of the user of job s, whom Keycloak knows.
LEMMA RoleStep ==
  ASSUME AccountInv, NEW s \in JobSlot, AssignShape(s), Known(s),
         NEW roles \in SUBSET AreaRole, NEW stage \in Assigning, JobGoto(s, stage),
         realmRole' = [realmRole EXCEPT ![job[s].mail][Area(s)] = roles],
         UNCHANGED <<realm, users, account, events, jobs, recon, excuse>>
  PROVE  AccountInv'
<1>1. job[s].mail \in Mail /\ realm[job[s].mail] # 0
  BY DEF AssignShape, Known, AccountInv, AccountTypeOK
<1>2. stage \in JobStage /\ job \in [JobSlot -> Job]
  BY DEF Assigning, JobStage, AccountInv, AccountTypeOK
<1>3. OnlyJob(s) /\ SameTask(s) /\ job'[s].stage = stage /\ job'[s].todo = job[s].todo
  BY <1>2, GotoEffect
<1>4. job'[s].todo = {}
  BY <1>3 DEF AssignShape
<1>5. \A t \in JobSlot : JobShape(t)'
  BY <1>3, <1>4, TaskKept
<1>6. /\ realmRole' \in [Mail -> [Provider -> SUBSET AreaRole]]
      /\ \A n \in Mail \ {job[s].mail} : realmRole'[n] = realmRole[n]
  BY <1>1, AreaOf DEF AccountInv, AccountTypeOK
<1>7. AccountTypeOK'
  BY <1>3, <1>6 DEF AccountInv, AccountTypeOK, OnlyJob
<1>8. RealmShape' /\ EventsArePast' /\ ReconShape'
  BY <1>1, <1>6 DEF AccountInv, RealmShape, EventsArePast, ReconShape, Past
<1>9. QED
  BY <1>5, <1>7, <1>8 DEF AccountInv

\* The mark of what went wrong keeps its type.
LEMMA MarkTyped ==
  ASSUME AccountInv, NEW m \in Mail, NEW why \in Excuse, UNCHANGED excuse \/ Excused(m, why)
  PROVE  excuse' \in [Mail -> SUBSET Excuse]
BY ExcuseWrites DEF AccountInv, AccountTypeOK

LEMMA JobStepKeeps ==
  ASSUME AccountInv, NEW s \in JobSlot, JobStep(s)
  PROVE  AccountInv'
<1> USE DEF AccountInv
<1>1. /\ job \in [JobSlot -> Job] /\ excuse \in [Mail -> SUBSET Excuse] /\ jobs \in 0..MaxJobs
      /\ account \in [Provider -> [Mail -> AreaRole \cup {NoRole, NoAccount}]]
      /\ realmRole \in [Mail -> [Provider -> SUBSET AreaRole]]
      /\ realm \in [Mail -> 0..MaxUsers]
  BY DEF AccountTypeOK
<1>2. JobShape(s) /\ job[s] \in Job
  BY <1>1
<1>3. "lost" \in Excuse
  BY DEF Excuse
<1>4. CASE ReadRoles(s)
  <2>1. AssignShape(s)
    BY <1>2, <1>4, StageTells DEF ReadRoles, Assigning
  <2>2. Area(s) \in Provider /\ job[s].mail \in Mail
    BY <2>1, AreaOf DEF AssignShape
  <2>3. realmRole[job[s].mail][Area(s)] \in SUBSET AreaRole
    BY <1>1, <2>2
  <2>4. OnlyJob(s) /\ SameTask(s) /\ job'[s].stage = "remove" /\ job'[s].todo = job[s].todo
    BY <1>1, <1>4, <2>3, ReadEffect DEF ReadRoles
  <2>5. \A t \in JobSlot : JobShape(t)'
    BY <1>4, <2>1, <2>4, TaskKept DEF ReadRoles, Assigning, AssignShape
  <2>6. QED
    BY <1>1, <1>4, <2>4, <2>5, QuietStep DEF ReadRoles, OnlyJob
<1>5. CASE RemoveRoles(s)
  <2>1. AssignShape(s)
    BY <1>2, <1>5, StageTells DEF RemoveRoles, Assigning
  <2>2. Area(s) \in Provider /\ job[s].mail \in Mail
    BY <2>1, AreaOf DEF AssignShape
  <2>3. /\ realmRole[job[s].mail][Area(s)] \ (job[s].seen \ Wanted(s)) \in SUBSET AreaRole
        /\ "add" \in Assigning
    BY <1>1, <2>2 DEF Assigning
  <2>4. realmRole' = [realmRole EXCEPT ![job[s].mail][Area(s)]
                        = realmRole[job[s].mail][Area(s)] \ (job[s].seen \ Wanted(s))]
    BY <1>5 DEF RemoveRoles
  <2>5. QED
    BY <1>5, <2>1, <2>3, <2>4, RoleStep DEF RemoveRoles
<1>6. CASE AddRole(s)
  <2>1. AssignShape(s)
    BY <1>2, <1>6, StageTells DEF AddRole, Assigning
  <2>2. Area(s) \in Provider /\ job[s].mail \in Mail
    BY <2>1, AreaOf DEF AssignShape
  <2>3. Wanted(s) \in SUBSET AreaRole
    BY <1>2, JobFields DEF Wanted
  <2>4. /\ realmRole[job[s].mail][Area(s)] \cup (Wanted(s) \ job[s].seen) \in SUBSET AreaRole
        /\ "native" \in Assigning
    BY <1>1, <2>2, <2>3 DEF Assigning
  <2>5. realmRole' = [realmRole EXCEPT ![job[s].mail][Area(s)]
                        = realmRole[job[s].mail][Area(s)] \cup (Wanted(s) \ job[s].seen)]
    BY <1>6 DEF AddRole
  <2>6. QED
    BY <1>6, <2>1, <2>4, <2>5, RoleStep DEF AddRole
<1>7. CASE SetNativeRole(s)
  <2>1. AssignShape(s)
    BY <1>2, <1>7, StageTells DEF SetNativeRole, Assigning
  <2>2. Area(s) \in Provider /\ job[s].mail \in Mail
    BY <2>1, AreaOf DEF AssignShape
  <2>3. job[s].role \in AreaRole \cup {NoRole, NoAccount}
    BY <1>2, JobFields
  <2>4. account' \in [Provider -> [Mail -> AreaRole \cup {NoRole, NoAccount}]]
    BY <1>1, <1>7, <2>2, <2>3, AccountWrites DEF SetNativeRole
  <2>5. OnlyJob(s) /\ job'[s] = JobIdle
    BY <1>1, <1>7, EndEffect DEF SetNativeRole
  <2>6. \A t \in JobSlot : JobShape(t)'
    BY <1>7, <2>5, TaskKept DEF SetNativeRole
  <2>7. excuse' \in [Mail -> SUBSET Excuse]
    BY <1>3, <1>7, <2>2, MarkTyped DEF SetNativeRole
  <2>8. QED
    BY <1>1, <1>7, <2>4, <2>5, <2>6, <2>7, QuietStep DEF SetNativeRole, OnlyJob
<1>8. CASE AssignFails(s)
  <2>1. AssignShape(s)
    BY <1>2, <1>8, StageTells DEF AssignFails, Assigning
  <2>2. "read" \in JobStage /\ "read" \in Assigning /\ {} \in SUBSET Provider /\ job[s].mail \in Mail
    BY <2>1 DEF JobStage, Assigning, AssignShape
  <2>3. OnlyJob(s)
    BY <1>1, <1>8, <2>2, RetryEffect DEF AssignFails
  <2>4. \/ SameTask(s) /\ UNCHANGED excuse /\ job'[s].stage = "read" /\ job'[s].todo = {}
        \/ job'[s] = JobIdle /\ Excused(job[s].mail, "lost")
    BY <1>1, <1>8, <2>2, RetryEffect DEF AssignFails
  <2>5. \A t \in JobSlot : JobShape(t)'
    BY <1>8, <2>1, <2>2, <2>3, <2>4, TaskKept DEF AssignFails
  <2>6. excuse' \in [Mail -> SUBSET Excuse]
    BY <1>3, <2>2, <2>4, MarkTyped
  <2>7. QED
    BY <1>1, <1>8, <2>3, <2>5, <2>6, QuietStep DEF AssignFails, OnlyJob
<1>9. ASSUME NEW p \in Provider, DeleteNative(s, p) PROVE AccountInv'
  <2>1. DeleteShape(s) /\ job[s].mail \in Mail
    BY <1>2, <1>9, StageTells DEF DeleteNative, DeleteShape
  <2>2. account' \in [Provider -> [Mail -> AreaRole \cup {NoRole, NoAccount}]]
    BY <1>1, <1>9, <2>1, AccountWrites DEF DeleteNative
  <2>3. OnlyJob(s) /\ SameTask(s) /\ job'[s].stage = job[s].stage
    BY <1>1, <1>9, VisitEffect DEF DeleteNative
  <2>4. \A t \in JobSlot : JobShape(t)'
    BY <1>9, <2>1, <2>3, TaskKept DEF DeleteNative, DeleteShape
  <2>5. excuse' \in [Mail -> SUBSET Excuse]
    BY <1>3, <1>9, <2>1, MarkTyped DEF DeleteNative
  <2>6. QED
    BY <1>1, <1>9, <2>2, <2>3, <2>4, <2>5, QuietStep DEF DeleteNative, OnlyJob
<1>10. ASSUME NEW p \in Provider, DeleteNativeFails(s, p) PROVE AccountInv'
  <2>1. DeleteShape(s) /\ job[s].mail \in Mail
    BY <1>2, <1>10, StageTells DEF DeleteNativeFails, DeleteShape
  <2>2. OnlyJob(s) /\ SameTask(s) /\ job'[s].stage = job[s].stage
    BY <1>1, <1>10, VisitEffect DEF DeleteNativeFails
  <2>3. \A t \in JobSlot : JobShape(t)'
    BY <1>10, <2>1, <2>2, TaskKept DEF DeleteNativeFails, DeleteShape
  <2>4. excuse' \in [Mail -> SUBSET Excuse]
    BY <1>3, <1>10, <2>1, MarkTyped DEF DeleteNativeFails
  <2>5. QED
    BY <1>1, <1>10, <2>2, <2>3, <2>4, QuietStep DEF DeleteNativeFails, OnlyJob
<1>11. CASE DeletionSettles(s)
  <2>1. DeleteShape(s) /\ job[s].mail \in Mail
    BY <1>2, <1>11, StageTells DEF DeletionSettles, DeleteShape
  <2>2. "delete" \in JobStage /\ Provider \in SUBSET Provider
    BY DEF JobStage
  <2>3. /\ OnlyJob(s)
        /\ \/ SameTask(s) /\ job'[s].stage = "delete" /\ UNCHANGED excuse
           \/ job'[s] = JobIdle /\ (UNCHANGED excuse \/ Excused(job[s].mail, "lost"))
    <3>1. CASE job[s].failed
      BY <1>1, <1>11, <2>2, <3>1, RetryEffect DEF DeletionSettles
    <3>2. CASE ~job[s].failed
      BY <1>1, <1>11, <3>2, EndEffect DEF DeletionSettles
    <3>3. QED
      BY <3>1, <3>2
  <2>4. \A t \in JobSlot : JobShape(t)'
    BY <1>11, <2>1, <2>3, TaskKept DEF DeletionSettles
  <2>5. excuse' \in [Mail -> SUBSET Excuse]
    BY <1>3, <2>1, <2>3, MarkTyped
  <2>6. QED
    BY <1>1, <1>11, <2>3, <2>4, <2>5, QuietStep DEF DeletionSettles, OnlyJob
<1>12. QED
  BY <1>4, <1>5, <1>6, <1>7, <1>8, <1>9, <1>10, <1>11 DEF JobStep

-----------------------------------------------------------------------------
(* Users, requests and the reconciliation.                                 *)

LEMMA CreateKeeps ==
  ASSUME AccountInv, NEW m \in Mail, CreateUser(m)
  PROVE  AccountInv'
<1>1. /\ realm \in [Mail -> 0..MaxUsers] /\ users \in Nat /\ MaxUsers \in Nat /\ realm[m] = 0
      /\ users < MaxUsers /\ users' = users + 1 /\ realm' = [realm EXCEPT ![m] = users + 1]
  BY AccountAssumption DEF AccountInv, AccountTypeOK, CreateUser
<1>2. /\ \A n \in Mail, u \in Nat : Past(n, u) => Past(n, u)'
      /\ \A u \in 1..users : u \in 1..users'
  BY <1>1, PastStays DEF AccountInv
<1>3. AccountTypeOK'
  BY <1>1 DEF AccountInv, AccountTypeOK, CreateUser
<1>4. RealmShape'
  BY <1>1 DEF AccountInv, RealmShape, CreateUser
<1>5. EventsArePast'
  <2>1. \A e \in events : e.mail \in Mail /\ e.user \in Nat
    BY <1>1 DEF AccountInv, AccountTypeOK, Deletion, User
  <2>2. QED
    BY <1>2, <2>1 DEF AccountInv, EventsArePast, CreateUser
<1>6. ReconShape'
  <2>1. recon' = recon /\ recon.upTo \in Nat /\ recon.upTo <= users
    BY <1>1 DEF AccountInv, AccountTypeOK, Recon, ReconShape, CreateUser
  <2>2. realm'[m] = users + 1 /\ \A n \in Mail \ {m} : realm'[n] = realm[n]
    BY <1>1
  <2>3. recon.upTo < users + 1
    BY <1>1, <2>1
  <2>4. recon.upTo <= users'
    BY <1>1, <2>1
  <2>5. recon.whole => \A n \in Mail \ recon.found : realm'[n] = 0 \/ recon.upTo < realm'[n]
    BY <2>2, <2>3 DEF AccountInv, ReconShape
  <2>6. QED
    BY <2>1, <2>4, <2>5 DEF AccountInv, ReconShape
<1>7. \A t \in JobSlot : JobShape(t)'
  <2>1. SUFFICES ASSUME NEW t \in JobSlot PROVE JobShape(t)'
    OBVIOUS
  <2>2. job' = job /\ JobShape(t)
    BY DEF AccountInv, CreateUser
  <2>3. CASE AssignShape(t)
    BY <1>2, <2>2, <2>3 DEF JobShape, AssignShape
  <2>4. CASE DeleteShape(t)
    <3>1. job[t].user \in Nat
      BY <1>1, <2>4 DEF DeleteShape, Past
    <3>2. QED
      BY <1>2, <2>2, <2>4, <3>1 DEF JobShape, DeleteShape
  <2>5. QED
    BY <2>2, <2>3, <2>4 DEF JobShape
<1>8. QED
  BY <1>3, <1>4, <1>5, <1>6, <1>7 DEF AccountInv

\* A user leaves: the jobs that are under way are still well-formed.
LEMMA LeavingKeepsJobs ==
  ASSUME AccountInv, NEW m \in Mail, realm[m] # 0, NEW panel \in BOOLEAN, LeavesKeycloak(m, panel),
         UNCHANGED users
  PROVE  \A t \in JobSlot : job'[t] = job[t] => JobShape(t)'
<1>1. \A n \in Mail, u \in Nat : Past(n, u) => Past(n, u)'
  BY PastStays DEF AccountInv, LeavesKeycloak
<1>2. SUFFICES ASSUME NEW t \in JobSlot, job'[t] = job[t] PROVE JobShape(t)'
  OBVIOUS
<1>3. CASE AssignShape(t)
  BY <1>2, <1>3 DEF JobShape, AssignShape
<1>4. CASE DeleteShape(t)
  <2>1. job[t].user \in Nat
    BY <1>4, AccountAssumption DEF DeleteShape, Past, AccountInv, AccountTypeOK
  <2>2. QED
    BY <1>1, <1>2, <1>4, <2>1 DEF JobShape, DeleteShape
<1>5. QED
  BY <1>2, <1>3, <1>4 DEF AccountInv, JobShape

LEMMA DeleteUserKeeps ==
  ASSUME AccountInv, NEW s \in JobSlot, NEW m \in Mail, DeleteUser(s, m)
  PROVE  AccountInv'
<1>1. realm[m] # 0 /\ LeavesKeycloak(m, TRUE) /\ UNCHANGED users /\ TRUE \in BOOLEAN
  BY DEF DeleteUser
<1>2. /\ RealmShape' /\ EventsArePast' /\ realm[m] \in User
      /\ \A u : u = realm[m] => Past(m, u)'
      /\ realm' \in [Mail -> 0..MaxUsers]
      /\ realmRole' \in [Mail -> [Provider -> SUBSET AreaRole]]
      /\ events' \subseteq Deletion
      /\ recon' = recon => ReconShape'
  BY <1>1, LeavingIsPast
<1>3. job \in [JobSlot -> Job]
  BY DEF AccountInv, AccountTypeOK
<1>4. /\ OnlyJob(s) /\ job'[s].stage = "delete" /\ job'[s].mail = m
      /\ job'[s].user = realm[m] /\ job'[s].area = {}
  <2>1. ASSUME NEW u \in User, u = realm[m]
        PROVE  OnlyJob(s) /\ job'[s].stage = "delete" /\ job'[s].mail = m
               /\ job'[s].user = u /\ job'[s].area = {}
    <3>1. job' = [job EXCEPT ![s] = Deprovision(m, u)]
      BY <2>1 DEF DeleteUser
    <3>2. QED
      BY <1>3, <3>1, DeprovisionEffect
  <2>2. QED
    BY <1>2, <2>1
<1>5. JobShape(s)'
  BY <1>2, <1>4 DEF JobShape, DeleteShape
<1>6. \A t \in JobSlot : JobShape(t)'
  BY <1>1, <1>4, <1>5, LeavingKeepsJobs DEF OnlyJob
<1>7. AccountTypeOK'
  BY <1>2, <1>4 DEF AccountInv, AccountTypeOK, DeleteUser, OnlyJob
<1>8. QED
  BY <1>2, <1>6, <1>7 DEF AccountInv, DeleteUser

LEMMA ConsoleKeeps ==
  ASSUME AccountInv, NEW m \in Mail, DeleteInConsole(m)
  PROVE  AccountInv'
<1>1. realm[m] # 0 /\ LeavesKeycloak(m, FALSE) /\ UNCHANGED users /\ FALSE \in BOOLEAN
  BY DEF DeleteInConsole
<1>2. /\ RealmShape' /\ EventsArePast'
      /\ realm' \in [Mail -> 0..MaxUsers]
      /\ realmRole' \in [Mail -> [Provider -> SUBSET AreaRole]]
      /\ events' \subseteq Deletion
      /\ recon' = recon => ReconShape'
  BY <1>1, LeavingIsPast
<1>3. \A t \in JobSlot : JobShape(t)'
  BY <1>1, LeavingKeepsJobs DEF DeleteInConsole
<1>4. AccountTypeOK'
  BY <1>2 DEF AccountInv, AccountTypeOK, DeleteInConsole
<1>5. QED
  BY <1>2, <1>3, <1>4 DEF AccountInv, DeleteInConsole

LEMMA EventKeeps ==
  ASSUME AccountInv, NEW e \in Deletion,
         UserDeletedLost(e) \/ \E s \in JobSlot : UserDeleted(s, e)
  PROVE  AccountInv'
<1>1. /\ e \in events /\ events' = events \ {e}
      /\ UNCHANGED <<realm, users, realmRole, account, jobs, recon>>
  BY DEF UserDeleted, UserDeletedLost
<1>2. e.mail \in Mail /\ e.user \in User /\ Past(e.mail, e.user)
  BY <1>1 DEF Deletion, AccountInv, EventsArePast
<1>3. job \in [JobSlot -> Job] /\ events \subseteq Deletion
  BY DEF AccountInv, AccountTypeOK
<1>4. excuse' \in [Mail -> SUBSET Excuse]
  <2>1. "lost" \in Excuse
    BY DEF Excuse
  <2>2. UNCHANGED excuse \/ Excused(e.mail, "lost")
    BY DEF UserDeleted, UserDeletedLost
  <2>3. QED
    BY <1>2, <2>1, <2>2, MarkTyped
<1>5. job' \in [JobSlot -> Job] /\ \A t \in JobSlot : JobShape(t)'
  <2>1. CASE UserDeletedLost(e)
    BY <1>1, <1>3, <2>1 DEF UserDeletedLost, AccountInv, JobShape, AssignShape, DeleteShape, Past
  <2>2. ASSUME NEW s \in JobSlot, UserDeleted(s, e)
        PROVE  job' \in [JobSlot -> Job] /\ \A t \in JobSlot : JobShape(t)'
    <3>1. /\ OnlyJob(s) /\ job'[s].stage = "delete" /\ job'[s].mail = e.mail
          /\ job'[s].user = e.user /\ job'[s].area = {}
      <4>1. ASSUME NEW n \in Mail, NEW u \in User, n = e.mail, u = e.user
            PROVE  OnlyJob(s) /\ job'[s].stage = "delete" /\ job'[s].mail = n
                   /\ job'[s].user = u /\ job'[s].area = {}
        <5>1. job' = [job EXCEPT ![s] = Deprovision(n, u)]
          BY <2>2, <4>1 DEF UserDeleted
        <5>2. QED
          BY <1>3, <5>1, DeprovisionEffect
      <4>2. QED
        BY <1>2, <4>1
    <3>2. JobShape(s)'
      BY <1>1, <1>2, <3>1 DEF JobShape, DeleteShape, Past
    <3>3. \A t \in JobSlot \ {s} : JobShape(t)'
      BY <1>1, <3>1 DEF OnlyJob, AccountInv, JobShape, AssignShape, DeleteShape, Past
    <3>4. QED
      BY <3>1, <3>2, <3>3 DEF OnlyJob
  <2>3. QED
    BY <2>1, <2>2
<1>6. AccountTypeOK'
  BY <1>1, <1>3, <1>4, <1>5 DEF AccountInv, AccountTypeOK
<1>7. RealmShape' /\ EventsArePast' /\ ReconShape'
  BY <1>1 DEF AccountInv, RealmShape, EventsArePast, ReconShape, Past
<1>8. QED
  BY <1>5, <1>6, <1>7 DEF AccountInv

\* Work on the account of somebody starts in a free slot.
LEMMA StartEffect ==
  ASSUME AccountInv, NEW s \in JobSlot, NEW m \in Mail, NEW p \in Provider,
         NEW role \in AreaRole \cup {NoRole}, NEW left \in Nat, NEW stage \in Assigning,
         realm[m] # 0, job' = [job EXCEPT ![s] = AreaJob(stage, m, p, role, left)],
         UNCHANGED <<realm, users>>
  PROVE  /\ OnlyJob(s)
         /\ job'[s].stage = stage /\ job'[s].mail = m /\ job'[s].area = {p}
         /\ \A t \in JobSlot : JobShape(t)'
<1>1. realm[m] \in User /\ realm[m] \in 1..users
  <2>1. realm[m] \in 0..MaxUsers /\ users \in Nat /\ MaxUsers \in Nat
    BY AccountAssumption DEF AccountInv, AccountTypeOK
  <2>2. realm[m] <= users
    BY DEF AccountInv, RealmShape
  <2>3. QED
    BY <2>1, <2>2 DEF User
<1>2. job \in [JobSlot -> Job] /\ stage \in JobStage
  BY DEF AccountInv, AccountTypeOK, Assigning, JobStage
<1>3. AreaJob(stage, m, p, role, left) \in Job
  BY <1>1, <1>2, NewAssignment
<1>4. /\ OnlyJob(s) /\ job'[s].stage = stage /\ job'[s].mail = m
      /\ job'[s].user = realm[m] /\ job'[s].area = {p} /\ job'[s].todo = {}
  <2>1. job'[s] = AreaJob(stage, m, p, role, left) /\ OnlyJob(s)
    BY <1>2, <1>3 DEF OnlyJob
  <2>2. QED
    BY <2>1 DEF AreaJob
<1>5. JobShape(s)'
  BY <1>1, <1>4 DEF JobShape, AssignShape
<1>6. \A t \in JobSlot : JobShape(t)'
  BY <1>4, <1>5 DEF OnlyJob, AccountInv, JobShape, AssignShape, DeleteShape, Past
<1>7. QED
  BY <1>4, <1>6

LEMMA AssignKeeps ==
  ASSUME AccountInv, NEW s \in JobSlot, NEW m \in Mail, NEW p \in Provider,
         NEW role \in AreaRole \cup {NoRole}, NEW queued \in BOOLEAN,
         Assign(s, m, p, role, queued) \/ OpenAccount(s, m, p, role)
  PROVE  AccountInv'
<1>1. (IF queued THEN JOB_ATTEMPTS - 1 ELSE 0) \in Nat
  BY AccountAssumption
<1>2. PICK left \in Nat, stage \in Assigning :
        job' = [job EXCEPT ![s] = AreaJob(stage, m, p, role, left)]
  <2>1. "read" \in Assigning /\ "native" \in Assigning /\ 0 \in Nat
    BY DEF Assigning
  <2>2. \/ job' = [job EXCEPT ![s] =
               AreaJob("read", m, p, role, IF queued THEN JOB_ATTEMPTS - 1 ELSE 0)]
        \/ job' = [job EXCEPT ![s] = AreaJob("native", m, p, role, 0)]
    BY DEF Assign, OpenAccount
  <2>3. QED
    BY <1>1, <2>1, <2>2
<1>3. realm[m] # 0 /\ UNCHANGED <<realm, users, realmRole, account, events, recon>>
  BY DEF Assign, OpenAccount
<1>4. OnlyJob(s) /\ \A t \in JobSlot : JobShape(t)'
  BY <1>2, <1>3, StartEffect
<1>5. excuse' \in [Mail -> SUBSET Excuse]
  BY MarkTyped DEF Assign, OpenAccount, Excuse
<1>6. jobs' \in 0..MaxJobs
  BY AccountAssumption DEF Assign, OpenAccount, AccountInv, AccountTypeOK
<1>7. QED
  BY <1>3, <1>4, <1>5, <1>6, QuietStep DEF OnlyJob, AccountInv, AccountTypeOK

\* What ChangeRoles writes.
LEMMA ChangeEffect ==
  ASSUME AccountInv, NEW m \in Mail, NEW p \in Provider, NEW role \in AreaRole,
         ChangeRoles(m, p, role)
  PROVE  /\ realmRole' \in [Mail -> [Provider -> SUBSET AreaRole]]
         /\ \A q \in Provider, n \in Mail : q # p \/ n # m => realmRole'[n][q] = realmRole[n][q]
         /\ excuse' \in [Mail -> SUBSET Excuse] /\ excuse'[m] # {}
         /\ \A n \in Mail : excuse[n] \subseteq excuse'[n]
<1>1. /\ realmRole \in [Mail -> [Provider -> SUBSET AreaRole]]
      /\ excuse \in [Mail -> SUBSET Excuse] /\ "uncoordinated" \in Excuse
  BY DEF AccountInv, AccountTypeOK, Excuse
<1>2. PICK v \in SUBSET AreaRole : realmRole' = [realmRole EXCEPT ![m][p] = v]
  <2>1. /\ realmRole[m][p] \cup {role} \in SUBSET AreaRole
        /\ realmRole[m][p] \ {role} \in SUBSET AreaRole
    BY <1>1
  <2>2. \/ realmRole' = [realmRole EXCEPT ![m][p] = realmRole[m][p] \cup {role}]
        \/ realmRole' = [realmRole EXCEPT ![m][p] = realmRole[m][p] \ {role}]
    BY DEF ChangeRoles
  <2>3. QED
    BY <2>1, <2>2
<1>3. Excused(m, "uncoordinated")
  BY DEF ChangeRoles
<1>4. QED
  BY <1>1, <1>2, <1>3, RoleWrites, ExcuseWrites

LEMMA ChangeKeeps ==
  ASSUME AccountInv, NEW m \in Mail, NEW p \in Provider, NEW role \in AreaRole,
         ChangeRoles(m, p, role)
  PROVE  AccountInv'
<1>1. realm[m] # 0 /\ UNCHANGED <<realm, users, account, events, job, recon>>
  BY DEF ChangeRoles
<1>2. /\ realmRole' \in [Mail -> [Provider -> SUBSET AreaRole]]
      /\ excuse' \in [Mail -> SUBSET Excuse]
      /\ \A n \in Mail \ {m} : realmRole'[n] = realmRole[n]
  BY ChangeEffect DEF AccountInv, AccountTypeOK, ChangeRoles
<1>3. jobs' \in 0..MaxJobs
  BY AccountAssumption DEF ChangeRoles, AccountInv, AccountTypeOK
<1>4. AccountTypeOK'
  BY <1>1, <1>2, <1>3 DEF AccountInv, AccountTypeOK
<1>5. RealmShape' /\ EventsArePast' /\ ReconShape' /\ \A t \in JobSlot : JobShape(t)'
  BY <1>1, <1>2 DEF AccountInv, RealmShape, EventsArePast, ReconShape, JobShape, AssignShape,
                    DeleteShape, Past
<1>6. QED
  BY <1>4, <1>5 DEF AccountInv

LEMMA ReconKeeps ==
  ASSUME AccountInv, ReadKeycloak \/ ReconStep
  PROVE  AccountInv'
<1>1. /\ recon \in Recon /\ realm \in [Mail -> 0..MaxUsers] /\ users \in 0..MaxUsers
      /\ account \in [Provider -> [Mail -> AreaRole \cup {NoRole, NoAccount}]]
      /\ excuse \in [Mail -> SUBSET Excuse]
      /\ users \in Nat /\ MaxUsers \in Nat
  BY AccountAssumption DEF AccountInv, AccountTypeOK
<1>2. /\ recon.found \in SUBSET Mail /\ recon.todo \in SUBSET Provider
      /\ recon.drift \in SUBSET (Provider \X Mail)
  BY <1>1 DEF Recon
<1>3. UNCHANGED <<realm, users, realmRole, events, job, jobs>>
  BY DEF ReadKeycloak, ReconStep, ListNative, DeleteDrift, ReconEnds
<1>4. /\ recon' \in Recon /\ excuse' \in [Mail -> SUBSET Excuse]
      /\ account' \in [Provider -> [Mail -> AreaRole \cup {NoRole, NoAccount}]]
      /\ ReconShape'
  <2>1. CASE ReadKeycloak
    <3>1. PICK found \in SUBSET {m \in Mail : realm[m] # 0} :
            recon' = [on |-> TRUE, found |-> found, whole |-> found = {m \in Mail : realm[m] # 0},
                      upTo |-> users, todo |-> Provider, drift |-> {}]
      BY <2>1 DEF ReadKeycloak
    <3>2. PICK whole \in BOOLEAN : whole <=> found = {m \in Mail : realm[m] # 0}
      OBVIOUS
    <3>3. recon' = [on |-> TRUE, found |-> found, whole |-> whole,
                    upTo |-> users, todo |-> Provider, drift |-> {}]
      BY <3>1, <3>2
    <3>4. found \in SUBSET Mail /\ {} \in SUBSET (Provider \X Mail) /\ Provider \in SUBSET Provider
      OBVIOUS
    <3>5. recon' \in Recon
      BY <1>1, <3>3, <3>4 DEF Recon
    <3>6. recon'.upTo = users /\ recon'.found = found /\ recon'.drift = {} /\ (recon'.whole <=> whole)
      BY <3>3
    <3>7. ReconShape'
      BY <1>1, <1>3, <3>2, <3>6 DEF ReconShape
    <3>8. QED
      BY <1>1, <2>1, <3>5, <3>7 DEF ReadKeycloak
  <2>2. ASSUME NEW p \in Provider, ListNative(p)
        PROVE  recon' \in Recon /\ ReconShape' /\ UNCHANGED <<account, excuse>>
    <3>1. UNCHANGED <<account, excuse>> /\ recon.todo \ {p} \in SUBSET Provider /\ recon.drift = {}
      BY <1>2, <2>2 DEF ListNative
    <3>2. CASE recon' = [recon EXCEPT !.todo = @ \ {p}, !.drift = {p} \X Drift(p, recon.found)]
      <4>1. /\ {p} \X Drift(p, recon.found) \in SUBSET (Provider \X Mail)
            /\ \A q \in Provider, m \in Mail :
                 <<q, m>> \in {p} \X Drift(p, recon.found) => m \notin recon.found
        BY DEF Drift
      <4>2. recon' \in Recon
        BY <1>1, <3>1, <3>2, <4>1, ReconWrites
      <4>3. /\ recon'.drift = {p} \X Drift(p, recon.found) /\ recon'.found = recon.found
            /\ recon'.whole = recon.whole /\ recon'.upTo = recon.upTo
        BY <1>1, <3>2 DEF Recon
      <4>4. QED
        BY <1>3, <3>1, <4>1, <4>2, <4>3 DEF AccountInv, ReconShape
    <3>3. CASE recon' = [recon EXCEPT !.todo = @ \ {p}]
      <4>1. recon' \in Recon
        BY <1>1, <1>2, <3>1, <3>3, ReconWrites
      <4>2. /\ recon'.drift = recon.drift /\ recon'.found = recon.found
            /\ recon'.whole = recon.whole /\ recon'.upTo = recon.upTo
        BY <1>1, <3>3 DEF Recon
      <4>3. QED
        BY <1>3, <3>1, <4>1, <4>2 DEF AccountInv, ReconShape
    <3>4. QED
      BY <2>2, <3>2, <3>3 DEF ListNative
  <2>3. ASSUME NEW p \in Provider, NEW m \in Mail, DeleteDrift(p, m)
        PROVE  /\ recon' \in Recon /\ excuse' \in [Mail -> SUBSET Excuse] /\ ReconShape'
               /\ account' \in [Provider -> [Mail -> AreaRole \cup {NoRole, NoAccount}]]
    <3>1. recon' = [recon EXCEPT !.drift = recon.drift \ {<<p, m>>}]
      BY <2>3 DEF DeleteDrift
    <3>2. recon.drift \ {<<p, m>>} \in SUBSET (Provider \X Mail)
      BY <1>2
    <3>3. recon' \in Recon
      BY <1>1, <1>2, <3>1, <3>2, ReconWrites
    <3>4. /\ recon'.drift = recon.drift \ {<<p, m>>} /\ recon'.found = recon.found
          /\ recon'.whole = recon.whole /\ recon'.upTo = recon.upTo
      BY <1>1, <3>1 DEF Recon
    <3>5. ReconShape'
      BY <1>3, <3>4 DEF AccountInv, ReconShape
    <3>6. account' \in [Provider -> [Mail -> AreaRole \cup {NoRole, NoAccount}]]
      BY <1>1, <2>3, AccountWrites DEF DeleteDrift
    <3>7. excuse' \in [Mail -> SUBSET Excuse]
      BY <1>1, <2>3, MarkTyped DEF DeleteDrift, Excuse
    <3>8. QED
      BY <3>3, <3>5, <3>6, <3>7
  <2>4. CASE ReconEnds
    <3>1. recon' = ReconIdle /\ UNCHANGED <<account, excuse>>
      BY <2>4 DEF ReconEnds
    <3>2. ReconIdle.upTo = 0 /\ ReconIdle.drift = {}
      BY DEF ReconIdle
    <3>3. \A m \in Mail : realm[m] = 0 \/ 0 < realm[m]
      BY <1>1
    <3>4. ReconShape'
      BY <1>1, <1>3, <3>1, <3>2, <3>3 DEF ReconShape
    <3>5. QED
      BY <1>1, <3>1, <3>4, IdleTypes
  <2>5. QED
    BY <1>1, <2>1, <2>2, <2>3, <2>4 DEF ReconStep
<1>5. AccountTypeOK'
  BY <1>3, <1>4 DEF AccountInv, AccountTypeOK
<1>6. RealmShape' /\ EventsArePast' /\ \A t \in JobSlot : JobShape(t)'
  BY <1>3 DEF AccountInv, RealmShape, EventsArePast, JobShape, AssignShape, DeleteShape, Past
<1>7. QED
  BY <1>4, <1>5, <1>6 DEF AccountInv

LEMMA CrashKeeps ==
  ASSUME AccountInv, AccountCrash
  PROVE  AccountInv'
<1>1. /\ UNCHANGED <<realm, users, realmRole, account, events, jobs>>
      /\ recon' = ReconIdle /\ job' = [s \in JobSlot |-> JobIdle]
  BY DEF AccountCrash
<1>2. excuse' \in [Mail -> SUBSET Excuse]
  BY DEF AccountCrash, AccountInv, AccountTypeOK, Excuse
<1>3. AccountTypeOK'
  BY <1>1, <1>2, IdleTypes DEF AccountInv, AccountTypeOK
<1>4. \A t \in JobSlot : JobShape(t)'
  BY <1>1 DEF JobShape
<1>5. ReconShape'
  <2>1. ReconIdle.upTo = 0 /\ ReconIdle.drift = {}
    BY DEF ReconIdle
  <2>2. users \in Nat /\ \A m \in Mail : realm[m] = 0 \/ 0 < realm[m]
    BY AccountAssumption DEF AccountInv, AccountTypeOK
  <2>3. QED
    BY <1>1, <2>1, <2>2 DEF ReconShape
<1>6. RealmShape' /\ EventsArePast'
  BY <1>1 DEF AccountInv, RealmShape, EventsArePast, Past
<1>7. QED
  BY <1>3, <1>4, <1>5, <1>6 DEF AccountInv

LEMMA AccountStarts == AccountInit => AccountInv
<1> SUFFICES ASSUME AccountInit PROVE AccountInv
  OBVIOUS
<1>1. MaxUsers \in Nat /\ MaxJobs \in Nat
  BY AccountAssumption
<1>2. NoRoles \in [Provider -> SUBSET AreaRole]
  BY DEF NoRoles
<1>3. AccountTypeOK
  BY <1>1, <1>2, IdleTypes DEF AccountInit, AccountTypeOK
<1>4. RealmShape /\ EventsArePast /\ \A s \in JobSlot : JobShape(s)
  BY DEF AccountInit, RealmShape, EventsArePast, JobShape
<1>5. ReconShape
  BY DEF AccountInit, ReconShape, ReconIdle
<1>6. QED
  BY <1>3, <1>4, <1>5 DEF AccountInv

LEMMA AccountKeeps == AccountInv /\ [AccountNext]_accountVars => AccountInv'
<1> SUFFICES ASSUME AccountInv, [AccountNext]_accountVars PROVE AccountInv'
  OBVIOUS
<1>1. CASE UNCHANGED accountVars
  BY <1>1 DEF accountVars, AccountInv, AccountTypeOK, JobShape, AssignShape, DeleteShape, Past,
              RealmShape, EventsArePast, ReconShape
<1>2. ASSUME NEW m \in Mail, CreateUser(m) \/ DeleteInConsole(m) PROVE AccountInv'
  BY <1>2, CreateKeeps, ConsoleKeeps
<1>3. ASSUME NEW s \in JobSlot, NEW m \in Mail, DeleteUser(s, m) PROVE AccountInv'
  BY <1>3, DeleteUserKeeps
<1>4. ASSUME NEW s \in JobSlot, NEW e \in Deletion, UserDeleted(s, e) PROVE AccountInv'
  BY <1>4, EventKeeps
<1>5. ASSUME NEW s \in JobSlot, NEW m \in Mail, NEW p \in Provider,
             NEW role \in AreaRole \cup {NoRole}, NEW queued \in BOOLEAN,
             Assign(s, m, p, role, queued) \/ OpenAccount(s, m, p, role)
      PROVE  AccountInv'
  BY <1>5, AssignKeeps
<1>5a. ASSUME NEW m \in Mail, NEW p \in Provider, NEW role \in AreaRole, ChangeRoles(m, p, role)
       PROVE  AccountInv'
  BY <1>5a, ChangeKeeps
<1>6. ASSUME NEW s \in JobSlot, JobStep(s) PROVE AccountInv'
  BY <1>6, JobStepKeeps
<1>7. ASSUME NEW e \in Deletion, UserDeletedLost(e) PROVE AccountInv'
  BY <1>7, EventKeeps
<1>8. CASE ReadKeycloak \/ ReconStep
  BY <1>8, ReconKeeps
<1>9. CASE AccountCrash
  BY <1>9, CrashKeeps
<1>10. QED
  BY <1>1, <1>2, <1>3, <1>4, <1>5, <1>5a, <1>6, <1>7, <1>8, <1>9 DEF AccountNext

LEMMA AccountInvHolds == AccountSpec => []AccountInv
BY AccountStarts, AccountKeeps, PTL DEF AccountSpec

\* Users, roles, accounts, jobs and the reconciliation have their types, for any
\* number of them and whatever fails.
THEOREM AccountTypeCorrect == AccountSpec => []AccountTypeOK
<1>1. AccountInv => AccountTypeOK
  BY DEF AccountInv
<1>2. QED
  BY <1>1, AccountInvHolds, PTL

-----------------------------------------------------------------------------
(* Whose account may go.                                                   *)

LosesItRightly(p, m) ==
  \/ \E s \in JobSlot : job[s].stage = "delete" /\ job[s].mail = m /\ job[s].user < realm[m]
  \/ <<p, m>> \in recon.drift /\ (~recon.whole \/ recon.upTo < realm[m])

LEMMA OnlyThoseLoseIt ==
  ASSUME AccountInv, [AccountNext]_accountVars, NEW p \in Provider, NEW m \in Mail,
         Bereaved(p, m), account'[p][m] = NoAccount
  PROVE  LosesItRightly(p, m)
<1>1. account \in [Provider -> [Mail -> AreaRole \cup {NoRole, NoAccount}]] /\ job \in [JobSlot -> Job]
  BY DEF AccountInv, AccountTypeOK
<1>2. account[p][m] # NoAccount /\ realm[m] # 0 /\ account' # account
  BY DEF Bereaved
<1>3. ASSUME NEW s \in JobSlot, SetNativeRole(s) PROVE FALSE
  <2>1. AssignShape(s)
    BY <1>3, StageTells DEF AccountInv, SetNativeRole, Assigning
  <2>2. Area(s) \in Provider /\ job[s].mail \in Mail /\ job[s].role \in AreaRole \cup {NoRole}
    BY <1>1, <2>1, AreaOf, JobFields DEF AssignShape
  <2>3. job[s].role # NoAccount
    BY <2>2, AccountAssumption
  <2>4. account' = [account EXCEPT ![Area(s)][job[s].mail] = job[s].role]
    BY <1>3 DEF SetNativeRole
  <2>5. QED
    BY <1>1, <1>2, <2>2, <2>3, <2>4, AccountWrites
<1>4. ASSUME NEW s \in JobSlot, NEW q \in Provider, DeleteNative(s, q) PROVE LosesItRightly(p, m)
  <2>1. DeleteShape(s)
    BY <1>4, StageTells DEF AccountInv, DeleteNative
  <2>2. job[s].mail \in Mail /\ Past(job[s].mail, job[s].user) /\ job[s].stage = "delete"
    BY <2>1 DEF DeleteShape
  <2>3. account' = [account EXCEPT ![q][job[s].mail] = NoAccount]
    BY <1>4 DEF DeleteNative
  <2>4. job[s].mail = m
    BY <1>1, <1>2, <2>2, <2>3
  <2>5. QED
    BY <1>2, <2>2, <2>4 DEF LosesItRightly, Past
<1>5. ASSUME NEW q \in Provider, NEW n \in Mail, DeleteDrift(q, n) PROVE LosesItRightly(p, m)
  <2>1. account' = [account EXCEPT ![q][n] = NoAccount]
    BY <1>2, <1>5 DEF DeleteDrift
  <2>2. q = p /\ n = m
    BY <1>1, <1>2, <2>1
  <2>3. <<p, m>> \in recon.drift /\ m \notin recon.found
    BY <1>5, <2>2 DEF DeleteDrift, AccountInv, ReconShape
  <2>4. QED
    BY <1>2, <2>3 DEF LosesItRightly, AccountInv, ReconShape
<1>6. CASE UNCHANGED accountVars
  BY <1>2, <1>6 DEF accountVars
<1>7. CASE AccountNext
  <2>1. \/ \E s \in JobSlot : SetNativeRole(s) \/ \E q \in Provider : DeleteNative(s, q)
        \/ \E q \in Provider, n \in Mail : DeleteDrift(q, n)
    BY <1>2, <1>7 DEF AccountNext, CreateUser, DeleteInConsole, DeleteUser, UserDeleted, Assign,
                      OpenAccount, ChangeRoles, JobStep, ReadRoles, RemoveRoles, AddRole,
                      AssignFails, DeleteNativeFails, DeletionSettles, UserDeletedLost,
                      ReadKeycloak, ReconStep, ListNative, ReconEnds, AccountCrash
  <2>2. QED
    BY <1>3, <1>4, <1>5, <2>1
<1>8. QED
  BY <1>6, <1>7

\* Nobody Keycloak knows loses an account but to a job for an earlier holder of
\* the address, or to a reconciliation that read Keycloak too early or in part.
THEOREM AccountsAreKept == AccountSpec => UsersKeepTheirAccounts
<1>1. AccountInv /\ [AccountNext]_accountVars =>
        [\A p \in Provider, m \in Mail :
           Bereaved(p, m) /\ account'[p][m] = NoAccount =>
             \/ \E s \in JobSlot : /\ job[s].stage = "delete" /\ job[s].mail = m
                                   /\ job[s].user < realm[m]
             \/ <<p, m>> \in recon.drift /\ (~recon.whole \/ recon.upTo < realm[m])]_accountVars
  BY OnlyThoseLoseIt DEF LosesItRightly
<1>2. QED
  BY <1>1, AccountInvHolds, PTL DEF AccountSpec, UsersKeepTheirAccounts

-----------------------------------------------------------------------------
(* What a step does for one address and one application.                   *)

\* A role in the area of p is being assigned to the user with address m.
Busy(p, m) == \E s \in JobSlot : job[s].area = {p} /\ job[s].mail = m

\* The account of address m in p is on its way out: Keycloak will report the
\* deletion, or a job has yet to visit p, or will visit all of them again.
Cover(p, m) ==
  \/ \E e \in events : e.mail = m /\ ~e.panel
  \/ \E s \in JobSlot : /\ job[s].stage = "delete" /\ job[s].mail = m
                        /\ p \in job[s].todo \/ job[s].failed

BusyKept(p, m) == Busy(p, m) => Busy(p, m)'
CoverKept(p, m) == Cover(p, m) => Cover(p, m)'

Untouched(p, m) ==
  realm'[m] = realm[m] /\ realmRole'[m][p] = realmRole[m][p] /\ account'[p][m] = account[p][m]

Quiet(p, m) ==
  Untouched(p, m) /\ BusyKept(p, m) /\ (CoverKept(p, m) \/ account'[p][m] = NoAccount)
Leaves(p, m) == realm'[m] = 0 /\ Cover(p, m)'
Arrives(p, m) ==
  /\ realm[m] = 0 /\ realmRole'[m][p] = {} /\ account'[p][m] = account[p][m]
  /\ excuse' = excuse /\ CoverKept(p, m)
RolesChange(p, m) ==
  /\ realm[m] # 0 /\ realm'[m] = realm[m] /\ account'[p][m] = account[p][m]
  /\ Busy(p, m)' /\ CoverKept(p, m)
AccountSet(p, m) ==
  \E s \in JobSlot : SetNativeRole(s) /\ Known(s) /\ job[s].area = {p} /\ job[s].mail = m
AccountGoes(p, m) == realm[m] = 0 /\ realm'[m] = 0 /\ account'[p][m] = NoAccount
Bypassed(p, m) == realm'[m] # 0 /\ excuse'[m] # {}

Effect(p, m) ==
  /\ excuse[m] \subseteq excuse'[m]
  /\ \/ "lost" \in excuse'[m]
     \/ Quiet(p, m) \/ Leaves(p, m) \/ Arrives(p, m) \/ RolesChange(p, m) \/ AccountSet(p, m)
     \/ AccountGoes(p, m) \/ Bypassed(p, m)

\* What a step of one job leaves of the work of the others.
LEMMA OthersKept ==
  ASSUME NEW s \in JobSlot, OnlyJob(s), NEW p \in Provider, NEW m \in Mail
  PROVE  /\ job[s].area = {} \/ SameTask(s) => BusyKept(p, m)
         /\ events \subseteq events' /\ (job[s].stage # "delete" \/ job[s].mail # m) => CoverKept(p, m)
<1>1. ASSUME job[s].area = {} \/ SameTask(s), Busy(p, m) PROVE Busy(p, m)'
  <2>1. PICK t \in JobSlot : job[t].area = {p} /\ job[t].mail = m
    BY <1>1 DEF Busy
  <2>2. job'[t].area = {p} /\ job'[t].mail = m
    BY <1>1, <2>1 DEF OnlyJob, SameTask
  <2>3. QED
    BY <2>2 DEF Busy
<1>2. ASSUME events \subseteq events', job[s].stage # "delete" \/ job[s].mail # m, Cover(p, m)
      PROVE  Cover(p, m)'
  BY <1>2 DEF Cover, OnlyJob
<1>3. QED
  BY <1>1, <1>2 DEF BusyKept, CoverKept

\* Work that only marks, or does not mark at all.
LEMMA MarkGrows ==
  ASSUME AccountInv, NEW n \in Mail,
         UNCHANGED excuse \/ Excused(n, "lost") \/ Excused(n, "uncoordinated")
  PROVE  /\ \A m \in Mail : excuse[m] \subseteq excuse'[m]
         /\ Excused(n, "lost") => "lost" \in excuse'[n]
BY DEF Excused, AccountInv, AccountTypeOK

\* A step of an assignment that keeps its task and its roles.
LEMMA TaskQuiet ==
  ASSUME NEW s \in JobSlot, OnlyJob(s), SameTask(s), job[s].stage # "delete",
         UNCHANGED <<realm, realmRole, account, events>>, NEW p \in Provider, NEW m \in Mail
  PROVE  Quiet(p, m)
BY OthersKept DEF Quiet, Untouched

LEMMA AssignmentEffects ==
  ASSUME AccountInv, NEW s \in JobSlot, NEW p \in Provider, NEW m \in Mail,
         ReadRoles(s) \/ RemoveRoles(s) \/ AddRole(s) \/ SetNativeRole(s) \/ AssignFails(s)
  PROVE  Effect(p, m)
<1>1. /\ job \in [JobSlot -> Job] /\ excuse \in [Mail -> SUBSET Excuse]
      /\ account \in [Provider -> [Mail -> AreaRole \cup {NoRole, NoAccount}]]
      /\ realmRole \in [Mail -> [Provider -> SUBSET AreaRole]]
      /\ JobShape(s) /\ job[s] \in Job
  BY DEF AccountInv, AccountTypeOK
<1>2. AssignShape(s)
  BY <1>1, StageTells DEF ReadRoles, RemoveRoles, AddRole, SetNativeRole, AssignFails, Assigning
<1>3. Area(s) \in Provider /\ job[s].area = {Area(s)} /\ job[s].mail \in Mail /\ job[s].stage # "delete"
  BY <1>2, AreaOf DEF AssignShape, Assigning
<1>4. CASE ReadRoles(s)
  <2>1. realmRole[job[s].mail][Area(s)] \in SUBSET AreaRole
    BY <1>1, <1>3
  <2>2. OnlyJob(s) /\ SameTask(s)
    BY <1>1, <1>4, <2>1, ReadEffect DEF ReadRoles
  <2>3. QED
    BY <1>3, <1>4, <2>2, TaskQuiet DEF ReadRoles, Effect
<1>5. CASE RemoveRoles(s) \/ AddRole(s)
  <2>1. PICK stage \in JobStage : JobGoto(s, stage)
    BY <1>5 DEF RemoveRoles, AddRole, JobStage
  <2>2. OnlyJob(s) /\ SameTask(s)
    BY <1>1, <2>1, GotoEffect
  <2>3. UNCHANGED <<realm, account, events, excuse>> /\ Known(s)
    BY <1>5 DEF RemoveRoles, AddRole
  <2>4. BusyKept(p, m) /\ CoverKept(p, m)
    BY <1>3, <2>2, <2>3, OthersKept
  <2>5. CASE job[s].mail = m /\ Area(s) = p
    <3>1. Busy(p, m)'
      BY <1>3, <2>2, <2>5 DEF SameTask, Busy
    <3>2. realm[m] # 0
      BY <1>2, <2>3, <2>5 DEF AssignShape, Known, AccountInv, AccountTypeOK
    <3>3. QED
      BY <2>3, <2>4, <3>1, <3>2 DEF Effect, RolesChange
  <2>6. CASE job[s].mail # m \/ Area(s) # p
    <3>1. realmRole'[m][p] = realmRole[m][p]
      BY <1>1, <1>3, <1>5, <2>6 DEF RemoveRoles, AddRole
    <3>2. QED
      BY <2>3, <2>4, <3>1 DEF Effect, Quiet, Untouched
  <2>7. QED
    BY <2>5, <2>6
<1>6. CASE SetNativeRole(s)
  <2>1. OnlyJob(s)
    BY <1>1, <1>6, EndEffect DEF SetNativeRole
  <2>2. excuse[m] \subseteq excuse'[m] /\ (job[s].mail = m /\ ~Known(s) => "lost" \in excuse'[m])
    BY <1>3, <1>6, MarkGrows DEF SetNativeRole
  <2>3. CASE job[s].mail = m /\ Area(s) = p
    BY <1>3, <1>6, <2>2, <2>3 DEF Effect, AccountSet
  <2>4. CASE job[s].mail # m \/ Area(s) # p
    <3>1. account'[p][m] = account[p][m] /\ UNCHANGED <<realm, realmRole, events>>
      BY <1>1, <1>3, <1>6, <2>4 DEF SetNativeRole
    <3>2. CoverKept(p, m)
      BY <1>3, <2>1, <3>1, OthersKept
    <3>3. BusyKept(p, m)
      <4>1. ASSUME Busy(p, m) PROVE Busy(p, m)'
        <5>1. PICK t \in JobSlot : job[t].area = {p} /\ job[t].mail = m
          BY <4>1 DEF Busy
        <5>2. t # s
          BY <1>3, <2>4, <5>1
        <5>3. QED
          BY <2>1, <5>1, <5>2 DEF Busy, OnlyJob
      <4>2. QED
        BY <4>1 DEF BusyKept
    <3>4. QED
      BY <2>2, <3>1, <3>2, <3>3 DEF Effect, Quiet, Untouched
  <2>5. QED
    BY <2>3, <2>4
<1>7. CASE AssignFails(s)
  <2>1. UNCHANGED <<realm, realmRole, account, events>> /\ Retry(s, "read", {})
    BY <1>7 DEF AssignFails
  <2>2. /\ OnlyJob(s)
        /\ \/ SameTask(s) /\ UNCHANGED excuse
           \/ job'[s] = JobIdle /\ Excused(job[s].mail, "lost")
    BY <1>1, <2>1, RetryEffect DEF JobStage
  <2>3. CASE SameTask(s) /\ UNCHANGED excuse
    BY <1>3, <2>1, <2>2, <2>3, TaskQuiet DEF Effect
  <2>4. CASE Excused(job[s].mail, "lost")
    <3>1. excuse[m] \subseteq excuse'[m] /\ "lost" \in excuse'[job[s].mail]
      BY <1>3, <2>4, MarkGrows
    <3>2. CASE job[s].mail = m
      BY <3>1, <3>2 DEF Effect
    <3>3. CASE job[s].mail # m
      <4>1. CoverKept(p, m)
        BY <1>3, <2>1, <2>2, OthersKept
      <4>2. BusyKept(p, m)
        BY <2>2, <3>3 DEF BusyKept, Busy, OnlyJob
      <4>3. QED
        BY <2>1, <3>1, <4>1, <4>2 DEF Effect, Quiet, Untouched
    <3>4. QED
      BY <3>2, <3>3
  <2>5. QED
    BY <2>2, <2>3, <2>4
<1>8. QED
  BY <1>4, <1>5, <1>6, <1>7

LEMMA DeletionEffects ==
  ASSUME AccountInv, NEW s \in JobSlot, NEW p \in Provider, NEW m \in Mail,
         \/ \E q \in Provider : DeleteNative(s, q) \/ DeleteNativeFails(s, q)
         \/ DeletionSettles(s)
  PROVE  Effect(p, m)
<1>1. /\ job \in [JobSlot -> Job] /\ excuse \in [Mail -> SUBSET Excuse]
      /\ account \in [Provider -> [Mail -> AreaRole \cup {NoRole, NoAccount}]]
      /\ JobShape(s) /\ job[s] \in Job
  BY DEF AccountInv, AccountTypeOK
<1>2. DeleteShape(s)
  BY <1>1, StageTells DEF DeleteNative, DeleteNativeFails, DeletionSettles
<1>3. job[s].area = {} /\ job[s].mail \in Mail /\ job[s].stage = "delete"
  BY <1>2 DEF DeleteShape
<1>4. UNCHANGED <<realm, realmRole, events>>
  BY DEF DeleteNative, DeleteNativeFails, DeletionSettles
<1>5. ASSUME NEW q \in Provider, DeleteNative(s, q) PROVE Effect(p, m)
  <2>1. OnlyJob(s) /\ SameTask(s) /\ job'[s].stage = "delete" /\ job'[s].todo = job[s].todo \ {q}
    BY <1>1, <1>3, <1>5, VisitEffect DEF DeleteNative
  <2>2. job[s].failed => job'[s].failed
    BY <1>1, <1>5, VisitEffect DEF DeleteNative
  <2>3. /\ account' = [account EXCEPT ![q][job[s].mail] = NoAccount]
        /\ excuse[m] \subseteq excuse'[m]
        /\ Bereaved(q, job[s].mail) => "lost" \in excuse'[job[s].mail]
    BY <1>3, <1>5, MarkGrows DEF DeleteNative
  <2>4. BusyKept(p, m)
    BY <1>3, <2>1, OthersKept
  <2>5. CASE q = p /\ job[s].mail = m
    <3>1. account'[p][m] = NoAccount
      BY <1>1, <2>3, <2>5
    <3>2. CASE account[p][m] = NoAccount
      BY <1>4, <2>3, <2>4, <3>1, <3>2 DEF Effect, Quiet, Untouched
    <3>3. CASE realm[m] = 0
      BY <1>4, <2>3, <3>1, <3>3 DEF Effect, AccountGoes
    <3>4. CASE Bereaved(p, m)
      BY <2>3, <2>5, <3>4 DEF Effect
    <3>5. QED
      BY <3>2, <3>3, <3>4 DEF Bereaved
  <2>6. CASE q # p \/ job[s].mail # m
    <3>1. account'[p][m] = account[p][m]
      BY <1>1, <1>3, <2>3, <2>6
    <3>2. ASSUME Cover(p, m) PROVE Cover(p, m)'
      <4>1. CASE \E e \in events : e.mail = m /\ ~e.panel
        BY <1>4, <4>1 DEF Cover
      <4>2. ASSUME NEW t \in JobSlot, job[t].stage = "delete", job[t].mail = m,
                   p \in job[t].todo \/ job[t].failed
            PROVE  Cover(p, m)'
        <5>1. CASE t = s
          BY <2>1, <2>2, <2>6, <4>2, <5>1 DEF Cover, SameTask
        <5>2. CASE t # s
          BY <2>1, <4>2, <5>2 DEF Cover, OnlyJob
        <5>3. QED
          BY <5>1, <5>2
      <4>3. QED
        BY <3>2, <4>1, <4>2 DEF Cover
    <3>3. QED
      BY <1>4, <2>3, <2>4, <3>1, <3>2 DEF Effect, Quiet, Untouched, CoverKept
  <2>7. QED
    BY <2>5, <2>6
<1>6. ASSUME NEW q \in Provider, DeleteNativeFails(s, q) PROVE Effect(p, m)
  <2>1. /\ OnlyJob(s) /\ SameTask(s) /\ job'[s].stage = "delete"
        /\ job' = [job EXCEPT ![s].todo = @ \ {q}, ![s].failed = TRUE] => job'[s].failed
    BY <1>1, <1>3, <1>6, VisitEffect DEF DeleteNativeFails
  <2>2. BusyKept(p, m)
    BY <1>3, <2>1, OthersKept
  <2>3. UNCHANGED account
    BY <1>6 DEF DeleteNativeFails
  <2>4. CASE job' = [job EXCEPT ![s].todo = @ \ {q}, ![s].failed = TRUE] /\ UNCHANGED excuse
    <3>1. CoverKept(p, m)
      BY <1>4, <2>1, <2>4 DEF CoverKept, Cover, OnlyJob, SameTask
    <3>2. QED
      BY <1>4, <2>2, <2>3, <2>4, <3>1 DEF Effect, Quiet, Untouched
  <2>5. CASE Excused(job[s].mail, "lost")
    <3>1. excuse[m] \subseteq excuse'[m] /\ "lost" \in excuse'[job[s].mail]
      BY <1>3, <2>5, MarkGrows
    <3>2. CASE job[s].mail = m
      BY <3>1, <3>2 DEF Effect
    <3>3. CASE job[s].mail # m
      BY <1>4, <2>1, <2>2, <2>3, <3>1, <3>3, OthersKept DEF Effect, Quiet, Untouched
    <3>4. QED
      BY <3>2, <3>3
  <2>6. QED
    BY <1>6, <2>4, <2>5 DEF DeleteNativeFails
<1>7. CASE DeletionSettles(s)
  <2>1. UNCHANGED account /\ job[s].todo = {}
    BY <1>7 DEF DeletionSettles
  <2>2. CASE job[s].failed
    <3>1. /\ OnlyJob(s)
          /\ \/ /\ SameTask(s) /\ UNCHANGED excuse
                /\ job'[s].stage = "delete" /\ job'[s].todo = Provider
             \/ job'[s] = JobIdle /\ Excused(job[s].mail, "lost")
      BY <1>1, <1>7, <2>2, RetryEffect DEF DeletionSettles, JobStage
    <3>2. CASE SameTask(s) /\ UNCHANGED excuse /\ job'[s].stage = "delete" /\ job'[s].todo = Provider
      <4>1. CoverKept(p, m)
        BY <1>4, <3>1, <3>2 DEF CoverKept, Cover, OnlyJob, SameTask
      <4>2. BusyKept(p, m)
        BY <3>1, <3>2, OthersKept
      <4>3. QED
        BY <1>4, <2>1, <3>2, <4>1, <4>2 DEF Effect, Quiet, Untouched
    <3>3. CASE Excused(job[s].mail, "lost")
      <4>1. excuse[m] \subseteq excuse'[m] /\ "lost" \in excuse'[job[s].mail]
        BY <1>3, <3>3, MarkGrows
      <4>2. CASE job[s].mail = m
        BY <4>1, <4>2 DEF Effect
      <4>3. CASE job[s].mail # m
        BY <1>3, <1>4, <2>1, <3>1, <4>1, <4>3, OthersKept DEF Effect, Quiet, Untouched
      <4>4. QED
        BY <4>2, <4>3
    <3>4. QED
      BY <3>1, <3>2, <3>3
  <2>3. CASE ~job[s].failed
    <3>1. OnlyJob(s) /\ job'[s] = JobIdle /\ UNCHANGED excuse
      BY <1>1, <1>7, <2>3, EndEffect DEF DeletionSettles
    <3>2. BusyKept(p, m)
      BY <1>3, <3>1, OthersKept
    <3>3. CoverKept(p, m)
      BY <1>4, <2>1, <2>3, <3>1 DEF CoverKept, Cover, OnlyJob
    <3>4. QED
      BY <1>4, <2>1, <3>1, <3>2, <3>3 DEF Effect, Quiet, Untouched
  <2>4. QED
    BY <2>2, <2>3
<1>8. QED
  BY <1>5, <1>6, <1>7

LEMMA UserEffects ==
  ASSUME AccountInv, NEW n \in Mail, NEW p \in Provider, NEW m \in Mail,
         CreateUser(n) \/ DeleteInConsole(n) \/ \E s \in JobSlot : DeleteUser(s, n)
  PROVE  Effect(p, m)
<1>1. /\ realm \in [Mail -> 0..MaxUsers] /\ job \in [JobSlot -> Job]
      /\ realmRole \in [Mail -> [Provider -> SUBSET AreaRole]]
      /\ UNCHANGED <<account, excuse>>
  BY DEF AccountInv, AccountTypeOK, CreateUser, DeleteInConsole, DeleteUser
<1>2. CASE CreateUser(n)
  <2>1. UNCHANGED <<realmRole, job, events>> /\ realm[n] = 0
    BY <1>2 DEF CreateUser
  <2>2. BusyKept(p, m) /\ CoverKept(p, m)
    BY <2>1 DEF BusyKept, CoverKept, Busy, Cover
  <2>3. CASE m = n
    <3>1. realmRole'[m][p] = {}
      BY <2>1, <2>3 DEF AccountInv, RealmShape, NoRoles
    <3>2. QED
      BY <1>1, <2>1, <2>2, <2>3, <3>1 DEF Effect, Arrives
  <2>4. CASE m # n
    BY <1>1, <1>2, <2>1, <2>2, <2>4 DEF CreateUser, Effect, Quiet, Untouched
  <2>5. QED
    BY <2>3, <2>4
<1>3. CASE DeleteInConsole(n)
  <2>1. /\ realm' = [realm EXCEPT ![n] = 0] /\ realmRole' = [realmRole EXCEPT ![n] = NoRoles]
        /\ events' = events \cup {[mail |-> n, user |-> realm[n], panel |-> FALSE]}
        /\ UNCHANGED job
    BY <1>3 DEF DeleteInConsole, LeavesKeycloak
  <2>2. CASE m = n
    <3>1. \E e \in events' : e.mail = m /\ ~e.panel
      <4> DEFINE gone == [mail |-> n, user |-> realm[n], panel |-> FALSE]
      <4>1. gone \in events' /\ gone.mail = n /\ gone.panel = FALSE
        BY <2>1
      <4> HIDE DEF gone
      <4>2. QED
        BY <2>2, <4>1
    <3>2. QED
      BY <1>1, <2>1, <2>2, <3>1 DEF Effect, Leaves, Cover
  <2>3. CASE m # n
    <3>1. BusyKept(p, m) /\ CoverKept(p, m)
      BY <2>1 DEF BusyKept, CoverKept, Busy, Cover
    <3>2. QED
      BY <1>1, <2>1, <2>3, <3>1 DEF Effect, Quiet, Untouched
  <2>4. QED
    BY <2>2, <2>3
<1>4. ASSUME NEW s \in JobSlot, DeleteUser(s, n) PROVE Effect(p, m)
  <2>1. /\ realm' = [realm EXCEPT ![n] = 0] /\ realmRole' = [realmRole EXCEPT ![n] = NoRoles]
        /\ events \subseteq events' /\ realm[n] # 0 /\ job[s] = JobIdle
    BY <1>4 DEF DeleteUser, LeavesKeycloak
  <2>2. realm[n] \in User
    BY <2>1, AccountAssumption, <1>1 DEF User
  <2>3. OnlyJob(s) /\ job'[s].stage = "delete" /\ job'[s].mail = n /\ job'[s].todo = Provider
    <3>1. ASSUME NEW u \in User, u = realm[n]
          PROVE  OnlyJob(s) /\ job'[s].stage = "delete" /\ job'[s].mail = n /\ job'[s].todo = Provider
      <4>1. job' = [job EXCEPT ![s] = Deprovision(n, u)]
        BY <1>4, <3>1 DEF DeleteUser
      <4>2. QED
        BY <1>1, <4>1, DeprovisionEffect
    <3>2. QED
      BY <2>2, <3>1
  <2>4. CASE m = n
    BY <1>1, <2>1, <2>3, <2>4 DEF Effect, Leaves, Cover
  <2>5. CASE m # n
    <3>1. job[s].area = {} /\ job[s].stage # "delete"
      BY <2>1 DEF JobIdle
    <3>2. BusyKept(p, m) /\ CoverKept(p, m)
      BY <2>1, <2>3, <3>1, OthersKept
    <3>3. QED
      BY <1>1, <2>1, <2>5, <3>2 DEF Effect, Quiet, Untouched
  <2>6. QED
    BY <2>4, <2>5
<1>5. QED
  BY <1>2, <1>3, <1>4

LEMMA RequestEffects ==
  ASSUME AccountInv, NEW p \in Provider, NEW m \in Mail,
         \/ \E e \in Deletion : UserDeletedLost(e) \/ \E s \in JobSlot : UserDeleted(s, e)
         \/ \E s \in JobSlot, n \in Mail, q \in Provider, role \in AreaRole \cup {NoRole},
              queued \in BOOLEAN : Assign(s, n, q, role, queued) \/ OpenAccount(s, n, q, role)
  PROVE  Effect(p, m)
<1>1. /\ realm \in [Mail -> 0..MaxUsers] /\ job \in [JobSlot -> Job] /\ MaxUsers \in Nat
      /\ UNCHANGED <<account, realm, realmRole>>
  BY AccountAssumption DEF AccountInv, AccountTypeOK, UserDeletedLost, UserDeleted, Assign,
                           OpenAccount
<1>2. ASSUME NEW e \in Deletion, UserDeletedLost(e) PROVE Effect(p, m)
  <2>1. /\ events' = events \ {e} /\ UNCHANGED job /\ e.mail \in Mail
        /\ IF e.panel THEN UNCHANGED excuse ELSE Excused(e.mail, "lost")
    BY <1>2 DEF UserDeletedLost, Deletion
  <2>2. BusyKept(p, m)
    BY <2>1 DEF BusyKept, Busy
  <2>3. excuse[m] \subseteq excuse'[m] /\ (~e.panel => "lost" \in excuse'[e.mail])
    BY <2>1, MarkGrows
  <2>4. CASE e.panel \/ e.mail # m
    <3>1. CoverKept(p, m)
      BY <2>1, <2>4 DEF CoverKept, Cover
    <3>2. QED
      BY <1>1, <2>2, <2>3, <3>1 DEF Effect, Quiet, Untouched
  <2>5. CASE ~e.panel /\ e.mail = m
    BY <2>3, <2>5 DEF Effect
  <2>6. QED
    BY <2>4, <2>5
<1>3. ASSUME NEW e \in Deletion, NEW s \in JobSlot, UserDeleted(s, e) PROVE Effect(p, m)
  <2>1. /\ events' = events \ {e} /\ UNCHANGED excuse /\ job[s] = JobIdle
        /\ e.mail \in Mail /\ e.user \in User
    BY <1>3 DEF UserDeleted, Deletion
  <2>2. OnlyJob(s) /\ job'[s].stage = "delete" /\ job'[s].mail = e.mail /\ job'[s].todo = Provider
    <3>1. ASSUME NEW n \in Mail, NEW u \in User, n = e.mail, u = e.user
          PROVE  OnlyJob(s) /\ job'[s].stage = "delete" /\ job'[s].mail = n /\ job'[s].todo = Provider
      <4>1. job' = [job EXCEPT ![s] = Deprovision(n, u)]
        BY <1>3, <3>1 DEF UserDeleted
      <4>2. QED
        BY <1>1, <4>1, DeprovisionEffect
    <3>2. QED
      BY <2>1, <3>1
  <2>3. job[s].area = {} /\ job[s].stage # "delete"
    BY <2>1 DEF JobIdle
  <2>4. BusyKept(p, m)
    BY <2>2, <2>3, OthersKept
  <2>5. CoverKept(p, m)
    BY <2>1, <2>2, <2>3 DEF CoverKept, Cover, OnlyJob
  <2>6. QED
    BY <1>1, <2>1, <2>4, <2>5 DEF Effect, Quiet, Untouched
<1>4. ASSUME NEW s \in JobSlot, NEW n \in Mail, NEW q \in Provider,
             NEW role \in AreaRole \cup {NoRole}, NEW queued \in BOOLEAN,
             Assign(s, n, q, role, queued) \/ OpenAccount(s, n, q, role)
      PROVE  Effect(p, m)
  <2>1. UNCHANGED events /\ job[s] = JobIdle /\ (UNCHANGED excuse \/ Excused(n, "uncoordinated"))
    BY <1>4 DEF Assign, OpenAccount
  <2>2. excuse[m] \subseteq excuse'[m]
    BY <2>1, MarkGrows
  <2>3. OnlyJob(s)
    <3>1. job' \in [JobSlot -> Job]
      <4>1. AccountInv'
        BY <1>4, AssignKeeps
      <4>2. QED
        BY <4>1 DEF AccountInv, AccountTypeOK
    <3>2. ASSUME NEW j, job' = [job EXCEPT ![s] = j]
          PROVE  \A t \in JobSlot \ {s} : job'[t] = job[t]
      BY <1>1, <3>2
    <3>3. QED
      BY <1>4, <3>1, <3>2 DEF Assign, OpenAccount, OnlyJob
  <2>4. job[s].area = {} /\ job[s].stage # "delete"
    BY <2>1 DEF JobIdle
  <2>5. BusyKept(p, m) /\ CoverKept(p, m)
    BY <2>1, <2>3, <2>4, OthersKept
  <2>6. QED
    BY <1>1, <2>2, <2>5 DEF Effect, Quiet, Untouched
<1>5. QED
  BY <1>2, <1>3, <1>4

LEMMA ChangeEffects ==
  ASSUME AccountInv, NEW p \in Provider, NEW m \in Mail,
         NEW n \in Mail, NEW q \in Provider, NEW role \in AreaRole, ChangeRoles(n, q, role)
  PROVE  Effect(p, m)
<1>1. UNCHANGED <<realm, account, events, job>> /\ realm[n] # 0
  BY DEF ChangeRoles
<1>2. /\ q # p \/ n # m => realmRole'[m][p] = realmRole[m][p]
      /\ excuse[m] \subseteq excuse'[m] /\ excuse'[n] # {}
  BY ChangeEffect
<1>3. BusyKept(p, m) /\ CoverKept(p, m)
  BY <1>1 DEF BusyKept, CoverKept, Busy, Cover
<1>4. CASE q = p /\ n = m
  BY <1>1, <1>2, <1>4 DEF Effect, Bypassed
<1>5. CASE q # p \/ n # m
  BY <1>1, <1>2, <1>3, <1>5 DEF Effect, Quiet, Untouched
<1>6. QED
  BY <1>4, <1>5

LEMMA ReconEffects ==
  ASSUME AccountInv, NEW p \in Provider, NEW m \in Mail, ReadKeycloak \/ ReconStep
  PROVE  Effect(p, m)
<1>1. /\ account \in [Provider -> [Mail -> AreaRole \cup {NoRole, NoAccount}]]
      /\ UNCHANGED <<realm, realmRole, events, job>>
  BY DEF AccountInv, AccountTypeOK, ReadKeycloak, ReconStep, ListNative, DeleteDrift, ReconEnds
<1>2. BusyKept(p, m) /\ CoverKept(p, m)
  BY <1>1 DEF BusyKept, CoverKept, Busy, Cover
<1>3. ASSUME NEW q \in Provider, NEW n \in Mail,
             account' = [account EXCEPT ![q][n] = NoAccount],
             IF Bereaved(q, n) THEN Excused(n, "lost") ELSE UNCHANGED excuse
      PROVE  Effect(p, m)
  <2>1. excuse[m] \subseteq excuse'[m] /\ (Bereaved(q, n) => "lost" \in excuse'[n])
    BY <1>3, MarkGrows
  <2>2. CASE q = p /\ n = m
    <3>1. account'[p][m] = NoAccount
      BY <1>1, <1>3, <2>2
    <3>2. CASE account[p][m] = NoAccount
      BY <1>1, <1>2, <2>1, <3>1, <3>2 DEF Effect, Quiet, Untouched
    <3>3. CASE realm[m] = 0
      BY <1>1, <2>1, <3>1, <3>3 DEF Effect, AccountGoes
    <3>4. CASE Bereaved(p, m)
      BY <2>1, <2>2, <3>4 DEF Effect
    <3>5. QED
      BY <3>2, <3>3, <3>4 DEF Bereaved
  <2>3. CASE q # p \/ n # m
    BY <1>1, <1>2, <1>3, <2>1, <2>3 DEF Effect, Quiet, Untouched
  <2>4. QED
    BY <2>2, <2>3
<1>4. CASE UNCHANGED <<account, excuse>>
  BY <1>1, <1>2, <1>4 DEF Effect, Quiet, Untouched
<1>5. QED
  BY <1>3, <1>4 DEF ReadKeycloak, ReconStep, ListNative, DeleteDrift, ReconEnds

LEMMA CrashEffects ==
  ASSUME AccountInv, NEW p \in Provider, NEW m \in Mail, AccountCrash
  PROVE  Effect(p, m)
<1>1. UNCHANGED <<realm, realmRole, account, events>>
  BY DEF AccountCrash
<1>2. excuse'[m] = IF \E s \in JobSlot : job[s].mail = m THEN excuse[m] \cup {"lost"} ELSE excuse[m]
  BY DEF AccountCrash
<1>3. CASE \E s \in JobSlot : job[s].mail = m
  BY <1>2, <1>3 DEF Effect
<1>4. CASE ~\E s \in JobSlot : job[s].mail = m
  <2>1. BusyKept(p, m) /\ CoverKept(p, m)
    BY <1>1, <1>4 DEF BusyKept, CoverKept, Busy, Cover
  <2>2. QED
    BY <1>1, <1>2, <1>4, <2>1 DEF Effect, Quiet, Untouched
<1>5. QED
  BY <1>3, <1>4

LEMMA StepEffects ==
  ASSUME AccountInv, [AccountNext]_accountVars, NEW p \in Provider, NEW m \in Mail
  PROVE  Effect(p, m)
<1>1. CASE UNCHANGED accountVars
  BY <1>1 DEF accountVars, Effect, Quiet, Untouched, BusyKept, CoverKept, Busy, Cover
<1>2. CASE AccountNext
  BY <1>2, UserEffects, RequestEffects, ChangeEffects, AssignmentEffects, DeletionEffects,
     ReconEffects, CrashEffects DEF AccountNext, JobStep
<1>3. QED
  BY <1>1, <1>2

-----------------------------------------------------------------------------
(* Leftovers.                                                              *)

\* An account without a user is on its way out, unless work was lost.
LeftoversCovered ==
  \A p \in Provider, m \in Mail :
    account[p][m] # NoAccount /\ realm[m] = 0 /\ "lost" \notin excuse[m] => Cover(p, m)

\* An account is only set for a user Keycloak knows.
LEMMA SetForSomebody ==
  ASSUME AccountInv, NEW p \in Provider, NEW m \in Mail, AccountSet(p, m)
  PROVE  realm'[m] = realm[m] /\ realm[m] # 0 /\ UNCHANGED <<realmRole, excuse>>
<1>1. PICK s \in JobSlot : SetNativeRole(s) /\ Known(s) /\ job[s].area = {p} /\ job[s].mail = m
  BY DEF AccountSet
<1>2. AssignShape(s)
  BY <1>1, StageTells DEF AccountInv
<1>3. realm[m] # 0
  BY <1>1, <1>2 DEF AssignShape, Known, AccountInv, AccountTypeOK
<1>4. QED
  BY <1>1, <1>3 DEF SetNativeRole

LEMMA LeftoversKept ==
  AccountInv /\ LeftoversCovered /\ [AccountNext]_accountVars => LeftoversCovered'
<1> SUFFICES ASSUME AccountInv, LeftoversCovered, [AccountNext]_accountVars,
                    NEW p \in Provider, NEW m \in Mail,
                    account'[p][m] # NoAccount, realm'[m] = 0, "lost" \notin excuse'[m]
             PROVE  Cover(p, m)'
  BY DEF LeftoversCovered
<1>1. Effect(p, m)
  BY StepEffects
<1>2. "lost" \notin excuse[m]
  BY <1>1 DEF Effect
<1>3. CASE Quiet(p, m)
  BY <1>2, <1>3 DEF LeftoversCovered, Quiet, Untouched, CoverKept
<1>4. CASE Leaves(p, m)
  BY <1>4 DEF Leaves
<1>5. CASE Arrives(p, m)
  BY <1>2, <1>5 DEF LeftoversCovered, Arrives, CoverKept
<1>6. CASE RolesChange(p, m)
  BY <1>6 DEF RolesChange
<1>7. CASE AccountSet(p, m)
  BY <1>7, SetForSomebody
<1>8. CASE AccountGoes(p, m)
  BY <1>8 DEF AccountGoes
<1>9. CASE Bypassed(p, m)
  BY <1>9 DEF Bypassed
<1>10. QED
  BY <1>1, <1>3, <1>4, <1>5, <1>6, <1>7, <1>8, <1>9 DEF Effect

\* An account whose user is gone is still being dealt with, or work for its
\* address was lost.
THEOREM LeftoversHaveAReason == AccountSpec => []LeftoversAreExplained
<1>1. AccountInit => LeftoversCovered
  BY DEF AccountInit, LeftoversCovered
<1>2. LeftoversCovered => LeftoversAreExplained
  BY DEF LeftoversCovered, LeftoversAreExplained, Cover, Concerned
<1>3. QED
  BY <1>1, <1>2, LeftoversKept, AccountInvHolds, PTL DEF AccountSpec

-----------------------------------------------------------------------------
(* One assignment at a time.                                               *)

\* Two jobs for one user in one area are marked.
Exclusive ==
  \A s, t \in JobSlot :
    s # t /\ job[s].area # {} /\ job[t].area = job[s].area /\ job[t].mail = job[s].mail =>
      excuse[job[s].mail] # {}

\* What an assignment has found and done so far, when nothing has been marked.
Progress ==
  \A s \in JobSlot, p \in Provider :
    job[s].area = {p} /\ realm[job[s].mail] = job[s].user /\ excuse[job[s].mail] = {} =>
      /\ job[s].stage = "remove" => realmRole[job[s].mail][p] = job[s].seen
      /\ job[s].stage = "add" => realmRole[job[s].mail][p] = job[s].seen \cap Wanted(s)
      /\ job[s].stage = "native" => realmRole[job[s].mail][p] = Wanted(s)

\* The assignment in slot s is as it was, and so is its user in its area.
AsBefore(s) ==
  /\ job'[s] = job[s]
  /\ realm'[job[s].mail] = job[s].user =>
       /\ realm[job[s].mail] = job[s].user
       /\ \A p \in Provider : job[s].area = {p} =>
            \/ realmRole'[job[s].mail][p] = realmRole[job[s].mail][p]
            \/ \E t \in JobSlot \ {s} : job[t].area = {p} /\ job[t].mail = job[s].mail
            \/ excuse'[job[s].mail] # {}

\* What a step does to the assignment in slot s.
TaskEffect(s) ==
  \/ job'[s].area = {}
  \/ AsBefore(s)
  \/ job[s].area # {} /\ job'[s].stage = "read" /\ SameTask(s)
  \/ ReadRoles(s) \/ RemoveRoles(s) \/ AddRole(s)

\* A job that starts at the beginning marks an address that has one, and any
\* other that starts marks its address.
Starts(s) ==
  /\ OnlyJob(s) /\ UNCHANGED <<realm, realmRole>>
  /\ job'[s].stage = "read" \/ excuse'[job'[s].mail] # {}
  /\ \A t \in JobSlot : job[t].area = job'[s].area /\ job[t].mail = job'[s].mail =>
       excuse'[job'[s].mail] # {}

\* A step of slot s that leaves users and roles alone.
LEMMA OneTask ==
  ASSUME NEW s \in JobSlot, OnlyJob(s), UNCHANGED <<realm, realmRole>>,
         \/ job'[s].area = {}
         \/ job[s].area # {} /\ job'[s].stage = "read" /\ SameTask(s)
         \/ ReadRoles(s)
  PROVE  \A t \in JobSlot : TaskEffect(t)
BY DEF OnlyJob, TaskEffect, AsBefore

\* A step that leaves the jobs alone and lets one user leave or arrive.
LEMMA NobodysTask ==
  ASSUME AccountInv, NEW m \in Mail, UNCHANGED job,
         \/ CreateUser(m) \/ DeleteInConsole(m)
         \/ UNCHANGED <<realm, realmRole>>
  PROVE  \A t \in JobSlot : TaskEffect(t)
<1> SUFFICES ASSUME NEW t \in JobSlot PROVE TaskEffect(t)
  OBVIOUS
<1>1. /\ realm \in [Mail -> 0..MaxUsers] /\ users \in Nat /\ JobShape(t)
      /\ realmRole \in [Mail -> [Provider -> SUBSET AreaRole]]
  BY AccountAssumption DEF AccountInv, AccountTypeOK
<1>2. CASE UNCHANGED <<realm, realmRole>>
  BY <1>2 DEF TaskEffect, AsBefore
<1>3. CASE job[t].area = {}
  BY <1>3 DEF TaskEffect
<1>4. CASE job[t].area # {} /\ (CreateUser(m) \/ DeleteInConsole(m))
  <2>1. job[t].mail \in Mail /\ job[t].user \in 1..users
    BY <1>1, <1>4, StageTells DEF AssignShape
  <2>2. job[t].user # 0 /\ job[t].user # users + 1
    BY <1>1, <2>1
  <2>3. CASE CreateUser(m)
    <3>1. realm' = [realm EXCEPT ![m] = users + 1] /\ UNCHANGED realmRole
      BY <2>3 DEF CreateUser
    <3>2. QED
      BY <1>1, <2>1, <2>2, <3>1 DEF TaskEffect, AsBefore
  <2>4. CASE DeleteInConsole(m)
    <3>1. realm' = [realm EXCEPT ![m] = 0] /\ realmRole' = [realmRole EXCEPT ![m] = NoRoles]
      BY <2>4 DEF DeleteInConsole, LeavesKeycloak
    <3>2. QED
      BY <1>1, <2>1, <2>2, <3>1 DEF TaskEffect, AsBefore
  <2>5. QED
    BY <1>4, <2>3, <2>4
<1>5. QED
  BY <1>2, <1>3, <1>4

\* A step of the roles: another assignment feels it only in the same area of the
\* same user.
LEMMA RolesTask ==
  ASSUME AccountInv, NEW s \in JobSlot, RemoveRoles(s) \/ AddRole(s)
  PROVE  \A t \in JobSlot : TaskEffect(t)
<1>1. /\ job \in [JobSlot -> Job] /\ realmRole \in [Mail -> [Provider -> SUBSET AreaRole]]
      /\ JobShape(s)
  BY DEF AccountInv, AccountTypeOK
<1>2. AssignShape(s)
  BY <1>1, StageTells DEF RemoveRoles, AddRole, Assigning
<1>3. Area(s) \in Provider /\ job[s].area = {Area(s)} /\ job[s].mail \in Mail
  BY <1>2, AreaOf DEF AssignShape
<1>4. PICK stage \in JobStage : JobGoto(s, stage)
  BY DEF RemoveRoles, AddRole, JobStage
<1>5. OnlyJob(s) /\ UNCHANGED realm
  BY <1>1, <1>4, GotoEffect DEF RemoveRoles, AddRole
<1>6. \A m \in Mail, p \in Provider :
        realmRole'[m][p] = realmRole[m][p] \/ (m = job[s].mail /\ p = Area(s))
  BY <1>1, <1>3 DEF RemoveRoles, AddRole
<1>7. SUFFICES ASSUME NEW t \in JobSlot, t # s, job[t].area # {} PROVE TaskEffect(t)
  BY <1>5 DEF TaskEffect, OnlyJob
<1>8. job'[t] = job[t] /\ job[t].mail \in Mail
  BY <1>5, <1>7, StageTells DEF OnlyJob, AccountInv, AssignShape
<1>9. AsBefore(t)
  BY <1>3, <1>5, <1>6, <1>7, <1>8 DEF AsBefore
<1>10. QED
  BY <1>9 DEF TaskEffect

LEMMA StepTasks ==
  ASSUME AccountInv, [AccountNext]_accountVars
  PROVE  (\A t \in JobSlot : TaskEffect(t)) \/ \E s \in JobSlot : Starts(s)
<1>1. /\ job \in [JobSlot -> Job] /\ realm \in [Mail -> 0..MaxUsers] /\ MaxUsers \in Nat
      /\ realmRole \in [Mail -> [Provider -> SUBSET AreaRole]]
  BY AccountAssumption DEF AccountInv, AccountTypeOK
<1>2. CASE UNCHANGED accountVars
  BY <1>2 DEF accountVars, TaskEffect, AsBefore
<1>3. ASSUME NEW m \in Mail, CreateUser(m) \/ DeleteInConsole(m) PROVE \A t \in JobSlot : TaskEffect(t)
  BY <1>3, NobodysTask DEF CreateUser, DeleteInConsole
<1>4. ASSUME NEW s \in JobSlot, NEW m \in Mail, DeleteUser(s, m) PROVE \A t \in JobSlot : TaskEffect(t)
  <2>1. /\ realm' = [realm EXCEPT ![m] = 0] /\ realmRole' = [realmRole EXCEPT ![m] = NoRoles]
        /\ realm[m] # 0
    BY <1>4 DEF DeleteUser, LeavesKeycloak
  <2>2. realm[m] \in User
    BY <1>1, <2>1 DEF User
  <2>3. OnlyJob(s) /\ job'[s].area = {}
    <3>1. ASSUME NEW u \in User, u = realm[m] PROVE OnlyJob(s) /\ job'[s].area = {}
      <4>1. job' = [job EXCEPT ![s] = Deprovision(m, u)]
        BY <1>4, <3>1 DEF DeleteUser
      <4>2. QED
        BY <1>1, <4>1, DeprovisionEffect
    <3>2. QED
      BY <2>2, <3>1
  <2>4. SUFFICES ASSUME NEW t \in JobSlot, t # s, job[t].area # {} PROVE TaskEffect(t)
    BY <2>3 DEF TaskEffect, OnlyJob
  <2>5. job'[t] = job[t] /\ job[t].mail \in Mail /\ job[t].user # 0
    BY <2>3, <2>4, StageTells, AccountAssumption DEF OnlyJob, AccountInv, AccountTypeOK, AssignShape
  <2>6. QED
    BY <1>1, <2>1, <2>5 DEF TaskEffect, AsBefore
<1>5. ASSUME NEW s \in JobSlot, NEW e \in Deletion, UserDeleted(s, e)
      PROVE  \A t \in JobSlot : TaskEffect(t)
  <2>1. e.mail \in Mail /\ e.user \in User /\ UNCHANGED <<realm, realmRole>>
    BY <1>5 DEF Deletion, UserDeleted
  <2>2. OnlyJob(s) /\ job'[s].area = {}
    <3>1. ASSUME NEW n \in Mail, NEW u \in User, n = e.mail, u = e.user
          PROVE  OnlyJob(s) /\ job'[s].area = {}
      <4>1. job' = [job EXCEPT ![s] = Deprovision(n, u)]
        BY <1>5, <3>1 DEF UserDeleted
      <4>2. QED
        BY <1>1, <4>1, DeprovisionEffect
    <3>2. QED
      BY <2>1, <3>1
  <2>3. QED
    BY <2>1, <2>2, OneTask
<1>6. ASSUME NEW s \in JobSlot, NEW m \in Mail, NEW p \in Provider,
             NEW role \in AreaRole \cup {NoRole}, NEW queued \in BOOLEAN,
             Assign(s, m, p, role, queued) \/ OpenAccount(s, m, p, role)
      PROVE  Starts(s)
  <2>1. UNCHANGED <<realm, users, realmRole>> /\ realm[m] # 0
    BY <1>6 DEF Assign, OpenAccount
  <2>2. (IF queued THEN JOB_ATTEMPTS - 1 ELSE 0) \in Nat
    BY AccountAssumption
  <2>3. CASE Assign(s, m, p, role, queued)
    <3>1. PICK left \in Nat : job' = [job EXCEPT ![s] = AreaJob("read", m, p, role, left)]
      BY <2>2, <2>3 DEF Assign
    <3>2. OnlyJob(s) /\ job'[s].stage = "read" /\ job'[s].mail = m /\ job'[s].area = {p}
      BY <2>1, <3>1, StartEffect DEF Assigning
    <3>3. (\E t \in JobSlot : job[t].mail = m /\ job[t].area = {p}) => excuse'[m] # {}
      BY <2>3 DEF Assign, Excused, AccountInv, AccountTypeOK
    <3>4. QED
      BY <2>1, <3>2, <3>3 DEF Starts
  <2>4. CASE OpenAccount(s, m, p, role)
    <3>1. job' = [job EXCEPT ![s] = AreaJob("native", m, p, role, 0)]
      BY <2>4 DEF OpenAccount
    <3>2. OnlyJob(s) /\ job'[s].mail = m /\ job'[s].area = {p}
      BY <2>1, <3>1, StartEffect DEF Assigning
    <3>3. excuse'[m] # {}
      BY <2>4 DEF OpenAccount, Excused, AccountInv, AccountTypeOK
    <3>4. QED
      BY <2>1, <3>2, <3>3 DEF Starts
  <2>5. QED
    BY <1>6, <2>3, <2>4
<1>6a. ASSUME NEW m \in Mail, NEW p \in Provider, NEW role \in AreaRole, ChangeRoles(m, p, role)
       PROVE  \A t \in JobSlot : TaskEffect(t)
  <2>1. UNCHANGED <<realm, job>> /\ excuse'[m] # {}
    BY <1>6a, ChangeEffect DEF ChangeRoles
  <2>2. \A q \in Provider, n \in Mail : n # m => realmRole'[n][q] = realmRole[n][q]
    BY <1>6a, ChangeEffect
  <2>3. SUFFICES ASSUME NEW t \in JobSlot, job[t].area # {} PROVE TaskEffect(t)
    BY <2>1 DEF TaskEffect
  <2>4. job[t].mail \in Mail
    BY <2>3, StageTells DEF AccountInv, AssignShape
  <2>5. QED
    BY <2>1, <2>2, <2>4 DEF TaskEffect, AsBefore
<1>7. ASSUME NEW s \in JobSlot, JobStep(s) PROVE \A t \in JobSlot : TaskEffect(t)
  <2>1. JobShape(s)
    BY DEF AccountInv
  <2>2. CASE RemoveRoles(s) \/ AddRole(s)
    BY <2>2, RolesTask
  <2>3. CASE ReadRoles(s)
    <3>1. AssignShape(s)
      BY <2>1, <2>3, StageTells DEF ReadRoles, Assigning
    <3>2. realmRole[job[s].mail][Area(s)] \in SUBSET AreaRole
      BY <1>1, <3>1, AreaOf DEF AssignShape
    <3>3. OnlyJob(s) /\ UNCHANGED <<realm, realmRole>>
      BY <1>1, <2>3, <3>2, ReadEffect DEF ReadRoles
    <3>4. QED
      BY <2>3, <3>3, OneTask
  <2>4. CASE SetNativeRole(s)
    <3>1. OnlyJob(s) /\ job'[s] = JobIdle /\ UNCHANGED <<realm, realmRole>>
      BY <1>1, <2>4, EndEffect DEF SetNativeRole
    <3>2. QED
      BY <3>1, OneTask DEF JobIdle
  <2>5. CASE AssignFails(s)
    <3>1. AssignShape(s)
      BY <2>1, <2>5, StageTells DEF AssignFails, Assigning
    <3>2. /\ OnlyJob(s)
          /\ \/ SameTask(s) /\ job'[s].stage = "read"
             \/ job'[s] = JobIdle
      BY <1>1, <2>5, RetryEffect DEF AssignFails, JobStage
    <3>3. job[s].area # {} /\ UNCHANGED <<realm, realmRole>> /\ JobIdle.area = {}
      BY <2>5, <3>1 DEF AssignShape, AssignFails, JobIdle
    <3>4. QED
      BY <3>2, <3>3, OneTask
  <2>6. CASE (\E p \in Provider : DeleteNative(s, p) \/ DeleteNativeFails(s, p)) \/ DeletionSettles(s)
    <3>1. DeleteShape(s)
      BY <2>1, <2>6, StageTells DEF DeleteNative, DeleteNativeFails, DeletionSettles
    <3>2. OnlyJob(s) /\ (SameTask(s) \/ job'[s] = JobIdle)
      <4>1. ASSUME NEW p \in Provider, DeleteNative(s, p) \/ DeleteNativeFails(s, p)
            PROVE  OnlyJob(s) /\ SameTask(s)
        BY <1>1, <4>1, VisitEffect DEF DeleteNative, DeleteNativeFails
      <4>2. CASE DeletionSettles(s) /\ job[s].failed
        BY <1>1, <4>2, RetryEffect DEF DeletionSettles, JobStage
      <4>3. CASE DeletionSettles(s) /\ ~job[s].failed
        BY <1>1, <4>3, EndEffect DEF DeletionSettles
      <4>4. QED
        BY <2>6, <4>1, <4>2, <4>3
    <3>3. job[s].area = {} /\ JobIdle.area = {}
      BY <3>1 DEF DeleteShape, JobIdle
    <3>4. job'[s].area = {}
      BY <3>2, <3>3 DEF SameTask
    <3>5. UNCHANGED <<realm, realmRole>>
      BY <2>6 DEF DeleteNative, DeleteNativeFails, DeletionSettles
    <3>6. QED
      BY <3>2, <3>4, <3>5, OneTask
  <2>7. QED
    BY <1>7, <2>2, <2>3, <2>4, <2>5, <2>6 DEF JobStep
<1>8. ASSUME NEW e \in Deletion, UserDeletedLost(e) PROVE \A t \in JobSlot : TaskEffect(t)
  BY <1>8 DEF UserDeletedLost, TaskEffect, AsBefore
<1>9. CASE ReadKeycloak \/ ReconStep
  BY <1>9 DEF ReadKeycloak, ReconStep, ListNative, DeleteDrift, ReconEnds, TaskEffect, AsBefore
<1>10. CASE AccountCrash
  BY <1>10 DEF AccountCrash, TaskEffect, JobIdle
<1>11. QED
  BY <1>2, <1>3, <1>4, <1>5, <1>6, <1>6a, <1>7, <1>8, <1>9, <1>10 DEF AccountNext

\* A job that is an assignment after the step and did not start in it was the
\* same assignment before.
LEMMA TaskEffectKeeps ==
  ASSUME AccountInv, NEW s \in JobSlot, TaskEffect(s), job'[s].area # {}
  PROVE  SameTask(s)
<1>1. /\ job \in [JobSlot -> Job] /\ realmRole \in [Mail -> [Provider -> SUBSET AreaRole]]
      /\ JobShape(s)
  BY DEF AccountInv, AccountTypeOK
<1>2. CASE AsBefore(s)
  BY <1>2 DEF AsBefore, SameTask
<1>3. CASE ReadRoles(s)
  <2>1. AssignShape(s)
    BY <1>1, <1>3, StageTells DEF ReadRoles, Assigning
  <2>2. realmRole[job[s].mail][Area(s)] \in SUBSET AreaRole
    BY <1>1, <2>1, AreaOf DEF AssignShape
  <2>3. QED
    BY <1>1, <1>3, <2>2, ReadEffect DEF ReadRoles
<1>4. CASE RemoveRoles(s) \/ AddRole(s)
  <2>1. PICK stage \in JobStage : JobGoto(s, stage)
    BY <1>4 DEF RemoveRoles, AddRole, JobStage
  <2>2. QED
    BY <1>1, <2>1, GotoEffect
<1>5. QED
  BY <1>2, <1>3, <1>4 DEF TaskEffect

\* Marks are never taken back.
LEMMA MarksStay ==
  ASSUME AccountInv, [AccountNext]_accountVars, NEW p \in Provider, NEW m \in Mail
  PROVE  excuse[m] \subseteq excuse'[m]
BY StepEffects DEF Effect

LEMMA ExclusiveKept ==
  AccountInv /\ Exclusive /\ [AccountNext]_accountVars => Exclusive'
<1> SUFFICES ASSUME AccountInv, Exclusive, [AccountNext]_accountVars,
                    NEW s \in JobSlot, NEW t \in JobSlot, s # t, job'[s].area # {},
                    job'[t].area = job'[s].area, job'[t].mail = job'[s].mail
             PROVE  excuse'[job'[s].mail] # {}
  BY DEF Exclusive
<1>1. AccountInv'
  BY AccountKeeps
<1>2. AssignShape(s)'
  BY <1>1, StageTells DEF AccountInv, JobShape, AssignShape, DeleteShape, JobIdle
<1>3. job'[s].mail \in Mail /\ \E p \in Provider : job'[s].area = {p}
  BY <1>2 DEF AssignShape
<1>4. excuse[job'[s].mail] \subseteq excuse'[job'[s].mail]
  BY <1>3, MarksStay
<1>5. CASE \A r \in JobSlot : TaskEffect(r)
  <2>1. SameTask(s) /\ SameTask(t)
    BY <1>5, TaskEffectKeeps
  <2>2. excuse[job[s].mail] # {}
    BY <2>1 DEF SameTask, Exclusive
  <2>3. QED
    BY <1>4, <2>1, <2>2 DEF SameTask
<1>6. ASSUME NEW r \in JobSlot, Starts(r) PROVE excuse'[job'[s].mail] # {}
  <2>1. CASE r # s /\ r # t
    <3>1. job'[s] = job[s] /\ job'[t] = job[t]
      BY <1>6, <2>1 DEF Starts, OnlyJob
    <3>2. excuse[job[s].mail] # {}
      BY <3>1 DEF Exclusive
    <3>3. QED
      BY <1>4, <3>1, <3>2
  <2>2. CASE r = s
    <3>1. job'[t] = job[t]
      BY <1>6, <2>2 DEF Starts, OnlyJob
    <3>2. QED
      BY <1>6, <2>2, <3>1 DEF Starts
  <2>3. CASE r = t
    <3>1. job'[s] = job[s]
      BY <1>6, <2>3 DEF Starts, OnlyJob
    <3>2. QED
      BY <1>6, <2>3, <3>1 DEF Starts
  <2>4. QED
    BY <2>1, <2>2, <2>3
<1>7. QED
  BY <1>5, <1>6, StepTasks

LEMMA ProgressKept ==
  AccountInv /\ Exclusive /\ Progress /\ [AccountNext]_accountVars => Progress'
<1> SUFFICES ASSUME AccountInv, Exclusive, Progress, [AccountNext]_accountVars,
                    NEW s \in JobSlot, NEW p \in Provider, job'[s].area = {p},
                    realm'[job'[s].mail] = job'[s].user, excuse'[job'[s].mail] = {}
             PROVE  /\ job'[s].stage = "remove" => realmRole'[job'[s].mail][p] = job'[s].seen
                    /\ job'[s].stage = "add" =>
                         realmRole'[job'[s].mail][p] = job'[s].seen \cap Wanted(s)'
                    /\ job'[s].stage = "native" => realmRole'[job'[s].mail][p] = Wanted(s)'
  BY DEF Progress
<1> DEFINE Goal == /\ job'[s].stage = "remove" => realmRole'[job'[s].mail][p] = job'[s].seen
                   /\ job'[s].stage = "add" =>
                        realmRole'[job'[s].mail][p] = job'[s].seen \cap Wanted(s)'
                   /\ job'[s].stage = "native" => realmRole'[job'[s].mail][p] = Wanted(s)'
<1>1. /\ job \in [JobSlot -> Job] /\ realmRole \in [Mail -> [Provider -> SUBSET AreaRole]]
      /\ JobShape(s)
  BY DEF AccountInv, AccountTypeOK
<1>2. ASSUME NEW r \in JobSlot, Starts(r) PROVE Goal
  <2>1. CASE r = s
    BY <1>2, <2>1 DEF Starts
  <2>2. CASE r # s
    <3>1. job'[s] = job[s] /\ UNCHANGED <<realm, realmRole>>
      BY <1>2, <2>2 DEF Starts, OnlyJob
    <3>2. AssignShape(s)
      BY <1>1, <3>1, StageTells
    <3>3. excuse[job[s].mail] = {}
      BY <3>1, <3>2, MarksStay DEF AssignShape
    <3>4. QED
      BY <3>1, <3>3 DEF Progress, Wanted
  <2>3. QED
    BY <2>1, <2>2
<1>3. ASSUME TaskEffect(s) PROVE Goal
  <2>1. SameTask(s)
    BY <1>3, TaskEffectKeeps
  <2>2. job[s].area = {p} /\ Wanted(s)' = Wanted(s)
    BY <2>1 DEF SameTask, Wanted
  <2>3. AssignShape(s)
    BY <1>1, <2>2, StageTells
  <2>4. Area(s) = p /\ job[s].mail \in Mail
    BY <2>2, <2>3, AreaOf DEF AssignShape
  <2>5. excuse[job[s].mail] = {}
    BY <2>1, <2>4, MarksStay DEF SameTask
  <2>6. CASE AsBefore(s)
    <3>1. job'[s] = job[s] /\ realm[job[s].mail] = job[s].user
      BY <2>6 DEF AsBefore
    <3>2. realmRole'[job[s].mail][p] = realmRole[job[s].mail][p]
      BY <2>1, <2>2, <2>5, <2>6, <3>1 DEF AsBefore, Exclusive, SameTask
    <3>3. QED
      BY <2>2, <2>5, <3>1, <3>2 DEF Progress
  <2>7. CASE job'[s].stage = "read"
    BY <2>7
  <2>8. CASE ReadRoles(s)
    <3>1. realmRole[job[s].mail][p] \in SUBSET AreaRole /\ UNCHANGED realmRole
      BY <1>1, <2>4, <2>8 DEF ReadRoles
    <3>2. job'[s].stage = "remove" /\ job'[s].seen = realmRole[job[s].mail][p]
      BY <1>1, <2>4, <2>8, <3>1, ReadEffect DEF ReadRoles
    <3>3. QED
      BY <2>1, <3>1, <3>2 DEF SameTask
  <2>9. CASE RemoveRoles(s)
    <3>1. job'[s].stage = "add" /\ job'[s].seen = job[s].seen
      BY <1>1, <2>9, GotoEffect DEF RemoveRoles, JobStage
    <3>2. realmRole[job[s].mail][p] = job[s].seen
      BY <2>2, <2>5, <2>9 DEF RemoveRoles, Known, Progress
    <3>3. realmRole'[job[s].mail][p] = job[s].seen \ (job[s].seen \ Wanted(s))
      BY <1>1, <2>4, <2>9, <3>2 DEF RemoveRoles
    <3>4. QED
      BY <2>1, <2>2, <3>1, <3>3 DEF SameTask
  <2>10. CASE AddRole(s)
    <3>1. job'[s].stage = "native"
      BY <1>1, <2>10, GotoEffect DEF AddRole, JobStage
    <3>2. realmRole[job[s].mail][p] = job[s].seen \cap Wanted(s)
      BY <2>2, <2>5, <2>10 DEF AddRole, Known, Progress
    <3>3. realmRole'[job[s].mail][p] = (job[s].seen \cap Wanted(s)) \cup (Wanted(s) \ job[s].seen)
      BY <1>1, <2>4, <2>10, <3>2 DEF AddRole
    <3>4. QED
      BY <2>1, <2>2, <3>1, <3>3 DEF SameTask
  <2>11. QED
    BY <1>3, <2>6, <2>7, <2>8, <2>9, <2>10 DEF TaskEffect
<1>4. QED
  BY <1>2, <1>3, StepTasks

-----------------------------------------------------------------------------
(* Agreement.                                                              *)

Match(p, m) ==
  LET roles == realmRole[m][p]
  IN IF roles = {} THEN account[p][m] \in {NoRole, NoAccount} ELSE roles = {account[p][m]}

\* The account of somebody for whom nothing went wrong has the role of the
\* user, or is about to get it, or is the account of an earlier holder of the
\* address that is on its way out.
Settled ==
  \A p \in Provider, m \in Mail :
    realm[m] # 0 /\ excuse[m] = {} =>
      Busy(p, m) \/ Match(p, m) \/ (account[p][m] # NoAccount /\ Cover(p, m))

LEMMA SettledKept ==
  AccountInv /\ LeftoversCovered /\ Progress /\ Settled /\ [AccountNext]_accountVars => Settled'
<1> SUFFICES ASSUME AccountInv, LeftoversCovered, Progress, Settled, [AccountNext]_accountVars,
                    NEW p \in Provider, NEW m \in Mail, realm'[m] # 0, excuse'[m] = {}
             PROVE  Busy(p, m)' \/ Match(p, m)' \/ (account'[p][m] # NoAccount /\ Cover(p, m)')
  BY DEF Settled
<1>1. Effect(p, m)
  BY StepEffects
<1>2. excuse[m] = {}
  BY <1>1 DEF Effect
<1>3. CASE Quiet(p, m)
  <2>1. Busy(p, m) \/ Match(p, m) \/ (account[p][m] # NoAccount /\ Cover(p, m))
    BY <1>2, <1>3 DEF Settled, Quiet, Untouched
  <2>2. CASE Busy(p, m)
    BY <1>3, <2>2 DEF Quiet, BusyKept
  <2>3. CASE Match(p, m)
    BY <1>3, <2>3 DEF Quiet, Untouched, Match
  <2>4. CASE account[p][m] # NoAccount /\ Cover(p, m)
    BY <1>3, <2>4 DEF Quiet, Untouched, CoverKept
  <2>5. QED
    BY <2>1, <2>2, <2>3, <2>4
<1>4. CASE Leaves(p, m)
  BY <1>4 DEF Leaves
<1>5. CASE Arrives(p, m)
  <2>1. CASE account[p][m] = NoAccount
    BY <1>5, <2>1 DEF Arrives, Match
  <2>2. CASE account[p][m] # NoAccount
    BY <1>2, <1>5, <2>2 DEF Arrives, LeftoversCovered, CoverKept
  <2>3. QED
    BY <2>1, <2>2
<1>6. CASE RolesChange(p, m)
  BY <1>6 DEF RolesChange
<1>7. CASE AccountSet(p, m)
  <2>1. PICK s \in JobSlot : SetNativeRole(s) /\ Known(s) /\ job[s].area = {p} /\ job[s].mail = m
    BY <1>7 DEF AccountSet
  <2>2. AssignShape(s) /\ job[s] \in Job
    BY <2>1, StageTells DEF AccountInv, AccountTypeOK
  <2>3. Area(s) = p
    BY <2>1, <2>2, AreaOf
  <2>4. realmRole[m][p] = Wanted(s)
    BY <1>2, <2>1 DEF Progress, SetNativeRole, Known
  <2>5. account'[p][m] = job[s].role /\ realmRole' = realmRole
    BY <2>1, <2>3 DEF SetNativeRole, AccountInv, AccountTypeOK
  <2>6. QED
    BY <2>4, <2>5 DEF Match, Wanted
<1>8. CASE AccountGoes(p, m)
  BY <1>8 DEF AccountGoes
<1>9. CASE Bypassed(p, m)
  BY <1>9 DEF Bypassed
<1>10. QED
  BY <1>1, <1>3, <1>4, <1>5, <1>6, <1>7, <1>8, <1>9 DEF Effect

\* When nothing about a user is under way, the account has the one role the user
\* has in Keycloak, unless work was lost, assignments overlapped, or one of the two
\* was written past the assignment of roles.
THEOREM AccountsAgree == AccountSpec => []RolesAgree
<1> DEFINE I == LeftoversCovered /\ Exclusive /\ Progress /\ Settled
<1>1. AccountInit => I
  <2> SUFFICES ASSUME AccountInit PROVE I
    OBVIOUS
  <2>1. LeftoversCovered /\ Settled
    BY DEF AccountInit, LeftoversCovered, Settled
  <2>2. Exclusive /\ Progress
    BY DEF AccountInit, Exclusive, Progress, JobIdle
  <2>3. QED
    BY <2>1, <2>2
<1>2. AccountInv /\ I /\ [AccountNext]_accountVars => I'
  BY LeftoversKept, ExclusiveKept, ProgressKept, SettledKept
<1>3. AccountInv /\ I => RolesAgree
  <2> SUFFICES ASSUME AccountInv, I, NEW p \in Provider, NEW m \in Mail,
                      realm[m] # 0, ~Concerned(m), excuse[m] = {}
               PROVE  Match(p, m)
    BY DEF RolesAgree, Match
  <2>1. ~Busy(p, m) /\ ~Cover(p, m)
    BY DEF Concerned, Busy, Cover
  <2>2. QED
    BY <2>1 DEF Settled
<1> HIDE DEF I
<1>4. QED
  BY <1>1, <1>2, <1>3, AccountInvHolds, PTL DEF AccountSpec

=============================================================================
