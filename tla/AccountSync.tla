---------------------------- MODULE AccountSync ----------------------------
(***************************************************************************)
(* Users of Keycloak and their accounts in the native applications         *)
(* (lib/permissions/sync.ts): role assignment, the cascade of a deletion,  *)
(* reconciliation, and the queue that runs them (lib/permissions/queue.ts),*)
(* which lives in the memory of the process.  A user is a number, so that  *)
(* one who comes back under an old address is told from the one before.    *)
(* One provider serves one area, and it is one that creates the account    *)
(* when a role is assigned (Chatwoot, Moodle).                             *)
(***************************************************************************)
EXTENDS Naturals, FiniteSets

CONSTANTS
  Mail,              \* e-mail addresses
  Provider,          \* native applications, and the area each one serves
  AreaRole,          \* roles of an area
  NoRole, NoAccount,
  NoMail,
  JobSlot,           \* jobs and requests that can run at the same time
  JOB_ATTEMPTS,      \* attempts of a queued job: 3 in the code
  MaxUsers,          \* bound: users ever created
  MaxJobs,           \* bound: assignments and writes past them ever started
  AccountFailures    \* a call may fail, a webhook be lost, the process die

ASSUME AccountAssumption ==
  /\ IsFiniteSet(Provider)
  /\ NoRole \notin AreaRole
  /\ NoAccount \notin AreaRole \cup {NoRole}
  /\ NoMail \notin Mail
  /\ JOB_ATTEMPTS \in Nat \ {0}
  /\ MaxUsers \in Nat
  /\ MaxJobs \in Nat
  /\ AccountFailures \in BOOLEAN

VARIABLES
  realm,       \* realm[m]: the user who has address m in Keycloak, 0 for nobody
  users,       \* number of users created
  realmRole,   \* realmRole[m][p]: direct roles of that user in the area of p
  account,     \* account[p][m]: role of the account, or that there is none
  events,      \* deletions Keycloak has still to report by its webhook
  job,         \* job[s]: a job of the queue, or a request that awaits its work
  jobs,        \* number of assignments, and of writes past them, started
  recon,       \* the reconciliation in progress
  excuse       \* excuse[m]: what has gone wrong for address m so far

accountVars == <<realm, users, realmRole, account, events, job, jobs, recon, excuse>>

User == 1..MaxUsers

\* "lost": work was given up, lost with the process, never reported, or undone by
\* work for an earlier holder of the address; "uncoordinated": a role was assigned
\* while another one was being assigned, or Keycloak or the application was written
\* without the other, past assignUserAreaRole.
Excuse == {"lost", "uncoordinated"}

\* `left`: attempts after this one; `seen`: roles read at its start; `todo` and
\* `failed`: providers a deletion has still to visit, and whether one refused.
JobStage == {"idle", "read", "remove", "add", "native", "delete"}
Job == [stage : JobStage, mail : Mail \cup {NoMail}, user : 0..MaxUsers, left : Nat,
        area : SUBSET Provider, role : AreaRole \cup {NoRole}, seen : SUBSET AreaRole,
        todo : SUBSET Provider, failed : BOOLEAN]
JobIdle == [stage |-> "idle", mail |-> NoMail, user |-> 0, left |-> 0, area |-> {},
            role |-> NoRole, seen |-> {}, todo |-> {}, failed |-> FALSE]

\* `found`: addresses read from Keycloak; `whole` and `upTo`: whether those were
\* all of them, and how many users had been created by then.
Recon == [on : BOOLEAN, found : SUBSET Mail, whole : BOOLEAN, upTo : 0..MaxUsers,
          todo : SUBSET Provider, drift : SUBSET (Provider \X Mail)]
ReconIdle == [on |-> FALSE, found |-> {}, whole |-> TRUE, upTo |-> 0, todo |-> {}, drift |-> {}]

Deletion == [mail : Mail, user : User, panel : BOOLEAN]

AccountTypeOK ==
  /\ realm \in [Mail -> 0..MaxUsers]
  /\ users \in 0..MaxUsers
  /\ realmRole \in [Mail -> [Provider -> SUBSET AreaRole]]
  /\ account \in [Provider -> [Mail -> AreaRole \cup {NoRole, NoAccount}]]
  /\ events \subseteq Deletion
  /\ job \in [JobSlot -> Job]
  /\ jobs \in 0..MaxJobs
  /\ recon \in Recon
  /\ excuse \in [Mail -> SUBSET Excuse]

NoRoles == [p \in Provider |-> {}]

AccountInit ==
  /\ realm = [m \in Mail |-> 0]
  /\ users = 0
  /\ realmRole = [m \in Mail |-> NoRoles]
  /\ account = [p \in Provider |-> [m \in Mail |-> NoAccount]]
  /\ events = {}
  /\ job = [s \in JobSlot |-> JobIdle]
  /\ jobs = 0
  /\ recon = ReconIdle
  /\ excuse = [m \in Mail |-> {}]

Excused(m, why) == excuse' = [excuse EXCEPT ![m] = @ \cup {why}]

JobGoto(s, stage) == job' = [job EXCEPT ![s].stage = stage]
JobEnds(s) == job' = [job EXCEPT ![s] = JobIdle]

\* The work on the account of the holder of address m in the area of p.
AreaJob(stage, m, p, role, left) ==
  [stage |-> stage, mail |-> m, user |-> realm[m], left |-> left, area |-> {p},
   role |-> role, seen |-> {}, todo |-> {}, failed |-> FALSE]

\* Slip: the attempts are not counted.
RetryForever(s, stage, todo) ==
  /\ job' = [job EXCEPT ![s].stage = stage, ![s].seen = {}, ![s].todo = todo, ![s].failed = FALSE]
  /\ UNCHANGED excuse

\* Slip: one attempt too many.
RetryOnceMore(s, stage, todo) ==
  IF job[s].left >= 0
    THEN /\ job' = [job EXCEPT ![s].stage = stage, ![s].left = @ - 1, ![s].seen = {},
                               ![s].todo = todo, ![s].failed = FALSE]
         /\ UNCHANGED excuse
    ELSE JobEnds(s) /\ Excused(job[s].mail, "lost")

\* The retry loop of enqueue: an attempt starts from the beginning, and after
\* the last one the failure is only written to the audit log.
Retry(s, stage, todo) ==
  IF job[s].left > 0
    THEN /\ job' = [job EXCEPT ![s].stage = stage, ![s].left = @ - 1, ![s].seen = {},
                               ![s].todo = todo, ![s].failed = FALSE]
         /\ UNCHANGED excuse
    ELSE JobEnds(s) /\ Excused(job[s].mail, "lost")

-----------------------------------------------------------------------------
(* Users come and go.                                                      *)

\* POST admin/users; the roles asked for are assigned by requests of their own.
CreateUser(m) ==
  /\ realm[m] = 0
  /\ users < MaxUsers
  /\ users' = users + 1
  /\ realm' = [realm EXCEPT ![m] = users + 1]
  /\ UNCHANGED <<realmRole, account, events, job, jobs, recon, excuse>>

\* The roles go with the user, and the webhook will report it.
LeavesKeycloak(m, panel) ==
  /\ realm' = [realm EXCEPT ![m] = 0]
  /\ realmRole' = [realmRole EXCEPT ![m] = NoRoles]
  /\ events' = events \cup {[mail |-> m, user |-> realm[m], panel |-> panel]}

Deprovision(m, u) ==
  [JobIdle EXCEPT !.stage = "delete", !.mail = m, !.user = u, !.left = JOB_ATTEMPTS - 1,
                  !.todo = Provider]

\* DELETE admin/users/[id]: the user first, then the job; Keycloak reports the
\* deletion all the same, so the job will run twice.
DeleteUser(s, m) ==
  /\ realm[m] # 0
  /\ job[s] = JobIdle
  /\ job' = [job EXCEPT ![s] = Deprovision(m, realm[m])]
  /\ LeavesKeycloak(m, TRUE)
  /\ UNCHANGED <<users, account, jobs, recon, excuse>>

\* A user is deleted in the console of Keycloak.
DeleteInConsole(m) ==
  /\ realm[m] # 0
  /\ LeavesKeycloak(m, FALSE)
  /\ UNCHANGED <<users, account, job, jobs, recon, excuse>>

\* POST webhooks/keycloak, DELETE_USER: the job is about the address.
UserDeleted(s, e) ==
  /\ e \in events
  /\ job[s] = JobIdle
  /\ events' = events \ {e}
  /\ job' = [job EXCEPT ![s] = Deprovision(e.mail, e.user)]
  /\ UNCHANGED <<realm, users, realmRole, account, jobs, recon, excuse>>

\* Refused by the rate limit, without a resolvable address, or never sent.
UserDeletedLost(e) ==
  /\ AccountFailures
  /\ e \in events
  /\ events' = events \ {e}
  /\ IF e.panel THEN UNCHANGED excuse ELSE Excused(e.mail, "lost")
  /\ UNCHANGED <<realm, users, realmRole, account, job, jobs, recon>>

-----------------------------------------------------------------------------
(* assignUserAreaRoleInternal: awaited by a request, with a single attempt,*)
(* or queued by syncNativeProvidersFromKcRoles after a user joined a group.*)
(* And the writes that go past it.                                         *)

Assign(s, m, p, role, queued) ==
  /\ realm[m] # 0
  /\ job[s] = JobIdle
  /\ jobs < MaxJobs
  /\ queued => role # NoRole          \* leaving a group queues nothing
  /\ jobs' = jobs + 1
  /\ IF \E t \in JobSlot : job[t].mail = m /\ job[t].area = {p}
       THEN Excused(m, "uncoordinated") ELSE UNCHANGED excuse
  /\ job' = [job EXCEPT ![s] =
       AreaJob("read", m, p, role, IF queued THEN JOB_ATTEMPTS - 1 ELSE 0)]
  /\ UNCHANGED <<realm, users, realmRole, account, events, recon>>

\* POST admin/users/[id]/roles, or the console of Keycloak: one call adds roles,
\* another removes roles, and no application is told.
ChangeRoles(m, p, role) ==
  /\ realm[m] # 0
  /\ jobs < MaxJobs
  /\ jobs' = jobs + 1
  /\ \/ realmRole' = [realmRole EXCEPT ![m][p] = @ \cup {role}]
     \/ realmRole' = [realmRole EXCEPT ![m][p] = @ \ {role}]
  /\ Excused(m, "uncoordinated")
  /\ UNCHANGED <<realm, users, account, events, job, recon>>

\* An account is opened, or given the role of the session, without a role in
\* Keycloak: POST admin/users/[id]/chatwoot and .../moodle, and the sign-on of
\* both.  The user is read from Keycloak, and the application called after that.
OpenAccount(s, m, p, role) ==
  /\ realm[m] # 0
  /\ job[s] = JobIdle
  /\ jobs < MaxJobs
  /\ jobs' = jobs + 1
  /\ job' = [job EXCEPT ![s] = AreaJob("native", m, p, role, 0)]
  /\ Excused(m, "uncoordinated")
  /\ UNCHANGED <<realm, users, realmRole, account, events, recon>>

Area(s) == CHOOSE p \in job[s].area : TRUE
Wanted(s) == IF job[s].role = NoRole THEN {} ELSE {job[s].role}

\* Keycloak answers for the user the job is about, and the call does not fail.
Known(s) == realm[job[s].mail] = job[s].user

ReadRoles(s) ==
  /\ job[s].stage = "read"
  /\ Known(s)
  /\ job' = [job EXCEPT ![s].stage = "remove", ![s].seen = realmRole[job[s].mail][Area(s)]]
  /\ UNCHANGED <<realm, users, realmRole, account, events, jobs, recon, excuse>>

\* Slip: the roles that are replaced are left alone.
RemoveRolesNot(s) ==
  /\ job[s].stage = "remove"
  /\ Known(s)
  /\ JobGoto(s, "add")
  /\ UNCHANGED <<realm, users, realmRole, account, events, jobs, recon, excuse>>

RemoveRoles(s) ==
  /\ job[s].stage = "remove"
  /\ Known(s)
  /\ realmRole' = [realmRole EXCEPT ![job[s].mail][Area(s)] = @ \ (job[s].seen \ Wanted(s))]
  /\ JobGoto(s, "add")
  /\ UNCHANGED <<realm, users, account, events, jobs, recon, excuse>>

\* A role that was there at the start is not added again.
AddRole(s) ==
  /\ job[s].stage = "add"
  /\ Known(s)
  /\ realmRole' = [realmRole EXCEPT ![job[s].mail][Area(s)] = @ \cup (Wanted(s) \ job[s].seen)]
  /\ JobGoto(s, "native")
  /\ UNCHANGED <<realm, users, account, events, jobs, recon, excuse>>

\* provider.assignUserRole, for the address read at the start: an account that
\* does not exist is created, even to be given no role.
SetNativeRole(s) ==
  /\ job[s].stage = "native"
  /\ account' = [account EXCEPT ![Area(s)][job[s].mail] = job[s].role]
  /\ IF Known(s) THEN UNCHANGED excuse ELSE Excused(job[s].mail, "lost")
  /\ JobEnds(s)
  /\ UNCHANGED <<realm, users, realmRole, events, jobs, recon>>

\* A call fails, or Keycloak does not know the user any more.
AssignFails(s) ==
  /\ \/ job[s].stage \in {"read", "remove", "add"} /\ (AccountFailures \/ ~Known(s))
     \/ job[s].stage = "native" /\ AccountFailures
  /\ Retry(s, "read", {})
  /\ UNCHANGED <<realm, users, realmRole, account, events, jobs, recon>>

-----------------------------------------------------------------------------
(* deprovisionUserInternal: all providers side by side.                    *)

\* An account that goes although its address belongs to a user: the next
\* work on it brings it back, nothing else does.
Bereaved(p, m) == account[p][m] # NoAccount /\ realm[m] # 0

\* deleteUser looks the account up by the address.
DeleteNative(s, p) ==
  /\ p \in job[s].todo
  /\ account' = [account EXCEPT ![p][job[s].mail] = NoAccount]
  /\ IF Bereaved(p, job[s].mail) THEN Excused(job[s].mail, "lost") ELSE UNCHANGED excuse
  /\ job' = [job EXCEPT ![s].todo = @ \ {p}]
  /\ UNCHANGED <<realm, users, realmRole, events, jobs, recon>>

\* Slip: what a provider refuses is not tried again.
DeleteNativeShrugs(s, p) ==
  /\ AccountFailures
  /\ p \in job[s].todo
  /\ job' = [job EXCEPT ![s].todo = @ \ {p}]
  /\ UNCHANGED <<realm, users, realmRole, account, events, jobs, recon, excuse>>

\* The application refuses; or the lookup fails, which the providers take for
\* an account that does not exist.
DeleteNativeFails(s, p) ==
  /\ AccountFailures
  /\ p \in job[s].todo
  /\ \/ /\ job' = [job EXCEPT ![s].todo = @ \ {p}, ![s].failed = TRUE]
        /\ UNCHANGED excuse
     \/ /\ job' = [job EXCEPT ![s].todo = @ \ {p}]
        /\ Excused(job[s].mail, "lost")
  /\ UNCHANGED <<realm, users, realmRole, account, events, jobs, recon>>

\* One failure is enough to visit all of them again.
DeletionSettles(s) ==
  /\ job[s].stage = "delete"
  /\ job[s].todo = {}
  /\ IF job[s].failed THEN Retry(s, "delete", Provider) ELSE JobEnds(s) /\ UNCHANGED excuse
  /\ UNCHANGED <<realm, users, realmRole, account, events, jobs, recon>>

-----------------------------------------------------------------------------
(* reconcileUsers, POST admin/sync/reconcile-users.                        *)

\* listAllKcUserEmails stops at a page that fails, with what it has by then.
ReadKeycloak ==
  /\ ~recon.on
  /\ LET all == {m \in Mail : realm[m] # 0}
     IN \E found \in SUBSET all :
          /\ found = all \/ AccountFailures
          /\ recon' = [on |-> TRUE, found |-> found, whole |-> found = all, upTo |-> users,
                       todo |-> Provider, drift |-> {}]
  /\ UNCHANGED <<realm, users, realmRole, account, events, job, jobs, excuse>>

\* Slip: everything the provider has is drift.
DriftAll(p, found) == {m \in Mail : account[p][m] # NoAccount}

Drift(p, found) == {m \in Mail : account[p][m] # NoAccount} \ found

\* A provider that cannot list its users is skipped.
ListNative(p) ==
  /\ recon.on /\ recon.drift = {}
  /\ p \in recon.todo
  /\ \/ recon' = [recon EXCEPT !.todo = @ \ {p}, !.drift = {p} \X Drift(p, recon.found)]
     \/ AccountFailures /\ recon' = [recon EXCEPT !.todo = @ \ {p}]
  /\ UNCHANGED <<realm, users, realmRole, account, events, job, jobs, excuse>>

\* Keycloak is not asked again; what fails is reported and left.
DeleteDrift(p, m) ==
  /\ <<p, m>> \in recon.drift
  /\ recon' = [recon EXCEPT !.drift = @ \ {<<p, m>>}]
  /\ \/ /\ account' = [account EXCEPT ![p][m] = NoAccount]
        /\ IF Bereaved(p, m) THEN Excused(m, "lost") ELSE UNCHANGED excuse
     \/ AccountFailures /\ UNCHANGED <<account, excuse>>
  /\ UNCHANGED <<realm, users, realmRole, events, job, jobs>>

ReconEnds ==
  /\ recon.on /\ recon.todo = {} /\ recon.drift = {}
  /\ recon' = ReconIdle
  /\ UNCHANGED <<realm, users, realmRole, account, events, job, jobs, excuse>>

-----------------------------------------------------------------------------

\* The process dies, and every job and request with it.
AccountCrash ==
  /\ AccountFailures
  /\ \E s \in JobSlot : job[s] # JobIdle
  /\ job' = [s \in JobSlot |-> JobIdle]
  /\ recon' = ReconIdle
  /\ excuse' = [m \in Mail |->
       IF \E s \in JobSlot : job[s].mail = m THEN excuse[m] \cup {"lost"} ELSE excuse[m]]
  /\ UNCHANGED <<realm, users, realmRole, account, events, jobs>>

\* What a job that has started does next.
JobStep(s) ==
  \/ ReadRoles(s) \/ RemoveRoles(s) \/ AddRole(s) \/ SetNativeRole(s) \/ AssignFails(s)
  \/ \E p \in Provider : DeleteNative(s, p) \/ DeleteNativeFails(s, p)
  \/ DeletionSettles(s)

ReconStep ==
  \/ \E p \in Provider : ListNative(p) \/ \E m \in Mail : DeleteDrift(p, m)
  \/ ReconEnds

AccountNext ==
  \/ \E m \in Mail : CreateUser(m) \/ DeleteInConsole(m)
  \/ \E m \in Mail, p \in Provider, role \in AreaRole : ChangeRoles(m, p, role)
  \/ \E s \in JobSlot :
       \/ \E m \in Mail : DeleteUser(s, m)
       \/ \E e \in Deletion : UserDeleted(s, e)
       \/ \E m \in Mail, p \in Provider, role \in AreaRole \cup {NoRole}, queued \in BOOLEAN :
            Assign(s, m, p, role, queued)
       \/ \E m \in Mail, p \in Provider, role \in AreaRole \cup {NoRole} : OpenAccount(s, m, p, role)
       \/ JobStep(s)
  \/ \E e \in Deletion : UserDeletedLost(e)
  \/ ReadKeycloak \/ ReconStep
  \/ AccountCrash

AccountSpec == AccountInit /\ [][AccountNext]_accountVars

\* A handler or a job that has started runs to its end, and an event that
\* Keycloak has sent reaches a free handler.
AccountFairness ==
  /\ \A s \in JobSlot : WF_accountVars(JobStep(s))
  /\ \A e \in Deletion : WF_accountVars(\E s \in JobSlot : UserDeleted(s, e))

-----------------------------------------------------------------------------
(* What the code promises.                                                 *)

Concerned(m) ==
  \/ \E s \in JobSlot : job[s].mail = m
  \/ \E e \in events : e.mail = m

\* The account of somebody Keycloak knows is deleted only by a job for an
\* earlier holder of the address, or by a reconciliation that has read Keycloak
\* before the user was created or not to its end.
UsersKeepTheirAccounts ==
  [][\A p \in Provider, m \in Mail :
       Bereaved(p, m) /\ account'[p][m] = NoAccount =>
         \/ \E s \in JobSlot : /\ job[s].stage = "delete" /\ job[s].mail = m
                               /\ job[s].user < realm[m]
         \/ <<p, m>> \in recon.drift /\ (~recon.whole \/ recon.upTo < realm[m])]_accountVars

\* "brak userka w KC = brak nigdzie": an account without a user is still being
\* dealt with, or work was lost or undone behind the deletion.
LeftoversAreExplained ==
  \A p \in Provider, m \in Mail :
    account[p][m] # NoAccount /\ realm[m] = 0 => Concerned(m) \/ "lost" \in excuse[m]

\* When nothing about a user is under way any more, the account has the one role
\* the user has in Keycloak, unless work was lost, assignments overlapped, or one
\* of the two was written past the assignment of roles.
RolesAgree ==
  \A p \in Provider, m \in Mail :
    realm[m] # 0 /\ ~Concerned(m) /\ excuse[m] = {} =>
      LET roles == realmRole[m][p]
      IN IF roles = {} THEN account[p][m] \in {NoRole, NoAccount}
                       ELSE roles = {account[p][m]}

\* The accounts of a deleted user go eventually, under the same conditions.
DeletedUsersAreForgotten ==
  \A p \in Provider, m \in Mail :
    account[p][m] # NoAccount /\ realm[m] = 0
      ~> account[p][m] = NoAccount \/ realm[m] # 0 \/ "lost" \in excuse[m]

\* reconcile-users: "uzytkownikow, ktorych nie ma w Keycloak" are deleted.
ReconcileDeletesOnlyDrift ==
  [][\A p \in Provider, m \in Mail : DeleteDrift(p, m) => realm[m] = 0]_accountVars
=============================================================================
