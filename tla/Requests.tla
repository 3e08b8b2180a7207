------------------------------ MODULE Requests ------------------------------
(***************************************************************************)
(* User requests: a user asks to create, close, transfer or join a         *)
(* project, or for QPU seconds or pulse-level jobs on it; those who may    *)
(* decide are asked by a notice; one of them approves, upon which what was *)
(* asked for is done, or rejects; and the requester is told.  Each API     *)
(* request is a task, and may be interrupted at each database call.        *)
(***************************************************************************)
EXTENDS Naturals, FiniteSets

CONSTANTS
  User,        \* user ids
  Superuser,   \* the users who administer the system
  Project,     \* projects: what is created, or asked for
  Personal,    \* those of them that are personal
  Request,     \* request ids
  Task,        \* API requests in progress at the same time
  None,        \* Python's None
  Scopes,      \* the instances: see the variable `scope`
  MaxUnsent    \* bound: notices that cannot be created

RequestType ==
  {"create-project", "close-project", "transfer-project",
   "project-qpu-seconds", "project-pulse-access", "project-access"}
Decided == {"approved", "rejected"}
Status == Decided \cup {"pending"}

(* `admin` is whom to make the project's admin, by the email given, or     *)
(* None where none is given, or no user has that email.                    *)
RequestRecord ==
  [type : RequestType, project : Project, admin : User \cup {None},
   requester : User, targets : SUBSET User, status : Status]

(* A project's QPU seconds and pulse-level access are told by `done`.      *)
ProjectRecord == [admin : User, members : SUBSET User]

ASSUME RequestsAssumption ==
  /\ Superuser \subseteq User
  /\ Personal \subseteq Project
  /\ \A s \in Scopes :
       /\ s.kinds \subseteq RequestType /\ s.requests \subseteq Request
       /\ s.tasks \subseteq Task /\ IsFiniteSet(s.tasks)
       /\ {s.updates, s.lost} \subseteq Nat
  /\ None \notin User \cup Project \cup Request
  /\ None \notin RequestRecord \cup ProjectRecord
  /\ MaxUnsent \in Nat

VARIABLES
  scope,      \* the kinds of request that are made, and how many; the tasks, which are
              \* served at the same time; how many updates by approvers there are, and how
              \* many tasks are lost to a process that dies.  Never changes.
  requests,   \* the requests table: [Request -> RequestRecord or None]
  projects,   \* the projects table: [Project -> ProjectRecord or None]
  asked,      \* the unread notices that ask users to decide: (request, user)
  told,       \* the decisions that requesters were told: (request, status)
  done,       \* how often what a request asks for was done
  task,       \* what each API request is doing
  used,       \* the request ids given out
  updates, lost, unsent

vars == <<scope, requests, projects, asked, told, done, task, used, updates,
          lost, unsent>>

TaskState ==
  [pc : {"idle", "targets", "insert", "ask", "get_project", "act", "record",
         "clear", "tell"},
   request : Request \cup {None}, user : User \cup {None},
   record : RequestRecord \cup {None}, status : Status \cup {None}]

Idle == [pc |-> "idle", request |-> None, user |-> None, record |-> None,
         status |-> None]

TypeOK ==
  /\ scope \in Scopes
  /\ requests \in [Request -> RequestRecord \cup {None}]
  /\ projects \in [Project -> ProjectRecord \cup {None}]
  /\ asked \in SUBSET (Request \X User)
  /\ told \in SUBSET (Request \X Status)
  /\ done \in [Request -> Nat]
  /\ task \in [Task -> TaskState]
  /\ used \in SUBSET Request
  /\ updates \in Nat /\ lost \in Nat /\ unsent \in Nat
  /\ \A t \in Task : task[t].pc # "idle" => task[t].request \in used

Init ==
  /\ scope \in Scopes
  /\ requests = [r \in Request |-> None]
  /\ projects \in [Project -> ProjectRecord \cup {None}]
  /\ \A p \in Project : projects[p] # None =>
       projects[p].admin \in projects[p].members
  /\ asked = {} /\ told = {} /\ used = {}
  /\ done = [r \in Request |-> 0]
  /\ task = [t \in Task |-> Idle]
  /\ updates = 0 /\ lost = 0 /\ unsent = 0

Goto(t, pc) == task' = [task EXCEPT ![t].pc = pc]
Finish(t) == task' = [task EXCEPT ![t] = Idle]

---------------------------------------------------------------------------
(* create.                                                                 *)

(* What the user may ask for: a project's admin to close or transfer it,   *)
(* its members for more of it, anyone for a project or to join one.        *)
_has_resource_access(type, p, u) ==
  CASE type \in {"close-project", "transfer-project"} ->
         projects[p] # None /\ projects[p].admin = u
    [] type \in {"project-qpu-seconds", "project-pulse-access"} ->
         projects[p] # None /\ u \in projects[p].members
    [] OTHER -> TRUE

create(t, r, type, p, admin, u) ==
  /\ task[t].pc = "idle"
  /\ r \notin used
  /\ _has_resource_access(type, p, u)
  /\ used' = used \cup {r}
  /\ task' = [task EXCEPT ![t] = [Idle EXCEPT
       !.pc = "targets", !.request = r, !.user = u,
       !.record = [type |-> type, project |-> p, admin |-> admin,
                   requester |-> u, targets |-> {}, status |-> "pending"]]]
  /\ UNCHANGED <<scope, requests, projects, asked, told, done, updates, lost, unsent>>

(* To join, the project's admin is asked; a personal project is as good as *)
(* missing.  For the rest the superusers are asked.                        *)
_get_target_user_ids(t) ==
  /\ task[t].pc = "targets"
  /\ LET record == task[t].record
         p == record.project IN
     IF record.type = "project-access" /\ (projects[p] = None \/ p \in Personal)
     THEN Finish(t)
     ELSE task' = [task EXCEPT ![t].pc = "insert", ![t].record.targets =
            IF record.type = "project-access" THEN {projects[p].admin} ELSE Superuser]
  /\ UNCHANGED <<scope, requests, projects, asked, told, done, used, updates, lost, unsent>>

insert_request(t) ==
  /\ task[t].pc = "insert"
  /\ requests' = [requests EXCEPT ![task[t].request] = task[t].record]
  /\ Goto(t, "ask")
  /\ UNCHANGED <<scope, projects, asked, told, done, used, updates, lost, unsent>>

(* create_system_notice creates the notices, or fails and says nothing.    *)
Notify(created) ==
  \/ created /\ UNCHANGED unsent
  \/ unsent < MaxUnsent /\ unsent' = unsent + 1 /\ UNCHANGED <<asked, told>>

ask_approvers(t) ==
  /\ task[t].pc = "ask"
  /\ Notify(/\ asked' = asked \cup ({task[t].request} \X task[t].record.targets)
            /\ UNCHANGED told)
  /\ Finish(t)
  /\ UNCHANGED <<scope, requests, projects, done, used, updates, lost>>

---------------------------------------------------------------------------
(* update.                                                                 *)

(* Mutant: a request that is decided is found too.                         *)
_find_pending_for_approver_Any(t, r, u, status) ==
  /\ updates < scope.updates /\ updates' = updates + 1
  /\ task[t].pc = "idle"
  /\ requests[r] # None /\ u \in requests[r].targets
  /\ task' = [task EXCEPT ![t] =
       [pc |-> IF status = "approved" THEN "get_project" ELSE "record", request |-> r,
        user |-> u, record |-> requests[r], status |-> status]]
  /\ UNCHANGED <<scope, requests, projects, asked, told, done, used, lost, unsent>>

(* An approver's update starts from the pending request.  An approval goes *)
(* on to do what was asked; what is neither an approval nor a rejection    *)
(* leaves the status pending.                                              *)
_find_pending_for_approver(t, r, u, status) ==
  /\ updates < scope.updates /\ updates' = updates + 1
  /\ task[t].pc = "idle"
  /\ requests[r] # None
  /\ u \in requests[r].targets
  /\ requests[r].status = "pending"
  /\ task' = [task EXCEPT ![t] =
       [pc |-> IF status = "approved" THEN "get_project" ELSE "record", request |-> r,
        user |-> u, record |-> requests[r], status |-> status]]
  /\ UNCHANGED <<scope, requests, projects, asked, told, done, used, lost, unsent>>

(* Each action but the creation first gets the project, and a transfer the *)
(* new admin, or fails: the request is left pending.                       *)
_get_project(t) ==
  /\ task[t].pc = "get_project"
  /\ LET record == task[t].record IN
     IF \/ record.type # "create-project" /\ projects[record.project] = None
        \/ record.type = "transfer-project" /\ record.admin = None
     THEN Finish(t)
     ELSE Goto(t, "act")
  /\ UNCHANGED <<scope, requests, projects, asked, told, done, used, updates, lost, unsent>>

(* What an approval makes of the project of the record; creating one that  *)
(* is there, or closing one that is gone, fails.                           *)
CanDo(record) ==
  CASE record.type = "create-project" -> projects[record.project] = None
    [] record.type = "close-project" -> projects[record.project] # None
    [] OTHER -> TRUE

Done(record) ==
  LET p == record.project
      admin == record.admin
      u == record.requester IN
  CASE record.type = "create-project" -> [admin |-> admin, members |-> {admin}]
    [] record.type = "close-project" -> None
    [] record.type = "transfer-project" ->
         [admin |-> admin, members |-> projects[p].members \cup {admin}]
    [] record.type = "project-access" ->
         [projects[p] EXCEPT !.members = @ \cup {u}]
    [] OTHER -> projects[p]

(* Mutant: a failed action does not keep the request from being approved.  *)
_do_action_Ignored(t) ==
  /\ task[t].pc = "act"
  /\ LET record == task[t].record
         p == record.project
         gone == projects[p] = None /\ record.type # "create-project" IN
     IF gone \/ ~CanDo(record) THEN UNCHANGED <<projects, done>>
     ELSE /\ projects' = [projects EXCEPT ![p] = Done(record)]
          /\ done' = [done EXCEPT ![task[t].request] = @ + 1]
  /\ Goto(t, "record")
  /\ UNCHANGED <<scope, requests, asked, told, used, updates, lost, unsent>>

(* What was asked is done; an error leaves the request pending.  An update *)
(* of a project that is gone by now changes nothing, and is no error.      *)
_do_action(t) ==
  /\ task[t].pc = "act"
  /\ LET record == task[t].record
         p == record.project
         gone == projects[p] = None /\ record.type # "create-project" IN
     IF ~CanDo(record) THEN Finish(t) /\ UNCHANGED <<projects, done>>
     ELSE /\ Goto(t, "record")
          /\ IF gone THEN UNCHANGED <<projects, done>>
             ELSE /\ projects' = [projects EXCEPT ![p] = Done(record)]
                  /\ done' = [done EXCEPT ![task[t].request] = @ + 1]
  /\ UNCHANGED <<scope, requests, asked, told, used, updates, lost, unsent>>

(* The status is written, whatever it has become meanwhile.                *)
_record_decision(t) ==
  /\ task[t].pc = "record"
  /\ requests' = [requests EXCEPT ![task[t].request].status = task[t].status]
  /\ IF task[t].status \in Decided THEN Goto(t, "clear") ELSE Finish(t)
  /\ UNCHANGED <<scope, projects, asked, told, done, used, updates, lost, unsent>>

(* Mutant: only the approver's own notice is cleared.                      *)
_clear_approver_notices_Own(t) ==
  /\ task[t].pc = "clear"
  /\ asked' = asked \ {<<task[t].request, task[t].user>>}
  /\ Goto(t, "tell")
  /\ UNCHANGED <<scope, requests, projects, told, done, used, updates, lost, unsent>>

(* Every notice about the request is marked read.                          *)
_clear_approver_notices(t) ==
  /\ task[t].pc = "clear"
  /\ asked' = {x \in asked : x[1] # task[t].request}
  /\ Goto(t, "tell")
  /\ UNCHANGED <<scope, requests, projects, told, done, used, updates, lost, unsent>>

(* Mutant: only a rejection is told.                                       *)
_notify_requester_Rejection(t) ==
  /\ task[t].pc = "tell"
  /\ told' = IF task[t].status = "rejected"
             THEN told \cup {<<task[t].request, "rejected">>} ELSE told
  /\ Finish(t)
  /\ UNCHANGED <<scope, requests, projects, asked, done, used, updates, lost, unsent>>

_notify_requester(t) ==
  /\ task[t].pc = "tell"
  /\ Notify(told' = told \cup {<<task[t].request, task[t].status>>} /\ UNCHANGED asked)
  /\ Finish(t)
  /\ UNCHANGED <<scope, requests, projects, done, used, updates, lost>>

(* A process dies with the request it was serving.                         *)
lose_task(t) ==
  /\ lost < scope.lost
  /\ task[t].pc # "idle"
  /\ lost' = lost + 1
  /\ Finish(t)
  /\ UNCHANGED <<scope, requests, projects, asked, told, done, used, unsent, updates>>

---------------------------------------------------------------------------
TaskStep(t) ==
  \/ _get_target_user_ids(t)
  \/ insert_request(t)
  \/ ask_approvers(t)
  \/ _get_project(t)
  \/ _do_action(t)
  \/ _record_decision(t)
  \/ _clear_approver_notices(t)
  \/ _notify_requester(t)

Next ==
  \/ \E t \in scope.tasks, r \in scope.requests, type \in scope.kinds, p \in Project, u \in User :
       \E admin \in CASE type = "create-project" -> User
                      [] type = "transfer-project" -> User \cup {None}
                      [] OTHER -> {None} :
         create(t, r, type, p, admin, u)
  \/ \E t \in scope.tasks, r \in scope.requests, u \in User, status \in Status :
       _find_pending_for_approver(t, r, u, status)
  \/ \E t \in scope.tasks : TaskStep(t)
  \/ \E t \in scope.tasks : lose_task(t)

Spec == Init /\ [][Next]_vars

(* The event loop goes on with each request it has begun.                  *)
FairSpec == Spec /\ \A t \in Task : WF_vars(TaskStep(t))

---------------------------------------------------------------------------
(* Properties.                                                             *)

OneAtATime == Cardinality(scope.tasks) = 1

(* update: "Approval side effects are applied before the request is marked *)
(* decided, so that a failure leaves a retryable pending request rather    *)
(* than an approved request with nothing done".  A project that is closed  *)
(* while another request on it is being approved makes it untrue.          *)
ApprovedIsDone ==
  OneAtATime \/ "close-project" \notin scope.kinds =>
  \A r \in Request :
    requests[r] # None => (requests[r].status = "approved" => done[r] >= 1)

(* What is asked for once is done at most once, and a request that was     *)
(* rejected is not done at all, unless a process dies before it records    *)
(* the decision.                                                           *)
DoneOnce ==
  OneAtATime /\ lost = 0 =>
  \A r \in Request :
    /\ done[r] <= 1
    /\ requests[r] # None => (requests[r].status = "rejected" => done[r] = 0)

(* CHANGELOG.md: "Deciding a request now marks the "please decide this"    *)
(* notification read for every eligible approver", unless a process dies   *)
(* between the decision and that.                                          *)
PromptsCleared ==
  OneAtATime /\ lost = 0 =>
  \A x \in asked :
    \/ requests[x[1]].status = "pending"
    \/ \E t \in Task : task[t].pc = "clear" /\ task[t].request = x[1]

(* CHANGELOG.md: "Requesters are now told when a request of theirs is      *)
(* decided", unless the notice cannot be created or the process dies.      *)
RequesterTold ==
  \A r \in Request : \A s \in Decided :
    requests[r] # None /\ requests[r].status = s ~>
      <<r, s>> \in told \/ lost > 0 \/ unsent > 0
=============================================================================
